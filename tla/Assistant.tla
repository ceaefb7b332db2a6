------------------------------ MODULE Assistant ------------------------------
(***************************************************************************)
(* The assistant of the web client: conversations in localStorage, and the *)
(* handlers that answer in them while the recruiter goes on.               *)
(*                                                                         *)
(* A handler reads the conversation it was called in from localStorage,    *)
(* adds a message, waits for the API, and writes its answer into whatever  *)
(* localStorage holds by then.  Between two awaits it is not interrupted,  *)
(* by another handler of its tab or by another tab.                        *)
(*                                                                         *)
(* Abstracted: texts, titles, contexts; of a message, how far its answer   *)
(* has come.  A recruiter's own message is written with the placeholder of *)
(* its answer and is left out.                                             *)
(***************************************************************************)
EXTENDS Naturals, Sequences, FiniteSets, SequencesExt, FiniteSetsExt

CONSTANTS
    Conversations,   \* ids
    Calls,           \* bound: handler calls, each with the message it answers in
    Tabs,            \* tabs of the browser
    MaxKept,         \* how many conversations are kept
    MaxInterrupts,   \* bound: answers lost, reloads and changes of screen
    MaxJobs,         \* bound: jobs of a preview
    None             \* no message, no call

(* working: the placeholder or its progress; preview: a job, imports:      *)
(* files, that wait to be confirmed.                                       *)
Message == {"working", "preview", "confirmed", "imports", "answered"}
Messages == [Calls -> Message \cup {None}]
Conversation == [id : Conversations, messages : Messages]

Call == [tab : Tabs, mounted : BOOLEAN, base : Conversation, ends : SUBSET Message,
         state : {"running", "over", "lost"}]

(* left: with which interrupt its screen was left, 0 while it is there.    *)
Act == [tab : Tabs, left : Nat, call : Calls, base : Conversation]

ASSUME AssistantAssumption ==
    /\ MaxKept \in Nat \ {0} /\ MaxInterrupts \in Nat /\ MaxJobs \in Nat
    /\ None \notin Message \cup Call

VARIABLES
    stored,       \* localStorage: the conversations, last written first
    conv,         \* by tab: the conversation it shows
    busy,         \* by tab
    confirming,   \* by tab
    acts,         \* the confirmations in flight
    calls,        \* the handler calls in flight, and those that are over
    jobs,         \* history: jobs made by a tab from a preview
    interrupts,   \* history: by tab
    dropped       \* history: conversations that were not kept

shown == <<conv, busy, confirming>>
vars == <<stored, shown, acts, calls, jobs, interrupts, dropped>>

TypeOK ==
    /\ stored \in Seq(Conversation)
    /\ conv \in [Tabs -> Conversation]
    /\ busy \in [Tabs -> BOOLEAN]
    /\ confirming \in [Tabs -> BOOLEAN]
    /\ acts \subseteq Act
    /\ calls \in [Calls -> Call \cup {None}]
    /\ jobs \in [Tabs \X Calls -> Nat]
    /\ interrupts \in [Tabs -> Nat]
    /\ dropped \subseteq Conversations

createEmptyConversation(c) == [id |-> c, messages |-> [k \in Calls |-> None]]

Init ==
    /\ stored = <<>>
    /\ conv \in [Tabs -> {createEmptyConversation(c) : c \in Conversations}]
    /\ busy = [t \in Tabs |-> FALSE]
    /\ confirming = [t \in Tabs |-> FALSE]
    /\ acts = {}
    /\ calls = [k \in Calls |-> None]
    /\ jobs = [x \in Tabs \X Calls |-> 0]
    /\ interrupts = [t \in Tabs |-> 0]
    /\ dropped = {}

-----------------------------------------------------------------------------
(* conversation-store.ts.                                                  *)

IdsIn(list) == {c.id : c \in ToSet(list)}

(* Where a conversation is in the list; it is there once at most.          *)
At(list, c) == CHOOSE n \in DOMAIN list : list[n].id = c

(* Mutant of getConversation: what the handler read when it was called.    *)
ConversationOfCall(c, otherwise) == otherwise

(* getConversation, or else what the handler has of it.                    *)
getConversation(c, otherwise) ==
    IF c \in IdsIn(stored) THEN stored[At(stored, c)] ELSE otherwise

Without(list, c) == IF c \in IdsIn(list) THEN RemoveAt(list, At(list, c)) ELSE list

(* Mutant of Upserted: a new conversation goes to the end.                 *)
UpsertedLast(list, next) ==
    LET all == Append(Without(list, next.id), next)
    IN  SubSeq(all, 1, IF Len(all) > MaxKept THEN MaxKept ELSE Len(all))

(* upsertConversation: it goes to the front, and the last ones are cut.    *)
Upserted(list, next) ==
    LET all == <<next>> \o Without(list, next.id)
    IN  SubSeq(all, 1, IF Len(all) > MaxKept THEN MaxKept ELSE Len(all))

(* persist: a handler whose screen is gone writes localStorage only.       *)
Persist(t, mounted, next) ==
    /\ stored' = Upserted(stored, next)
    /\ dropped' = dropped \cup (IdsIn(stored) \ IdsIn(stored'))
    /\ conv' = IF mounted THEN [conv EXCEPT ![t] = next] ELSE conv

-----------------------------------------------------------------------------
(* intent.ts: what a prompt asks for.                                      *)

(* The tests a prompt may pass, in any combination.                        *)
Signals == {"imports", "cv", "workflow", "match", "create", "review", "search"}

(* The first that passes decides.                                          *)
Tests == <<[needs |-> {"imports"},        intent |-> "LIST_INGEST_JOBS"],
           [needs |-> {"cv", "workflow"}, intent |-> "INGEST_CV_WORKFLOW"],
           [needs |-> {"match"},          intent |-> "MATCH_JOB"],
           [needs |-> {"create"},         intent |-> "CREATE_JOB"],
           [needs |-> {"review"},         intent |-> "ANALYZE_CV"],
           [needs |-> {"search"},         intent |-> "SEARCH_CANDIDATE"],
           [needs |-> {},                 intent |-> "HELP"]>>

detectIntentName(prompt) == SelectSeq(Tests, LAMBDA t : t.needs \subseteq prompt)[1].intent

Intents == {detectIntentName(prompt) : prompt \in SUBSET Signals}

(* Asked to upload a file: nothing is waited for.                          *)
AtOnce == {"ANALYZE_CV", "INGEST_CV_WORKFLOW"}

(* What a handler may leave in its message; an error is an answer.         *)
PromptEnds ==
    {{"answered"} \cup (IF intent = "CREATE_JOB" THEN {"preview"} ELSE {}) :
        intent \in Intents \ AtOnce}

(* A report, or a job of the ingestion that waits to be confirmed.         *)
UploadEnds == {"answered", "imports"}

(* Once confirmed, the job is polled to its end.                           *)
ConfirmEnds == {"answered"}

-----------------------------------------------------------------------------
(* submitPrompt, onUploadCv, confirmIngest.                                *)

(* The message is added to the conversation shown.                         *)
WithMessage(k, t, message) ==
    [getConversation(conv[t].id, conv[t]) EXCEPT !.messages[k] = message]

Begin(k, t, ends) ==
    LET base == WithMessage(k, t, "working")
    IN  /\ calls[k] = None
        /\ busy' = [busy EXCEPT ![t] = TRUE]
        /\ Persist(t, TRUE, base)
        /\ calls' = [calls EXCEPT ![k] =
                        [tab |-> t, mounted |-> TRUE, base |-> base, ends |-> ends,
                         state |-> "running"]]
        /\ UNCHANGED <<confirming, acts, jobs, interrupts>>

(* Only a prompt looks at busy.                                            *)
submitPrompt(k, t) ==
    /\ ~busy[t]
    /\ \E ends \in PromptEnds : Begin(k, t, ends)

submitPromptAtOnce(k, t) ==
    /\ ~busy[t] /\ AtOnce \cap Intents # {}
    /\ calls[k] = None
    /\ Persist(t, TRUE, WithMessage(k, t, "answered"))
    /\ calls' = [calls EXCEPT ![k] = [tab |-> t, mounted |-> FALSE, ends |-> {}, state |-> "over",
                                      base |-> createEmptyConversation(conv[t].id)]]
    /\ UNCHANGED <<busy, confirming, acts, jobs, interrupts>>

onUploadCv(k, t) == Begin(k, t, UploadEnds)

(* The buttons under the files found are not blocked by anything: an       *)
(* import may be confirmed twice.                                          *)
confirmIngest(k, t) ==
    /\ \E found \in Calls : conv[t].messages[found] = "imports"
    /\ Begin(k, t, ConfirmEnds)

Interrupt(t) ==
    /\ MapThenSumSet(LAMBDA x : interrupts[x], Tabs) < MaxInterrupts
    /\ interrupts' = [interrupts EXCEPT ![t] = @ + 1]

(* localStorage is full: the call throws before its try, and leaves the    *)
(* tab busy.                                                               *)
BeginThrows(k, t) ==
    /\ calls[k] = None
    /\ Interrupt(t)
    /\ busy' = [busy EXCEPT ![t] = TRUE]
    /\ calls' = [calls EXCEPT ![k] = 
                    [tab |-> t, mounted |-> FALSE, base |-> createEmptyConversation(conv[t].id),
                     ends |-> {}, state |-> "lost"]]
    /\ UNCHANGED <<stored, conv, confirming, acts, jobs, dropped>>

(* patchAssistant, patch: the message is looked for in what is stored now. *)
Patched(k, message) ==
    LET cur == getConversation(calls[k].base.id, calls[k].base)
    IN  IF cur.messages[k] = None THEN cur ELSE [cur EXCEPT !.messages[k] = message]

Patch(k, message) == Persist(calls[k].tab, calls[k].mounted, Patched(k, message))

Running(k) == calls[k] # None /\ calls[k].state = "running"

(* A handler that is over; what it had read is forgotten.                  *)
Ended(k, state) ==
    [calls[k] EXCEPT !.state = state, !.base = createEmptyConversation(@.id), !.ends = {},
                     !.mounted = FALSE]

(* Progress is shown, once or at every poll of an import; the handler      *)
(* waits for a search, for its draft or for the next poll.                 *)
Progress(k) ==
    /\ Running(k)
    /\ Patch(k, "working")
    /\ UNCHANGED <<busy, confirming, acts, calls, jobs, interrupts>>

(* The answer, what waits to be confirmed, or the error.                   *)
Finish(k) ==
    /\ Running(k)
    /\ \E message \in calls[k].ends : Patch(k, message)
    /\ calls' = [calls EXCEPT ![k] = Ended(k, "over")]
    /\ busy' = IF calls[k].mounted THEN [busy EXCEPT ![calls[k].tab] = FALSE] ELSE busy
    /\ UNCHANGED <<confirming, acts, jobs, interrupts>>

(* localStorage is full: neither the answer nor the error is written.      *)
FinishThrows(k) ==
    /\ Running(k)
    /\ Interrupt(calls[k].tab)
    /\ calls' = [calls EXCEPT ![k] = Ended(k, "lost")]
    /\ busy' = IF calls[k].mounted THEN [busy EXCEPT ![calls[k].tab] = FALSE] ELSE busy
    /\ UNCHANGED <<stored, conv, confirming, acts, jobs, dropped>>

-----------------------------------------------------------------------------
(* onConfirmAct.                                                           *)

(* Mutant of ConfirmAct: the button is not blocked while one is confirmed. *)
ConfirmActAgain(t, k) ==
    /\ conv[t].messages[k] = "preview" /\ jobs[<<t, k>>] < MaxJobs
    /\ confirming' = [confirming EXCEPT ![t] = TRUE]
    /\ acts' = acts \cup {[tab |-> t, left |-> 0, call |-> k, base |-> conv[t]]}
    /\ UNCHANGED <<stored, conv, busy, calls, jobs, interrupts, dropped>>

ConfirmAct(t, k) ==
    /\ ~confirming[t]
    /\ conv[t].messages[k] = "preview" /\ jobs[<<t, k>>] < MaxJobs
    /\ confirming' = [confirming EXCEPT ![t] = TRUE]
    /\ acts' = acts \cup {[tab |-> t, left |-> 0, call |-> k, base |-> conv[t]]}
    /\ UNCHANGED <<stored, conv, busy, calls, jobs, interrupts, dropped>>

(* Every preview of the conversation is then marked with the job.          *)
AllConfirmed(cur) ==
    [cur EXCEPT !.messages =
        [k \in Calls |-> IF @[k] = "preview" THEN "confirmed" ELSE @[k]]]

ActOver(act) ==
    /\ act \in acts
    /\ acts' = acts \ {act}
    /\ confirming' = IF act.left = 0 THEN [confirming EXCEPT ![act.tab] = FALSE] ELSE confirming

JobMade(act) == [jobs EXCEPT ![<<act.tab, act.call>>] = @ + 1]

JobCreated(act) ==
    /\ ActOver(act)
    /\ jobs' = JobMade(act)
    /\ Persist(act.tab, act.left = 0, AllConfirmed(getConversation(act.base.id, act.base)))
    /\ UNCHANGED <<busy, calls, interrupts>>

(* An alert, before the job is made or after: it may be confirmed again.   *)
JobFails(act) ==
    /\ ActOver(act)
    /\ Interrupt(act.tab)
    /\ jobs' \in {jobs, JobMade(act)}
    /\ UNCHANGED <<stored, conv, busy, calls, dropped>>

-----------------------------------------------------------------------------
(* The screen.                                                             *)

(* Another conversation is opened, or a new one.                           *)
Open(t, c) ==
    /\ conv' = [conv EXCEPT ![t] = getConversation(c, createEmptyConversation(c))]
    /\ UNCHANGED <<stored, busy, confirming, acts, calls, jobs, interrupts, dropped>>

Mount(t, c) ==
    /\ Interrupt(t)
    /\ busy' = [busy EXCEPT ![t] = FALSE]
    /\ confirming' = [confirming EXCEPT ![t] = FALSE]
    /\ conv' = [conv EXCEPT ![t] = getConversation(c, createEmptyConversation(c))]
    /\ UNCHANGED <<stored, dropped>>

Left(act, t) ==
    IF act.tab = t /\ act.left = 0 THEN [act EXCEPT !.left = interrupts'[t]] ELSE act

(* The screen is left for another one and opened again: what it had in     *)
(* flight goes on without it.                                              *)
Return(t, c) ==
    /\ Mount(t, c)
    /\ calls' = [k \in Calls |-> IF Running(k) /\ calls[k].tab = t
                                    THEN [calls[k] EXCEPT !.mounted = FALSE] ELSE calls[k]]
    /\ acts' = {Left(act, t) : act \in acts}
    /\ UNCHANGED jobs

(* The tab is reloaded: what it had in flight is lost to it, though a job  *)
(* may be made.                                                            *)
Reload(t, c) ==
    /\ Mount(t, c)
    /\ calls' = [k \in Calls |-> IF Running(k) /\ calls[k].tab = t
                                    THEN Ended(k, "lost") ELSE calls[k]]
    /\ \E made \in SUBSET {act \in acts : act.tab = t} :
          jobs' = [x \in Tabs \X Calls |->
                      jobs[x] + Cardinality({act \in made : x = <<t, act.call>>})]
    /\ acts' = {act \in acts : act.tab # t}

AssistantScreen(t) ==
    \/ \E k \in Calls :
          \/ submitPrompt(k, t) \/ submitPromptAtOnce(k, t)
          \/ onUploadCv(k, t) \/ confirmIngest(k, t) \/ BeginThrows(k, t)
          \/ ConfirmAct(t, k)
    \/ \E c \in Conversations : Open(t, c) \/ Return(t, c) \/ Reload(t, c)

Next ==
    \/ \E t \in Tabs : AssistantScreen(t)
    \/ \E k \in Calls : Progress(k) \/ Finish(k) \/ FinishThrows(k)
    \/ \E act \in acts : JobCreated(act) \/ JobFails(act)

Spec == Init /\ [][Next]_vars

-----------------------------------------------------------------------------
(* Properties.                                                             *)

(* How far a message has come.                                             *)
Progressed == <<None, "working", "preview", "confirmed">>

NoLess(m, n) ==
    \/ m = n
    \/ n \in {"answered", "imports", "confirmed"} /\ m \in {None, "working"}
    \/ \E i, j \in 1..4 : i <= j /\ m = Progressed[i] /\ n = Progressed[j]

NoneLess(messages, later) == \A k \in Calls : NoLess(messages[k], later[k])

(* The messages of a conversation in localStorage.                         *)
KeptIn(list, c) ==
    IF c \in IdsIn(list) THEN list[At(list, c)].messages ELSE [k \in Calls |-> None]

(* No handler takes back what another one, of this tab or of another, has  *)
(* written in a conversation that is kept (patchAssistant, onConfirmAct).  *)
AnswersKept ==
    [][\A c \in IdsIn(stored) \cap IdsIn(stored') :
          NoneLess(KeptIn(stored, c), KeptIn(stored', c))]_vars

(* What a tab shows is there after a reload, unless the conversation was   *)
(* once cut from the list (persist, upsertConversation).                   *)
ShownIsKept ==
    \A t \in Tabs :
        conv[t].id \notin dropped =>
            NoneLess(conv[t].messages, KeptIn(stored, conv[t].id))

(* A tab makes a second job from a preview only after it was interrupted   *)
(* while making the first: by an error, a reload, or another screen        *)
(* (onConfirmAct).                                                         *)
JobsCostInterrupts ==
    \A t \in Tabs, k \in Calls :
        calls[k] # None /\ calls[k].base.id \notin dropped => jobs[<<t, k>>] <= 1 + interrupts[t]

=============================================================================
