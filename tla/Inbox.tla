------------------------------- MODULE Inbox -------------------------------
(***************************************************************************)
(* The in-app inbox: NotificationService over FileNotificationRepository.  *)
(*                                                                         *)
(* Notifications are held in memory and in a JSON Lines file that is read  *)
(* at the first access.  A new one is appended to the file; a read mark    *)
(* rewrites the whole file from memory.  Files are written synchronously   *)
(* after the change in memory, so a write that throws leaves the two       *)
(* apart.  A write that is cut by the end of the process is one that       *)
(* throws followed by Restart.                                             *)
(*                                                                         *)
(* Abstracted: titles, bodies, times (readAt: whether it is set), lists    *)
(* and their order; the notes in memory, which nothing reads back.         *)
(***************************************************************************)
EXTENDS Naturals, FiniteSets, JsonlFile

CONSTANTS
    Notifications, Notes,   \* ids
    Actors,                 \* the actors of the registry
    Outcomes,               \* what is told of: assignments, stage changes, automations
    MaxFaults,              \* bound: file system calls that fail
    MaxRestarts,            \* bound: restarts of the process
    None                    \* no notification, no note

(* What one actor is told of; a mention is told of by a note.              *)
Item == [to : Actors, type : Outcomes \cup {"mention"}, note : Notes \cup {None}, read : BOOLEAN]

(* A line of the file.                                                     *)
Record == Notifications \X Item

ASSUME InboxAssumption ==
    /\ MaxFaults \in Nat /\ MaxRestarts \in Nat
    /\ "mention" \notin Outcomes
    /\ None \notin Notes /\ None \notin Item /\ None \notin [note : Notes, todo : SUBSET Actors]

VARIABLES
    items,       \* the notifications in memory, by id
    loaded,      \* whether the files were read
    itemsFile,   \* notifications.jsonl
    notesFile,   \* collaboration-notes.jsonl
    mentioning,  \* the note being told, and the actors still to be told of it
    told,        \* history: notifications whose creation was completed
    seen,        \* history: notifications whose mark-read was answered
    unwritten,   \* history: notifications whose mark was kept off the file by a failing write
    blind,       \* history: this process could not read its notifications
    faults, restarts

files == <<itemsFile, notesFile>>
vars == <<items, loaded, files, mentioning, told, seen, unwritten, blind, faults, restarts>>

TypeOK ==
    /\ items \in [Notifications -> Item \cup {None}]
    /\ loaded \in BOOLEAN /\ blind \in BOOLEAN
    /\ itemsFile \in File(Record)
    /\ notesFile \in File(Notes)
    /\ mentioning \in [note : Notes, todo : SUBSET Actors] \cup {None}
    /\ told \subseteq Notifications /\ seen \subseteq Notifications
    /\ unwritten \subseteq Notifications
    /\ faults \in 0..MaxFaults /\ restarts \in 0..MaxRestarts

Empty == [n \in Notifications |-> None]

Init ==
    /\ items = Empty
    /\ loaded = FALSE /\ blind = FALSE
    /\ itemsFile = EmptyFile /\ notesFile = EmptyFile
    /\ mentioning = None
    /\ told = {} /\ seen = {} /\ unwritten = {}
    /\ faults = 0 /\ restarts = 0

Fault == faults < MaxFaults /\ faults' = faults + 1

-----------------------------------------------------------------------------
(* FileNotificationRepository.                                             *)

OnFile == Parsed(itemsFile)

Known(f) == {r[1] : r \in Parsed(f)}

(* What loadJsonl makes of the file.                                       *)
Found == [n \in Notifications |-> IF n \in Known(itemsFile)
                                    THEN CHOOSE i \in Item : <<n, i>> \in OnFile ELSE None]

(* Mutant of Items: the file is read only to be listed, not to be marked.  *)
ItemsWithoutLoad == items

(* ensureLoaded: the files are read at the first access.                   *)
Items == IF loaded THEN items ELSE Found

(* One of the two files cannot be read: that request is rejected, and      *)
(* every later one finds an inbox that counts as loaded.                   *)
ReadFails ==
    /\ ~loaded
    /\ Fault
    /\ loaded' = TRUE
    /\ \/ items' = Empty /\ blind' = TRUE
       \/ items' = Found /\ UNCHANGED blind
    /\ UNCHANGED <<files, mentioning, told, seen, unwritten, restarts>>

Lines(inbox) == {<<n, inbox[n]>> : n \in {m \in Notifications : inbox[m] # None}}

(* append, to the array in memory.                                         *)
Push(n, item) ==
    /\ items' = [Items EXCEPT ![n] = item]
    /\ loaded' = TRUE

(* Mutant of Rewrite: the file is written before the marks are made.       *)
RewriteBefore(some) ==
    /\ itemsFile' = [lines |-> Lines(Items), open |-> FALSE, tail |-> {}]
    /\ seen' = seen \cup some
    /\ unwritten' = {n \in unwritten : items'[n] # None /\ ~items'[n].read}
    /\ UNCHANGED faults

(* rewriteNotifications, for the marks of some.                            *)
Rewrite(some) ==
    /\ itemsFile' = [lines |-> Lines(items'), open |-> FALSE, tail |-> {}]
    /\ seen' = seen \cup some
    /\ unwritten' = {n \in unwritten : items'[n] # None /\ ~items'[n].read}
    /\ UNCHANGED faults

(* It throws, before the file is truncated or after.                       *)
RewriteThrows(some) ==
    /\ Fault
    /\ itemsFile' \in {itemsFile} \cup CutRewrite(Lines(items'))
    /\ unwritten' = unwritten \cup some
    /\ UNCHANGED seen

-----------------------------------------------------------------------------
(* NotificationService.                                                    *)

(* generateId: an id that was never used.                                  *)
Fresh(n) == Items[n] = None /\ n \notin told \cup seen \cup unwritten \cup Known(itemsFile)

(* create.                                                                 *)
Create(n, item) ==
    /\ Fresh(n)
    /\ Push(n, item)
    /\ \/ itemsFile' = AddLine(itemsFile, <<n, item>>) /\ told' = told \cup {n} /\ UNCHANGED faults
       \/ Fault /\ itemsFile' \in CutLine(itemsFile, <<n, item>>) /\ UNCHANGED told

(* onAssignment, onStageChanged, onAutomationCompleted, for an actor that  *)
(* is in the registry.                                                     *)
Tell(n, to, outcome) ==
    /\ Create(n, [to |-> to, type |-> outcome, note |-> None, read |-> FALSE])
    /\ UNCHANGED <<notesFile, mentioning, seen, unwritten, blind, restarts>>

(* Mutant of SaveNote: the note is told of and kept in memory only.        *)
SaveNoteInMemory(k, mentioned) ==
    /\ mentioning = None /\ k \notin Parsed(notesFile)
    /\ loaded' = TRUE /\ items' = Items
    /\ mentioning' = [note |-> k, todo |-> mentioned]
    /\ UNCHANGED <<files, told, seen, unwritten, blind, faults, restarts>>

(* createNote: first the note,                                             *)
SaveNote(k, mentioned) ==
    /\ mentioning = None /\ k \notin Parsed(notesFile)
    /\ loaded' = TRUE /\ items' = Items
    /\ \/ /\ notesFile' = AddLine(notesFile, k)
          /\ mentioning' = [note |-> k, todo |-> mentioned]
          /\ UNCHANGED faults
       \/ Fault /\ notesFile' \in CutLine(notesFile, k) /\ UNCHANGED mentioning
    /\ UNCHANGED <<itemsFile, told, seen, unwritten, blind, restarts>>

(* then, one after the other, those it mentions; a failure ends it.        *)
Mention(n, to) ==
    /\ mentioning # None
    /\ to \in mentioning.todo
    /\ Create(n, [to |-> to, type |-> "mention", note |-> mentioning.note, read |-> FALSE])
    /\ mentioning' = IF n \in told' THEN [mentioning EXCEPT !.todo = @ \ {to}] ELSE None
    /\ UNCHANGED <<notesFile, seen, unwritten, blind, restarts>>

NoteTold ==
    /\ mentioning # None /\ mentioning.todo = {}
    /\ mentioning' = None
    /\ UNCHANGED <<items, loaded, files, told, seen, unwritten, blind, faults, restarts>>

Marked(inbox, some) ==
    [n \in Notifications |-> IF n \in some THEN [inbox[n] EXCEPT !.read = TRUE] ELSE inbox[n]]

Unread(to) == {n \in Notifications : Items[n] # None /\ Items[n].to = to /\ ~Items[n].read}

(* markRead of a notification of the actor: written only when it is unread *)
(* in memory, answered in any case.                                        *)
MarkRead(n, actor) ==
    /\ Items[n] # None /\ Items[n].to = actor
    /\ loaded' = TRUE
    /\ items' = Marked(Items, {n})
    /\ \/ n \in Unread(actor) /\ (Rewrite({n}) \/ RewriteThrows({n}))
       \/ /\ n \notin Unread(actor)
          /\ seen' = seen \cup {n}
          /\ UNCHANGED <<itemsFile, unwritten, faults>>
    /\ UNCHANGED <<notesFile, mentioning, told, blind, restarts>>

MarkAllRead(actor) ==
    /\ Unread(actor) # {}
    /\ loaded' = TRUE
    /\ items' = Marked(Items, Unread(actor))
    /\ Rewrite(Unread(actor)) \/ RewriteThrows(Unread(actor))
    /\ UNCHANGED <<notesFile, mentioning, told, blind, restarts>>

(* The process ends and is started again.                                  *)
Restart ==
    /\ restarts < MaxRestarts
    /\ restarts' = restarts + 1
    /\ loaded' = FALSE /\ items' = Empty /\ blind' = FALSE
    /\ mentioning' = None
    /\ UNCHANGED <<files, told, seen, unwritten, faults>>

(* registerNotificationRoutes.                                             *)
InboxRequest ==
    \/ \E n \in Notifications, a \in Actors : MarkRead(n, a)
    \/ \E a \in Actors : MarkAllRead(a)
    \/ \E k \in Notes, mentioned \in SUBSET Actors : SaveNote(k, mentioned)

Next ==
    \/ InboxRequest
    \/ \E n \in Notifications, a \in Actors, o \in Outcomes : Tell(n, a, o)
    \/ \E n \in Notifications, a \in Actors : Mention(n, a)
    \/ NoteTold
    \/ ReadFails
    \/ Restart

Spec == Init /\ [][Next]_vars

-----------------------------------------------------------------------------
(* Properties.                                                             *)

(* What can make the file forget a notification it had: a write that       *)
(* fails, a rewrite by a process that could not read the file, or a line   *)
(* appended to one that a write had left without its newline.  Nothing     *)
(* that a recipient, an author or a restart does (FileNotificationRepository). *)
KeptOnFile ==
    [][\A n \in Known(itemsFile) \ Known(itemsFile') :
          \/ faults' # faults
          \/ blind
          \/ n \in {r[1] : r \in itemsFile.tail}]_vars

(* A mark-read that was answered is never taken back, by any restart,      *)
(* unless an earlier write of that mark failed: then the retry is answered *)
(* from memory and writes nothing (markRead).                              *)
ReadStays == \A r \in OnFile : r[1] \in seen \ unwritten => r[2].read

(* Every mention can be traced to its note after a restart, but for one    *)
(* note per failed call (createNote saves the note first).                 *)
Orphans ==
    {k \in Notes \ Parsed(notesFile) : \E r \in OnFile : r[2].note = k}

OrphansCostFaults == Cardinality(Orphans) <= faults

=============================================================================
