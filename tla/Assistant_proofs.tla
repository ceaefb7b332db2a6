--------------------------- MODULE Assistant_proofs ---------------------------
(***************************************************************************)
(* Proofs about the assistant's conversations.                             *)
(*                                                                         *)
(* Every copy of a conversation that a screen, a handler or a confirmation *)
(* holds is behind localStorage (Sound), because a handler writes what is  *)
(* stored then, with its own message only; and the jobs made from a        *)
(* preview are counted against the interrupts that let it be confirmed     *)
(* again (Counted).                                                        *)
(***************************************************************************)
EXTENDS Assistant, SequenceTheorems, FiniteSetTheorems, TLAPS

-----------------------------------------------------------------------------
(* The list of conversations.                                              *)

Unique(list) == \A m, n \in DOMAIN list : list[m].id = list[n].id => m = n

LEMMA AtFinds ==
    ASSUME NEW list \in Seq(Conversation), NEW c \in IdsIn(list)
    PROVE  At(list, c) \in DOMAIN list /\ list[At(list, c)].id = c
<1>1. \E n \in DOMAIN list : list[n].id = c BY DEF IdsIn, ToSet
<1> QED BY <1>1 DEF At

LEMMA AtIs ==
    ASSUME NEW list \in Seq(Conversation), Unique(list), NEW n \in DOMAIN list
    PROVE  list[n].id \in IdsIn(list) /\ At(list, list[n].id) = n
<1>1. list[n].id \in IdsIn(list) BY DEF IdsIn, ToSet
<1>2. At(list, list[n].id) \in DOMAIN list /\ list[At(list, list[n].id)].id = list[n].id
  BY <1>1, AtFinds
<1> QED BY <1>1, <1>2 DEF Unique

(* What is left of a list without one conversation, by position.           *)
LEMMA WithoutIs ==
    ASSUME NEW list \in Seq(Conversation), NEW c \in IdsIn(list)
    PROVE  LET p == At(list, c) rest == Without(list, c) IN
           /\ rest \in Seq(Conversation)
           /\ Len(rest) = Len(list) - 1
           /\ p \in 1..Len(list)
           /\ \A n \in 1..Len(rest) : rest[n] = list[IF n < p THEN n ELSE n + 1]
<1> DEFINE p == At(list, c)
           before == SubSeq(list, 1, p - 1)
           after == SubSeq(list, p + 1, Len(list))
<1>1. p \in 1..Len(list) BY AtFinds
<1>2. /\ before \in Seq(Conversation) /\ Len(before) = p - 1
      /\ \A n \in 1..(p - 1) : before[n] = list[n]
  BY <1>1
<1>3. /\ after \in Seq(Conversation) /\ Len(after) = Len(list) - p
      /\ \A n \in 1..(Len(list) - p) : after[n] = list[p + n]
  BY <1>1
<1>4. Without(list, c) = before \o after BY DEF Without, RemoveAt
<1> HIDE DEF before, after, p
<1>5. /\ before \o after \in Seq(Conversation)
      /\ Len(before \o after) = Len(list) - 1
  BY <1>1, <1>2, <1>3
<1>6. ASSUME NEW n \in 1..(Len(list) - 1)
      PROVE  (before \o after)[n] = list[IF n < p THEN n ELSE n + 1]
  <2>1. CASE n < p BY <1>1, <1>2, <1>3, <2>1
  <2>2. CASE ~(n < p)
    <3>1. (before \o after)[n] = after[n - (p - 1)] BY <1>1, <1>2, <1>3, <2>2
    <3>2. n - (p - 1) \in 1..(Len(list) - p) /\ p + (n - (p - 1)) = n + 1 BY <1>1, <2>2
    <3> QED BY <1>3, <2>2, <3>1, <3>2
  <2> QED BY <2>1, <2>2
<1>7. /\ Without(list, c) \in Seq(Conversation)
      /\ Len(Without(list, c)) = Len(list) - 1
      /\ \A n \in 1..Len(Without(list, c)) :
            Without(list, c)[n] = list[IF n < p THEN n ELSE n + 1]
  BY <1>4, <1>5, <1>6
<1> QED BY <1>1, <1>7 DEF p

LEMMA WithoutKeeps ==
    ASSUME NEW list \in Seq(Conversation), Unique(list), NEW c
    PROVE  LET rest == Without(list, c) IN
           /\ rest \in Seq(Conversation) /\ Unique(rest)
           /\ \A n \in DOMAIN rest : \E m \in DOMAIN list : rest[n] = list[m] /\ list[m].id # c
<1> DEFINE rest == Without(list, c)
           p == At(list, c)
           From(n) == IF n < p THEN n ELSE n + 1
<1>1. CASE c \in IdsIn(list)
  <2>1. /\ rest \in Seq(Conversation)
        /\ Len(rest) = Len(list) - 1
        /\ p \in 1..Len(list)
        /\ \A n \in 1..Len(rest) : rest[n] = list[From(n)]
    BY <1>1, WithoutIs
  <2>2. list[p].id = c BY <1>1, AtFinds
  <2>3. DOMAIN rest = 1..Len(rest) /\ DOMAIN list = 1..Len(list) BY <2>1
  <2> HIDE DEF rest, p
  <2>4. \A n \in 1..Len(rest) : From(n) \in 1..Len(list) /\ From(n) # p
    BY <2>1
  <2>5. \A m, n \in 1..Len(rest) : From(m) = From(n) => m = n BY <2>1
  <2> HIDE DEF From
  <2>6. Unique(rest) BY <2>1, <2>3, <2>4, <2>5 DEF Unique
  <2>7. \A n \in DOMAIN rest : rest[n] = list[From(n)] /\ list[From(n)].id # c
    BY <2>1, <2>2, <2>3, <2>4 DEF Unique
  <2> QED BY <2>1, <2>3, <2>4, <2>6, <2>7 DEF rest
<1>2. CASE c \notin IdsIn(list)
  <2>1. rest = list BY <1>2 DEF Without
  <2>2. \A m \in DOMAIN list : list[m].id # c BY <1>2 DEF IdsIn, ToSet
  <2> QED BY <2>1, <2>2
<1> QED BY <1>1, <1>2

(* After an upsert its conversation is in the list, and whichever other    *)
(* one is there is as it was.                                              *)
LEMMA UpsertedKeeps ==
    ASSUME NEW list \in Seq(Conversation), Unique(list), NEW next \in Conversation
    PROVE  LET new == Upserted(list, next) IN
           /\ new \in Seq(Conversation) /\ Unique(new)
           /\ next.id \in IdsIn(new) /\ KeptIn(new, next.id) = next.messages
           /\ \A c \in IdsIn(new) : c # next.id =>
                 c \in IdsIn(list) /\ KeptIn(new, c) = KeptIn(list, c)
<1> DEFINE rest == Without(list, next.id)
           all == <<next>> \o rest
           len == IF Len(all) > MaxKept THEN MaxKept ELSE Len(all)
           new == SubSeq(all, 1, len)
<1>1. /\ rest \in Seq(Conversation) /\ Unique(rest)
      /\ \A n \in DOMAIN rest : \E m \in DOMAIN list : rest[n] = list[m] /\ list[m].id # next.id
  BY WithoutKeeps
<1>2. new = Upserted(list, next) BY DEF Upserted
<1> HIDE DEF rest
<1>3. /\ all \in Seq(Conversation) /\ Len(all) = Len(rest) + 1 /\ all[1] = next
      /\ \A n \in 2..Len(all) : all[n] = rest[n - 1] /\ n - 1 \in DOMAIN rest
  BY <1>1
<1> HIDE DEF all
<1>4. len \in 1..Len(all) BY <1>1, <1>3, AssistantAssumption
<1> HIDE DEF len
<1>5. /\ new \in Seq(Conversation) /\ Len(new) = len /\ DOMAIN new = 1..len
      /\ \A n \in 1..len : new[n] = all[n]
  BY <1>3, <1>4
<1> HIDE DEF new
<1>6. new[1] = next /\ 1 \in DOMAIN new BY <1>3, <1>4, <1>5
<1>7. ASSUME NEW n \in DOMAIN new, n # 1
      PROVE  \E m \in DOMAIN list : new[n] = list[m] /\ list[m].id # next.id
  <2>1. n \in 2..Len(all) BY <1>4, <1>5, <1>7
  <2> QED BY <1>1, <1>3, <1>5, <2>1
<1>8. Unique(new)
  <2> SUFFICES ASSUME NEW m \in DOMAIN new, NEW n \in DOMAIN new, new[m].id = new[n].id
               PROVE  m = n
    BY DEF Unique
  <2>1. CASE m = 1 \/ n = 1 BY <1>6, <1>7, <2>1
  <2>2. CASE m # 1 /\ n # 1
    <3>1. m \in 2..Len(all) /\ n \in 2..Len(all) BY <1>4, <1>5, <2>2
    <3>2. rest[m - 1].id = rest[n - 1].id BY <1>3, <1>5, <3>1
    <3>3. m - 1 = n - 1 BY <1>1, <1>3, <3>1, <3>2 DEF Unique
    <3> QED BY <3>1, <3>3
  <2> QED BY <2>1, <2>2
<1>9. next.id \in IdsIn(new) /\ KeptIn(new, next.id) = next.messages
  <2>1. next.id \in IdsIn(new) /\ At(new, next.id) = 1 BY <1>5, <1>6, <1>8, AtIs
  <2> QED BY <1>6, <2>1 DEF KeptIn
<1>10. ASSUME NEW c \in IdsIn(new), c # next.id
       PROVE  c \in IdsIn(list) /\ KeptIn(new, c) = KeptIn(list, c)
  <2>1. At(new, c) \in DOMAIN new /\ new[At(new, c)].id = c BY <1>5, AtFinds
  <2>2. At(new, c) # 1 BY <1>6, <1>10, <2>1
  <2>3. PICK m \in DOMAIN list : new[At(new, c)] = list[m] BY <1>7, <2>1, <2>2
  <2>4. list[m].id = c BY <2>1, <2>3
  <2>5. c \in IdsIn(list) /\ At(list, c) = m BY <2>4, AtIs
  <2> QED BY <1>10, <2>3, <2>5 DEF KeptIn
<1> QED BY <1>2, <1>5, <1>8, <1>9, <1>10

-----------------------------------------------------------------------------
(* How far messages have come is an order.                                 *)

Said == Message \cup {None}

LEMMA NoLessOrder ==
    ASSUME NEW l \in Said, NEW m \in Said, NEW n \in Said
    PROVE  /\ NoLess(m, m)
           /\ NoLess(None, m)
           /\ NoLess(m, None) => m = None
           /\ NoLess(l, m) /\ NoLess(m, n) => NoLess(l, n)
<1>1. Progressed[1] = None /\ Progressed[2] = "working" /\ Progressed[3] = "preview"
      /\ Progressed[4] = "confirmed"
  BY DEF Progressed
<1>2. \A x, y \in Said : NoLess(x, y) <=>
        \/ x = y
        \/ y \in {"answered", "imports", "confirmed"} /\ x \in {None, "working"}
        \/ x = None /\ y \in {"working", "preview"}
        \/ x = "working" /\ y = "preview"
        \/ x = "preview" /\ y = "confirmed"
  <2> SUFFICES ASSUME NEW x \in Said, NEW y \in Said PROVE
        NoLess(x, y) <=>
        \/ x = y
        \/ y \in {"answered", "imports", "confirmed"} /\ x \in {None, "working"}
        \/ x = None /\ y \in {"working", "preview"}
        \/ x = "working" /\ y = "preview"
        \/ x = "preview" /\ y = "confirmed"
    OBVIOUS
  <2>1. (\E i, j \in 1..4 : i <= j /\ x = Progressed[i] /\ y = Progressed[j]) <=>
        \/ x = y /\ x \in {None, "working", "preview", "confirmed"}
        \/ x = None /\ y \in {"working", "preview", "confirmed"}
        \/ x = "working" /\ y \in {"preview", "confirmed"}
        \/ x = "preview" /\ y = "confirmed"
    BY <1>1
  <2> QED BY <2>1 DEF NoLess
<1>3. None \notin Message BY AssistantAssumption
<1> QED BY <1>2, <1>3 DEF Said, Message

-----------------------------------------------------------------------------
(* What is true of every copy of a conversation, wherever it was read.     *)

Runs(cs, k) == cs[k] # None /\ cs[k].state = "running"

(* A message is of a call that was made in its conversation, and while     *)
(* that call runs it says so.                                              *)
Proper(cs, c, m) ==
    /\ m \in Messages
    /\ \A k \in Calls : m[k] # None =>
          cs[k] # None /\ cs[k].base.id = c /\ (Runs(cs, k) => m[k] = "working")

(* A copy has nothing that localStorage does not have.                     *)
Behind(list, gone, c, m) == c \notin gone => NoneLess(m, KeptIn(list, c))

Read(cs, list, gone, x) ==
    x \in Conversation /\ Proper(cs, x.id, x.messages) /\ Behind(list, gone, x.id, x.messages)

Sound ==
    /\ TypeOK /\ Unique(stored) /\ IsFiniteSet(acts)
    /\ \A c \in Conversations : Proper(calls, c, KeptIn(stored, c))
    /\ \A t \in Tabs : Read(calls, stored, dropped, conv[t])
    /\ \A k \in Calls : calls[k] # None => Read(calls, stored, dropped, calls[k].base)
    /\ \A act \in acts : Read(calls, stored, dropped, act.base)
                         /\ act.base.messages[act.call] = "preview"

(* Calls go on in their conversation, and never run again.                 *)
GoOn(cs, ds) ==
    \A k \in Calls : cs[k] # None =>
        ds[k] # None /\ ds[k].base.id = cs[k].base.id /\ (Runs(ds, k) => Runs(cs, k))

(* localStorage goes on, but for the conversations that are cut.           *)
Grown(list, gone, list2, gone2) ==
    \A c \in Conversations : c \notin gone2 =>
        c \notin gone /\ NoneLess(KeptIn(list, c), KeptIn(list2, c))

Blank == [k \in Calls |-> None]

LEMMA ProperStays ==
    ASSUME NEW cs, NEW ds, GoOn(cs, ds), NEW c, NEW m, Proper(cs, c, m)
    PROVE  Proper(ds, c, m)
  BY DEF GoOn, Proper

LEMMA NoneLessOrder ==
    ASSUME NEW l \in Messages, NEW m \in Messages, NEW n \in Messages
    PROVE  /\ NoneLess(m, m)
           /\ NoneLess(Blank, m)
           /\ NoneLess(m, Blank) => m = Blank
           /\ NoneLess(l, m) /\ NoneLess(m, n) => NoneLess(l, n)
<1>1. \A k \in Calls : l[k] \in Said /\ m[k] \in Said /\ n[k] \in Said
  BY DEF Messages, Said
<1>2. NoneLess(m, m) BY <1>1, NoLessOrder DEF NoneLess
<1>3. NoneLess(Blank, m) BY <1>1, NoLessOrder DEF NoneLess, Blank
<1>4. ASSUME NoneLess(m, Blank) PROVE m = Blank
  <2>1. \A k \in Calls : m[k] = None BY <1>1, <1>4, NoLessOrder DEF NoneLess, Blank
  <2> QED BY <2>1 DEF Blank, Messages
<1>5. ASSUME NoneLess(l, m), NoneLess(m, n) PROVE NoneLess(l, n)
  <2>1. \A k \in Calls : NoLess(l[k], m[k]) /\ NoLess(m[k], n[k]) BY <1>5 DEF NoneLess
  <2> QED BY <1>1, <2>1, NoLessOrder DEF NoneLess
<1> QED BY <1>2, <1>3, <1>4, <1>5

LEMMA KeptTyped ==
    ASSUME NEW list \in Seq(Conversation), NEW c
    PROVE  /\ KeptIn(list, c) \in Messages
           /\ c \notin IdsIn(list) => KeptIn(list, c) = Blank
<1>1. CASE c \in IdsIn(list)
  <2>1. At(list, c) \in DOMAIN list BY <1>1, AtFinds
  <2>2. list[At(list, c)] \in Conversation BY <2>1
  <2> QED BY <1>1, <2>2 DEF KeptIn, Conversation
<1>2. CASE c \notin IdsIn(list) BY <1>2 DEF KeptIn, Blank, Messages
<1> QED BY <1>1, <1>2

LEMMA ReadStays ==
    ASSUME NEW cs, NEW ds, GoOn(cs, ds),
           NEW list \in Seq(Conversation), NEW list2 \in Seq(Conversation), NEW gone, NEW gone2,
           Grown(list, gone, list2, gone2), NEW x, Read(cs, list, gone, x)
    PROVE  Read(ds, list2, gone2, x)
<1>1. Proper(ds, x.id, x.messages) BY ProperStays DEF Read
<1>2. ASSUME x.id \notin gone2 PROVE NoneLess(x.messages, KeptIn(list2, x.id))
  <2>1. x.id \in Conversations /\ x.messages \in Messages BY DEF Read, Conversation
  <2>2. NoneLess(x.messages, KeptIn(list, x.id))
        /\ NoneLess(KeptIn(list, x.id), KeptIn(list2, x.id))
    BY <1>2, <2>1 DEF Read, Behind, Grown
  <2> QED BY <2>1, <2>2, KeptTyped, NoneLessOrder
<1> QED BY <1>1, <1>2 DEF Read, Behind

LEMMA StaysThere ==
    ASSUME Sound
    PROVE  GoOn(calls, calls) /\ Grown(stored, dropped, stored, dropped)
<1>1. \A c \in Conversations : NoneLess(KeptIn(stored, c), KeptIn(stored, c))
  BY KeptTyped, NoneLessOrder DEF Sound, TypeOK
<1> QED BY <1>1 DEF GoOn, Grown

(* What a handler gets from localStorage, or else has itself.              *)
LEMMA GetsRead ==
    ASSUME Sound, NEW c \in Conversations, NEW x, Read(calls, stored, dropped, x), x.id = c
    PROVE  LET got == getConversation(c, x) IN
           /\ Read(calls, stored, dropped, got) /\ got.id = c
           /\ NoneLess(KeptIn(stored, c), got.messages)
           /\ c \in IdsIn(stored) => got.messages = KeptIn(stored, c)
<1> DEFINE got == getConversation(c, x)
<1>1. CASE c \in IdsIn(stored)
  <2>1. stored \in Seq(Conversation) BY DEF Sound, TypeOK
  <2>2. At(stored, c) \in DOMAIN stored /\ stored[At(stored, c)].id = c
    BY <1>1, <2>1, AtFinds
  <2>3. got = stored[At(stored, c)] BY <1>1 DEF getConversation
  <2>4. got \in Conversation /\ got.id = c BY <2>1, <2>2, <2>3
  <2>5. got.messages = KeptIn(stored, c) BY <1>1, <2>3 DEF KeptIn
  <2>6. NoneLess(KeptIn(stored, c), KeptIn(stored, c)) BY <2>1, KeptTyped, NoneLessOrder
  <2>7. Proper(calls, c, KeptIn(stored, c)) BY DEF Sound
  <2> HIDE DEF got
  <2> QED BY <2>4, <2>5, <2>6, <2>7 DEF Read, Behind, got
<1>2. CASE c \notin IdsIn(stored)
  <2>1. got = x BY <1>2 DEF getConversation
  <2>2. KeptIn(stored, c) = Blank BY <1>2, KeptTyped DEF Sound, TypeOK
  <2>3. x.messages \in Messages BY DEF Read, Conversation
  <2>4. NoneLess(Blank, x.messages) BY <2>3, NoneLessOrder
  <2> QED BY <1>2, <2>1, <2>2, <2>4
<1> QED BY <1>1, <1>2

LEMMA EmptyRead ==
    ASSUME Sound, NEW c \in Conversations
    PROVE  LET x == createEmptyConversation(c) IN Read(calls, stored, dropped, x) /\ x.id = c
<1> DEFINE x == createEmptyConversation(c)
<1>1. x \in Conversation /\ x.id = c /\ x.messages = Blank
  BY DEF createEmptyConversation, Conversation, Messages, Blank
<1>2. Blank \in Messages /\ KeptIn(stored, c) \in Messages
  BY KeptTyped DEF Blank, Messages, Sound, TypeOK
<1>3. NoneLess(Blank, KeptIn(stored, c)) BY <1>2, NoneLessOrder
<1>4. Proper(calls, c, Blank) BY <1>2 DEF Proper, Blank
<1> QED BY <1>1, <1>3, <1>4 DEF Read, Behind

(* What a write does to localStorage, if it goes on from what is there.    *)
LEMMA PersistGrows ==
    ASSUME Sound, NEW t \in Tabs, NEW mounted, NEW next \in Conversation,
           NoneLess(KeptIn(stored, next.id), next.messages), Persist(t, mounted, next)
    PROVE  /\ stored' \in Seq(Conversation) /\ Unique(stored')
           /\ dropped' \subseteq Conversations
           /\ conv' \in [Tabs -> Conversation]
           /\ Grown(stored, dropped, stored', dropped')
           /\ KeptIn(stored', next.id) = next.messages
           /\ \A c \in Conversations \ {next.id} :
                 KeptIn(stored', c) = KeptIn(stored, c) \/ KeptIn(stored', c) = Blank
           /\ \A c \in IdsIn(stored') \ {next.id} :
                 c \in IdsIn(stored) /\ KeptIn(stored', c) = KeptIn(stored, c)
           /\ \A u \in Tabs : conv'[u] = conv[u] \/ conv'[u] = next
<1>1. stored \in Seq(Conversation) /\ Unique(stored) BY DEF Sound, TypeOK
<1>2. stored' = Upserted(stored, next) BY DEF Persist
<1>3. /\ stored' \in Seq(Conversation) /\ Unique(stored')
      /\ next.id \in IdsIn(stored') /\ KeptIn(stored', next.id) = next.messages
      /\ \A c \in IdsIn(stored') : c # next.id =>
            c \in IdsIn(stored) /\ KeptIn(stored', c) = KeptIn(stored, c)
  BY <1>1, <1>2, UpsertedKeeps
<1>4. IdsIn(stored) \subseteq Conversations
  <2>1. \A n \in DOMAIN stored : stored[n] \in Conversation BY <1>1
  <2>2. \A n \in DOMAIN stored : stored[n].id \in Conversations BY <2>1 DEF Conversation
  <2> QED BY <2>2 DEF IdsIn, ToSet
<1>5. dropped' = dropped \cup (IdsIn(stored) \ IdsIn(stored')) BY DEF Persist
<1>6. dropped' \subseteq Conversations BY <1>4, <1>5 DEF Sound, TypeOK
<1>7. \A c \in Conversations \ {next.id} :
          KeptIn(stored', c) = KeptIn(stored, c) \/ KeptIn(stored', c) = Blank
  BY <1>3, KeptTyped
<1>8. ASSUME NEW c \in Conversations, c \notin dropped'
      PROVE  c \notin dropped /\ NoneLess(KeptIn(stored, c), KeptIn(stored', c))
  <2>1. c \notin dropped BY <1>5, <1>8
  <2>2. CASE c = next.id BY <1>3, <2>1, <2>2
  <2>3. CASE c # next.id /\ c \in IdsIn(stored')
    <3>1. KeptIn(stored', c) = KeptIn(stored, c) BY <1>3, <2>3
    <3> QED BY <1>1, <2>1, <3>1, KeptTyped, NoneLessOrder
  <2>4. CASE c # next.id /\ c \notin IdsIn(stored')
    <3>1. c \notin IdsIn(stored) BY <1>5, <1>8, <2>4
    <3>2. KeptIn(stored, c) = Blank /\ KeptIn(stored', c) \in Messages
      BY <1>1, <1>3, <3>1, KeptTyped
    <3> QED BY <2>1, <3>2, NoneLessOrder
  <2> QED BY <2>2, <2>3, <2>4
<1>9. Grown(stored, dropped, stored', dropped') BY <1>8 DEF Grown
<1>10. conv' \in [Tabs -> Conversation] /\ \A u \in Tabs : conv'[u] = conv[u] \/ conv'[u] = next
  BY DEF Persist, Sound, TypeOK
<1> QED BY <1>3, <1>6, <1>7, <1>9, <1>10

(* No conversation that stays loses an answer.                             *)
AnswersStay ==
    \A c \in IdsIn(stored) \cap IdsIn(stored') :
        NoneLess(KeptIn(stored, c), KeptIn(stored', c))

LEMMA PersistAnswers ==
    ASSUME Sound, NEW t \in Tabs, NEW mounted, NEW next \in Conversation,
           NoneLess(KeptIn(stored, next.id), next.messages), Persist(t, mounted, next)
    PROVE  AnswersStay
<1>1. /\ KeptIn(stored', next.id) = next.messages
      /\ \A c \in IdsIn(stored') \ {next.id} : KeptIn(stored', c) = KeptIn(stored, c)
  BY PersistGrows
<1>2. \A c : NoneLess(KeptIn(stored, c), KeptIn(stored, c))
  BY KeptTyped, NoneLessOrder DEF Sound, TypeOK
<1> QED BY <1>1, <1>2 DEF AnswersStay

LEMMA NothingWritten ==
    ASSUME Sound, stored' = stored PROVE AnswersStay
<1>1. \A c : NoneLess(KeptIn(stored, c), KeptIn(stored, c))
  BY KeptTyped, NoneLessOrder DEF Sound, TypeOK
<1> QED BY <1>1 DEF AnswersStay

-----------------------------------------------------------------------------
(* Every step keeps the copies sound.                                      *)

(* What there is to show of a step.                                        *)
LEMMA SoundStays ==
    ASSUME Sound, TypeOK', Unique(stored'), IsFiniteSet(acts'),
           GoOn(calls, calls'), Grown(stored, dropped, stored', dropped'),
           \A c \in Conversations : Proper(calls', c, KeptIn(stored', c)),
           \A t \in Tabs : \/ conv'[t] = conv[t]
                           \/ Read(calls', stored', dropped', conv'[t]),
           \A k \in Calls : calls'[k] # None =>
              \/ calls[k] # None /\ calls'[k].base = calls[k].base
              \/ Read(calls', stored', dropped', calls'[k].base),
           \A act \in acts' :
              \/ \E old \in acts : act.base = old.base /\ act.call = old.call
              \/ /\ Read(calls', stored', dropped', act.base)
                 /\ act.base.messages[act.call] = "preview"
    PROVE  Sound'
<1>1. stored \in Seq(Conversation) /\ stored' \in Seq(Conversation)
  BY DEF Sound, TypeOK
<1>2. \A x : Read(calls, stored, dropped, x) => Read(calls', stored', dropped', x)
  BY <1>1, ReadStays
<1>3. \A t \in Tabs : Read(calls', stored', dropped', conv'[t]) BY <1>2 DEF Sound
<1>4. \A k \in Calls : calls'[k] # None => Read(calls', stored', dropped', calls'[k].base)
  BY <1>2 DEF Sound
<1>5. \A act \in acts' : /\ Read(calls', stored', dropped', act.base)
                         /\ act.base.messages[act.call] = "preview"
  BY <1>2 DEF Sound
<1> QED BY <1>3, <1>4, <1>5 DEF Sound

(* A write that goes on from what is there leaves every conversation with  *)
(* messages of its own calls.                                              *)
LEMMA KeptStays ==
    ASSUME Sound, NEW t \in Tabs, NEW mounted, NEW next \in Conversation,
           NoneLess(KeptIn(stored, next.id), next.messages), Persist(t, mounted, next),
           GoOn(calls, calls'), Proper(calls', next.id, next.messages)
    PROVE  /\ \A c \in Conversations : Proper(calls', c, KeptIn(stored', c))
           /\ Read(calls', stored', dropped', next)
           /\ \A u \in Tabs : \/ conv'[u] = conv[u]
                              \/ Read(calls', stored', dropped', conv'[u])
<1>1. /\ stored' \in Seq(Conversation)
      /\ KeptIn(stored', next.id) = next.messages
      /\ \A c \in Conversations \ {next.id} :
            KeptIn(stored', c) = KeptIn(stored, c) \/ KeptIn(stored', c) = Blank
      /\ \A u \in Tabs : conv'[u] = conv[u] \/ conv'[u] = next
  BY PersistGrows
<1>2. \A c : Proper(calls', c, Blank) BY DEF Proper, Blank, Messages
<1>3. \A c \in Conversations : Proper(calls', c, KeptIn(stored, c))
  BY ProperStays DEF Sound
<1>4. \A c \in Conversations : Proper(calls', c, KeptIn(stored', c)) BY <1>1, <1>2, <1>3
<1>5. Read(calls', stored', dropped', next)
  <2>1. next.messages \in Messages BY DEF Conversation
  <2>2. NoneLess(next.messages, next.messages) BY <2>1, NoneLessOrder
  <2> QED BY <1>1, <2>2 DEF Read, Behind
<1> QED BY <1>1, <1>4, <1>5

(* A handler that starts adds its message to what is there.                *)
LEMMA WithMessageIs ==
    ASSUME Sound, NEW k \in Calls, NEW t \in Tabs, NEW message \in Message, calls[k] = None
    PROVE  LET next == WithMessage(k, t, message) IN
           /\ next \in Conversation /\ next.id = conv[t].id
           /\ NoneLess(KeptIn(stored, next.id), next.messages)
           /\ next.messages[k] = message
           /\ \A j \in Calls : j # k /\ next.messages[j] # None =>
                 calls[j] # None /\ calls[j].base.id = next.id
                 /\ (Runs(calls, j) => next.messages[j] = "working")
<1> DEFINE got == getConversation(conv[t].id, conv[t])
           next == WithMessage(k, t, message)
<1>1. conv[t] \in Conversation /\ conv[t].id \in Conversations /\ Read(calls, stored, dropped, conv[t])
  BY DEF Sound, TypeOK, Conversation
<1>2. Read(calls, stored, dropped, got) /\ got.id = conv[t].id
      /\ NoneLess(KeptIn(stored, conv[t].id), got.messages)
  BY <1>1, GetsRead
<1>3. next = [got EXCEPT !.messages[k] = message] BY DEF WithMessage
<1>4. got \in Conversation /\ got.messages \in Messages BY <1>2 DEF Read, Conversation
<1>5. Proper(calls, got.id, got.messages) BY <1>2 DEF Read
<1> HIDE DEF got
<1>6. /\ next.id = got.id
      /\ next.messages = [got.messages EXCEPT ![k] = message]
      /\ next \in [id : Conversations, messages : Messages]
  <2>1. [got.messages EXCEPT ![k] = message] \in Messages BY <1>4 DEF Messages
  <2> QED BY <1>3, <1>4, <2>1 DEF Conversation
<1> HIDE DEF next
<1>7. next.messages[k] = message /\ \A j \in Calls \ {k} : next.messages[j] = got.messages[j]
  BY <1>4, <1>6 DEF Messages
<1>8. NoneLess(KeptIn(stored, next.id), next.messages)
  <2>1. KeptIn(stored, next.id) \in Messages BY KeptTyped DEF Sound, TypeOK
  <2>2. KeptIn(stored, next.id)[k] = None
    BY <1>1, <1>2, <1>6 DEF Sound, Proper
  <2>3. \A j \in Calls : NoLess(KeptIn(stored, next.id)[j], got.messages[j])
    BY <1>2, <1>6 DEF NoneLess
  <2>4. NoLess(None, message) BY NoLessOrder DEF Said
  <2>5. \A j \in Calls : NoLess(KeptIn(stored, next.id)[j], next.messages[j])
    BY <1>7, <2>2, <2>3, <2>4
  <2> QED BY <2>5 DEF NoneLess
<1>9. \A j \in Calls : j # k /\ next.messages[j] # None =>
         calls[j] # None /\ calls[j].base.id = next.id
         /\ (Runs(calls, j) => next.messages[j] = "working")
  BY <1>5, <1>6, <1>7 DEF Proper
<1>10. next.id = conv[t].id BY <1>2, <1>6
<1> QED BY <1>6, <1>7, <1>8, <1>9, <1>10 DEF next, Conversation

LEMMA StartSound ==
    ASSUME Sound, NEW k \in Calls, NEW t \in Tabs, NEW message \in Message, calls[k] = None,
           NEW call \in Call, calls' = [calls EXCEPT ![k] = call],
           Persist(t, TRUE, WithMessage(k, t, message)),
           call.base.id = conv[t].id,
           call.state = "running" => message = "working",
           call.base = WithMessage(k, t, message) \/ call.base = createEmptyConversation(conv[t].id),
           UNCHANGED <<acts, jobs, interrupts>>,
           busy' \in [Tabs -> BOOLEAN], confirming' \in [Tabs -> BOOLEAN]
    PROVE  Sound' /\ AnswersStay
<1> DEFINE next == WithMessage(k, t, message)
<1>1. /\ next \in Conversation /\ next.id = conv[t].id
      /\ NoneLess(KeptIn(stored, next.id), next.messages)
      /\ next.messages[k] = message
      /\ \A j \in Calls : j # k /\ next.messages[j] # None =>
            calls[j] # None /\ calls[j].base.id = next.id
            /\ (Runs(calls, j) => next.messages[j] = "working")
  BY WithMessageIs
<1> HIDE DEF next
<1>2. calls' \in [Calls -> Call \cup {None}] /\ calls'[k] = call
      /\ \A j \in Calls \ {k} : calls'[j] = calls[j]
  BY DEF Sound, TypeOK
<1>3. call # None BY AssistantAssumption
<1>4. GoOn(calls, calls') BY <1>2 DEF GoOn, Runs
<1>5. Proper(calls', next.id, next.messages)
  <2>1. next.messages \in Messages BY <1>1 DEF Conversation
  <2>2. calls'[k] # None /\ calls'[k].base.id = next.id
        /\ (Runs(calls', k) => next.messages[k] = "working")
    BY <1>1, <1>2, <1>3 DEF Runs
  <2>3. ASSUME NEW j \in Calls, j # k, next.messages[j] # None
        PROVE  calls'[j] # None /\ calls'[j].base.id = next.id
               /\ (Runs(calls', j) => next.messages[j] = "working")
    BY <1>1, <1>2, <2>3 DEF Runs
  <2> QED BY <2>1, <2>2, <2>3 DEF Proper
<1>6. Persist(t, TRUE, next) BY DEF next
<1>7. /\ stored' \in Seq(Conversation) /\ Unique(stored')
      /\ dropped' \subseteq Conversations
      /\ conv' \in [Tabs -> Conversation]
      /\ Grown(stored, dropped, stored', dropped')
  BY <1>1, <1>6, PersistGrows
<1>8. /\ \A c \in Conversations : Proper(calls', c, KeptIn(stored', c))
      /\ Read(calls', stored', dropped', next)
      /\ \A u \in Tabs : \/ conv'[u] = conv[u]
                         \/ Read(calls', stored', dropped', conv'[u])
  BY <1>1, <1>4, <1>5, <1>6, KeptStays
<1>9. TypeOK' BY <1>2, <1>7 DEF Sound, TypeOK
<1>10. Read(calls', stored', dropped', call.base)
  <2>1. CASE call.base = next BY <1>8, <2>1
  <2>2. CASE call.base = createEmptyConversation(conv[t].id)
    <3>1. conv[t].id \in Conversations BY DEF Sound, TypeOK, Conversation
    <3>2. Read(calls, stored, dropped, call.base) BY <2>2, <3>1, EmptyRead
    <3> QED BY <1>4, <1>7, <3>2, ReadStays DEF Sound, TypeOK
  <2> QED BY <2>1, <2>2 DEF next
<1>11. \A j \in Calls : calls'[j] # None =>
          \/ calls[j] # None /\ calls'[j].base = calls[j].base
          \/ Read(calls', stored', dropped', calls'[j].base)
  BY <1>2, <1>10
<1>12. IsFiniteSet(acts') /\ \A act \in acts' : \E old \in acts : act.base = old.base /\ act.call = old.call
  BY DEF Sound
<1>13. AnswersStay BY <1>1, <1>6, PersistAnswers
<1> QED BY <1>4, <1>7, <1>8, <1>9, <1>11, <1>12, <1>13, SoundStays

LEMMA EmptyIs ==
    ASSUME NEW c \in Conversations
    PROVE  createEmptyConversation(c) \in Conversation /\ createEmptyConversation(c).id = c
  BY DEF createEmptyConversation, Conversation, Messages

LEMMA BeginSound ==
    ASSUME Sound, NEW k \in Calls, NEW t \in Tabs, NEW ends \in SUBSET Message, Begin(k, t, ends)
    PROVE  Sound' /\ AnswersStay
<1> DEFINE base == WithMessage(k, t, "working")
           call == [tab |-> t, mounted |-> TRUE, base |-> base, ends |-> ends, state |-> "running"]
<1>1. /\ calls[k] = None
      /\ busy' = [busy EXCEPT ![t] = TRUE]
      /\ Persist(t, TRUE, base)
      /\ calls' = [calls EXCEPT ![k] = call]
      /\ UNCHANGED <<confirming, acts, jobs, interrupts>>
  BY DEF Begin
<1>2. base \in Conversation /\ base.id = conv[t].id BY <1>1, WithMessageIs DEF Message
<1>3. call \in Call /\ call.base = base /\ call.state = "running" BY <1>2 DEF Call
<1>4. busy' \in [Tabs -> BOOLEAN] /\ confirming' \in [Tabs -> BOOLEAN]
  BY <1>1 DEF Sound, TypeOK
<1> HIDE DEF call
<1> QED BY <1>1, <1>2, <1>3, <1>4, StartSound DEF Message

LEMMA PromptSound ==
    ASSUME Sound, NEW k \in Calls, NEW t \in Tabs, submitPrompt(k, t)
    PROVE  Sound' /\ AnswersStay
<1>1. PromptEnds \subseteq SUBSET Message BY DEF PromptEnds, Message
<1> QED BY <1>1, BeginSound DEF submitPrompt

LEMMA AtOnceSound ==
    ASSUME Sound, NEW k \in Calls, NEW t \in Tabs, submitPromptAtOnce(k, t)
    PROVE  Sound' /\ AnswersStay
<1> DEFINE call == [tab |-> t, mounted |-> FALSE, ends |-> {}, state |-> "over",
                    base |-> createEmptyConversation(conv[t].id)]
<1>1. /\ calls[k] = None
      /\ Persist(t, TRUE, WithMessage(k, t, "answered"))
      /\ calls' = [calls EXCEPT ![k] = call]
      /\ UNCHANGED <<busy, confirming, acts, jobs, interrupts>>
  BY DEF submitPromptAtOnce
<1>2. conv[t].id \in Conversations BY DEF Sound, TypeOK, Conversation
<1>3. /\ call \in Call /\ call.base = createEmptyConversation(conv[t].id)
      /\ call.base.id = conv[t].id /\ call.state = "over"
  BY <1>2, EmptyIs DEF Call
<1>4. busy' \in [Tabs -> BOOLEAN] /\ confirming' \in [Tabs -> BOOLEAN]
  BY <1>1 DEF Sound, TypeOK
<1> HIDE DEF call
<1> QED BY <1>1, <1>3, <1>4, StartSound DEF Message

(* Steps that write nothing: what they may do to calls and confirmations.  *)
LEMMA UnwrittenSound ==
    ASSUME Sound, TypeOK', UNCHANGED <<stored, dropped>>, IsFiniteSet(acts'),
           GoOn(calls, calls'),
           \A t \in Tabs : conv'[t] = conv[t] \/ Read(calls, stored, dropped, conv'[t]),
           \A k \in Calls : calls'[k] # None =>
              \/ calls[k] # None /\ calls'[k].base = calls[k].base
              \/ Read(calls, stored, dropped, calls'[k].base),
           \A act \in acts' :
              \/ \E old \in acts : act.base = old.base /\ act.call = old.call
              \/ /\ Read(calls, stored, dropped, act.base)
                 /\ act.base.messages[act.call] = "preview"
    PROVE  Sound' /\ AnswersStay
<1>1. stored \in Seq(Conversation) /\ Unique(stored) BY DEF Sound, TypeOK
<1>2. Grown(stored, dropped, stored', dropped') BY StaysThere
<1>3. \A x : Read(calls, stored, dropped, x) => Read(calls', stored', dropped', x)
  BY <1>1, <1>2, ReadStays
<1>4. \A c \in Conversations : Proper(calls', c, KeptIn(stored', c))
  BY ProperStays DEF Sound
<1>5. Unique(stored') BY <1>1
<1>6. Sound' BY <1>2, <1>3, <1>4, <1>5, SoundStays
<1> QED BY <1>6, NothingWritten

LEMMA BeginThrowsSound ==
    ASSUME Sound, NEW k \in Calls, NEW t \in Tabs, BeginThrows(k, t)
    PROVE  Sound' /\ AnswersStay
<1> DEFINE call == [tab |-> t, mounted |-> FALSE, base |-> createEmptyConversation(conv[t].id),
                    ends |-> {}, state |-> "lost"]
<1>1. /\ calls[k] = None
      /\ interrupts' = [interrupts EXCEPT ![t] = @ + 1]
      /\ busy' = [busy EXCEPT ![t] = TRUE]
      /\ calls' = [calls EXCEPT ![k] = call]
      /\ UNCHANGED <<stored, conv, confirming, acts, jobs, dropped>>
  BY DEF BeginThrows, Interrupt
<1>2. conv[t].id \in Conversations BY DEF Sound, TypeOK, Conversation
<1>3. call \in Call /\ call.base = createEmptyConversation(conv[t].id) /\ call.state = "lost"
  BY <1>2, EmptyIs DEF Call
<1> HIDE DEF call
<1>4. TypeOK' BY <1>1, <1>3 DEF Sound, TypeOK
<1>5. calls'[k] = call /\ \A j \in Calls \ {k} : calls'[j] = calls[j]
  BY <1>1 DEF Sound, TypeOK
<1>6. GoOn(calls, calls') BY <1>1, <1>5 DEF GoOn, Runs
<1>7. Read(calls, stored, dropped, call.base) BY <1>2, <1>3, EmptyRead
<1>8. \A j \in Calls : calls'[j] # None =>
         \/ calls[j] # None /\ calls'[j].base = calls[j].base
         \/ Read(calls, stored, dropped, calls'[j].base)
  BY <1>5, <1>7
<1>9. IsFiniteSet(acts') BY <1>1 DEF Sound
<1> QED BY <1>1, <1>4, <1>6, <1>8, <1>9, UnwrittenSound

LEMMA ConfirmSound ==
    ASSUME Sound, NEW k \in Calls, NEW t \in Tabs, ConfirmAct(t, k)
    PROVE  Sound' /\ AnswersStay
<1> DEFINE act == [tab |-> t, left |-> 0, call |-> k, base |-> conv[t]]
<1>1. /\ conv[t].messages[k] = "preview"
      /\ confirming' = [confirming EXCEPT ![t] = TRUE]
      /\ acts' = acts \cup {act}
      /\ UNCHANGED <<stored, conv, busy, calls, jobs, interrupts, dropped>>
  BY DEF ConfirmAct
<1>2. act \in Act /\ act.base = conv[t] /\ act.call = k BY DEF Act, Sound, TypeOK
<1> HIDE DEF act
<1>3. TypeOK' BY <1>1, <1>2 DEF Sound, TypeOK
<1>4. Read(calls, stored, dropped, act.base) BY <1>2 DEF Sound
<1>5. GoOn(calls, calls') BY <1>1, StaysThere
<1>6. IsFiniteSet(acts') BY <1>1, FS_AddElement DEF Sound
<1>7. \A a \in acts' :
         \/ \E old \in acts : a.base = old.base /\ a.call = old.call
         \/ /\ Read(calls, stored, dropped, a.base)
            /\ a.base.messages[a.call] = "preview"
  BY <1>1, <1>2, <1>4
<1> QED BY <1>1, <1>3, <1>5, <1>6, <1>7, UnwrittenSound

LEMMA JobMadeTyped ==
    ASSUME Sound, NEW act \in acts PROVE JobMade(act) \in [Tabs \X Calls -> Nat]
<1>1. <<act.tab, act.call>> \in Tabs \X Calls BY DEF Sound, TypeOK, Act
<1> DEFINE key == <<act.tab, act.call>>
<1>2. jobs \in [Tabs \X Calls -> Nat] BY DEF Sound, TypeOK
<1>3. JobMade(act) = [jobs EXCEPT ![key] = @ + 1] BY DEF JobMade
<1> HIDE DEF key
<1>4. jobs[key] + 1 \in Nat BY <1>1, <1>2 DEF key
<1> QED BY <1>1, <1>2, <1>3, <1>4

LEMMA JobFailsSound ==
    ASSUME Sound, NEW act \in acts, JobFails(act)
    PROVE  Sound' /\ AnswersStay
<1>1. /\ acts' = acts \ {act}
      /\ confirming' = IF act.left = 0 THEN [confirming EXCEPT ![act.tab] = FALSE] ELSE confirming
      /\ interrupts' = [interrupts EXCEPT ![act.tab] = @ + 1]
      /\ jobs' \in {jobs, JobMade(act)}
      /\ UNCHANGED <<stored, conv, busy, calls, dropped>>
  BY DEF JobFails, ActOver, Interrupt
<1>2. TypeOK'
  <2>1. JobMade(act) \in [Tabs \X Calls -> Nat] BY JobMadeTyped
  <2>2. act.tab \in Tabs BY DEF Sound, TypeOK, Act
  <2>3. confirming' \in [Tabs -> BOOLEAN] /\ interrupts' \in [Tabs -> Nat]
    BY <1>1, <2>2 DEF Sound, TypeOK
  <2> QED BY <1>1, <2>1, <2>3 DEF Sound, TypeOK
<1>3. GoOn(calls, calls') BY <1>1, StaysThere
<1>4. IsFiniteSet(acts') BY <1>1, FS_RemoveElement DEF Sound
<1> QED BY <1>1, <1>2, <1>3, <1>4, UnwrittenSound

LEMMA EndedIs ==
    ASSUME NEW k \in Calls, calls[k] \in Call, NEW state \in {"over", "lost"}
    PROVE  LET call == Ended(k, state) IN
           /\ call \in Call /\ call # None /\ call.state = state
           /\ call.base = createEmptyConversation(calls[k].base.id)
           /\ call.base.id = calls[k].base.id
<1> DEFINE c == calls[k]
           empty == createEmptyConversation(c.base.id)
<1>1. c.base.id \in Conversations /\ c.base \in Conversation /\ c.tab \in Tabs
  BY DEF Call, Conversation
<1>2. empty \in Conversation /\ empty.id = c.base.id BY <1>1, EmptyIs
<1>3. Ended(k, state) = [c EXCEPT !.state = state, !.base = createEmptyConversation(@.id),
                                  !.ends = {}, !.mounted = FALSE]
  BY DEF Ended
<1> HIDE DEF c
<1>4. /\ Ended(k, state).state = state /\ Ended(k, state).base = empty
      /\ Ended(k, state) \in Call
  <2>1. c \in Call BY DEF c
  <2> HIDE DEF empty
  <2>2. createEmptyConversation(c.base.id) = empty BY DEF empty
  <2> QED BY <1>2, <1>3, <2>1, <2>2 DEF Call
<1> QED BY <1>2, <1>4, AssistantAssumption DEF c

LEMMA FinishThrowsSound ==
    ASSUME Sound, NEW k \in Calls, FinishThrows(k)
    PROVE  Sound' /\ AnswersStay /\ GoOn(calls, calls')
<1> DEFINE call == Ended(k, "lost")
<1>1. /\ Running(k)
      /\ interrupts' = [interrupts EXCEPT ![calls[k].tab] = @ + 1]
      /\ calls' = [calls EXCEPT ![k] = call]
      /\ busy' = IF calls[k].mounted THEN [busy EXCEPT ![calls[k].tab] = FALSE] ELSE busy
      /\ UNCHANGED <<stored, conv, confirming, acts, jobs, dropped>>
  BY DEF FinishThrows, Interrupt
<1>2. calls[k] \in Call BY <1>1 DEF Running, Sound, TypeOK
<1>3. /\ call \in Call /\ call.state = "lost" /\ call.base = createEmptyConversation(calls[k].base.id)
      /\ call.base.id = calls[k].base.id /\ call # None
  BY <1>2, EndedIs
<1> HIDE DEF call
<1>4. calls'[k] = call /\ \A j \in Calls \ {k} : calls'[j] = calls[j]
  BY <1>1 DEF Sound, TypeOK
<1>5. TypeOK'
  <2>1. calls[k].tab \in Tabs BY <1>2 DEF Call
  <2>2. busy' \in [Tabs -> BOOLEAN] /\ interrupts' \in [Tabs -> Nat]
    BY <1>1, <2>1 DEF Sound, TypeOK
  <2> QED BY <1>1, <1>3, <2>2 DEF Sound, TypeOK
<1>6. GoOn(calls, calls') BY <1>3, <1>4 DEF GoOn, Runs
<1>7. Read(calls, stored, dropped, call.base)
  <2>1. calls[k].base.id \in Conversations BY <1>2 DEF Call, Conversation
  <2> QED BY <1>3, <2>1, EmptyRead
<1>8. \A j \in Calls : calls'[j] # None =>
         \/ calls[j] # None /\ calls'[j].base = calls[j].base
         \/ Read(calls, stored, dropped, calls'[j].base)
  BY <1>4, <1>7
<1>9. IsFiniteSet(acts') BY <1>1 DEF Sound
<1> QED BY <1>1, <1>5, <1>6, <1>8, <1>9, UnwrittenSound

(* A handler that patches goes on from what is there, and its own message  *)
(* said that it was working.                                               *)
LEMMA PatchedIs ==
    ASSUME Sound, NEW k \in Calls, Running(k), NEW message \in Message
    PROVE  LET next == Patched(k, message) IN
           /\ next \in Conversation /\ next.id = calls[k].base.id
           /\ NoneLess(KeptIn(stored, next.id), next.messages)
           /\ next.messages[k] \in {None, message}
           /\ \A j \in Calls : j # k /\ next.messages[j] # None =>
                 calls[j] # None /\ calls[j].base.id = next.id
                 /\ (Runs(calls, j) => next.messages[j] = "working")
<1> DEFINE base == calls[k].base
           cur == getConversation(base.id, base)
           next == Patched(k, message)
<1>1. calls[k] # None /\ calls[k] \in Call /\ Runs(calls, k)
  BY DEF Running, Runs, Sound, TypeOK
<1>2. base.id \in Conversations /\ Read(calls, stored, dropped, base)
  BY <1>1 DEF Sound, Call, Conversation
<1>3. Read(calls, stored, dropped, cur) /\ cur.id = base.id
      /\ NoneLess(KeptIn(stored, base.id), cur.messages)
  BY <1>2, GetsRead
<1>4. next = IF cur.messages[k] = None THEN cur ELSE [cur EXCEPT !.messages[k] = message]
  BY DEF Patched
<1>5. cur \in Conversation /\ cur.messages \in Messages BY <1>3 DEF Read, Conversation
<1>6. Proper(calls, cur.id, cur.messages) BY <1>3 DEF Read
<1>7. cur.messages[k] \in {None, "working"} BY <1>1, <1>6 DEF Proper
<1> HIDE DEF cur, base, next
<1>8. CASE cur.messages[k] = None
  <2>1. next = cur BY <1>4, <1>8
  <2>2. \A j \in Calls : cur.messages[j] # None =>
           calls[j] # None /\ calls[j].base.id = cur.id
           /\ (Runs(calls, j) => cur.messages[j] = "working")
    BY <1>6 DEF Proper
  <2> QED BY <1>3, <1>5, <1>8, <2>1, <2>2 DEF next, base
<1>9. CASE cur.messages[k] = "working"
  <2>1. next = [cur EXCEPT !.messages[k] = message]
    BY <1>4, <1>9, AssistantAssumption DEF Message
  <2>2. [cur.messages EXCEPT ![k] = message] \in Messages BY <1>5 DEF Messages
  <2>3. /\ next \in Conversation /\ next.id = cur.id
        /\ next.messages = [cur.messages EXCEPT ![k] = message]
    BY <1>5, <2>1, <2>2 DEF Conversation
  <2>4. next.messages[k] = message /\ \A j \in Calls \ {k} : next.messages[j] = cur.messages[j]
    BY <1>5, <2>3 DEF Messages
  <2>5. NoneLess(KeptIn(stored, next.id), next.messages)
    <3>1. KeptIn(stored, base.id) \in Messages BY KeptTyped DEF Sound, TypeOK
    <3>2. \A j \in Calls : NoLess(KeptIn(stored, base.id)[j], cur.messages[j])
      BY <1>3 DEF NoneLess
    <3>3. NoLess("working", message)
      <4>1. CASE message \in {"answered", "imports", "confirmed", "working"}
        BY <4>1 DEF NoLess
      <4>2. CASE message = "preview"
        <5>1. Progressed[2] = "working" /\ Progressed[3] = "preview" BY DEF Progressed
        <5> QED BY <4>2, <5>1 DEF NoLess
      <4> QED BY <4>1, <4>2 DEF Message
    <3>4. KeptIn(stored, base.id)[k] \in Said /\ message \in Said /\ "working" \in Said
      BY <3>1 DEF Messages, Said, Message
    <3>5. NoLess(KeptIn(stored, base.id)[k], message)
      BY <1>9, <3>2, <3>3, <3>4, NoLessOrder
    <3>6. \A j \in Calls : NoLess(KeptIn(stored, base.id)[j], next.messages[j])
      BY <2>4, <3>2, <3>5
    <3> QED BY <1>3, <2>3, <3>6 DEF NoneLess
  <2>6. \A j \in Calls : j # k /\ next.messages[j] # None =>
           calls[j] # None /\ calls[j].base.id = next.id
           /\ (Runs(calls, j) => next.messages[j] = "working")
    BY <1>6, <2>3, <2>4 DEF Proper
  <2>7. next.id = calls[k].base.id BY <1>3, <2>3 DEF base
  <2> QED BY <2>3, <2>4, <2>5, <2>6, <2>7 DEF next
<1> QED BY <1>7, <1>8, <1>9

LEMMA PatchSound ==
    ASSUME Sound, NEW k \in Calls, Running(k), NEW message \in Message, Patch(k, message),
           (calls' = calls /\ message = "working") \/ calls' = [calls EXCEPT ![k] = Ended(k, "over")],
           UNCHANGED <<confirming, acts, jobs, interrupts>>, busy' \in [Tabs -> BOOLEAN]
    PROVE  Sound' /\ AnswersStay /\ GoOn(calls, calls')
<1> DEFINE next == Patched(k, message)
           t == calls[k].tab
           mounted == calls[k].mounted
<1>1. calls[k] # None /\ calls[k] \in Call BY DEF Running, Sound, TypeOK
<1>2. /\ next \in Conversation /\ next.id = calls[k].base.id
      /\ NoneLess(KeptIn(stored, next.id), next.messages)
      /\ next.messages[k] \in {None, message}
      /\ \A j \in Calls : j # k /\ next.messages[j] # None =>
            calls[j] # None /\ calls[j].base.id = next.id
            /\ (Runs(calls, j) => next.messages[j] = "working")
  BY PatchedIs
<1>3. t \in Tabs /\ Persist(t, mounted, next) BY <1>1 DEF Patch, Call
<1> HIDE DEF next, t, mounted
<1>4. /\ calls' \in [Calls -> Call \cup {None}]
      /\ \A j \in Calls \ {k} : calls'[j] = calls[j]
      /\ calls'[k] # None /\ calls'[k].base.id = calls[k].base.id
      /\ (Runs(calls', k) => message = "working" /\ Runs(calls, k))
      /\ calls'[k].base = calls[k].base
            \/ calls'[k].base = createEmptyConversation(calls[k].base.id)
  <2>1. CASE calls' = calls /\ message = "working" BY <1>1, <2>1 DEF Sound, TypeOK
  <2>2. CASE calls' = [calls EXCEPT ![k] = Ended(k, "over")]
    <3>1. /\ Ended(k, "over") \in Call /\ Ended(k, "over") # None
          /\ Ended(k, "over").state = "over"
          /\ Ended(k, "over").base = createEmptyConversation(calls[k].base.id)
          /\ Ended(k, "over").base.id = calls[k].base.id
      BY <1>1, EndedIs
    <3> QED BY <2>2, <3>1 DEF Runs, Sound, TypeOK
  <2> QED BY <2>1, <2>2
<1>5. GoOn(calls, calls') BY <1>4 DEF GoOn, Runs
<1>6. Proper(calls', next.id, next.messages)
  <2>1. next.messages \in Messages BY <1>2 DEF Conversation
  <2>2. next.messages[k] # None => calls'[k] # None /\ calls'[k].base.id = next.id
                                   /\ (Runs(calls', k) => next.messages[k] = "working")
    BY <1>2, <1>4
  <2>3. \A j \in Calls \ {k} : next.messages[j] # None =>
           calls'[j] # None /\ calls'[j].base.id = next.id
           /\ (Runs(calls', j) => next.messages[j] = "working")
    BY <1>2, <1>4 DEF Runs
  <2> QED BY <2>1, <2>2, <2>3 DEF Proper
<1>7. /\ stored' \in Seq(Conversation) /\ Unique(stored')
      /\ dropped' \subseteq Conversations
      /\ conv' \in [Tabs -> Conversation]
      /\ Grown(stored, dropped, stored', dropped')
  BY <1>2, <1>3, PersistGrows
<1>8. /\ \A c \in Conversations : Proper(calls', c, KeptIn(stored', c))
      /\ \A u \in Tabs : \/ conv'[u] = conv[u]
                         \/ Read(calls', stored', dropped', conv'[u])
  BY <1>2, <1>3, <1>5, <1>6, KeptStays
<1>9. TypeOK' BY <1>4, <1>7 DEF Sound, TypeOK
<1>10. ASSUME NEW j \in Calls, calls'[j] # None
       PROVE  \/ calls[j] # None /\ calls'[j].base = calls[j].base
              \/ Read(calls', stored', dropped', calls'[j].base)
  <2>1. CASE j # k BY <1>4, <1>10, <2>1
  <2>2. CASE j = k /\ calls'[k].base = createEmptyConversation(calls[k].base.id)
    <3>1. calls[k].base.id \in Conversations BY <1>1 DEF Call, Conversation
    <3>2. Read(calls, stored, dropped, calls'[k].base) BY <2>2, <3>1, EmptyRead
    <3>3. Read(calls', stored', dropped', calls'[k].base)
      BY <1>5, <1>7, <3>2, ReadStays DEF Sound, TypeOK
    <3> QED BY <2>2, <3>3
  <2> QED BY <1>1, <1>4, <2>1, <2>2
<1>11. IsFiniteSet(acts') /\ \A act \in acts' : \E old \in acts : act.base = old.base /\ act.call = old.call
  BY DEF Sound
<1>12. AnswersStay BY <1>2, <1>3, PersistAnswers
<1> QED BY <1>5, <1>7, <1>8, <1>9, <1>10, <1>11, <1>12, SoundStays

LEMMA ProgressSound ==
    ASSUME Sound, NEW k \in Calls, Progress(k) PROVE Sound' /\ AnswersStay /\ GoOn(calls, calls')
<1>1. busy' \in [Tabs -> BOOLEAN] BY DEF Progress, Sound, TypeOK
<1> QED BY <1>1, PatchSound DEF Progress, Message

LEMMA FinishSound ==
    ASSUME Sound, NEW k \in Calls, Finish(k) PROVE Sound' /\ AnswersStay /\ GoOn(calls, calls')
<1>1. calls[k] \in Call BY DEF Finish, Running, Sound, TypeOK
<1>2. busy' \in [Tabs -> BOOLEAN] BY <1>1 DEF Finish, Call, Sound, TypeOK
<1>3. PICK message \in calls[k].ends : Patch(k, message) BY DEF Finish
<1>4. message \in Message BY <1>1 DEF Call
<1> QED BY <1>2, <1>3, <1>4, PatchSound DEF Finish

(* A job that was made is told to what is there.                           *)
LEMMA AllConfirmedIs ==
    ASSUME Sound, NEW act \in acts
    PROVE  LET next == AllConfirmed(getConversation(act.base.id, act.base)) IN
           /\ next \in Conversation /\ next.id = act.base.id
           /\ NoneLess(KeptIn(stored, next.id), next.messages)
           /\ Proper(calls, next.id, next.messages)
           /\ \A j \in Calls : next.messages[j] # "preview"
<1> DEFINE base == act.base
           cur == getConversation(base.id, base)
           next == AllConfirmed(cur)
           marked == [k \in Calls |-> IF cur.messages[k] = "preview" THEN "confirmed" ELSE cur.messages[k]]
<1>1. act \in Act /\ base.id \in Conversations /\ Read(calls, stored, dropped, base)
  BY DEF Sound, TypeOK, Act, Conversation
<1>2. Read(calls, stored, dropped, cur) /\ cur.id = base.id
      /\ NoneLess(KeptIn(stored, base.id), cur.messages)
  BY <1>1, GetsRead
<1>3. cur \in Conversation /\ cur.messages \in Messages BY <1>2 DEF Read, Conversation
<1>4. Proper(calls, cur.id, cur.messages) BY <1>2 DEF Read
<1> HIDE DEF cur
<1>5. next = [cur EXCEPT !.messages = marked] BY DEF AllConfirmed
<1>6. marked \in Messages BY <1>3 DEF Messages, Message
<1>7. \A j \in Calls : /\ marked[j] = cur.messages[j] \/ (cur.messages[j] = "preview" /\ marked[j] = "confirmed")
                       /\ marked[j] # "preview"
  OBVIOUS
<1> HIDE DEF marked
<1>8. next \in Conversation /\ next.id = cur.id /\ next.messages = marked
  BY <1>3, <1>5, <1>6 DEF Conversation
<1> HIDE DEF next
<1>9. NoneLess(KeptIn(stored, base.id), marked)
  <2>1. KeptIn(stored, base.id) \in Messages BY KeptTyped DEF Sound, TypeOK
  <2>2. Progressed[3] = "preview" /\ Progressed[4] = "confirmed" BY DEF Progressed
  <2>3. NoLess("preview", "confirmed") BY <2>2 DEF NoLess
  <2>4. NoneLess(cur.messages, marked) BY <1>7, <2>3 DEF NoneLess, NoLess
  <2> QED BY <1>2, <1>3, <1>6, <2>1, <2>4, NoneLessOrder
<1>10. Proper(calls, cur.id, marked)
  <2>1. None # "preview" BY AssistantAssumption DEF Message
  <2> QED BY <1>4, <1>6, <1>7, <2>1 DEF Proper
<1>11. next.id = act.base.id BY <1>2, <1>8
<1> HIDE DEF base
<1> QED BY <1>2, <1>7, <1>8, <1>9, <1>10, <1>11 DEF next, cur, base

LEMMA JobCreatedSound ==
    ASSUME Sound, NEW act \in acts, JobCreated(act) PROVE Sound' /\ AnswersStay
<1> DEFINE next == AllConfirmed(getConversation(act.base.id, act.base))
<1>1. /\ next \in Conversation /\ next.id = act.base.id
      /\ NoneLess(KeptIn(stored, next.id), next.messages)
      /\ Proper(calls, next.id, next.messages)
  BY AllConfirmedIs
<1>2. act.tab \in Tabs /\ act \in Act BY DEF Sound, TypeOK, Act
<1>3. /\ acts' = acts \ {act}
      /\ confirming' = IF act.left = 0 THEN [confirming EXCEPT ![act.tab] = FALSE] ELSE confirming
      /\ jobs' = JobMade(act)
      /\ Persist(act.tab, act.left = 0, next)
      /\ UNCHANGED <<busy, calls, interrupts>>
  BY DEF JobCreated, ActOver
<1> HIDE DEF next
<1>4. /\ stored' \in Seq(Conversation) /\ Unique(stored')
      /\ dropped' \subseteq Conversations
      /\ conv' \in [Tabs -> Conversation]
      /\ Grown(stored, dropped, stored', dropped')
  BY <1>1, <1>2, <1>3, PersistGrows
<1>5. GoOn(calls, calls') /\ Proper(calls', next.id, next.messages) BY <1>1, <1>3, StaysThere
<1>6. /\ \A c \in Conversations : Proper(calls', c, KeptIn(stored', c))
      /\ \A u \in Tabs : \/ conv'[u] = conv[u]
                         \/ Read(calls', stored', dropped', conv'[u])
  BY <1>1, <1>2, <1>3, <1>5, KeptStays
<1>7. TypeOK'
  <2>1. JobMade(act) \in [Tabs \X Calls -> Nat] BY JobMadeTyped
  <2>2. confirming' \in [Tabs -> BOOLEAN] BY <1>2, <1>3 DEF Sound, TypeOK
  <2> QED BY <1>3, <1>4, <2>1, <2>2 DEF Sound, TypeOK
<1>8. IsFiniteSet(acts') BY <1>3, FS_RemoveElement DEF Sound
<1>9. AnswersStay BY <1>1, <1>2, <1>3, PersistAnswers
<1> QED BY <1>3, <1>4, <1>5, <1>6, <1>7, <1>8, <1>9, SoundStays

LEMMA OpenSound ==
    ASSUME Sound, NEW t \in Tabs, NEW c \in Conversations, Open(t, c)
    PROVE  Sound' /\ AnswersStay
<1> DEFINE got == getConversation(c, createEmptyConversation(c))
<1>1. /\ conv' = [conv EXCEPT ![t] = got]
      /\ UNCHANGED <<stored, busy, confirming, acts, calls, jobs, interrupts, dropped>>
  BY DEF Open
<1>2. Read(calls, stored, dropped, got) BY EmptyRead, GetsRead
<1> HIDE DEF got
<1>3. TypeOK' BY <1>1, <1>2 DEF Sound, TypeOK, Read
<1>4. GoOn(calls, calls') BY <1>1, StaysThere
<1>5. \A u \in Tabs : conv'[u] = conv[u] \/ Read(calls, stored, dropped, conv'[u])
  BY <1>1, <1>2 DEF Sound, TypeOK
<1>6. IsFiniteSet(acts') BY <1>1 DEF Sound
<1> QED BY <1>1, <1>3, <1>4, <1>5, <1>6, UnwrittenSound

(* A screen that is opened again shows what is stored.                     *)
LEMMA MountIs ==
    ASSUME Sound, NEW t \in Tabs, NEW c \in Conversations, Mount(t, c)
    PROVE  /\ interrupts' = [interrupts EXCEPT ![t] = @ + 1] /\ interrupts' \in [Tabs -> Nat]
           /\ interrupts'[t] = interrupts[t] + 1
           /\ \A u \in Tabs \ {t} : interrupts'[u] = interrupts[u]
           /\ busy' \in [Tabs -> BOOLEAN]
           /\ confirming' = [confirming EXCEPT ![t] = FALSE] /\ confirming' \in [Tabs -> BOOLEAN]
           /\ conv' \in [Tabs -> Conversation]
           /\ Read(calls, stored, dropped, conv'[t]) /\ conv'[t].id = c
           /\ c \in IdsIn(stored) => conv'[t].messages = KeptIn(stored, c)
           /\ \A u \in Tabs \ {t} : conv'[u] = conv[u]
           /\ UNCHANGED <<stored, dropped>>
<1> DEFINE got == getConversation(c, createEmptyConversation(c))
<1>1. /\ interrupts' = [interrupts EXCEPT ![t] = @ + 1]
      /\ busy' = [busy EXCEPT ![t] = FALSE]
      /\ confirming' = [confirming EXCEPT ![t] = FALSE]
      /\ conv' = [conv EXCEPT ![t] = got]
      /\ UNCHANGED <<stored, dropped>>
  BY DEF Mount, Interrupt
<1>2. Read(calls, stored, dropped, got) /\ got.id = c
      /\ (c \in IdsIn(stored) => got.messages = KeptIn(stored, c))
  BY EmptyRead, GetsRead
<1> HIDE DEF got
<1>3. got \in Conversation BY <1>2 DEF Read
<1>4. /\ interrupts \in [Tabs -> Nat] /\ busy \in [Tabs -> BOOLEAN]
      /\ confirming \in [Tabs -> BOOLEAN] /\ conv \in [Tabs -> Conversation]
  BY DEF Sound, TypeOK
<1> QED BY <1>1, <1>2, <1>3, <1>4

LEMMA ReturnSound ==
    ASSUME Sound, NEW t \in Tabs, NEW c \in Conversations, Return(t, c)
    PROVE  Sound' /\ AnswersStay /\ GoOn(calls, calls')
<1>1. /\ calls' = [k \in Calls |-> IF Running(k) /\ calls[k].tab = t
                                      THEN [calls[k] EXCEPT !.mounted = FALSE] ELSE calls[k]]
      /\ acts' = {Left(act, t) : act \in acts}
      /\ jobs' = jobs
      /\ Mount(t, c)
  BY DEF Return
<1>2. /\ interrupts' \in [Tabs -> Nat]
      /\ busy' \in [Tabs -> BOOLEAN] /\ confirming' \in [Tabs -> BOOLEAN]
      /\ conv' \in [Tabs -> Conversation]
      /\ Read(calls, stored, dropped, conv'[t])
      /\ \A u \in Tabs \ {t} : conv'[u] = conv[u]
      /\ UNCHANGED <<stored, dropped>>
  BY <1>1, MountIs
<1>3. ASSUME NEW k \in Calls
      PROVE  /\ calls'[k] \in Call \cup {None}
             /\ (calls'[k] # None <=> calls[k] # None)
             /\ calls[k] # None => /\ calls'[k].base = calls[k].base
                                   /\ calls'[k].state = calls[k].state
  <2>1. calls[k] \in Call \cup {None} BY DEF Sound, TypeOK
  <2>2. CASE Running(k) /\ calls[k].tab = t
    <3>1. calls[k] \in Call /\ calls[k] # None BY <2>1, <2>2 DEF Running
    <3>2. calls'[k] = [calls[k] EXCEPT !.mounted = FALSE] BY <1>1, <2>2
    <3>3. /\ calls'[k] \in Call /\ calls'[k].base = calls[k].base
          /\ calls'[k].state = calls[k].state
      BY <3>1, <3>2 DEF Call
    <3> QED BY <3>1, <3>3, AssistantAssumption
  <2>3. CASE ~(Running(k) /\ calls[k].tab = t) BY <1>1, <2>1, <2>3
  <2> QED BY <2>2, <2>3
<1>4. ASSUME NEW act \in acts
      PROVE  /\ Left(act, t) \in Act
             /\ Left(act, t).base = act.base /\ Left(act, t).call = act.call
  <2>1. act \in Act BY DEF Sound, TypeOK
  <2>2. interrupts'[t] \in Nat BY <1>2
  <2> QED BY <2>1, <2>2 DEF Left, Act
<1>5. IsFiniteSet(acts')
  <2> DEFINE left == [act \in acts |-> Left(act, t)]
  <2>1. left \in Surjection(acts, acts') BY <1>1 DEF Surjection
  <2> QED BY <2>1, FS_Surjection DEF Sound
<1>6. acts' \subseteq Act /\ \A act \in acts' : \E old \in acts : act.base = old.base /\ act.call = old.call
  BY <1>1, <1>4
<1>7. TypeOK'
  <2>1. calls' \in [Calls -> Call \cup {None}] BY <1>1, <1>3
  <2> QED BY <1>1, <1>2, <1>6, <2>1 DEF Sound, TypeOK
<1>8. GoOn(calls, calls') BY <1>3 DEF GoOn, Runs
<1> QED BY <1>2, <1>3, <1>5, <1>6, <1>7, <1>8, UnwrittenSound

LEMMA ReloadSound ==
    ASSUME Sound, NEW t \in Tabs, NEW c \in Conversations, Reload(t, c)
    PROVE  Sound' /\ AnswersStay /\ GoOn(calls, calls')
<1>1. /\ calls' = [k \in Calls |-> IF Running(k) /\ calls[k].tab = t
                                      THEN Ended(k, "lost") ELSE calls[k]]
      /\ acts' = {act \in acts : act.tab # t}
      /\ Mount(t, c)
  BY DEF Reload
<1>2. PICK made \in SUBSET {act \in acts : act.tab = t} :
          jobs' = [x \in Tabs \X Calls |->
                      jobs[x] + Cardinality({act \in made : x = <<t, act.call>>})]
  BY DEF Reload
<1>3. jobs' \in [Tabs \X Calls -> Nat]
  <2>1. ASSUME NEW x \in Tabs \X Calls
        PROVE  Cardinality({act \in made : x = <<t, act.call>>}) \in Nat
    <3>1. {act \in made : x = <<t, act.call>>} \subseteq acts BY <1>2
    <3>2. IsFiniteSet({act \in made : x = <<t, act.call>>}) BY <3>1, FS_Subset DEF Sound
    <3> QED BY <3>2, FS_CardinalityType
  <2>2. \A x \in Tabs \X Calls : jobs[x] \in Nat BY DEF Sound, TypeOK
  <2> QED BY <1>2, <2>1, <2>2
<1>4. /\ interrupts' \in [Tabs -> Nat]
      /\ busy' \in [Tabs -> BOOLEAN] /\ confirming' \in [Tabs -> BOOLEAN]
      /\ conv' \in [Tabs -> Conversation]
      /\ Read(calls, stored, dropped, conv'[t])
      /\ \A u \in Tabs \ {t} : conv'[u] = conv[u]
      /\ UNCHANGED <<stored, dropped>>
  BY <1>1, MountIs
<1>5. ASSUME NEW k \in Calls
      PROVE  /\ calls'[k] \in Call \cup {None}
             /\ (calls'[k] # None <=> calls[k] # None)
             /\ calls[k] # None =>
                   /\ calls'[k].base.id = calls[k].base.id
                   /\ (Runs(calls', k) => Runs(calls, k))
                   /\ \/ calls'[k].base = calls[k].base
                      \/ Read(calls, stored, dropped, calls'[k].base)
  <2>1. calls[k] \in Call \cup {None} BY DEF Sound, TypeOK
  <2>2. CASE Running(k) /\ calls[k].tab = t
    <3>1. calls[k] \in Call /\ calls[k] # None BY <2>1, <2>2 DEF Running
    <3>2. calls'[k] = Ended(k, "lost") BY <1>1, <2>2
    <3>3. /\ calls'[k] \in Call /\ calls'[k] # None /\ calls'[k].state = "lost"
          /\ calls'[k].base = createEmptyConversation(calls[k].base.id)
          /\ calls'[k].base.id = calls[k].base.id
      BY <3>1, <3>2, EndedIs
    <3>4. calls[k].base.id \in Conversations BY <3>1 DEF Call, Conversation
    <3>5. Read(calls, stored, dropped, calls'[k].base) BY <3>3, <3>4, EmptyRead
    <3> QED BY <3>1, <3>3, <3>5 DEF Runs
  <2>3. CASE ~(Running(k) /\ calls[k].tab = t)
    <3>1. calls'[k] = calls[k] BY <1>1, <2>3
    <3> QED BY <2>1, <3>1 DEF Runs
  <2> QED BY <2>2, <2>3
<1>6. IsFiniteSet(acts') /\ acts' \subseteq acts BY <1>1, FS_Subset DEF Sound
<1>7. TypeOK'
  <2>1. calls' \in [Calls -> Call \cup {None}] BY <1>1, <1>5
  <2> QED BY <1>3, <1>4, <1>6, <2>1 DEF Sound, TypeOK
<1>8. GoOn(calls, calls') BY <1>5 DEF GoOn
<1> QED BY <1>4, <1>5, <1>6, <1>7, <1>8, UnwrittenSound

LEMMA InitSound == Init => Sound
<1> SUFFICES ASSUME Init PROVE Sound OBVIOUS
<1>1. \A c \in Conversations :
         createEmptyConversation(c) = [id |-> c, messages |-> Blank]
         /\ createEmptyConversation(c) \in Conversation
  BY EmptyIs DEF createEmptyConversation, Blank
<1>2. stored = <<>> /\ stored \in Seq(Conversation) /\ IdsIn(stored) = {} /\ Unique(stored)
  BY DEF Init, IdsIn, ToSet, Unique
<1>3. \A c : KeptIn(stored, c) = Blank BY <1>2 DEF KeptIn, Blank
<1>4. Blank \in Messages /\ \A c : Proper(calls, c, Blank) BY DEF Proper, Blank, Messages
<1>5. \A t \in Tabs : conv[t] \in Conversation /\ conv[t].messages = Blank
  BY <1>1 DEF Init
<1>6. \A t \in Tabs : Read(calls, stored, dropped, conv[t])
  BY <1>3, <1>4, <1>5, NoneLessOrder DEF Read, Behind
<1>7. TypeOK BY <1>1, <1>2 DEF Init, TypeOK
<1>8. IsFiniteSet(acts) BY FS_EmptySet DEF Init
<1>9. \A k \in Calls : calls[k] = None BY DEF Init
<1>10. acts = {} BY DEF Init
<1> QED BY <1>2, <1>3, <1>4, <1>6, <1>7, <1>8, <1>9, <1>10 DEF Sound

LEMMA UnchangedSound ==
    ASSUME Sound, UNCHANGED vars PROVE Sound' /\ AnswersStay
<1>1. UNCHANGED <<stored, conv, busy, confirming, acts, calls, jobs, interrupts, dropped>>
  BY DEF vars, shown
<1>2. TypeOK' BY <1>1 DEF Sound, TypeOK
<1>3. GoOn(calls, calls') BY <1>1, StaysThere
<1>4. IsFiniteSet(acts') BY <1>1 DEF Sound
<1> QED BY <1>1, <1>2, <1>3, <1>4, UnwrittenSound

LEMMA StepSound == Sound /\ [Next]_vars => Sound' /\ AnswersStay
<1> SUFFICES ASSUME Sound, [Next]_vars PROVE Sound' /\ AnswersStay OBVIOUS
<1>1. ASSUME NEW t \in Tabs, AssistantScreen(t) PROVE Sound' /\ AnswersStay
  <2>1. ASSUME NEW k \in Calls,
               \/ submitPrompt(k, t) \/ submitPromptAtOnce(k, t)
               \/ onUploadCv(k, t) \/ confirmIngest(k, t) \/ BeginThrows(k, t)
               \/ ConfirmAct(t, k)
        PROVE  Sound' /\ AnswersStay
    <3>1. CASE onUploadCv(k, t) BY <3>1, BeginSound DEF onUploadCv, UploadEnds, Message
    <3>2. CASE confirmIngest(k, t) BY <3>2, BeginSound DEF confirmIngest, ConfirmEnds, Message
    <3> QED BY <2>1, <3>1, <3>2, PromptSound, AtOnceSound, BeginThrowsSound, ConfirmSound
  <2>2. ASSUME NEW c \in Conversations, Open(t, c) \/ Return(t, c) \/ Reload(t, c)
        PROVE  Sound' /\ AnswersStay
    BY <2>2, OpenSound, ReturnSound, ReloadSound
  <2> QED BY <1>1, <2>1, <2>2 DEF AssistantScreen
<1>2. ASSUME NEW k \in Calls, Progress(k) \/ Finish(k) \/ FinishThrows(k)
      PROVE  Sound' /\ AnswersStay
  BY <1>2, ProgressSound, FinishSound, FinishThrowsSound
<1>3. ASSUME NEW act \in acts, JobCreated(act) \/ JobFails(act)
      PROVE  Sound' /\ AnswersStay
  BY <1>3, JobCreatedSound, JobFailsSound
<1> QED BY <1>1, <1>2, <1>3, UnchangedSound DEF Next

(* Every copy of a conversation that a screen, a handler or a confirmation *)
(* holds is typed, and behind what is stored.                              *)
THEOREM CopiesStaySound == Spec => []Sound
<1>1. Init => Sound BY InitSound
<1>2. Sound /\ [Next]_vars => Sound' BY StepSound
<1> QED BY <1>1, <1>2, PTL DEF Spec

(* The variables keep their types.                                         *)
THEOREM AssistantTyped == Spec => []TypeOK
<1>1. Sound => TypeOK BY DEF Sound
<1> QED BY <1>1, CopiesStaySound, PTL

(* No handler takes back what another one has written (patchAssistant,     *)
(* onConfirmAct).                                                          *)
THEOREM AnswersAreKept == Spec => AnswersKept
<1>1. Sound /\ [Next]_vars => [AnswersStay]_vars BY StepSound
<1>2. AnswersStay <=> \A c \in IdsIn(stored) \cap IdsIn(stored') :
                         NoneLess(KeptIn(stored, c), KeptIn(stored', c))
  BY DEF AnswersStay
<1> QED BY <1>1, <1>2, CopiesStaySound, PTL DEF Spec, AnswersKept

(* What a tab shows is in localStorage, unless its conversation was once   *)
(* cut from the list (persist, upsertConversation).                        *)
THEOREM ShownStaysKept == Spec => []ShownIsKept
<1>1. Sound => ShownIsKept BY DEF Sound, Read, Behind, ShownIsKept
<1> QED BY <1>1, CopiesStaySound, PTL

-----------------------------------------------------------------------------
(* What a second job costs: the jobs made from a preview and those being   *)
(* made are no more than the interrupts and one; and when they are as      *)
(* many, a confirmation of it holds the screen, or it is no preview any    *)
(* more, neither in localStorage nor on the screen.                        *)

Pending(as, t, k) == {act \in as : act.tab = t /\ act.call = k}

Spent(as, js, t, k) == js[<<t, k>>] + Cardinality(Pending(as, t, k))

Unmade(cs, k) == cs[k] = None \/ Runs(cs, k)

Covered(list, screen, as, t, k, c) ==
    \/ \E act \in as : act.tab = t /\ act.call = k /\ act.left = 0
    \/ /\ KeptIn(list, c)[k] # "preview"
       /\ screen.id = c => screen.messages[k] # "preview"

OneHolds(as, holds) ==
    /\ \A act \in as : act.left = 0 => holds[act.tab]
    /\ \A a, b \in as : a.left = 0 /\ b.left = 0 /\ a.tab = b.tab => a = b

Counted ==
    /\ OneHolds(acts, confirming)
    /\ \A t \in Tabs, k \in Calls : Unmade(calls, k) => jobs[<<t, k>>] = 0
    /\ \A t \in Tabs, k \in Calls :
          ~Unmade(calls, k) /\ calls[k].base.id \notin dropped =>
             /\ Spent(acts, jobs, t, k) <= interrupts[t] + 1
             /\ Spent(acts, jobs, t, k) = interrupts[t] + 1 =>
                   Covered(stored, conv[t], acts, t, k, calls[k].base.id)

LEMMA PendingFinite ==
    ASSUME Sound, NEW t \in Tabs, NEW k \in Calls
    PROVE  /\ IsFiniteSet(Pending(acts, t, k))
           /\ Cardinality(Pending(acts, t, k)) \in Nat
           /\ jobs[<<t, k>>] \in Nat /\ Spent(acts, jobs, t, k) \in Nat
           /\ jobs[<<t, k>>] <= Spent(acts, jobs, t, k)
<1>1. Pending(acts, t, k) \subseteq acts BY DEF Pending
<1>2. IsFiniteSet(Pending(acts, t, k)) BY <1>1, FS_Subset DEF Sound
<1>3. Cardinality(Pending(acts, t, k)) \in Nat BY <1>2, FS_CardinalityType
<1>4. jobs[<<t, k>>] \in Nat BY DEF Sound, TypeOK
<1> QED BY <1>2, <1>3, <1>4 DEF Spent

(* A confirmation is of a preview, so its call was made and is over.       *)
LEMMA ActIsMade ==
    ASSUME Sound, NEW act \in acts
    PROVE  /\ act.tab \in Tabs /\ act.call \in Calls
           /\ ~Unmade(calls, act.call) /\ calls[act.call].base.id = act.base.id
<1>1. act \in Act BY DEF Sound, TypeOK
<1>2. Proper(calls, act.base.id, act.base.messages) /\ act.base.messages[act.call] = "preview"
  BY DEF Sound, Read
<1>3. None # "preview" BY AssistantAssumption DEF Message
<1> QED BY <1>1, <1>2, <1>3 DEF Act, Proper, Unmade

LEMMA UnmadeSpent ==
    ASSUME Sound, Counted, NEW t \in Tabs, NEW k \in Calls, Unmade(calls, k)
    PROVE  Spent(acts, jobs, t, k) = 0
<1>1. jobs[<<t, k>>] = 0 BY DEF Counted
<1>2. Pending(acts, t, k) = {} BY ActIsMade DEF Pending
<1> QED BY <1>1, <1>2, FS_EmptySet DEF Spent

(* No copy brings a preview back.                                          *)
Uncovers(next) ==
    \E j \in Calls : /\ next.messages[j] = "preview" /\ ~Unmade(calls, j) /\ next.id \notin dropped
                     /\ KeptIn(stored, next.id)[j] # "preview"

LEMMA CoveredStays ==
    ASSUME Sound, NEW t \in Tabs, NEW mounted, NEW next \in Conversation,
           NoneLess(KeptIn(stored, next.id), next.messages), Persist(t, mounted, next),
           ~Uncovers(next), NEW u \in Tabs, NEW k \in Calls, ~Unmade(calls, k),
           NEW c \in Conversations, c \notin dropped,
           Covered(stored, conv[u], acts, u, k, c)
    PROVE  Covered(stored', conv'[u], acts, u, k, c)
<1>1. /\ KeptIn(stored', next.id) = next.messages
      /\ \A d \in Conversations \ {next.id} :
            KeptIn(stored', d) = KeptIn(stored, d) \/ KeptIn(stored', d) = Blank
      /\ conv'[u] = conv[u] \/ conv'[u] = next
  BY PersistGrows
<1> SUFFICES ASSUME KeptIn(stored, c)[k] # "preview",
                    conv[u].id = c => conv[u].messages[k] # "preview"
             PROVE  /\ KeptIn(stored', c)[k] # "preview"
                    /\ conv'[u].id = c => conv'[u].messages[k] # "preview"
  BY DEF Covered
<1>2. next.id = c => next.messages[k] # "preview" BY DEF Uncovers
<1>3. Blank[k] # "preview" BY AssistantAssumption DEF Blank, Message
<1> QED BY <1>1, <1>2, <1>3

LEMMA GotUncovers ==
    ASSUME Sound, NEW x, Read(calls, stored, dropped, x), x.id \notin dropped
    PROVE  getConversation(x.id, x).messages = KeptIn(stored, x.id)
<1>1. x.id \in Conversations /\ x.messages \in Messages BY DEF Read, Conversation
<1>2. CASE x.id \in IdsIn(stored) BY <1>1, <1>2, GetsRead
<1>3. CASE x.id \notin IdsIn(stored)
  <2>1. KeptIn(stored, x.id) = Blank BY <1>3, KeptTyped DEF Sound, TypeOK
  <2>2. NoneLess(x.messages, Blank) BY <2>1 DEF Read, Behind
  <2>3. x.messages = Blank BY <1>1, <2>2, NoneLessOrder DEF Blank, Messages
  <2> QED BY <1>3, <2>1, <2>3 DEF getConversation
<1> QED BY <1>2, <1>3

(* Writes by which nothing is confirmed.                                   *)
LEMMA WriteCounted ==
    ASSUME Sound, Sound', Counted, GoOn(calls, calls'),
           NEW t \in Tabs, NEW mounted, NEW next \in Conversation,
           NoneLess(KeptIn(stored, next.id), next.messages), Persist(t, mounted, next),
           ~Uncovers(next), UNCHANGED <<confirming, acts, jobs, interrupts>>
    PROVE  Counted'
<1>1. \A k \in Calls : Unmade(calls', k) => Unmade(calls, k) BY DEF GoOn, Unmade
<1>2. ASSUME NEW u \in Tabs, NEW k \in Calls, ~Unmade(calls', k), calls'[k].base.id \notin dropped'
      PROVE  /\ Spent(acts', jobs', u, k) <= interrupts'[u] + 1
             /\ Spent(acts', jobs', u, k) = interrupts'[u] + 1 =>
                   Covered(stored', conv'[u], acts', u, k, calls'[k].base.id)
  <2>1. Spent(acts', jobs', u, k) = Spent(acts, jobs, u, k) OBVIOUS
  <2>2. interrupts[u] \in Nat /\ interrupts'[u] = interrupts[u] BY DEF Sound, TypeOK
  <2>3. CASE Unmade(calls, k)
    <3>1. Spent(acts, jobs, u, k) = 0 BY <2>3, UnmadeSpent
    <3> QED BY <2>1, <2>2, <3>1
  <2>4. CASE ~Unmade(calls, k)
    <3> DEFINE c == calls[k].base.id
    <3>1. calls[k] # None BY <2>4 DEF Unmade
    <3>2. calls'[k].base.id = c BY <3>1 DEF GoOn
    <3>3. c \in Conversations BY <3>1 DEF Sound, Read, Conversation
    <3>4. Grown(stored, dropped, stored', dropped') BY PersistGrows
    <3>5. c \notin dropped BY <1>2, <3>2, <3>3, <3>4 DEF Grown
    <3>6. /\ Spent(acts, jobs, u, k) <= interrupts[u] + 1
          /\ Spent(acts, jobs, u, k) = interrupts[u] + 1 =>
                Covered(stored, conv[u], acts, u, k, c)
      BY <2>4, <3>5 DEF Counted
    <3> HIDE DEF c
    <3>7. Covered(stored, conv[u], acts, u, k, c) => Covered(stored', conv'[u], acts, u, k, c)
      BY <2>4, <3>3, <3>5, CoveredStays
    <3> QED BY <2>1, <2>2, <3>2, <3>6, <3>7
  <2> QED BY <2>3, <2>4
<1>3. \A u \in Tabs, k \in Calls : Unmade(calls', k) => jobs'[<<u, k>>] = 0
  BY <1>1 DEF Counted
<1>4. OneHolds(acts', confirming') BY DEF Counted
<1> QED BY <1>2, <1>3, <1>4 DEF Counted

(* Interrupts by which no job is made that was not being made.             *)
LEMMA InterruptCounted ==
    ASSUME Sound, Sound', Counted, GoOn(calls, calls'), NEW t \in Tabs,
           UNCHANGED <<stored, dropped>>, interrupts' = [interrupts EXCEPT ![t] = @ + 1],
           \A k \in Calls : Spent(acts', jobs', t, k) <= Spent(acts, jobs, t, k),
           \A u \in Tabs \ {t} :
              /\ conv'[u] = conv[u]
              /\ \A k \in Calls : /\ Pending(acts', u, k) = Pending(acts, u, k)
                                  /\ jobs'[<<u, k>>] = jobs[<<u, k>>],
           OneHolds(acts', confirming')
    PROVE  Counted'
<1>1. \A k \in Calls : Unmade(calls', k) => Unmade(calls, k) BY DEF GoOn, Unmade
<1>2. \A u \in Tabs : interrupts[u] \in Nat /\ interrupts'[u] = IF u = t THEN interrupts[u] + 1 ELSE interrupts[u]
  BY DEF Sound, TypeOK
<1>3. \A u \in Tabs, k \in Calls : /\ Spent(acts', jobs', u, k) <= Spent(acts, jobs, u, k)
                                   /\ u # t => Spent(acts', jobs', u, k) = Spent(acts, jobs, u, k)
  <2> SUFFICES ASSUME NEW u \in Tabs, NEW k \in Calls, u # t
               PROVE  Spent(acts', jobs', u, k) = Spent(acts, jobs, u, k)
                      /\ Spent(acts, jobs, u, k) \in Nat
    OBVIOUS
  <2> QED BY PendingFinite DEF Spent
<1>4. ASSUME NEW u \in Tabs, NEW k \in Calls, ~Unmade(calls', k), calls'[k].base.id \notin dropped'
      PROVE  /\ Spent(acts', jobs', u, k) <= interrupts'[u] + 1
             /\ Spent(acts', jobs', u, k) = interrupts'[u] + 1 =>
                   Covered(stored', conv'[u], acts', u, k, calls'[k].base.id)
  <2>1. Spent(acts, jobs, u, k) \in Nat /\ Spent(acts', jobs', u, k) \in Nat
    <3>1. Spent(acts, jobs, u, k) \in Nat BY PendingFinite
    <3>2. IsFiniteSet(Pending(acts', u, k))
      <4>1. Pending(acts', u, k) \subseteq acts' BY DEF Pending
      <4> QED BY <4>1, FS_Subset DEF Sound
    <3>3. jobs'[<<u, k>>] \in Nat BY DEF Sound, TypeOK
    <3> QED BY <3>1, <3>2, <3>3, FS_CardinalityType DEF Spent
  <2>2. CASE Unmade(calls, k)
    <3>1. Spent(acts, jobs, u, k) = 0 BY <2>2, UnmadeSpent
    <3>2. Spent(acts', jobs', u, k) = 0 BY <1>3, <2>1, <3>1
    <3> QED BY <1>2, <3>2
  <2>3. CASE ~Unmade(calls, k)
    <3> DEFINE c == calls[k].base.id
    <3>1. calls[k] # None BY <2>3 DEF Unmade
    <3>2. calls'[k].base.id = c BY <3>1 DEF GoOn
    <3>3. /\ Spent(acts, jobs, u, k) <= interrupts[u] + 1
          /\ Spent(acts, jobs, u, k) = interrupts[u] + 1 =>
                Covered(stored, conv[u], acts, u, k, c)
      BY <1>4, <2>3, <3>2 DEF Counted
    <3> HIDE DEF c
    <3>4. CASE u = t BY <1>2, <1>3, <2>1, <3>3, <3>4
    <3>5. CASE u # t
      <4>1. Pending(acts', u, k) = Pending(acts, u, k) /\ conv'[u] = conv[u] BY <3>5
      <4>2. (\E act \in acts : act.tab = u /\ act.call = k /\ act.left = 0)
              => \E act \in acts' : act.tab = u /\ act.call = k /\ act.left = 0
        BY <4>1 DEF Pending
      <4>3. Covered(stored, conv[u], acts, u, k, c) => Covered(stored', conv'[u], acts', u, k, c)
        BY <4>1, <4>2 DEF Covered
      <4> QED BY <1>2, <1>3, <3>2, <3>3, <3>5, <4>3
    <3> QED BY <3>4, <3>5
  <2> QED BY <2>2, <2>3
<1>5. ASSUME NEW u \in Tabs, NEW k \in Calls, Unmade(calls', k) PROVE jobs'[<<u, k>>] = 0
  <2>1. Spent(acts, jobs, u, k) = 0 BY <1>1, <1>5, UnmadeSpent
  <2>2. Spent(acts', jobs', u, k) <= 0 BY <1>3, <2>1
  <2>3. jobs'[<<u, k>>] \in Nat BY DEF Sound, TypeOK
  <2>4. IsFiniteSet(Pending(acts', u, k))
    <3>1. Pending(acts', u, k) \subseteq acts' BY DEF Pending
    <3> QED BY <3>1, FS_Subset DEF Sound
  <2>5. Cardinality(Pending(acts', u, k)) \in Nat BY <2>4, FS_CardinalityType
  <2> QED BY <2>2, <2>3, <2>5 DEF Spent
<1> QED BY <1>4, <1>5 DEF Counted

LEMMA OneMore ==
    ASSUME NEW S, IsFiniteSet(S), NEW x
    PROVE  Cardinality(S \cup {x}) <= Cardinality(S) + 1 /\ Cardinality(S \cup {x}) \in Nat
<1>1. Cardinality(S) \in Nat BY FS_CardinalityType
<1>2. Cardinality(S \cup {x}) = IF x \in S THEN Cardinality(S) ELSE Cardinality(S) + 1
  BY FS_AddElement
<1> QED BY <1>1, <1>2

LEMMA OneLess ==
    ASSUME NEW S, IsFiniteSet(S), NEW x \in S
    PROVE  Cardinality(S \ {x}) + 1 = Cardinality(S) /\ Cardinality(S \ {x}) \in Nat
<1>1. IsFiniteSet(S \ {x}) /\ Cardinality(S \ {x}) = Cardinality(S) - 1 BY FS_RemoveElement
<1>2. Cardinality(S) \in Nat /\ Cardinality(S \ {x}) \in Nat BY <1>1, FS_CardinalityType
<1> QED BY <1>1, <1>2

LEMMA BeginCounted ==
    ASSUME Sound, Sound', Counted, NEW k \in Calls, NEW t \in Tabs, calls[k] = None,
           NEW message \in Message, message # "preview", NEW call,
           Persist(t, TRUE, WithMessage(k, t, message)), calls' = [calls EXCEPT ![k] = call],
           UNCHANGED <<confirming, acts, jobs, interrupts>>
    PROVE  Counted'
<1> DEFINE got == getConversation(conv[t].id, conv[t])
           next == WithMessage(k, t, message)
<1>1. /\ next \in Conversation /\ next.id = conv[t].id
      /\ NoneLess(KeptIn(stored, next.id), next.messages)
  BY WithMessageIs
<1>2. GoOn(calls, calls') BY DEF GoOn, Runs, Sound, TypeOK
<1>3. ~Uncovers(next)
  <2>1. Read(calls, stored, dropped, conv[t]) BY DEF Sound
  <2>2. Read(calls, stored, dropped, got) BY <2>1, GetsRead DEF Read, Conversation
  <2>3. got \in Conversation /\ got.messages \in Messages BY <2>2 DEF Read, Conversation
  <2>4. next = [got EXCEPT !.messages[k] = message] BY DEF WithMessage
  <2>5. conv[t].id \notin dropped => got.messages = KeptIn(stored, conv[t].id)
    BY <2>1, GotUncovers
  <2> HIDE DEF got, next
  <2>6. \A j \in Calls : next.messages[j] = IF j = k THEN message ELSE got.messages[j]
    BY <2>3, <2>4 DEF Conversation, Messages
  <2> QED BY <1>1, <2>5, <2>6 DEF Uncovers
<1> HIDE DEF next
<1>4. Persist(t, TRUE, next) BY DEF next
<1> QED BY <1>1, <1>2, <1>3, <1>4, WriteCounted

LEMMA PatchCounted ==
    ASSUME Sound, Sound', Counted, NEW k \in Calls, Running(k), NEW message \in Message,
           Patch(k, message), GoOn(calls, calls'), UNCHANGED <<confirming, acts, jobs, interrupts>>
    PROVE  Counted'
<1> DEFINE base == calls[k].base
           cur == getConversation(base.id, base)
           next == Patched(k, message)
<1>1. calls[k] # None /\ calls[k] \in Call /\ Unmade(calls, k)
  BY DEF Running, Runs, Unmade, Sound, TypeOK
<1>2. /\ next \in Conversation /\ next.id = base.id
      /\ NoneLess(KeptIn(stored, next.id), next.messages)
  BY PatchedIs
<1>3. calls[k].tab \in Tabs /\ Persist(calls[k].tab, calls[k].mounted, next)
  BY <1>1 DEF Patch, Call
<1>4. ~Uncovers(next)
  <2>1. Read(calls, stored, dropped, base) BY <1>1 DEF Sound
  <2>2. Read(calls, stored, dropped, cur) BY <2>1, GetsRead DEF Read, Conversation
  <2>3. cur \in Conversation /\ cur.messages \in Messages BY <2>2 DEF Read, Conversation
  <2>4. next = IF cur.messages[k] = None THEN cur ELSE [cur EXCEPT !.messages[k] = message]
    BY DEF Patched
  <2>5. base.id \notin dropped => cur.messages = KeptIn(stored, base.id)
    BY <2>1, GotUncovers
  <2> HIDE DEF cur, next, base
  <2>6. \A j \in Calls \ {k} : next.messages[j] = cur.messages[j]
    BY <2>3, <2>4 DEF Conversation, Messages
  <2> QED BY <1>1, <1>2, <2>5, <2>6 DEF Uncovers
<1> HIDE DEF next
<1> QED BY <1>2, <1>3, <1>4, WriteCounted

(* An answer lost leaves the confirmations as they are.                    *)
LEMMA LostCounted ==
    ASSUME Sound, Sound', Counted, GoOn(calls, calls'), NEW t \in Tabs,
           interrupts' = [interrupts EXCEPT ![t] = @ + 1],
           UNCHANGED <<stored, conv, confirming, acts, jobs, dropped>>
    PROVE  Counted'
<1>1. OneHolds(acts', confirming') BY DEF Counted
<1>2. \A k \in Calls : Spent(acts, jobs, t, k) \in Nat BY PendingFinite
<1>3. \A k \in Calls : Spent(acts', jobs', t, k) <= Spent(acts, jobs, t, k) BY <1>2
<1> QED BY <1>1, <1>3, InterruptCounted

LEMMA OpenCounted ==
    ASSUME Sound, Sound', Counted, NEW t \in Tabs, NEW c \in Conversations, Open(t, c)
    PROVE  Counted'
<1> DEFINE got == getConversation(c, createEmptyConversation(c))
<1>1. /\ conv' = [conv EXCEPT ![t] = got]
      /\ UNCHANGED <<stored, busy, confirming, acts, calls, jobs, interrupts, dropped>>
  BY DEF Open
<1>2. Read(calls, stored, dropped, createEmptyConversation(c)) /\ createEmptyConversation(c).id = c
  BY EmptyRead
<1>3. got.id = c /\ (c \notin dropped => got.messages = KeptIn(stored, c))
  BY <1>2, GetsRead, GotUncovers
<1> HIDE DEF got
<1>4. \A u \in Tabs : conv'[u] = IF u = t THEN got ELSE conv[u] BY <1>1 DEF Sound, TypeOK
<1>5. ASSUME NEW u \in Tabs, NEW k \in Calls, NEW d, d \notin dropped,
             Covered(stored, conv[u], acts, u, k, d)
      PROVE  Covered(stored', conv'[u], acts', u, k, d)
  <2>1. \/ \E act \in acts : act.tab = u /\ act.call = k /\ act.left = 0
        \/ /\ KeptIn(stored, d)[k] # "preview"
           /\ conv'[u].id = d => conv'[u].messages[k] # "preview"
    BY <1>3, <1>4, <1>5 DEF Covered
  <2> QED BY <1>1, <2>1 DEF Covered
<1>6. \A u \in Tabs, k \in Calls :
         ~Unmade(calls, k) /\ calls[k].base.id \notin dropped =>
             /\ Spent(acts, jobs, u, k) <= interrupts[u] + 1
             /\ Spent(acts, jobs, u, k) = interrupts[u] + 1 =>
                   Covered(stored', conv'[u], acts', u, k, calls[k].base.id)
  BY <1>5 DEF Counted
<1>7. OneHolds(acts, confirming) /\ \A u \in Tabs, k \in Calls : Unmade(calls, k) => jobs[<<u, k>>] = 0
  BY DEF Counted
<1> QED BY <1>1, <1>6, <1>7 DEF Counted

(* A preview that is confirmed was held by no other confirmation, and is   *)
(* still a preview: of what it may cost, one was left.                     *)
LEMMA ConfirmCounted ==
    ASSUME Sound, Sound', Counted, NEW t \in Tabs, NEW k \in Calls, ConfirmAct(t, k)
    PROVE  Counted'
<1> DEFINE act == [tab |-> t, left |-> 0, call |-> k, base |-> conv[t]]
<1>1. /\ ~confirming[t] /\ conv[t].messages[k] = "preview"
      /\ confirming' = [confirming EXCEPT ![t] = TRUE]
      /\ acts' = acts \cup {act}
      /\ UNCHANGED <<stored, conv, busy, calls, jobs, interrupts, dropped>>
  BY DEF ConfirmAct
<1>2. act.tab = t /\ act.left = 0 /\ act.call = k OBVIOUS
<1> HIDE DEF act
<1>3. confirming'[t] = TRUE /\ \A u \in Tabs \ {t} : confirming'[u] = confirming[u]
  BY <1>1 DEF Sound, TypeOK
<1>4. \A a \in acts : a.left = 0 => a.tab # t BY <1>1 DEF Counted, OneHolds
<1>5. OneHolds(acts', confirming')
  <2>1. \A a \in acts' : a.left = 0 => confirming'[a.tab]
    BY <1>1, <1>2, <1>3, <1>4, ActIsMade DEF Counted, OneHolds
  <2>2. \A a, b \in acts' : a.left = 0 /\ b.left = 0 /\ a.tab = b.tab => a = b
    BY <1>1, <1>2, <1>4 DEF Counted, OneHolds
  <2> QED BY <2>1, <2>2 DEF OneHolds
<1>6. ~Unmade(calls, k) /\ calls[k].base.id = conv[t].id
  <2>1. Proper(calls, conv[t].id, conv[t].messages) BY DEF Sound, Read
  <2>2. None # "preview" BY AssistantAssumption DEF Message
  <2> QED BY <1>1, <2>1, <2>2 DEF Proper, Unmade
<1>7. ASSUME NEW u \in Tabs, NEW j \in Calls, ~Unmade(calls, j), calls[j].base.id \notin dropped
      PROVE  /\ Spent(acts', jobs', u, j) <= interrupts'[u] + 1
             /\ Spent(acts', jobs', u, j) = interrupts'[u] + 1 =>
                   Covered(stored', conv'[u], acts', u, j, calls[j].base.id)
  <2>1. /\ Spent(acts, jobs, u, j) <= interrupts[u] + 1
        /\ Spent(acts, jobs, u, j) = interrupts[u] + 1 =>
              Covered(stored, conv[u], acts, u, j, calls[j].base.id)
    BY <1>7 DEF Counted
  <2>2. interrupts[u] \in Nat BY DEF Sound, TypeOK
  <2>3. /\ IsFiniteSet(Pending(acts, u, j)) /\ Cardinality(Pending(acts, u, j)) \in Nat
        /\ jobs[<<u, j>>] \in Nat /\ Spent(acts, jobs, u, j) \in Nat
    BY PendingFinite
  <2>4. CASE u = t /\ j = k
    <3>1. Pending(acts', t, k) = Pending(acts, t, k) \cup {act} BY <1>1, <1>2 DEF Pending
    <3>2. Cardinality(Pending(acts', t, k)) <= Cardinality(Pending(acts, t, k)) + 1
          /\ Cardinality(Pending(acts', t, k)) \in Nat
      BY <2>3, <2>4, <3>1, OneMore
    <3>3. Spent(acts', jobs', t, k) <= Spent(acts, jobs, t, k) + 1
          /\ Spent(acts', jobs', t, k) \in Nat
      BY <1>1, <2>3, <2>4, <3>2 DEF Spent
    <3>4. ~Covered(stored, conv[t], acts, t, k, calls[k].base.id)
      BY <1>1, <1>4, <1>6 DEF Covered
    <3>5. Spent(acts, jobs, t, k) <= interrupts[t] BY <2>1, <2>2, <2>3, <2>4, <3>4
    <3>6. Spent(acts', jobs', t, k) <= interrupts'[t] + 1 BY <1>1, <2>2, <2>3, <2>4, <3>3, <3>5
    <3>7. Covered(stored', conv'[t], acts', t, k, calls[k].base.id) BY <1>1, <1>2 DEF Covered
    <3> QED BY <2>4, <3>6, <3>7
  <2>5. CASE ~(u = t /\ j = k)
    <3>1. Pending(acts', u, j) = Pending(acts, u, j) BY <1>1, <1>2, <2>5 DEF Pending
    <3>2. Spent(acts', jobs', u, j) = Spent(acts, jobs, u, j) BY <1>1, <3>1 DEF Spent
    <3>3. Covered(stored, conv[u], acts, u, j, calls[j].base.id)
            => Covered(stored', conv'[u], acts', u, j, calls[j].base.id)
      BY <1>1 DEF Covered
    <3> QED BY <1>1, <2>1, <3>2, <3>3
  <2> QED BY <2>4, <2>5
<1>8. \A u \in Tabs, j \in Calls : Unmade(calls, j) => jobs[<<u, j>>] = 0 BY DEF Counted
<1> QED BY <1>1, <1>5, <1>7, <1>8 DEF Counted

(* A confirmation that ends leaves the others as they are.                 *)
LEMMA ActOverIs ==
    ASSUME Sound, Counted, NEW act \in acts, ActOver(act)
    PROVE  /\ OneHolds(acts', confirming')
           /\ Pending(acts', act.tab, act.call) = Pending(acts, act.tab, act.call) \ {act}
           /\ act \in Pending(acts, act.tab, act.call)
           /\ \A u \in Tabs, k \in Calls : ~(u = act.tab /\ k = act.call) =>
                 Pending(acts', u, k) = Pending(acts, u, k)
<1>1. /\ acts' = acts \ {act}
      /\ confirming' = IF act.left = 0 THEN [confirming EXCEPT ![act.tab] = FALSE] ELSE confirming
  BY DEF ActOver
<1>2. \A u \in Tabs : u # act.tab \/ act.left # 0 => confirming'[u] = confirming[u]
  BY <1>1 DEF Sound, TypeOK
<1>3. \A a \in acts' : a.left = 0 => a.tab # act.tab \/ act.left # 0
  BY <1>1 DEF Counted, OneHolds
<1>4. \A a \in acts' : a.left = 0 => confirming'[a.tab]
  BY <1>1, <1>2, <1>3, ActIsMade DEF Counted, OneHolds
<1>5. OneHolds(acts', confirming') BY <1>1, <1>4 DEF Counted, OneHolds
<1> QED BY <1>1, <1>5 DEF Pending

LEMMA JobMadeIs ==
    ASSUME Sound, NEW act \in acts
    PROVE  /\ JobMade(act)[<<act.tab, act.call>>] = jobs[<<act.tab, act.call>>] + 1
           /\ \A u \in Tabs, k \in Calls : ~(u = act.tab /\ k = act.call) =>
                 JobMade(act)[<<u, k>>] = jobs[<<u, k>>]
<1> DEFINE key == <<act.tab, act.call>>
<1>1. key \in Tabs \X Calls BY ActIsMade
<1>2. jobs \in [Tabs \X Calls -> Nat] BY DEF Sound, TypeOK
<1>3. JobMade(act) = [jobs EXCEPT ![key] = @ + 1] BY DEF JobMade
<1>4. \A u, k : ~(u = act.tab /\ k = act.call) => <<u, k>> # key OBVIOUS
<1> HIDE DEF key
<1>5. JobMade(act)[key] = jobs[key] + 1 BY <1>1, <1>2, <1>3
<1>6. \A x \in Tabs \X Calls : x # key => JobMade(act)[x] = jobs[x] BY <1>1, <1>2, <1>3
<1> QED BY <1>4, <1>5, <1>6 DEF key

LEMMA JobCreatedCounted ==
    ASSUME Sound, Sound', Counted, NEW act \in acts, JobCreated(act)
    PROVE  Counted'
<1> DEFINE next == AllConfirmed(getConversation(act.base.id, act.base))
           t == act.tab
           k == act.call
<1>1. /\ next \in Conversation /\ next.id = act.base.id
      /\ NoneLess(KeptIn(stored, next.id), next.messages)
      /\ \A j \in Calls : next.messages[j] # "preview"
  BY AllConfirmedIs
<1>2. /\ ActOver(act) /\ jobs' = JobMade(act)
      /\ acts' = acts \ {act}
      /\ Persist(t, act.left = 0, next)
      /\ UNCHANGED <<busy, calls, interrupts>>
  BY DEF JobCreated, ActOver
<1>3. /\ t \in Tabs /\ k \in Calls /\ ~Unmade(calls, k) /\ calls[k].base.id = act.base.id
  BY ActIsMade
<1>4. /\ OneHolds(acts', confirming')
      /\ Pending(acts', t, k) = Pending(acts, t, k) \ {act}
      /\ act \in Pending(acts, t, k)
      /\ \A u \in Tabs, j \in Calls : ~(u = t /\ j = k) => Pending(acts', u, j) = Pending(acts, u, j)
  BY <1>2, ActOverIs
<1>5. /\ jobs'[<<t, k>>] = jobs[<<t, k>>] + 1
      /\ \A u \in Tabs, j \in Calls : ~(u = t /\ j = k) => jobs'[<<u, j>>] = jobs[<<u, j>>]
  BY <1>2, JobMadeIs
<1>6. conv'[t] = IF act.left = 0 THEN next ELSE conv[t]
  BY <1>2, <1>3 DEF Persist, Sound, TypeOK
<1> HIDE DEF next, t, k
<1>7. /\ Grown(stored, dropped, stored', dropped')
      /\ KeptIn(stored', next.id) = next.messages
      /\ \A d \in Conversations \ {next.id} :
            KeptIn(stored', d) = KeptIn(stored, d) \/ KeptIn(stored', d) = Blank
      /\ \A u \in Tabs : conv'[u] = conv[u] \/ conv'[u] = next
  BY <1>1, <1>2, <1>3, PersistGrows
<1>8. \A j \in Calls : Blank[j] # "preview" BY AssistantAssumption DEF Blank, Message
<1>9. \A u \in Tabs, j \in Calls : Spent(acts', jobs', u, j) = Spent(acts, jobs, u, j)
  <2> SUFFICES ASSUME NEW u \in Tabs, NEW j \in Calls
               PROVE  Spent(acts', jobs', u, j) = Spent(acts, jobs, u, j)
    OBVIOUS
  <2>1. CASE u = t /\ j = k
    <3>1. IsFiniteSet(Pending(acts, t, k)) /\ jobs[<<t, k>>] \in Nat BY <1>3, PendingFinite
    <3>2. /\ Cardinality(Pending(acts', t, k)) + 1 = Cardinality(Pending(acts, t, k))
          /\ Cardinality(Pending(acts', t, k)) \in Nat
      BY <1>4, <3>1, OneLess
    <3> QED BY <1>5, <2>1, <3>1, <3>2 DEF Spent
  <2>2. CASE ~(u = t /\ j = k) BY <1>4, <1>5, <2>2 DEF Spent
  <2> QED BY <2>1, <2>2
<1>10. ASSUME NEW u \in Tabs, NEW j \in Calls, ~Unmade(calls, j), calls[j].base.id \notin dropped',
              Covered(stored, conv[u], acts, u, j, calls[j].base.id)
       PROVE  Covered(stored', conv'[u], acts', u, j, calls[j].base.id)
  <2> DEFINE d == calls[j].base.id
  <2>1. d \in Conversations BY <1>10 DEF Unmade, Sound, Read, Conversation
  <2>2. CASE KeptIn(stored, d)[j] # "preview" /\ (conv[u].id = d => conv[u].messages[j] # "preview")
    <3>1. KeptIn(stored', d)[j] # "preview" BY <1>1, <1>7, <1>8, <2>1, <2>2
    <3>2. conv'[u].id = d => conv'[u].messages[j] # "preview" BY <1>1, <1>7, <2>2
    <3> QED BY <3>1, <3>2 DEF Covered
  <2>3. CASE \E a \in acts : a.tab = u /\ a.call = j /\ a.left = 0
    <3>1. PICK a \in acts : a.tab = u /\ a.call = j /\ a.left = 0 BY <2>3
    <3>2. CASE a # act BY <1>2, <3>1, <3>2 DEF Covered
    <3>3. CASE a = act
      <4>1. u = t /\ j = k /\ act.left = 0 BY <3>1, <3>3 DEF t, k
      <4>2. d = next.id /\ conv'[u] = next BY <1>1, <1>3, <1>6, <4>1
      <4> QED BY <1>1, <1>7, <4>2 DEF Covered
    <3> QED BY <3>2, <3>3
  <2> QED BY <1>10, <2>2, <2>3 DEF Covered
<1>11. \A u \in Tabs, j \in Calls : Unmade(calls, j) => jobs'[<<u, j>>] = 0
  BY <1>3, <1>5 DEF Counted
<1>12. ASSUME NEW u \in Tabs, NEW j \in Calls, ~Unmade(calls, j), calls[j].base.id \notin dropped'
       PROVE  /\ Spent(acts', jobs', u, j) <= interrupts[u] + 1
              /\ Spent(acts', jobs', u, j) = interrupts[u] + 1 =>
                    Covered(stored', conv'[u], acts', u, j, calls[j].base.id)
  <2>1. calls[j].base.id \in Conversations BY <1>12 DEF Unmade, Sound, Read, Conversation
  <2>2. calls[j].base.id \notin dropped BY <1>7, <1>12, <2>1 DEF Grown
  <2>3. /\ Spent(acts, jobs, u, j) <= interrupts[u] + 1
        /\ Spent(acts, jobs, u, j) = interrupts[u] + 1 =>
              Covered(stored, conv[u], acts, u, j, calls[j].base.id)
    BY <1>12, <2>2 DEF Counted
  <2> QED BY <1>9, <1>10, <1>12, <2>3
<1> QED BY <1>2, <1>4, <1>11, <1>12 DEF Counted

LEMMA JobFailsCounted ==
    ASSUME Sound, Sound', Counted, NEW act \in acts, JobFails(act)
    PROVE  Counted'
<1> DEFINE t == act.tab
           k == act.call
<1>1. /\ ActOver(act)
      /\ interrupts' = [interrupts EXCEPT ![t] = @ + 1]
      /\ jobs' \in {jobs, JobMade(act)}
      /\ UNCHANGED <<stored, conv, busy, calls, dropped>>
  BY DEF JobFails, Interrupt
<1>2. t \in Tabs /\ k \in Calls BY ActIsMade
<1>3. /\ OneHolds(acts', confirming')
      /\ Pending(acts', t, k) = Pending(acts, t, k) \ {act}
      /\ act \in Pending(acts, t, k)
      /\ \A u \in Tabs, j \in Calls : ~(u = t /\ j = k) => Pending(acts', u, j) = Pending(acts, u, j)
  BY <1>1, ActOverIs
<1>4. /\ jobs'[<<t, k>>] \in {jobs[<<t, k>>], jobs[<<t, k>>] + 1}
      /\ \A u \in Tabs, j \in Calls : ~(u = t /\ j = k) => jobs'[<<u, j>>] = jobs[<<u, j>>]
  BY <1>1, JobMadeIs
<1> HIDE DEF t, k
<1>5. \A j \in Calls : Spent(acts', jobs', t, j) <= Spent(acts, jobs, t, j)
  <2> SUFFICES ASSUME NEW j \in Calls
               PROVE  Spent(acts', jobs', t, j) <= Spent(acts, jobs, t, j)
    OBVIOUS
  <2>1. /\ IsFiniteSet(Pending(acts, t, j)) /\ jobs[<<t, j>>] \in Nat
        /\ Spent(acts, jobs, t, j) \in Nat
    BY <1>2, PendingFinite
  <2>2. CASE j = k
    <3>1. /\ Cardinality(Pending(acts', t, k)) + 1 = Cardinality(Pending(acts, t, k))
          /\ Cardinality(Pending(acts', t, k)) \in Nat
      BY <1>3, <2>1, <2>2, OneLess
    <3> QED BY <1>4, <2>1, <2>2, <3>1 DEF Spent
  <2>3. CASE j # k
    <3>1. Spent(acts', jobs', t, j) = Spent(acts, jobs, t, j)
      BY <1>2, <1>3, <1>4, <2>3 DEF Spent
    <3> QED BY <2>1, <3>1
  <2> QED BY <2>2, <2>3
<1>6. \A u \in Tabs \ {t} :
         /\ conv'[u] = conv[u]
         /\ \A j \in Calls : /\ Pending(acts', u, j) = Pending(acts, u, j)
                             /\ jobs'[<<u, j>>] = jobs[<<u, j>>]
  BY <1>1, <1>3, <1>4
<1>7. GoOn(calls, calls') BY <1>1, StaysThere
<1> QED BY <1>1, <1>2, <1>3, <1>5, <1>6, <1>7, InterruptCounted

LEMMA ReturnCounted ==
    ASSUME Sound, Sound', Counted, NEW t \in Tabs, NEW c \in Conversations, Return(t, c)
    PROVE  Counted'
<1>1. /\ acts' = {Left(act, t) : act \in acts} /\ jobs' = jobs /\ Mount(t, c)
  BY DEF Return
<1>2. /\ interrupts' = [interrupts EXCEPT ![t] = @ + 1]
      /\ interrupts'[t] = interrupts[t] + 1
      /\ confirming' = [confirming EXCEPT ![t] = FALSE]
      /\ \A u \in Tabs \ {t} : conv'[u] = conv[u]
      /\ UNCHANGED <<stored, dropped>>
  BY <1>1, MountIs
<1>3. \A u \in Tabs \ {t} : confirming'[u] = confirming[u] BY <1>2 DEF Sound, TypeOK
<1>4. interrupts'[t] # 0 /\ interrupts'[t] \in Nat BY <1>2 DEF Sound, TypeOK
<1>5. ASSUME NEW act \in acts
      PROVE  /\ Left(act, t).tab = act.tab /\ Left(act, t).call = act.call
             /\ act.tab # t => Left(act, t) = act
             /\ act.tab = t => Left(act, t).left # 0
  <2>1. act \in Act BY DEF Sound, TypeOK
  <2> QED BY <1>4, <2>1 DEF Left, Act
<1>6. OneHolds(acts', confirming')
  <2>1. \A a \in acts' : a.left = 0 => a \in acts /\ a.tab # t BY <1>1, <1>5
  <2> QED BY <1>3, <2>1, ActIsMade DEF Counted, OneHolds
<1>7. ASSUME NEW k \in Calls PROVE Spent(acts', jobs', t, k) <= Spent(acts, jobs, t, k)
  <2> DEFINE S == Pending(acts, t, k)
             T == Pending(acts', t, k)
             left == [act \in S |-> Left(act, t)]
  <2>1. left \in Surjection(S, T) BY <1>1, <1>5 DEF Surjection, Pending
  <2>2. IsFiniteSet(S) /\ Cardinality(S) \in Nat /\ jobs[<<t, k>>] \in Nat BY PendingFinite
  <2> HIDE DEF S, T, left
  <2>3. IsFiniteSet(T) /\ Cardinality(T) <= Cardinality(S) BY <2>1, <2>2, FS_Surjection
  <2>4. Cardinality(T) \in Nat BY <2>3, FS_CardinalityType
  <2> QED BY <1>1, <2>2, <2>3, <2>4 DEF Spent, S, T
<1>8. \A u \in Tabs \ {t} :
         /\ conv'[u] = conv[u]
         /\ \A k \in Calls : /\ Pending(acts', u, k) = Pending(acts, u, k)
                             /\ jobs'[<<u, k>>] = jobs[<<u, k>>]
  BY <1>1, <1>2, <1>5 DEF Pending
<1>9. GoOn(calls, calls') BY ReturnSound
<1> QED BY <1>2, <1>6, <1>7, <1>8, <1>9, InterruptCounted

LEMMA ReloadCounted ==
    ASSUME Sound, Sound', Counted, NEW t \in Tabs, NEW c \in Conversations, Reload(t, c)
    PROVE  Counted'
<1>1. acts' = {act \in acts : act.tab # t} /\ Mount(t, c) BY DEF Reload
<1>2. PICK made \in SUBSET {act \in acts : act.tab = t} :
          jobs' = [x \in Tabs \X Calls |->
                      jobs[x] + Cardinality({act \in made : x = <<t, act.call>>})]
  BY DEF Reload
<1>3. /\ interrupts' = [interrupts EXCEPT ![t] = @ + 1]
      /\ confirming' = [confirming EXCEPT ![t] = FALSE]
      /\ \A u \in Tabs \ {t} : conv'[u] = conv[u]
      /\ UNCHANGED <<stored, dropped>>
  BY <1>1, MountIs
<1>4. \A u \in Tabs \ {t} : confirming'[u] = confirming[u] BY <1>3 DEF Sound, TypeOK
<1>5. OneHolds(acts', confirming') BY <1>1, <1>4, ActIsMade DEF Counted, OneHolds
<1>6. ASSUME NEW k \in Calls PROVE Spent(acts', jobs', t, k) <= Spent(acts, jobs, t, k)
  <2> DEFINE S == Pending(acts, t, k)
             M == {act \in made : <<t, k>> = <<t, act.call>>}
  <2>1. IsFiniteSet(S) /\ Cardinality(S) \in Nat /\ jobs[<<t, k>>] \in Nat BY PendingFinite
  <2>2. M \subseteq S BY <1>2 DEF Pending
  <2>3. jobs'[<<t, k>>] = jobs[<<t, k>>] + Cardinality(M) BY <1>2
  <2>4. Pending(acts', t, k) = {} BY <1>1 DEF Pending
  <2> HIDE DEF S, M
  <2>5. IsFiniteSet(M) /\ Cardinality(M) <= Cardinality(S) BY <2>1, <2>2, FS_Subset
  <2>6. Cardinality(M) \in Nat BY <2>5, FS_CardinalityType
  <2>7. Cardinality(Pending(acts', t, k)) = 0 BY <2>4, FS_EmptySet
  <2> QED BY <2>1, <2>3, <2>5, <2>6, <2>7 DEF Spent, S
<1>7. ASSUME NEW u \in Tabs \ {t}, NEW k \in Calls
      PROVE  Pending(acts', u, k) = Pending(acts, u, k) /\ jobs'[<<u, k>>] = jobs[<<u, k>>]
  <2>1. {act \in made : <<u, k>> = <<t, act.call>>} = {} OBVIOUS
  <2>2. jobs'[<<u, k>>] = jobs[<<u, k>>] + Cardinality({}) BY <1>2, <2>1
  <2>3. jobs[<<u, k>>] \in Nat /\ Cardinality({}) = 0 BY FS_EmptySet DEF Sound, TypeOK
  <2> QED BY <1>1, <2>2, <2>3 DEF Pending
<1>8. GoOn(calls, calls') BY ReloadSound
<1> QED BY <1>3, <1>5, <1>6, <1>7, <1>8, InterruptCounted

LEMMA StepCounted == Sound /\ Sound' /\ Counted /\ [Next]_vars => Counted'
<1> SUFFICES ASSUME Sound, Sound', Counted, [Next]_vars PROVE Counted' OBVIOUS
<1>1. ASSUME NEW t \in Tabs, AssistantScreen(t) PROVE Counted'
  <2>1. ASSUME NEW k \in Calls,
               \/ submitPrompt(k, t) \/ submitPromptAtOnce(k, t)
               \/ onUploadCv(k, t) \/ confirmIngest(k, t) \/ BeginThrows(k, t)
               \/ ConfirmAct(t, k)
        PROVE  Counted'
    <3>1. ASSUME NEW ends, Begin(k, t, ends) PROVE Counted'
      BY <3>1, BeginCounted DEF Begin, Message
    <3>2. CASE submitPromptAtOnce(k, t) BY <3>2, BeginCounted DEF submitPromptAtOnce, Message
    <3>3. CASE BeginThrows(k, t)
      <4>1. GoOn(calls, calls') BY <3>3 DEF BeginThrows, GoOn, Runs, Sound, TypeOK
      <4> QED BY <3>3, <4>1, LostCounted DEF BeginThrows, Interrupt
    <3> QED BY <2>1, <3>1, <3>2, <3>3, ConfirmCounted DEF submitPrompt, onUploadCv, confirmIngest
  <2>2. ASSUME NEW c \in Conversations, Open(t, c) \/ Return(t, c) \/ Reload(t, c)
        PROVE  Counted'
    BY <2>2, OpenCounted, ReturnCounted, ReloadCounted
  <2> QED BY <1>1, <2>1, <2>2 DEF AssistantScreen
<1>2. ASSUME NEW k \in Calls, Progress(k) \/ Finish(k) \/ FinishThrows(k)
      PROVE  Counted'
  <2>1. CASE Progress(k)
    <3>1. GoOn(calls, calls') BY <2>1, ProgressSound
    <3> QED BY <2>1, <3>1, PatchCounted DEF Progress, Message
  <2>2. CASE Finish(k)
    <3>1. GoOn(calls, calls') BY <2>2, FinishSound
    <3>2. PICK message \in calls[k].ends : Patch(k, message) BY <2>2 DEF Finish
    <3>3. message \in Message BY <2>2, <3>2 DEF Finish, Running, Sound, TypeOK, Call
    <3> QED BY <2>2, <3>1, <3>2, <3>3, PatchCounted DEF Finish
  <2>3. CASE FinishThrows(k)
    <3>1. GoOn(calls, calls') BY <2>3, FinishThrowsSound
    <3>2. calls[k].tab \in Tabs BY <2>3 DEF FinishThrows, Running, Sound, TypeOK, Call
    <3> QED BY <2>3, <3>1, <3>2, LostCounted DEF FinishThrows, Interrupt
  <2> QED BY <1>2, <2>1, <2>2, <2>3
<1>3. ASSUME NEW act \in acts, JobCreated(act) \/ JobFails(act) PROVE Counted'
  BY <1>3, JobCreatedCounted, JobFailsCounted
<1>4. CASE UNCHANGED vars
  <2>1. UNCHANGED <<stored, conv, confirming, acts, calls, jobs, interrupts, dropped>>
    BY <1>4 DEF vars, shown
  <2> QED BY <2>1 DEF Counted
<1> QED BY <1>1, <1>2, <1>3, <1>4 DEF Next

LEMMA InitCounted == Init => Counted
<1> SUFFICES ASSUME Init PROVE Counted OBVIOUS
<1>1. OneHolds(acts, confirming) BY DEF Init, OneHolds
<1>2. \A t \in Tabs, k \in Calls : Unmade(calls, k) /\ jobs[<<t, k>>] = 0 BY DEF Init, Unmade
<1> QED BY <1>1, <1>2 DEF Counted

(* A tab makes a second job from a preview only after it was interrupted   *)
(* while it made the first (onConfirmAct).                                 *)
THEOREM SecondJobsCost == Spec => []JobsCostInterrupts
<1>1. Init => Counted BY InitCounted
<1>2. Sound /\ Sound' /\ Counted /\ [Next]_vars => Counted' BY StepCounted
<1>3. Sound /\ Counted => JobsCostInterrupts
  <2> SUFFICES ASSUME Sound, Counted, NEW t \in Tabs, NEW k \in Calls,
                      calls[k] # None, calls[k].base.id \notin dropped
               PROVE  jobs[<<t, k>>] <= 1 + interrupts[t]
    BY DEF JobsCostInterrupts
  <2>1. interrupts[t] \in Nat BY DEF Sound, TypeOK
  <2>2. CASE Unmade(calls, k) BY <2>1, <2>2 DEF Counted
  <2>3. CASE ~Unmade(calls, k)
    <3>1. Spent(acts, jobs, t, k) <= interrupts[t] + 1 BY <2>3 DEF Counted
    <3>2. /\ jobs[<<t, k>>] \in Nat /\ Spent(acts, jobs, t, k) \in Nat
          /\ jobs[<<t, k>>] <= Spent(acts, jobs, t, k)
      BY PendingFinite
    <3> QED BY <2>1, <3>1, <3>2
  <2> QED BY <2>2, <2>3
<1> QED BY <1>1, <1>2, <1>3, CopiesStaySound, PTL DEF Spec

=============================================================================
