---------------------------- MODULE Inbox_proofs ----------------------------
(***************************************************************************)
(* What the inbox keeps, for any number of notifications, notes, faults    *)
(* and restarts.                                                           *)
(*                                                                         *)
(* ReadStays speaks of the file only; the invariant adds how the memory    *)
(* and the file belong together: one line for each notification, an        *)
(* answered mark in both, a mark in memory that is on file unless its      *)
(* write failed, and nothing on file that the memory lacks, unless the     *)
(* file could not be read.                                                 *)
(***************************************************************************)
EXTENDS Inbox, FiniteSetTheorems, TLAPS

-----------------------------------------------------------------------------
(* The file.                                                               *)

(* An append leaves an old record or the new one, and a typed file.        *)
LEMMA AddLineFacts ==
    ASSUME NEW R, NEW f \in File(R), NEW r \in R
    PROVE  /\ AddLine(f, r) \in File(R)
           /\ Parsed(AddLine(f, r)) \subseteq Parsed(f) \cup {r}
           /\ \A q \in Parsed(f) : q \in Parsed(AddLine(f, r)) \/ q \in f.tail
  BY DEF AddLine, File, Parsed

LEMMA CutLineFacts ==
    ASSUME NEW R, NEW f \in File(R), NEW r \in R, NEW g \in CutLine(f, r)
    PROVE  g \in File(R) /\ Parsed(g) \subseteq Parsed(f) \cup {r}
<1>1. CASE g = f BY <1>1 DEF Parsed
<1>2. CASE g # f
  <2>1. PICK t \in IF f.open THEN {{}} ELSE {{}, {r}} :
           g = [lines |-> f.lines, open |-> TRUE, tail |-> t]
    BY <1>2 DEF CutLine
  <2>2. t \subseteq {r} BY <2>1
  <2> QED BY <2>1, <2>2 DEF File, Parsed
<1> QED BY <1>1, <1>2

(* A rewrite that is cut short leaves some of its records.                 *)
LEMMA CutRewriteFacts ==
    ASSUME NEW R, NEW records \in SUBSET R, NEW g \in CutRewrite(records)
    PROVE  g \in File(R) /\ Parsed(g) \subseteq records
<1> DEFINE Parts(written) == {{r} : r \in records \ written}
                               \cup (IF written = records THEN {} ELSE {{}})
<1>1. PICK written \in SUBSET records :
         \/ g = [lines |-> written, open |-> FALSE, tail |-> {}]
         \/ \E part \in Parts(written) : g = [lines |-> written, open |-> TRUE, tail |-> part]
  BY Zenon DEF CutRewrite
<1>2. \A part \in Parts(written) : part \subseteq records OBVIOUS
<1>3. PICK part \in SUBSET records, open \in BOOLEAN :
         g = [lines |-> written, open |-> open, tail |-> part]
  <2>1. CASE g = [lines |-> written, open |-> FALSE, tail |-> {}] BY <2>1
  <2>2. CASE \E part \in Parts(written) : g = [lines |-> written, open |-> TRUE, tail |-> part]
    BY <2>2, <1>2
  <2> QED BY <1>1, <2>1, <2>2
<1> QED BY <1>3 DEF File, Parsed

-----------------------------------------------------------------------------
(* The invariant.                                                          *)

OneLineEach == \A r, q \in OnFile : r[1] = q[1] => r = q

SeenIsRead == \A n \in seen \ unwritten : Items[n] # None => Items[n].read

MarksOnFile ==
    \A r \in OnFile :
        Items[r[1]] # None /\ Items[r[1]].read /\ r[1] \notin unwritten => r[2].read

NoneForgotten == ~blind => \A r \in OnFile : Items[r[1]] # None

Belongs == OneLineEach /\ ReadStays /\ SeenIsRead /\ MarksOnFile /\ NoneForgotten

IInv == TypeOK /\ Belongs

(* What an inbox in memory is.                                             *)
Inboxes == [Notifications -> Item \cup {None}]

LEMMA ItemsType ==
    ASSUME TypeOK
    PROVE  Found \in Inboxes /\ Items \in Inboxes /\ Empty \in Inboxes
           /\ \A n \in Known(itemsFile) : Found[n] # None
<1>1. OnFile \subseteq Record BY DEF TypeOK, OnFile, Parsed, File
<1>2. ASSUME NEW n \in Notifications, n \in Known(itemsFile)
      PROVE  \E i \in Item : <<n, i>> \in OnFile
  <2>1. PICK r \in OnFile : r[1] = n BY <1>2 DEF Known, OnFile
  <2>2. r \in Record BY <1>1
  <2>3. r = <<r[1], r[2]>> /\ r[2] \in Item BY <2>2 DEF Record
  <2> QED BY <2>1, <2>3
<1>3. \A n \in Notifications : Found[n] \in Item \cup {None} BY <1>2 DEF Found
<1>4. Found \in Inboxes BY <1>3 DEF Found, Inboxes
<1>5. Known(itemsFile) \subseteq Notifications BY <1>1 DEF Known, OnFile, Record
<1>6. \A n \in Known(itemsFile) : Found[n] \in Item BY <1>2, <1>5 DEF Found
<1>7. \A n \in Known(itemsFile) : Found[n] # None BY <1>6, InboxAssumption
<1> QED BY <1>4, <1>7 DEF Items, Inboxes, Empty, TypeOK

LEMMA InitIInv == Init => IInv
<1> SUFFICES ASSUME Init PROVE IInv OBVIOUS
<1>1. TypeOK
  <2>1. items \in [Notifications -> Item \cup {None}] BY DEF Init, Empty
  <2>2. itemsFile \in File(Record) /\ notesFile \in File(Notes)
    BY DEF Init, EmptyFile, File
  <2>3. faults \in 0..MaxFaults /\ restarts \in 0..MaxRestarts
    BY InboxAssumption DEF Init
  <2> QED BY <2>1, <2>2, <2>3 DEF Init, TypeOK
<1>2. OnFile = {} BY DEF Init, OnFile, Parsed, EmptyFile
<1>3. Belongs
  BY <1>2 DEF Init, Belongs, OneLineEach, ReadStays, SeenIsRead, MarksOnFile, NoneForgotten
<1> QED BY <1>1, <1>3 DEF IInv

(* A step that reads the files at most: the inbox is what it was.          *)
LEMMA SameKeeps ==
    ASSUME IInv, Items' = Items, UNCHANGED <<itemsFile, seen, unwritten, blind>>
    PROVE  Belongs'
<1>1. OnFile' = OnFile BY DEF OnFile
<1> QED
  BY <1>1 DEF IInv, Belongs, OneLineEach, ReadStays, SeenIsRead, MarksOnFile, NoneForgotten

(* Nobody has marked a new notification, and nothing on file has its id.   *)
LEMMA CreateStep ==
    ASSUME IInv, NEW n \in Notifications, NEW item \in Item, item.read = FALSE,
           Create(n, item), UNCHANGED <<seen, unwritten, blind>>
    PROVE  /\ Belongs'
           /\ items' \in Inboxes /\ itemsFile' \in File(Record)
           /\ told' \subseteq Notifications /\ faults' \in 0..MaxFaults
<1>1. Items \in Inboxes BY ItemsType DEF IInv
<1>2. items' = [Items EXCEPT ![n] = item] /\ Items' = items'
  BY DEF Create, Push, Items
<1>3. items' \in Inboxes BY <1>1, <1>2 DEF Inboxes
<1>4. <<n, item>> \in Record /\ itemsFile \in File(Record)
  BY DEF IInv, TypeOK, Record
<1>5. itemsFile' \in File(Record) /\ OnFile' \subseteq OnFile \cup {<<n, item>>}
  BY <1>4, AddLineFacts, CutLineFacts DEF Create, OnFile
<1>6. \A r \in OnFile : r[1] # n BY DEF Create, Fresh, Known, OnFile
<1>7. n \notin seen /\ Items[n] = None BY DEF Create, Fresh
<1>8. \A m \in Notifications : m # n => Items'[m] = Items[m] BY <1>1, <1>2 DEF Inboxes
<1>9. Items'[n] = item /\ item # None
  BY <1>1, <1>2, InboxAssumption DEF Inboxes
<1>10. \A r \in OnFile' : r = <<n, item>> \/ (r \in OnFile /\ r[1] \in Notifications /\ r[1] # n)
  BY <1>4, <1>5, <1>6 DEF OnFile, Parsed, File, Record
<1>11. OneLineEach' BY <1>10 DEF IInv, Belongs, OneLineEach
<1>12. ReadStays' BY <1>7, <1>10 DEF IInv, Belongs, ReadStays
<1>13. SeenIsRead' BY <1>7, <1>8 DEF IInv, Belongs, SeenIsRead, TypeOK
<1>14. MarksOnFile' BY <1>8, <1>9, <1>10 DEF IInv, Belongs, MarksOnFile
<1>15. NoneForgotten' BY <1>8, <1>9, <1>10 DEF IInv, Belongs, NoneForgotten
<1>16. told' \subseteq Notifications /\ faults' \in 0..MaxFaults
  BY InboxAssumption DEF IInv, TypeOK, Create, Fault
<1> QED BY <1>3, <1>5, <1>11, <1>12, <1>13, <1>14, <1>15, <1>16 DEF Belongs

(* What marking makes of an inbox, and what lines that makes.              *)
LEMMA MarkedFacts ==
    ASSUME NEW inbox \in Inboxes, NEW some \in SUBSET Notifications,
           \A n \in some : inbox[n] # None
    PROVE  LET m == Marked(inbox, some) IN
           /\ m \in Inboxes
           /\ \A n \in Notifications : m[n] = None <=> inbox[n] = None
           /\ \A n \in some : m[n].read
           /\ \A n \in Notifications \ some : m[n] = inbox[n]
           /\ \A n \in some : m[n].note = inbox[n].note
<1> DEFINE m == Marked(inbox, some)
<1>1. ASSUME NEW n \in some
      PROVE  m[n] \in Item /\ m[n].read /\ m[n].note = inbox[n].note
  <2>1. inbox[n] \in Item BY DEF Inboxes
  <2>2. m[n] = [inbox[n] EXCEPT !.read = TRUE] BY DEF Marked
  <2> QED BY <2>1, <2>2 DEF Item
<1>2. \A n \in Notifications \ some : m[n] = inbox[n] BY DEF Marked
<1>3. m \in Inboxes BY <1>1, <1>2 DEF Inboxes, Marked
<1>4. \A n \in some : m[n] # None BY <1>1, InboxAssumption
<1> QED BY <1>1, <1>2, <1>3, <1>4

LEMMA LinesFacts ==
    ASSUME NEW inbox \in Inboxes
    PROVE  /\ Lines(inbox) \subseteq Record
           /\ \A r \in Lines(inbox) : /\ r = <<r[1], inbox[r[1]]>>
                                      /\ r[1] \in Notifications /\ inbox[r[1]] # None
           /\ \A n \in Notifications : inbox[n] # None => <<n, inbox[n]>> \in Lines(inbox)
  BY DEF Lines, Inboxes, Record

(* A mark reaches the file, or its id is kept as unwritten.                *)
LEMMA MarkStep ==
    ASSUME IInv, NEW some \in SUBSET Notifications, \A n \in some : Items[n] # None,
           loaded' = TRUE, items' = Marked(Items, some),
           Rewrite(some) \/ RewriteThrows(some), UNCHANGED blind
    PROVE  /\ Belongs'
           /\ items' \in Inboxes /\ itemsFile' \in File(Record)
           /\ seen' \subseteq Notifications /\ unwritten' \subseteq Notifications
           /\ faults' \in 0..MaxFaults
<1>1. Items \in Inboxes BY ItemsType DEF IInv
<1>2. Items' = items' BY DEF Items
<1>3. /\ items' \in Inboxes
      /\ \A n \in Notifications : items'[n] = None <=> Items[n] = None
      /\ \A n \in some : items'[n].read
      /\ \A n \in Notifications \ some : items'[n] = Items[n]
  BY <1>1, MarkedFacts
<1>4. /\ Lines(items') \in SUBSET Record
      /\ \A r \in Lines(items') : /\ r = <<r[1], items'[r[1]]>>
                                  /\ r[1] \in Notifications /\ items'[r[1]] # None
  BY <1>3, LinesFacts
<1>5. seen' \subseteq Notifications /\ unwritten' \subseteq Notifications
      /\ faults' \in 0..MaxFaults
  BY InboxAssumption DEF IInv, TypeOK, Rewrite, RewriteThrows, Fault
<1>6. SeenIsRead'
  <2> SUFFICES ASSUME NEW n \in Notifications, n \in seen', n \notin unwritten', items'[n] # None
               PROVE  items'[n].read
    BY <1>2, <1>5 DEF SeenIsRead
  <2>1. CASE n \in some BY <2>1, <1>3
  <2>2. CASE n \notin some
    <3>1. n \in seen /\ items'[n] = Items[n] BY <2>2, <1>3 DEF Rewrite, RewriteThrows
    <3>2. n \in unwritten => items'[n].read BY DEF Rewrite, RewriteThrows
    <3> QED BY <3>1, <3>2 DEF IInv, Belongs, SeenIsRead
  <2> QED BY <2>1, <2>2
<1>7. CASE itemsFile' \in File(Record) /\ OnFile' \subseteq Lines(items')
  <2>1. OneLineEach' BY <1>4, <1>7 DEF OneLineEach
  <2>2. MarksOnFile' /\ NoneForgotten' BY <1>2, <1>4, <1>7 DEF MarksOnFile, NoneForgotten
  <2>3. ASSUME NEW r \in OnFile', r[1] \in seen' \ unwritten'
        PROVE  r[2].read
    <3>1. r[2] = Items'[r[1]] /\ Items'[r[1]] # None BY <1>2, <1>4, <1>7
    <3> QED BY <3>1, <2>3, <1>6 DEF SeenIsRead
  <2>4. ReadStays' BY <2>3 DEF ReadStays
  <2> QED BY <1>3, <1>5, <1>6, <1>7, <2>1, <2>2, <2>4 DEF Belongs
<1>8. CASE RewriteThrows(some) /\ itemsFile' = itemsFile
  <2>1. /\ OnFile' = OnFile /\ seen' = seen /\ unwritten' = unwritten \cup some
        /\ \A r \in OnFile : r[1] \in Notifications
    BY <1>8 DEF OnFile, RewriteThrows, IInv, TypeOK, Parsed, File, Record
  <2>2. OneLineEach' BY <2>1 DEF IInv, Belongs, OneLineEach
  <2>3. ReadStays' BY <2>1 DEF IInv, Belongs, ReadStays
  <2>4. MarksOnFile' BY <1>2, <1>3, <2>1 DEF IInv, Belongs, MarksOnFile
  <2>5. NoneForgotten' BY <1>2, <1>3, <2>1 DEF IInv, Belongs, NoneForgotten
  <2>6. itemsFile' \in File(Record) BY <1>8 DEF IInv, TypeOK
  <2> QED BY <1>3, <1>5, <1>6, <2>2, <2>3, <2>4, <2>5, <2>6 DEF Belongs
<1>9. CASE Rewrite(some) BY <1>4, <1>7, <1>9 DEF Rewrite, OnFile, Parsed, File
<1>10. CASE itemsFile' \in CutRewrite(Lines(items'))
  <2>1. itemsFile' \in File(Record) /\ Parsed(itemsFile') \subseteq Lines(items')
    BY <1>4, <1>10, CutRewriteFacts
  <2>2. OnFile' = Parsed(itemsFile') BY DEF OnFile
  <2> QED BY <2>1, <2>2, <1>7
<1> QED BY <1>8, <1>9, <1>10 DEF RewriteThrows

(* The files are read at the first access, and by a process that starts.   *)
LEMMA FoundFacts ==
    ASSUME IInv
    PROVE  /\ \A r \in OnFile : Found[r[1]] = r[2]
           /\ \A n \in Notifications : Found[n] # None => <<n, Found[n]>> \in OnFile
<1>1. OnFile \subseteq Record BY DEF IInv, TypeOK, OnFile, Parsed, File
<1>2. ASSUME NEW n \in Notifications, NEW r \in OnFile, r[1] = n
      PROVE  Found[n] = r[2] /\ <<n, Found[n]>> \in OnFile
  <2>1. r = <<n, r[2]>> /\ r[2] \in Item BY <1>1, <1>2 DEF Record
  <2>2. n \in Known(itemsFile) BY <1>2 DEF Known, OnFile
  <2>3. Found[n] = CHOOSE i \in Item : <<n, i>> \in OnFile BY <2>2 DEF Found
  <2>4. <<n, Found[n]>> \in OnFile BY <2>1, <2>3
  <2>5. <<n, Found[n]>> = r BY <1>2, <2>4 DEF IInv, Belongs, OneLineEach
  <2> QED BY <2>1, <2>4, <2>5
<1>3. \A r \in OnFile : r[1] \in Notifications BY <1>1 DEF Record
<1>4. ASSUME NEW n \in Notifications, Found[n] # None
      PROVE  \E r \in OnFile : r[1] = n
  BY <1>4 DEF Found, Known, OnFile
<1> QED BY <1>2, <1>3, <1>4

LEMMA ReadFailsStep == ASSUME IInv, ReadFails PROVE IInv'
<1>1. Found \in Inboxes /\ Empty \in Inboxes BY ItemsType DEF IInv
<1>2. OnFile' = OnFile BY DEF ReadFails, OnFile, files
<1>3. TypeOK'
  <2>1. faults' \in 0..MaxFaults
    BY InboxAssumption DEF IInv, TypeOK, ReadFails, Fault
  <2>2. items' \in Inboxes BY <1>1 DEF ReadFails
  <2> QED BY <2>1, <2>2 DEF IInv, TypeOK, ReadFails, Inboxes, files
<1>4. CASE items' = Found /\ UNCHANGED blind
  <2>1. Items' = Items BY <1>4 DEF ReadFails, Items, files
  <2> QED BY <1>3, <1>4, <2>1, SameKeeps DEF ReadFails, IInv, files
<1>5. CASE items' = Empty /\ blind' = TRUE
  <2>1. \A n \in Notifications : Items'[n] = None BY <1>5 DEF ReadFails, Items, Empty, files
  <2>2. \A r \in OnFile : r[1] \in Notifications
    BY DEF IInv, TypeOK, OnFile, Parsed, File, Record
  <2>3. SeenIsRead' BY <2>1, <1>3 DEF SeenIsRead, TypeOK
  <2>4. MarksOnFile' /\ NoneForgotten' BY <1>2, <1>5, <2>1, <2>2 DEF MarksOnFile, NoneForgotten
  <2>5. OneLineEach' /\ ReadStays'
    BY <1>2 DEF ReadFails, IInv, Belongs, OneLineEach, ReadStays, files
  <2> QED BY <1>3, <2>3, <2>4, <2>5 DEF IInv, Belongs
<1> QED BY <1>4, <1>5 DEF ReadFails, files

LEMMA RestartStep == ASSUME IInv, Restart PROVE IInv'
<1>1. OnFile' = OnFile /\ Items' = Found /\ Found \in Inboxes
  <2>1. OnFile' = OnFile /\ Known(itemsFile)' = Known(itemsFile) BY DEF Restart, OnFile, Known, files
  <2>2. Found' = Found BY <2>1 DEF Found
  <2> QED BY <2>1, <2>2, ItemsType DEF Restart, Items, IInv, files
<1>2. TypeOK'
  <2>1. restarts' \in 0..MaxRestarts
    BY InboxAssumption DEF IInv, TypeOK, Restart
  <2>2. items' \in Inboxes BY ItemsType DEF IInv, Restart
  <2> QED BY <2>1, <2>2 DEF IInv, TypeOK, Restart, Inboxes, files
<1>3. OneLineEach' /\ ReadStays'
  BY <1>1 DEF Restart, IInv, Belongs, OneLineEach, ReadStays, files
<1>4. SeenIsRead'
  <2> SUFFICES ASSUME NEW n \in seen \ unwritten, Found[n] # None
               PROVE  Found[n].read
    BY <1>1 DEF SeenIsRead, Restart, files
  <2>1. <<n, Found[n]>> \in OnFile BY FoundFacts DEF IInv, TypeOK
  <2> QED BY <2>1 DEF IInv, Belongs, ReadStays
<1>5. MarksOnFile' BY <1>1, FoundFacts DEF MarksOnFile, Restart, files
<1>6. NoneForgotten'
  <2>1. \A r \in OnFile : r[2] # None
    BY InboxAssumption DEF IInv, TypeOK, OnFile, Parsed, File, Record
  <2> QED BY <1>1, <2>1, FoundFacts DEF NoneForgotten
<1> QED BY <1>2, <1>3, <1>4, <1>5, <1>6 DEF IInv, Belongs

(* Handlers, by what they do to the inbox.                                 *)
Marks(some) ==
    /\ some \subseteq Notifications /\ \A n \in some : Items[n] # None
    /\ loaded' = TRUE /\ items' = Marked(Items, some)
    /\ Rewrite(some) \/ RewriteThrows(some)
    /\ UNCHANGED <<notesFile, mentioning, told, blind, restarts>>

(* A notification that is read in memory already is answered from there.   *)
MarksAgain(n) ==
    /\ n \in Notifications /\ Items[n] # None /\ Items[n].read
    /\ loaded' = TRUE /\ items' = Marked(Items, {n})
    /\ seen' = seen \cup {n}
    /\ UNCHANGED <<files, mentioning, told, unwritten, blind, faults, restarts>>

LEMMA MarkActions ==
    ASSUME NEW a \in Actors
    PROVE  /\ \A n \in Notifications : MarkRead(n, a) => Marks({n}) \/ MarksAgain(n)
           /\ MarkAllRead(a) => Marks(Unread(a))
  BY DEF MarkRead, MarkAllRead, Marks, MarksAgain, Unread, files

LEMMA MarksAgainStep ==
    ASSUME IInv, NEW n \in Notifications, MarksAgain(n) PROVE IInv'
<1>1. Items \in Inboxes BY ItemsType DEF IInv
<1>2. /\ items' \in Inboxes
      /\ \A m \in Notifications : items'[m] = None <=> Items[m] = None
      /\ items'[n].read
      /\ \A m \in Notifications \ {n} : items'[m] = Items[m]
  <2>1. {n} \in SUBSET Notifications /\ \A m \in {n} : Items[m] # None BY DEF MarksAgain
  <2> QED BY <1>1, <2>1, MarkedFacts DEF MarksAgain
<1>3. Items' = items' /\ OnFile' = OnFile BY DEF MarksAgain, Items, OnFile, files
<1>4. TypeOK' BY <1>2 DEF IInv, TypeOK, MarksAgain, files, Inboxes
<1>5. \A r \in OnFile : r[1] \in Notifications
  BY DEF IInv, TypeOK, OnFile, Parsed, File, Record
<1>6. OneLineEach' BY <1>3 DEF IInv, Belongs, OneLineEach
<1>7. ReadStays' BY <1>3 DEF IInv, Belongs, ReadStays, MarksOnFile, MarksAgain
<1>8. SeenIsRead' BY <1>2, <1>3 DEF IInv, TypeOK, Belongs, SeenIsRead, MarksAgain
<1>9. MarksOnFile' BY <1>2, <1>3, <1>5 DEF IInv, Belongs, MarksOnFile, MarksAgain
<1>10. NoneForgotten' BY <1>2, <1>3, <1>5 DEF IInv, Belongs, NoneForgotten, MarksAgain
<1> QED BY <1>4, <1>6, <1>7, <1>8, <1>9, <1>10 DEF IInv, Belongs

LEMMA MarksStep ==
    ASSUME IInv, NEW some, Marks(some) PROVE IInv'
<1>1. some \in SUBSET Notifications BY DEF Marks
<1>2. /\ Belongs'
      /\ items' \in Inboxes /\ itemsFile' \in File(Record)
      /\ seen' \subseteq Notifications /\ unwritten' \subseteq Notifications
      /\ faults' \in 0..MaxFaults
  BY <1>1, MarkStep DEF Marks
<1>3. TypeOK' BY <1>2 DEF IInv, TypeOK, Marks, Inboxes
<1> QED BY <1>2, <1>3 DEF IInv

LEMMA SaveNoteStep ==
    ASSUME IInv, NEW k \in Notes, NEW mentioned \in SUBSET Actors, SaveNote(k, mentioned)
    PROVE  IInv'
<1>1. loaded' = TRUE /\ items' = Items /\ Items' = Items BY DEF SaveNote, Items
<1>2. Belongs' BY <1>1, SameKeeps DEF SaveNote
<1>3. Items \in Inboxes BY ItemsType DEF IInv
<1>4. notesFile' \in File(Notes) /\ mentioning' \in [note : Notes, todo : SUBSET Actors] \cup {None}
  BY AddLineFacts, CutLineFacts DEF SaveNote, IInv, TypeOK
<1>5. faults' \in 0..MaxFaults BY InboxAssumption DEF SaveNote, IInv, TypeOK, Fault
<1>6. TypeOK' BY <1>1, <1>3, <1>4, <1>5 DEF SaveNote, IInv, TypeOK, Inboxes
<1> QED BY <1>2, <1>6 DEF IInv

(* A notification of a stage or of a note.                                 *)
Told(n, item) ==
    /\ n \in Notifications /\ item \in Item /\ item.read = FALSE
    /\ item.note # None => mentioning # None /\ item.note = mentioning.note
    /\ Create(n, item)
    /\ mentioning' = None \/ (mentioning # None /\ mentioning' = mentioning)
         \/ (mentioning # None /\ \E a \in Actors : mentioning' = [mentioning EXCEPT !.todo = @ \ {a}])
    /\ UNCHANGED <<notesFile, seen, unwritten, blind, restarts>>

LEMMA TellActions ==
    ASSUME IInv, NEW n \in Notifications, NEW a \in Actors
    PROVE  /\ \A o \in Outcomes : Tell(n, a, o) => \E item : Told(n, item)
           /\ Mention(n, a) => \E item : Told(n, item)
<1>1. ASSUME NEW o \in Outcomes, Tell(n, a, o) PROVE \E item : Told(n, item)
  <2> DEFINE item == [to |-> a, type |-> o, note |-> None, read |-> FALSE]
  <2>1. item \in Item /\ item.read = FALSE /\ item.note = None BY DEF Item
  <2>2. Create(n, item) /\ UNCHANGED <<notesFile, mentioning, seen, unwritten, blind, restarts>>
    BY <1>1 DEF Tell
  <2> HIDE DEF item
  <2> QED BY <2>1, <2>2 DEF Told
<1>2. ASSUME Mention(n, a) PROVE \E item : Told(n, item)
  <2> DEFINE item == [to |-> a, type |-> "mention", note |-> mentioning.note, read |-> FALSE]
  <2>1. mentioning # None /\ mentioning.note \in Notes BY <1>2 DEF Mention, IInv, TypeOK
  <2>2. item \in Item /\ item.read = FALSE /\ item.note = mentioning.note BY <2>1 DEF Item
  <2>3. Create(n, item) /\ UNCHANGED <<notesFile, seen, unwritten, blind, restarts>>
        /\ mentioning' = IF n \in told' THEN [mentioning EXCEPT !.todo = @ \ {a}] ELSE None
    BY <1>2 DEF Mention
  <2> HIDE DEF item
  <2> QED BY <2>1, <2>2, <2>3 DEF Told
<1> QED BY <1>1, <1>2

LEMMA ToldStep ==
    ASSUME IInv, NEW n, NEW item, Told(n, item) PROVE IInv'
<1>1. /\ Belongs'
      /\ items' \in Inboxes /\ itemsFile' \in File(Record)
      /\ told' \subseteq Notifications /\ faults' \in 0..MaxFaults
  BY CreateStep DEF Told
<1>2. mentioning' \in [note : Notes, todo : SUBSET Actors] \cup {None}
  BY DEF Told, IInv, TypeOK
<1>3. loaded' = TRUE BY DEF Told, Create, Push
<1>4. TypeOK' BY <1>1, <1>2, <1>3 DEF Told, IInv, TypeOK, Inboxes
<1> QED BY <1>1, <1>4 DEF IInv

LEMMA NoteToldStep == ASSUME IInv, NoteTold PROVE IInv'
<1>1. Known(itemsFile)' = Known(itemsFile) /\ OnFile' = OnFile
  BY DEF NoteTold, files, Known, OnFile
<1>2. Items' = Items BY <1>1 DEF NoteTold, Items, Found
<1>3. Belongs' BY <1>2, SameKeeps DEF NoteTold, files
<1>4. TypeOK' BY DEF NoteTold, files, IInv, TypeOK
<1> QED BY <1>3, <1>4 DEF IInv

(* What a step is, by what it does to the inbox.                           *)
LEMMA NextSteps ==
    ASSUME IInv, Next
    PROVE  \/ \E n, item : Told(n, item)
           \/ \E some : Marks(some)
           \/ \E n \in Notifications : MarksAgain(n)
           \/ \E k \in Notes, mentioned \in SUBSET Actors : SaveNote(k, mentioned)
           \/ NoteTold \/ ReadFails \/ Restart
  BY MarkActions, TellActions DEF Next, InboxRequest

LEMMA StutterStep == ASSUME IInv, UNCHANGED vars PROVE IInv' /\ Items' = Items /\ OnFile' = OnFile
<1>1. Known(itemsFile)' = Known(itemsFile) /\ OnFile' = OnFile
  BY DEF vars, files, Known, OnFile
<1>2. Items' = Items BY <1>1 DEF vars, Items, Found
<1>3. Belongs' BY <1>2, SameKeeps DEF vars, files
<1>4. TypeOK' BY DEF vars, files, IInv, TypeOK
<1> QED BY <1>1, <1>2, <1>3, <1>4 DEF IInv

THEOREM Invariance == Spec => []IInv
<1>1. ASSUME IInv, [Next]_vars PROVE IInv'
  <2>1. CASE UNCHANGED vars BY <1>1, <2>1, StutterStep
  <2>2. CASE Next
    BY <1>1, <2>2, NextSteps, ToldStep, MarksStep, MarksAgainStep, SaveNoteStep, NoteToldStep,
       ReadFailsStep, RestartStep
  <2> QED BY <1>1, <2>1, <2>2
<1> QED BY <1>1, InitIInv, PTL DEF Spec

(* The inbox in memory, on file and under way is always well formed.       *)
THEOREM InboxTypes == Spec => []TypeOK
<1>1. IInv => TypeOK BY DEF IInv
<1> QED BY Invariance, <1>1, PTL

(* A mark-read that was answered is never taken back, by any restart,      *)
(* unless an earlier write of that mark failed (markRead,                  *)
(* rewriteNotifications).                                                  *)
THEOREM MarksSurvive == Spec => []ReadStays
<1>1. IInv => ReadStays BY DEF IInv, Belongs
<1> QED BY Invariance, <1>1, PTL

-----------------------------------------------------------------------------
(* What the file keeps.                                                    *)

LEMMA KeptStep ==
    ASSUME IInv, [Next]_vars, NEW n \in Known(itemsFile) \ Known(itemsFile')
    PROVE  faults' # faults \/ blind \/ n \in {r[1] : r \in itemsFile.tail}
<1>1. PICK r \in OnFile : r[1] = n BY DEF Known, OnFile
<1>2. r \notin OnFile' BY <1>1 DEF Known, OnFile
<1>3. itemsFile' # itemsFile
  BY DEF Known
<1>4. /\ itemsFile \in File(Record) /\ r \in Record /\ n \in Notifications
      /\ faults \in Nat
  BY <1>1 DEF IInv, TypeOK, OnFile, Parsed, File, Record
<1>5. Fault => faults' # faults BY <1>4 DEF Fault
<1>6. ASSUME NEW m, NEW item, Told(m, item), ~Fault
      PROVE  n \in {q[1] : q \in itemsFile.tail}
  <2>1. itemsFile' = AddLine(itemsFile, <<m, item>>) /\ <<m, item>> \in Record
    BY <1>6 DEF Told, Create, Record
  <2>2. r \in itemsFile.tail BY <1>1, <1>2, <1>4, <2>1, AddLineFacts DEF OnFile
  <2> QED BY <1>1, <2>2
<1>7. ASSUME NEW some, Marks(some), ~Fault, ~blind PROVE FALSE
  <2>1. Items[n] # None BY <1>1, <1>7 DEF IInv, Belongs, NoneForgotten
  <2>2. itemsFile'.lines = Lines(items') /\ itemsFile'.tail = {}
    BY <1>7 DEF Marks, Rewrite, RewriteThrows
  <2>3. Items \in Inboxes BY ItemsType DEF IInv
  <2>4. items' \in Inboxes /\ items'[n] # None
    BY <1>4, <1>7, <2>1, <2>3, MarkedFacts DEF Marks
  <2>5. <<n, items'[n]>> \in Lines(items') BY <1>4, <2>4, LinesFacts
  <2>6. <<n, items'[n]>>[1] = n OBVIOUS
  <2>7. n \in Known(itemsFile') BY <2>2, <2>5, <2>6 DEF Known, Parsed
  <2> QED BY <2>7
<1>8. CASE Next
  <2>1. ASSUME NEW m, MarksAgain(m) PROVE FALSE BY <1>3, <2>1 DEF MarksAgain, files
  <2>2. ASSUME NEW k, NEW mentioned, SaveNote(k, mentioned) PROVE FALSE
    BY <1>3, <2>2 DEF SaveNote
  <2>3. ASSUME NoteTold \/ ReadFails \/ Restart PROVE FALSE
    BY <1>3, <2>3 DEF NoteTold, ReadFails, Restart, files
  <2> QED BY <1>5, <1>6, <1>7, <1>8, <2>1, <2>2, <2>3, NextSteps
<1>9. CASE UNCHANGED vars BY <1>3, <1>9 DEF vars, files
<1> QED BY <1>8, <1>9

(* Nothing that a recipient, an author or a restart does makes the file    *)
(* forget a notification: that takes a write that fails, before or at this *)
(* step, or a process that could not read it (FileNotificationRepository). *)
THEOREM NothingIsForgotten == Spec => KeptOnFile
<1>1. IInv /\ [Next]_vars =>
        [\A n \in Known(itemsFile) \ Known(itemsFile') :
            \/ faults' # faults
            \/ blind
            \/ n \in {r[1] : r \in itemsFile.tail}]_vars
  BY KeptStep
<1> QED BY Invariance, <1>1, PTL DEF Spec, KeptOnFile

-----------------------------------------------------------------------------
(* Notes without a line of their own, that somebody is or may yet be told  *)
(* of: each has cost a call that failed, and an open line one more.        *)

Spoken ==
    {k \in Notes : \/ mentioning # None /\ mentioning.note = k
                   \/ \E r \in OnFile : r[2].note = k
                   \/ \E n \in Notifications : Items[n] # None /\ Items[n].note = k}

Lost == Spoken \ notesFile.lines

Cost == IF notesFile.open THEN 1 ELSE 0

LostCostFaults == IsFiniteSet(Lost) /\ Cardinality(Lost) + Cost <= faults

(* Nobody is told of a note but the one that is being told.                *)
LEMMA SpokenStep ==
    ASSUME IInv, NEW loses \in SUBSET Notes,
           \A r \in OnFile' : \/ r[2].note \in Spoken \/ r[2].note \notin Notes,
           \A n \in Notifications : Items'[n] # None =>
                \/ Items'[n].note \in Spoken \/ Items'[n].note \notin Notes,
           mentioning' # None => mentioning'.note \in Spoken \cup loses
    PROVE  Spoken' \subseteq Spoken \cup loses
  BY DEF Spoken

LEMMA ToldSpeaks ==
    ASSUME IInv, NEW n, NEW item, Told(n, item)
    PROVE  Spoken' \subseteq Spoken
<1>1. item.note \in Spoken \/ item.note \notin Notes
  BY InboxAssumption DEF Told, Spoken
<1>2. Items' = [Items EXCEPT ![n] = item] /\ Items \in Inboxes /\ n \in Notifications
  BY ItemsType DEF Told, Create, Push, Items, IInv
<1>3. OnFile' \subseteq OnFile \cup {<<n, item>>}
  <2>1. <<n, item>> \in Record /\ itemsFile \in File(Record)
    BY DEF IInv, TypeOK, Record, Told
  <2> QED BY <2>1, AddLineFacts, CutLineFacts DEF Told, Create, OnFile
<1>4. \A r \in OnFile' : r[2].note \in Spoken \/ r[2].note \notin Notes
  BY <1>1, <1>3 DEF Spoken
<1>5. ASSUME NEW m \in Notifications, Items'[m] # None
      PROVE  Items'[m].note \in Spoken \/ Items'[m].note \notin Notes
  BY <1>1, <1>2, <1>5 DEF Inboxes, Spoken
<1>6. mentioning' # None => mentioning'.note \in Spoken
  BY DEF Told, Spoken, IInv, TypeOK
<1>7. {} \in SUBSET Notes /\ Spoken \cup {} = Spoken OBVIOUS
<1>8. Spoken' \subseteq Spoken \cup {} BY <1>4, <1>5, <1>6, <1>7, SpokenStep
<1> QED BY <1>7, <1>8

LEMMA MarksSpeaks ==
    ASSUME IInv, NEW some \in SUBSET Notifications, \A n \in some : Items[n] # None,
           loaded' = TRUE, items' = Marked(Items, some), mentioning' = mentioning,
           OnFile' = OnFile \/ OnFile' \subseteq Lines(items')
    PROVE  Spoken' \subseteq Spoken
<1>1. Items' = items' /\ Items \in Inboxes BY ItemsType DEF Items, IInv
<1>2. /\ items' \in Inboxes
      /\ \A n \in Notifications : items'[n] = None <=> Items[n] = None
      /\ \A n \in Notifications : Items[n] # None => items'[n].note = Items[n].note
  BY <1>1, MarkedFacts
<1>3. ASSUME NEW n \in Notifications, items'[n] # None
      PROVE  items'[n].note \in Spoken \/ items'[n].note \notin Notes
  BY <1>2, <1>3 DEF Spoken
<1>4. ASSUME NEW r \in OnFile' PROVE r[2].note \in Spoken \/ r[2].note \notin Notes
  <2>1. CASE r \in OnFile BY <2>1 DEF Spoken
  <2>2. CASE r \in Lines(items')
    <3>1. r[1] \in Notifications /\ items'[r[1]] # None /\ r[2] = items'[r[1]]
      BY <1>2, <2>2, LinesFacts
    <3> QED BY <1>3, <3>1
  <2> QED BY <2>1, <2>2
<1>5. mentioning' # None => mentioning'.note \in Spoken BY DEF Spoken, IInv, TypeOK
<1>6. {} \in SUBSET Notes /\ Spoken \cup {} = Spoken OBVIOUS
<1>7. \A n \in Notifications : Items'[n] # None =>
        Items'[n].note \in Spoken \/ Items'[n].note \notin Notes
  BY <1>1, <1>3
<1>8. Spoken' \subseteq Spoken \cup {} BY <1>4, <1>5, <1>6, <1>7, SpokenStep
<1> QED BY <1>6, <1>8

LEMMA MarksFile ==
    ASSUME IInv, NEW some, Marks(some)
    PROVE  OnFile' = OnFile \/ OnFile' \subseteq Lines(items')
<1>1. Items \in Inboxes /\ some \in SUBSET Notifications BY ItemsType DEF Marks, IInv
<1>2. items' \in Inboxes BY <1>1, MarkedFacts DEF Marks
<1>3. Lines(items') \in SUBSET Record BY <1>2, LinesFacts
<1>4. CASE itemsFile' \in CutRewrite(Lines(items'))
  BY <1>3, <1>4, CutRewriteFacts DEF OnFile
<1>5. CASE Rewrite(some) BY <1>5 DEF Rewrite, OnFile, Parsed
<1>6. CASE itemsFile' = itemsFile BY <1>6 DEF OnFile
<1> QED BY <1>4, <1>5, <1>6 DEF Marks, RewriteThrows

(* What speaks of no new note, and leaves the file of notes, costs nothing.*)
LEMMA Harmless ==
    ASSUME IInv, LostCostFaults, Spoken' \subseteq Spoken, notesFile' = notesFile,
           faults' = faults \/ Fault
    PROVE  LostCostFaults'
<1>1. Lost' \in SUBSET Lost BY DEF Lost
<1>2. IsFiniteSet(Lost') /\ Cardinality(Lost') <= Cardinality(Lost)
  BY <1>1, FS_Subset DEF LostCostFaults
<1>3. Cardinality(Lost) \in Nat /\ Cardinality(Lost') \in Nat
  BY <1>2, FS_CardinalityType DEF LostCostFaults
<1>4. faults \in Nat /\ faults' \in Nat /\ faults <= faults' /\ Cost' = Cost /\ Cost \in Nat
  BY DEF IInv, TypeOK, Fault, Cost
<1>5. Cardinality(Lost') + Cost' <= faults' BY <1>2, <1>3, <1>4 DEF LostCostFaults
<1> QED BY <1>2, <1>5 DEF LostCostFaults

(* A note whose save was answered without a fault is readable, unless it   *)
(* closes an open line: then that line was what the fault was for.         *)
LEMMA SaveNoteCosts ==
    ASSUME IInv, LostCostFaults, NEW k \in Notes, NEW mentioned \in SUBSET Actors,
           SaveNote(k, mentioned)
    PROVE  LostCostFaults'
<1>1. loaded' = TRUE /\ items' = Items /\ Items' = Items /\ OnFile' = OnFile
  BY DEF SaveNote, Items, OnFile
<1>2. mentioning' = mentioning \/ mentioning'.note = k
  BY DEF SaveNote
<1>3. Spoken' \subseteq Spoken \cup {k} BY <1>1, <1>2 DEF Spoken
<1>4. /\ IsFiniteSet(Lost) /\ Cardinality(Lost) \in Nat
      /\ Cardinality(Lost) + Cost <= faults /\ faults \in Nat
      /\ notesFile \in File(Notes)
  BY FS_CardinalityType DEF LostCostFaults, IInv, TypeOK
<1>5. CASE Fault /\ notesFile' \in CutLine(notesFile, k) /\ UNCHANGED mentioning
  <2>1. Spoken' = Spoken BY <1>1, <1>5 DEF Spoken
  <2>2. notesFile'.lines = notesFile.lines BY <1>4, <1>5 DEF CutLine
  <2>3. Lost' = Lost BY <2>1, <2>2 DEF Lost
  <2>4. Cost' <= Cost + 1 /\ Cost \in Nat /\ Cost' \in Nat BY DEF Cost
  <2>5. faults' = faults + 1 BY <1>5 DEF Fault
  <2> QED BY <1>4, <2>3, <2>4, <2>5 DEF LostCostFaults
<1>6. CASE notesFile' = AddLine(notesFile, k) /\ UNCHANGED faults
  <2>1. Cost' = 0 BY <1>6 DEF AddLine, Cost
  <2>2. CASE notesFile.open
    <3>1. notesFile'.lines = notesFile.lines BY <1>6, <2>2 DEF AddLine
    <3>2. Lost' \in SUBSET (Lost \cup {k}) BY <1>3, <3>1 DEF Lost
    <3>3. IsFiniteSet(Lost \cup {k}) /\ Cardinality(Lost \cup {k}) <= Cardinality(Lost) + 1
          /\ Cardinality(Lost \cup {k}) \in Nat
      <4>1. /\ IsFiniteSet(Lost \cup {k})
            /\ Cardinality(Lost \cup {k}) = IF k \in Lost THEN Cardinality(Lost)
                                            ELSE Cardinality(Lost) + 1
        BY <1>4, FS_AddElement
      <4> QED BY <1>4, <4>1
    <3>4. IsFiniteSet(Lost') /\ Cardinality(Lost') <= Cardinality(Lost \cup {k})
          /\ Cardinality(Lost') \in Nat
      BY <3>2, <3>3, FS_Subset, FS_CardinalityType
    <3>5. Cost = 1 BY <2>2 DEF Cost
    <3>6. Cardinality(Lost') + Cost' <= faults'
      BY <1>4, <1>6, <2>1, <3>3, <3>4, <3>5
    <3> QED BY <3>4, <3>6 DEF LostCostFaults
  <2>3. CASE ~notesFile.open
    <3>1. notesFile'.lines = notesFile.lines \cup {k} BY <1>6, <2>3 DEF AddLine
    <3>2. Lost' \in SUBSET Lost BY <1>3, <3>1 DEF Lost
    <3>3. IsFiniteSet(Lost') /\ Cardinality(Lost') <= Cardinality(Lost)
          /\ Cardinality(Lost') \in Nat
      BY <1>4, <3>2, FS_Subset, FS_CardinalityType
    <3>4. Cost = 0 BY <2>3 DEF Cost
    <3>5. Cardinality(Lost') + Cost' <= faults' BY <1>4, <1>6, <2>1, <3>3, <3>4
    <3> QED BY <3>3, <3>5 DEF LostCostFaults
  <2> QED BY <2>2, <2>3
<1> QED BY <1>5, <1>6 DEF SaveNote

LEMMA FilesSpeak ==
    ASSUME IInv, mentioning' = None, OnFile' = OnFile,
           Items' \in {Items, Found, Empty}
    PROVE  Spoken' \subseteq Spoken
<1>1. \A n \in Notifications : Found[n] # None => <<n, Found[n]>> \in OnFile BY FoundFacts
<1>2. \A n \in Notifications : Empty[n] = None BY DEF Empty
<1>3. CASE Items' = Items BY <1>3 DEF Spoken
<1>4. CASE Items' = Found
  <2>1. ASSUME NEW n \in Notifications, Found[n] # None
        PROVE  \E r \in OnFile : r[2].note = Found[n].note
    BY <1>1, <2>1
  <2> QED BY <1>4, <2>1 DEF Spoken
<1>5. CASE Items' = Empty BY <1>2, <1>5 DEF Spoken
<1> QED BY <1>3, <1>4, <1>5

LEMMA LostStep ==
    ASSUME IInv, LostCostFaults, [Next]_vars PROVE LostCostFaults'
<1>1. ASSUME NEW n, NEW item, Told(n, item) PROVE LostCostFaults'
  <2>1. Spoken' \subseteq Spoken BY <1>1, ToldSpeaks
  <2> QED BY <1>1, <2>1, Harmless DEF Told, Create
<1>2. ASSUME NEW some, Marks(some) PROVE LostCostFaults'
  <2>1. Spoken' \subseteq Spoken BY <1>2, MarksFile, MarksSpeaks DEF Marks
  <2> QED BY <1>2, <2>1, Harmless DEF Marks, Rewrite, RewriteThrows
<1>3. ASSUME NEW n \in Notifications, MarksAgain(n) PROVE LostCostFaults'
  <2>1. OnFile' = OnFile BY <1>3 DEF MarksAgain, OnFile, files
  <2>2. {n} \in SUBSET Notifications /\ \A m \in {n} : Items[m] # None
    BY <1>3 DEF MarksAgain
  <2>3. Spoken' \subseteq Spoken BY <1>3, <2>1, <2>2, MarksSpeaks DEF MarksAgain
  <2> QED BY <1>3, <2>3, Harmless DEF MarksAgain, files
<1>4. ASSUME NEW k \in Notes, NEW mentioned \in SUBSET Actors, SaveNote(k, mentioned)
      PROVE  LostCostFaults'
  BY <1>4, SaveNoteCosts
<1>5. CASE NoteTold
  <2>1. OnFile' = OnFile /\ Known(itemsFile)' = Known(itemsFile)
    BY <1>5 DEF NoteTold, files, OnFile, Known
  <2>2. Items' = Items BY <1>5, <2>1 DEF NoteTold, Items, Found
  <2>3. Spoken' \subseteq Spoken BY <1>5, <2>1, <2>2, FilesSpeak DEF NoteTold
  <2> QED BY <1>5, <2>3, Harmless DEF NoteTold, files
<1>6. CASE ReadFails
  <2>1. OnFile' = OnFile BY <1>6 DEF ReadFails, files, OnFile
  <2>2. Items' \in {Found, Empty} BY <1>6 DEF ReadFails, Items
  <2>3. mentioning' = mentioning BY <1>6 DEF ReadFails
  <2>4. Spoken' \subseteq Spoken
    <3>1. \A n \in Notifications : Found[n] # None => <<n, Found[n]>> \in OnFile BY FoundFacts
    <3>2. ASSUME NEW n \in Notifications, Items'[n] # None
          PROVE  \E r \in OnFile : r[2].note = Items'[n].note
      BY <2>2, <3>1, <3>2 DEF Empty
    <3> QED BY <2>1, <2>3, <3>2 DEF Spoken
  <2> QED BY <1>6, <2>4, Harmless DEF ReadFails, files
<1>7. CASE Restart
  <2>1. OnFile' = OnFile /\ Known(itemsFile)' = Known(itemsFile)
    BY <1>7 DEF Restart, files, OnFile, Known
  <2>2. Items' = Found BY <1>7, <2>1 DEF Restart, Items, Found
  <2>3. Spoken' \subseteq Spoken BY <1>7, <2>1, <2>2, FilesSpeak DEF Restart
  <2> QED BY <1>7, <2>3, Harmless DEF Restart, files
<1>8. CASE UNCHANGED vars
  <2>1. Items' = Items /\ OnFile' = OnFile BY <1>8, StutterStep
  <2>2. Spoken' \subseteq Spoken BY <1>8, <2>1 DEF Spoken, vars
  <2> QED BY <1>8, <2>2, Harmless DEF vars, files
<1> QED BY <1>1, <1>2, <1>3, <1>4, <1>5, <1>6, <1>7, <1>8, NextSteps

LEMMA InitLost == Init => LostCostFaults
<1> SUFFICES ASSUME Init PROVE LostCostFaults OBVIOUS
<1>1. OnFile = {} /\ itemsFile.lines = {} /\ itemsFile.tail = {}
  BY DEF Init, OnFile, Parsed, EmptyFile
<1>2. \A n \in Notifications : Items[n] = None
  BY <1>1 DEF Init, Items, Found, Known, Parsed
<1>3. Spoken = {} BY <1>1, <1>2 DEF Init, Spoken
<1>4. Lost = {} /\ Cost = 0 BY <1>3 DEF Lost, Cost, Init, EmptyFile
<1> QED BY <1>4, FS_EmptySet DEF LostCostFaults, Init

(* Every mention can be traced to its note after any restarts, but for one *)
(* note per failed call (createNote saves the note first).                 *)
THEOREM MentionsTraced == Spec => []OrphansCostFaults
<1>1. ASSUME IInv, LostCostFaults PROVE OrphansCostFaults
  <2>1. Orphans \in SUBSET Lost BY DEF Orphans, Lost, Spoken, Parsed
  <2>2. IsFiniteSet(Orphans) /\ Cardinality(Orphans) <= Cardinality(Lost)
    BY <1>1, <2>1, FS_Subset DEF LostCostFaults
  <2>3. Cardinality(Orphans) \in Nat /\ Cardinality(Lost) \in Nat /\ Cost \in Nat /\ faults \in Nat
    BY <1>1, <2>2, FS_CardinalityType DEF LostCostFaults, IInv, TypeOK, Cost
  <2> QED BY <1>1, <2>2, <2>3 DEF LostCostFaults, OrphansCostFaults
<1> QED BY <1>1, Invariance, InitLost, LostStep, PTL DEF Spec

=============================================================================
