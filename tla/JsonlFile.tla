----------------------------- MODULE JsonlFile -----------------------------
(***************************************************************************)
(* A JSON Lines file as the repositories under STORAGE_PATH append to it   *)
(* and read it back: one record per line, and lines that do not parse are  *)
(* skipped.  A write that is cut short, by an error or the end of the      *)
(* process, leaves a last line without its newline: part of a record, or a *)
(* whole one.  The next record then goes to the end of that line.          *)
(*                                                                         *)
(* Abstracted: the order of the lines, and the lines that do not parse.    *)
(***************************************************************************)

(* open: the last line has no newline; tail: the record on it, if whole.   *)
File(Records) == [lines : SUBSET Records, open : BOOLEAN, tail : SUBSET Records]

EmptyFile == [lines |-> {}, open |-> FALSE, tail |-> {}]

(* What a reload finds.                                                    *)
Parsed(f) == f.lines \cup f.tail

(* Mutant of AddLine: the newline is written in front of the next record   *)
(* only where a record begins a file.                                      *)
AddWithoutNewline(f, r) ==
    IF f.open THEN [lines |-> f.lines, open |-> TRUE, tail |-> {}]
              ELSE [lines |-> f.lines, open |-> TRUE, tail |-> {r}]

(* A line is appended; on an open line it makes that line unreadable.      *)
AddLine(f, r) ==
    [lines |-> IF f.open THEN f.lines ELSE f.lines \cup {r}, open |-> FALSE, tail |-> {}]

(* An append that is cut short: before its first byte, within the record,  *)
(* or before the newline.                                                  *)
CutLine(f, r) ==
    {f} \cup {[lines |-> f.lines, open |-> TRUE, tail |-> t] :
                 t \in IF f.open THEN {{}} ELSE {{}, {r}}}

(* A rewrite that is cut short after the file was truncated: some whole    *)
(* lines, the last of which may lack its newline, or be a part of one.     *)
CutRewrite(records) ==
    LET Cut(written) ==
            {[lines |-> written, open |-> FALSE, tail |-> {}]} \cup
            {[lines |-> written, open |-> TRUE, tail |-> part] :
                part \in {{r} : r \in records \ written}
                          \cup (IF written = records THEN {} ELSE {{}})}
    IN  UNION {Cut(written) : written \in SUBSET records}

=============================================================================
