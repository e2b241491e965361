---------------------------- MODULE ReceiptScan ----------------------------
(***************************************************************************)
(* Reading a segment backwards in blocks                                   *)
(* (raucle/receipt_store.py, _iter_records_reverse), the loop behind       *)
(* recent() and find_by_hash().                                            *)
(*                                                                         *)
(* A segment holds one record per line.  A byte is the place it has in its *)
(* record, or NL; a line parses when it is a record from its first to its  *)
(* last byte.  One step reads one block.                                   *)
(***************************************************************************)
EXTENDS Integers, Sequences, SequencesExt

CONSTANTS
    Lengths,     \* lengths of records, in bytes
    MaxRecords,  \* bound: records in the segment
    MaxChunk,    \* bound: block size (64 KiB in the code)
    NL           \* the line feed

VARIABLES
    seg,    \* seg[i]: the length of record i, oldest first
    bytes,  \* the file
    chunk,  \* the block size
    pos,    \* bytes before pos are still to be read
    rem,    \* the start of what was read, not yet a whole line
    out,    \* records yielded, in order
    done

vars == <<seg, bytes, chunk, pos, rem, out, done>>

Record(i) == [k \in 1 .. seg[i] |-> <<i, k>>]

Written == FlattenSeq([i \in DOMAIN seg |-> Append(Record(i), NL)])

(* split(b"\n") *)
Split(s) ==
    LET Cut(lines, b) == IF b = NL THEN Append(lines, <<>>)
                         ELSE [lines EXCEPT ![Len(lines)] = Append(@, b)]
    IN  FoldLeft(Cut, <<<<>>>>, s)

(* _parse: the record a line is, none if it is not one. *)
Parse(line) == SetToSeq({i \in DOMAIN seg : line = Record(i)})

ParseAll(lines) == FlattenSeq([k \in DOMAIN lines |-> Parse(lines[k])])

Init ==
    /\ seg \in UNION {[1 .. n -> Lengths] : n \in 0 .. MaxRecords}
    /\ chunk \in 1 .. MaxChunk
    /\ bytes = Written
    /\ pos = Len(bytes)
    /\ rem = <<>>
    /\ out = <<>>
    /\ done = FALSE

(* One turn of the loop: the block in front of what was read is put behind
   the remainder, and all lines but the first are yielded, last one first. *)
ReadBlock ==
    LET from  == IF pos > chunk THEN pos - chunk ELSE 0
        lines == Split(rem \o SubSeq(bytes, from + 1, pos))
    IN  /\ pos > 0
        /\ pos' = from
        /\ rem' = Head(lines)
        /\ out' = out \o ParseAll(Reverse(Tail(lines)))
        /\ UNCHANGED <<seg, bytes, chunk, done>>

(* At the start of the file the remainder is the first line. *)
Finish ==
    /\ pos = 0
    /\ ~done
    /\ done' = TRUE
    /\ out' = out \o Parse(rem)
    /\ UNCHANGED <<seg, bytes, chunk, pos, rem>>

Next == ReadBlock \/ Finish

Spec == Init /\ [][Next]_vars /\ WF_vars(Next)

----------------------------------------------------------------------------
(* Properties *)

NewestFirst == [i \in 1 .. Len(seg) |-> Len(seg) + 1 - i]

(* "Locate one record by receipt hash across segments" (find_by_hash): the
   scan yields every record. *)
EveryRecordFound == done => out = NewestFirst
=============================================================================
