------------------------------ MODULE Records ------------------------------
(***************************************************************************)
(* What is written out of the ledgers: disposal of a span of records with   *)
(* its signed receipt, escrow and re-anchored remainder (records.py); the    *)
(* projection that merges receipts and audit events into one fresh chain    *)
(* (projection.py); and the authorship receipts a session leaves, one file  *)
(* each (authorship.py and its command line).                               *)
(*                                                                         *)
(* A record is [id, ts, kind, edited]: kind is "event", "meta" or "torn",    *)
(* edited tells that its content no longer hashes to its hash field.        *)
(***************************************************************************)
EXTENDS Naturals, Sequences, FiniteSets, SequencesExt, FiniteSetsExt

CONSTANTS
    Chains,       \* audit chains to dispose of
    Spans,        \* spans: [from, to]
    Dirs,         \* output directories
    Operator,     \* the operator's key
    Stranger,     \* any other key
    MaxRuns,      \* bound: disposals
    MaxEdits,     \* bound: changes to an escrow copy
    Sessions,     \* processes that sign authorship receipts
    MaxReceipts,  \* bound: authorship receipts
    MaxRemovals   \* bound: authorship files removed

VARIABLES
    chain,     \* the chain disposals read
    dir,       \* per directory: [receipt, escrow, retained], as on disk
    job,       \* the disposal under way: <<[at, step, ...]>> or <<>>
    runs,      \* disposals begun, per directory
    edits,     \* changes made to escrow copies
    slots,     \* authorship directory: slot number to receipts in the file
    pending,   \* per session: the slot chosen, not yet written, or NoSlot
    signed,    \* authorship receipts signed
    removed,   \* authorship files removed
    overlap    \* two sessions had chosen at the same time

vars == <<chain, dir, job, runs, edits, slots, pending, signed, removed, overlap>>
diskVars == <<chain, dir, job, runs, edits>>
slotVars == <<slots, pending, signed, removed, overlap>>

NoSlot == 99
EmptyDir == [receipt |-> <<>>, escrow |-> <<>>, retained |-> <<>>]

Init ==
    /\ chain \in Chains
    /\ dir = [d \in Dirs |-> EmptyDir]
    /\ job = <<>>
    /\ runs = [d \in Dirs |-> 0]
    /\ edits = 0
    /\ slots = <<>>
    /\ pending = [s \in Sessions |-> NoSlot]
    /\ signed = 0
    /\ removed = 0
    /\ overlap = FALSE

-----------------------------------------------------------------------------
(* Disposal *)

(* split_chain: a line that does not parse falls into neither half. *)
InSpan_Open(r, span) == span.from <= r.ts /\ r.ts < span.to   \* wrong: the end is left out

InSpan(r, span) == span.from <= r.ts /\ r.ts <= span.to

RemovedOf(c, span) == SelectSeq(c, LAMBDA r : r.kind = "event" /\ InSpan(r, span))

RetainedOf_Overlap(c, span) ==   \* wrong: the record at the end is kept too
    SelectSeq(c, LAMBDA r : r.kind = "meta" \/ (r.kind = "event" /\ ~InSpan_Open(r, span)))

RetainedOf(c, span) ==
    SelectSeq(c, LAMBDA r : r.kind = "meta" \/ (r.kind = "event" /\ ~InSpan(r, span)))

(* span_evidence: count and digest over the hash fields, in order. *)
Evidence(rs) == [count |-> Len(rs), digest |-> [k \in DOMAIN rs |-> rs[k].id]]

(* span_evidence with recheck: every record must hash to its hash field. *)
Rechecked(rs) == \A k \in DOMAIN rs : ~rs[k].edited

(* build_destruction: nothing to destroy is an error and writes nothing, else
   the receipt is signed and written first. *)
Destroy(d, span) ==
    LET gone == RemovedOf(chain, span) IN
    /\ job = <<>>
    /\ FoldFunction(+, 0, runs) < MaxRuns
    /\ gone # <<>>
    /\ runs' = [runs EXCEPT ![d] = @ + 1]
    /\ dir' = [dir EXCEPT ![d].receipt = <<[key |-> Operator, span |-> span, block |-> Evidence(gone)]>>]
    /\ job' = <<[at |-> d, span |-> span, step |-> "escrow"]>>
    /\ UNCHANGED <<chain, edits, slotVars>>

WriteEscrow ==
    /\ job # <<>> /\ job[1].step = "escrow"
    /\ dir' = [dir EXCEPT ![job[1].at].escrow = RemovedOf(chain, job[1].span)]
    /\ job' = <<[job[1] EXCEPT !.step = "retained"]>>
    /\ UNCHANGED <<chain, runs, edits, slotVars>>

(* The survivors go through HashChainSink, which continues a file that is
   there; with none left the file is emptied. *)
WriteRetained ==
    LET kept == SelectSeq(RetainedOf(chain, job[1].span), LAMBDA r : r.kind # "meta") IN
    /\ job # <<>> /\ job[1].step = "retained"
    /\ dir' = [dir EXCEPT ![job[1].at].retained = IF kept = <<>> THEN <<>> ELSE @ \o kept]
    /\ job' = <<>>
    /\ UNCHANGED <<chain, runs, edits, slotVars>>

(* The process dies between two of its files. *)
Crash ==
    /\ job # <<>>
    /\ job' = <<>>
    /\ UNCHANGED <<chain, dir, runs, edits, slotVars>>

(* A change to an escrow copy: a record dropped, or its content changed with
   the hash kept or recomputed; or the receipt signed anew by another key. *)
EditDisposal(d) ==
    LET e == dir[d].escrow IN
    /\ edits < MaxEdits
    /\ job = <<>>
    /\ dir[d].receipt # <<>>
    /\ \/ e # <<>> /\ dir' = [dir EXCEPT ![d].escrow = Front(e)]
       \/ e # <<>> /\ dir' = [dir EXCEPT ![d].escrow[1].edited = TRUE]
       \/ e # <<>> /\ dir' = [dir EXCEPT ![d].escrow[1].id = 0]
       \/ dir' = [dir EXCEPT ![d].receipt[1].key = Stranger, ![d].receipt[1].block = Evidence(e)]
    /\ edits' = edits + 1
    /\ UNCHANGED <<chain, job, runs, slotVars>>

(* verify_destruction, with the operator's key and the escrow supplied. *)
VerifyDestruction(d) ==
    /\ dir[d].receipt # <<>>
    /\ dir[d].receipt[1].key = Operator
    /\ Rechecked(dir[d].escrow)
    /\ Evidence(dir[d].escrow) = dir[d].receipt[1].block

NextDisposal ==
    \/ \E d \in Dirs, span \in Spans : Destroy(d, span)
    \/ WriteEscrow
    \/ WriteRetained
    \/ Crash
    \/ \E d \in Dirs : EditDisposal(d)

-----------------------------------------------------------------------------
(* Projection: pure over the receipt lines and audit events it reads.  A
   receipt line is [hash, ts, kind], kind "decision", "other" or "malformed";
   an audit event is [ts, decides, cites].  ts 0 is no time stamp. *)

(* _receipt_rows: only decisions make rows. *)
ReceiptRows(receipts) == SelectSeq(receipts, LAMBDA r : r.kind = "decision")

(* _audit_rows: a receipt is cited only by an event that tells the decision. *)
Cited_Any(events) == {events[k].cites : k \in DOMAIN events}   \* wrong: any event counts

Cited(events) == {events[k].cites : k \in {j \in DOMAIN events : events[j].decides}}

(* The sort key: stamped before unstamped, then time, audit before receipt,
   then the place in its own file. *)
Before(a, b) ==
    LET ka == <<IF a.ts = 0 THEN 1 ELSE 0, a.ts, a.from, a.seq>>
        kb == <<IF b.ts = 0 THEN 1 ELSE 0, b.ts, b.from, b.seq>>
    IN \E k \in 1 .. 4 : ka[k] < kb[k] /\ \A j \in 1 .. k - 1 : ka[j] = kb[j]

(* project_pack_chain *)
Project(receipts, events) ==
    LET rows == ReceiptRows(receipts)
        ev == [k \in DOMAIN events |->
                 [ts |-> events[k].ts, from |-> 0, seq |-> k,
                  tells |-> IF events[k].decides THEN events[k].cites ELSE ""]]
        rs == [k \in DOMAIN rows |->
                 [ts |-> rows[k].ts, from |-> 1, seq |-> k, tells |-> rows[k].hash]]
        own == SelectSeq(rs, LAMBDA r : r.tells \notin Cited(events))
    IN SortSeq(ev \o own, Before)

(* The decisions come out once each and every audit event is there: a receipt
   an event already tells of is not told again, one that an event merely
   mentions is; time never runs backwards among stamped rows and the order
   of each file is kept among rows of one time (project_pack_chain). *)
ProjectionWhole(receipts, events) ==
    LET out == Project(receipts, events) IN
    /\ \A h \in {r.hash : r \in Range(ReceiptRows(receipts))} :
          \E k \in DOMAIN out : out[k].tells = h
    /\ \A h \in {r.hash : r \in Range(ReceiptRows(receipts))} :
          Cardinality({k \in DOMAIN out : out[k].tells = h /\ out[k].from = 1}) > 0 =>
             \A k \in DOMAIN events : ~(events[k].decides /\ events[k].cites = h)
    /\ Cardinality({k \in DOMAIN out : out[k].from = 0}) = Len(events)
    /\ \A j, k \in DOMAIN out : j < k =>
          /\ out[k].ts # 0 => out[j].ts # 0 /\ out[j].ts <= out[k].ts
          /\ out[j].ts = out[k].ts /\ out[j].from = out[k].from => out[j].seq < out[k].seq

-----------------------------------------------------------------------------
(* Authorship receipts *)

(* _default_receipt_path: the next slot is numbered by how many there are. *)
ChooseSlot(s) ==
    /\ pending[s] = NoSlot
    /\ signed < MaxReceipts
    /\ signed' = signed + 1
    /\ pending' = [pending EXCEPT ![s] = Cardinality(DOMAIN slots)]
    /\ overlap' = (overlap \/ \E t \in Sessions \ {s} : pending[t] # NoSlot)
    /\ UNCHANGED <<slots, removed, diskVars>>

WriteReceipt_Overwrite(s) ==   \* wrong: the file is opened for writing
    /\ pending[s] # NoSlot
    /\ slots' = [k \in DOMAIN slots \cup {pending[s]} |-> IF k = pending[s] THEN 1 ELSE slots[k]]
    /\ pending' = [pending EXCEPT ![s] = NoSlot]
    /\ UNCHANGED <<signed, removed, overlap, diskVars>>

(* write_receipt opens for appending. *)
WriteReceipt(s) ==
    /\ pending[s] # NoSlot
    /\ slots' = [k \in DOMAIN slots \cup {pending[s]} |->
                   (IF k \in DOMAIN slots THEN slots[k] ELSE 0) + (IF k = pending[s] THEN 1 ELSE 0)]
    /\ pending' = [pending EXCEPT ![s] = NoSlot]
    /\ UNCHANGED <<signed, removed, overlap, diskVars>>

(* A file is tidied away by hand. *)
RemoveSlot(k) ==
    /\ removed < MaxRemovals
    /\ removed' = removed + 1
    /\ slots' = [j \in DOMAIN slots \ {k} |-> slots[j]]
    /\ UNCHANGED <<pending, signed, overlap, diskVars>>

NextAuthorship ==
    \/ \E s \in Sessions : ChooseSlot(s) \/ WriteReceipt(s)
    \/ \E k \in DOMAIN slots : RemoveSlot(k)

(* verify_authorship wants exactly one receipt in the file. *)
VerifyAuthorship(k) == slots[k] = 1

(* _collect_commands: entries stop at the cap, the count is of the entries,
   the tally by tool goes on. *)
Collected(calls, cap) ==
    [count |-> Min({Len(calls), cap}), entries |-> SubSeq(calls, 1, Min({Len(calls), cap})),
     tally |-> [t \in Range(calls) |-> Cardinality({k \in DOMAIN calls : calls[k] = t})]]

(* _check_commands_block: a count above the entries is a lie below the cap. *)
CommandsHold(block, cap) == block.count <= Len(block.entries) \/ Len(block.entries) >= cap

(* What was collected verifies, and a count raised above the entries is refused
   unless the entries have reached their cap. *)
CollectedHolds(calls, cap) ==
    LET b == Collected(calls, cap) IN
    /\ CommandsHold(b, cap)
    /\ CommandsHold([b EXCEPT !.count = @ + 1], cap) => Len(calls) >= cap

Next == NextDisposal \/ NextAuthorship

Spec == Init /\ [][Next]_vars

-----------------------------------------------------------------------------
(* Properties *)

TypeOK ==
    /\ Len(job) <= 1
    /\ edits \in 0 .. MaxEdits
    /\ removed \in 0 .. MaxRemovals
    /\ signed \in 0 .. MaxReceipts

(* A receipt that verifies against its escrow under the operator's key has in
   escrow exactly the records of the chain whose time lies in its span, ends
   included, whatever was changed or left half written
   (build_destruction, verify_destruction). *)
DisposalAttested ==
    \A d \in Dirs : VerifyDestruction(d) =>
        LET span == dir[d].receipt[1].span IN
        /\ Range(dir[d].escrow) \subseteq Range(chain)
        /\ \A r \in Range(chain) : r \in Range(dir[d].escrow)
              <=> r.kind = "event" /\ span.from <= r.ts /\ r.ts <= span.to

Survivors(d) == {r.id : r \in Range(dir[d].retained)}

(* In a directory used for one disposal that ran to its end, the surviving
   chain is the remainder: the records that parse, without the destroyed
   ones, each once and in order.  A line that does not parse is in neither. *)
RemainderInTurn ==
    \A d \in Dirs : runs[d] = 1 /\ job = <<>> /\ dir[d].retained # <<>> =>
        LET span == dir[d].receipt[1].span IN
        /\ Survivors(d) = {r.id : r \in {x \in Range(chain) : x.kind = "event"
                                           /\ ~(span.from <= x.ts /\ x.ts <= span.to)}}
        /\ \A j, k \in DOMAIN dir[d].retained : j < k => dir[d].retained[j].id < dir[d].retained[k].id

(* No authorship receipt is ever lost to another, and as long as sessions sign
   one after the other and no file is removed each has a file of its own, so
   that all verify; otherwise two share a file that verifies for neither
   (_default_receipt_path, write_receipt, verify_authorship). *)
ReceiptsKeptInTurn ==
    /\ removed = 0 => FoldFunction(+, 0, slots) = signed - Cardinality({s \in Sessions : pending[s] # NoSlot})
    /\ removed = 0 /\ ~overlap => \A k \in DOMAIN slots : VerifyAuthorship(k)
=============================================================================
