--------------------------- MODULE ReceiptStore ---------------------------
(***************************************************************************)
(* Where the gateway keeps its receipts: the segmented store               *)
(* (raucle/receipt_store.py), the SQLite projection of it                  *)
(* (raucle/receipt_index.py) and the writer that feeds both                *)
(* (raucle/gateway.py, _sign_and_store_receipt).                           *)
(*                                                                         *)
(* A receipt is the number it was signed with.  Sealing a segment is three *)
(* steps: the sidecar, the read-only mode, the next segment.  The process  *)
(* may die between any two steps; what is on disk stays.                   *)
(***************************************************************************)
EXTENDS Integers, Sequences, SequencesExt

CONSTANTS
    Writers,      \* threads that sign receipts or seal
    MaxSegment,   \* receipts that fill a segment (max_segment_bytes)
    MaxReceipts,  \* bound: receipts signed
    MaxSeals,     \* bound: seals by an operator
    MaxRestarts,  \* bound: deaths of the process
    MaxFaults     \* bound: failing writes of a sidecar or of the index

VARIABLES
    segs,     \* the segments, oldest first
    handle,   \* _active_file: "none", "open", or "closed" but still referenced
    lock,     \* SegmentedReceiptStore._lock: {} or the writer that holds it
    pc,       \* where each writer is
    rec,      \* rec[w]: the receipt w carries, 0 when it only seals
    acked,    \* receipts whose append_line returned, in that order
    index,    \* rows of the projection, in insertion order
    feeding,  \* the start-up rebuild is running
    fed,      \* receipts the rebuild has fed
    signed, seals, restarts, faults   \* counters of the bounds

store == <<segs, handle>>
projection == <<index, feeding, fed>>
bounds == <<signed, seals, restarts, faults>>
vars == <<store, lock, pc, rec, acked, projection, bounds>>

NoMeta == [count |-> -1, last |-> -1]

NewSegment == [recs |-> <<>>, meta |-> NoMeta, ro |-> FALSE]

(* The segments one after the other: the chain of record. *)
Chain == FlattenSeq([i \in DOMAIN segs |-> segs[i].recs])

LastOf(s) == IF s = <<>> THEN 0 ELSE Last(s)

Init ==
    /\ segs = <<>>
    /\ handle = "none"
    /\ lock = {}
    /\ pc = [w \in Writers |-> "idle"]
    /\ rec = [w \in Writers |-> 0]
    /\ acked = <<>>
    /\ index = <<>>
    /\ feeding = FALSE
    /\ fed = 0
    /\ signed = 0 /\ seals = 0 /\ restarts = 0 /\ faults = 0

----------------------------------------------------------------------------
(* _sign_and_store_receipt *)

Sign(w) ==
    /\ pc[w] = "idle" /\ ~feeding
    /\ signed < MaxReceipts
    /\ signed' = signed + 1
    /\ rec' = [rec EXCEPT ![w] = signed + 1]
    /\ pc' = [pc EXCEPT ![w] = "append"]
    /\ UNCHANGED <<store, lock, acked, projection, seals, restarts, faults>>

(* The segment append_line writes to: the open one, or one more. *)
Active == IF handle = "none" THEN Append(segs, NewSegment) ELSE segs

AppendLine_Unlocked(w) ==   \* wrong: the segment is sealed outside the lock
    LET last == Len(Active)
        recs == Append(Active[last].recs, rec[w])
    IN  /\ pc[w] = "append" /\ lock = {}
        /\ handle # "closed"
        /\ segs' = [Active EXCEPT ![last].recs = recs]
        /\ handle' = "open"
        /\ pc' = [pc EXCEPT ![w] = IF Len(recs) >= MaxSegment THEN "seal" ELSE "index"]
        /\ acked' = IF Len(recs) >= MaxSegment THEN acked ELSE Append(acked, rec[w])
        /\ UNCHANGED <<lock, rec, projection, bounds>>

(* append_line up to the test of the size. *)
AppendLine(w) ==
    LET last == Len(Active)
        recs == Append(Active[last].recs, rec[w])
    IN  /\ pc[w] = "append" /\ lock = {}
        /\ handle # "closed"
        /\ segs' = [Active EXCEPT ![last].recs = recs]
        /\ handle' = "open"
        /\ IF Len(recs) >= MaxSegment
           THEN /\ lock' = {w}
                /\ pc' = [pc EXCEPT ![w] = "seal"]
                /\ UNCHANGED acked
           ELSE /\ acked' = Append(acked, rec[w])
                /\ pc' = [pc EXCEPT ![w] = "index"]
                /\ UNCHANGED lock
        /\ UNCHANGED <<rec, projection, bounds>>

(* A write to a closed handle raises, and nothing was stored. *)
AppendRefused(w) ==
    /\ pc[w] = "append" /\ lock = {}
    /\ handle = "closed"
    /\ pc' = [pc EXCEPT ![w] = "idle"]
    /\ UNCHANGED <<store, lock, rec, acked, projection, bounds>>

(* seal_now: nothing to do when no segment is open. *)
SealNow(w) ==
    /\ pc[w] = "idle" /\ ~feeding /\ lock = {}
    /\ handle = "open"
    /\ seals < MaxSeals
    /\ seals' = seals + 1
    /\ lock' = {w}
    /\ rec' = [rec EXCEPT ![w] = 0]
    /\ pc' = [pc EXCEPT ![w] = "seal"]
    /\ UNCHANGED <<store, acked, projection, signed, restarts, faults>>

SealMeta_Own(w) ==   \* wrong: the sidecar names the receipt the sealer carries
    LET recs == Last(segs).recs
    IN  /\ pc[w] = "seal"
        /\ segs' = [segs EXCEPT ![Len(segs)].meta =
                       [count |-> Len(recs), last |-> rec[w]]]
        /\ handle' = "closed"
        /\ pc' = [pc EXCEPT ![w] = "chmod"]
        /\ UNCHANGED <<lock, rec, acked, projection, bounds>>

(* _seal_active: count, close the handle, write the sidecar. *)
SealMeta(w) ==
    LET recs == Last(segs).recs
    IN  /\ pc[w] = "seal"
        /\ segs' = [segs EXCEPT ![Len(segs)].meta =
                       [count |-> Len(recs), last |-> LastOf(recs)]]
        /\ handle' = "closed"
        /\ pc' = [pc EXCEPT ![w] = "chmod"]
        /\ UNCHANGED <<lock, rec, acked, projection, bounds>>

(* The sidecar cannot be written: the exception leaves append_line, the
   handle is closed and _active_file still names it. *)
SealFails(w) ==
    /\ pc[w] = "seal"
    /\ faults < MaxFaults
    /\ faults' = faults + 1
    /\ handle' = "closed"
    /\ lock' = {}
    /\ pc' = [pc EXCEPT ![w] = "idle"]
    /\ UNCHANGED <<segs, rec, acked, projection, signed, seals, restarts>>

SealReadOnly(w) ==
    /\ pc[w] = "chmod"
    /\ segs' = [segs EXCEPT ![Len(segs)].ro = TRUE]
    /\ handle' = "none"
    /\ pc' = [pc EXCEPT ![w] = "next"]
    /\ UNCHANGED <<lock, rec, acked, projection, bounds>>

StartNext_SameName(w) ==   \* wrong: the number is one too low, the file is opened for writing
    /\ pc[w] = "next"
    /\ segs' = Append(Front(segs), NewSegment)
    /\ handle' = "open"
    /\ lock' = {}
    /\ acked' = IF rec[w] = 0 THEN acked ELSE Append(acked, rec[w])
    /\ pc' = [pc EXCEPT ![w] = IF rec[w] = 0 THEN "idle" ELSE "index"]
    /\ UNCHANGED <<rec, projection, bounds>>

(* _start_segment and the end of append_line or seal_now. *)
StartNext(w) ==
    /\ pc[w] = "next"
    /\ segs' = Append(segs, NewSegment)
    /\ handle' = "open"
    /\ lock' = {}
    /\ acked' = IF rec[w] = 0 THEN acked ELSE Append(acked, rec[w])
    /\ pc' = [pc EXCEPT ![w] = IF rec[w] = 0 THEN "idle" ELSE "index"]
    /\ UNCHANGED <<rec, projection, bounds>>

IndexReceipt(w) ==
    /\ pc[w] = "index"
    /\ index' = Append(index, rec[w])
    /\ pc' = [pc EXCEPT ![w] = "idle"]
    /\ UNCHANGED <<store, lock, rec, acked, feeding, fed, bounds>>

(* A failing insert is logged, the receipt stands. *)
IndexFails(w) ==
    /\ pc[w] = "index"
    /\ faults < MaxFaults
    /\ faults' = faults + 1
    /\ pc' = [pc EXCEPT ![w] = "idle"]
    /\ UNCHANGED <<store, lock, rec, acked, projection, signed, seals, restarts>>

----------------------------------------------------------------------------
(* Start-up *)

Restart_Resumed(keep) ==   \* wrong: a writable last segment is written on
    /\ restarts < MaxRestarts
    /\ restarts' = restarts + 1
    /\ handle' = IF segs # <<>> /\ ~Last(segs).ro THEN "open" ELSE "none"
    /\ lock' = {}
    /\ pc' = [w \in Writers |-> "idle"]
    /\ index' = IF keep THEN index ELSE <<>>
    /\ feeding' = (index' = <<>>)
    /\ fed' = 0
    /\ UNCHANGED <<segs, rec, acked, signed, seals, faults>>

Restart_FedAlways(keep) ==   \* wrong: the rebuild feeds an index that has rows
    /\ restarts < MaxRestarts
    /\ restarts' = restarts + 1
    /\ handle' = "none"
    /\ lock' = {}
    /\ pc' = [w \in Writers |-> "idle"]
    /\ index' = IF keep THEN index ELSE <<>>
    /\ feeding' = TRUE
    /\ fed' = 0
    /\ UNCHANGED <<segs, rec, acked, signed, seals, faults>>

(* The process dies and starts again.  A writable last segment gives the
   store its name and its size; nothing opens it, so the next append starts
   another one.  The index file may have been dropped in between (keep is
   FALSE); only an empty index is fed from the segments. *)
Restart(keep) ==
    /\ restarts < MaxRestarts
    /\ restarts' = restarts + 1
    /\ handle' = "none"
    /\ lock' = {}
    /\ pc' = [w \in Writers |-> "idle"]
    /\ index' = IF keep THEN index ELSE <<>>
    /\ feeding' = (index' = <<>>)
    /\ fed' = 0
    /\ UNCHANGED <<segs, rec, acked, signed, seals, faults>>

Feed_Sealed ==   \* wrong: the segment that is not read-only is left out
    LET fedOf == FlattenSeq([i \in DOMAIN segs |-> IF segs[i].ro THEN segs[i].recs ELSE <<>>])
    IN  /\ feeding
        /\ IF fed < Len(fedOf)
           THEN /\ index' = Append(index, fedOf[fed + 1])
                /\ fed' = fed + 1
                /\ UNCHANGED feeding
           ELSE /\ feeding' = FALSE
                /\ UNCHANGED <<index, fed>>
        /\ UNCHANGED <<store, lock, pc, rec, acked, bounds>>

(* rebuild_from_store: one row, or the end of it. *)
Feed ==
    /\ feeding
    /\ IF fed < Len(Chain)
       THEN /\ index' = Append(index, Chain[fed + 1])
            /\ fed' = fed + 1
            /\ UNCHANGED feeding
       ELSE /\ feeding' = FALSE
            /\ UNCHANGED <<index, fed>>
    /\ UNCHANGED <<store, lock, pc, rec, acked, bounds>>

Next ==
    \/ \E w \in Writers :
          \/ Sign(w) \/ AppendLine(w) \/ AppendRefused(w) \/ SealNow(w)
          \/ SealMeta(w) \/ SealFails(w) \/ SealReadOnly(w) \/ StartNext(w)
          \/ IndexReceipt(w) \/ IndexFails(w)
    \/ \E keep \in BOOLEAN : Restart(keep)
    \/ Feed

Spec == Init /\ [][Next]_vars

----------------------------------------------------------------------------
(* Properties *)

Steps == {"idle", "append", "seal", "chmod", "next", "index"}

Segment == [recs : Seq(1 .. MaxReceipts),
            meta : [count : Int, last : Int],
            ro   : BOOLEAN]

(* Every variable holds a value of its kind. *)
TypeOK ==
    /\ segs \in Seq(Segment)
    /\ handle \in {"none", "open", "closed"}
    /\ lock \in SUBSET Writers
    /\ pc \in [Writers -> Steps]
    /\ rec \in [Writers -> 0 .. MaxReceipts]
    /\ acked \in Seq(1 .. MaxReceipts)
    /\ index \in Seq(1 .. MaxReceipts)
    /\ feeding \in BOOLEAN
    /\ fed \in Nat
    /\ signed \in 0 .. MaxReceipts /\ seals \in 0 .. MaxSeals
    /\ restarts \in 0 .. MaxRestarts /\ faults \in 0 .. MaxFaults

(* Receipts whose append returned stand in the segments, each once and in
   the order of the returns, through rollovers, seals, failures and deaths
   of the process (append_line, _seal_active). *)
AckedKept ==
    SelectSeq(Chain, LAMBDA r : r \in Range(acked)) = acked

(* "The store never writes to a sealed segment again" (test_sealed_segments_
   immutable), from the moment the sidecar exists, and also when the process
   dies before the segment is made read-only. *)
KeepsSealed ==
    \A i \in DOMAIN segs :
       segs[i].meta # NoMeta =>
          /\ i \in DOMAIN segs'
          /\ segs'[i].recs = segs[i].recs
          /\ segs'[i].meta = segs[i].meta
          /\ segs[i].ro => segs'[i].ro

(* The sidecar counts the receipts of its segment and names the last one
   (_seal_active). *)
SidecarTrue ==
    \A i \in DOMAIN segs :
       segs[i].meta # NoMeta =>
          segs[i].meta = [count |-> Len(segs[i].recs),
                          last |-> LastOf(segs[i].recs)]

(* "this version-2 schema projects all of them": the index has no row the
   chain of record has not, and no receipt has two rows, however starts,
   rebuilds and lost index files follow each other; and while no insert failed
   and no process died, every receipt has its row at rest.  Afterwards it may
   not have: start-up feeds an empty index only, so a receipt that missed its
   row never gets one (rebuild_from_store, index_receipt). *)
IndexFaithful ==
    /\ Range(index) \subseteq Range(Chain)
    /\ IsInjective(index)
    /\ faults = 0 /\ restarts = 0 /\ (\A w \in Writers : pc[w] = "idle") =>
          Range(Chain) \subseteq Range(index)

(* A rebuild that ends leaves a row for every receipt whose append returned
   before it (rebuild_from_store: an empty index is fed the whole chain).  A
   death in the middle of it leaves rows behind, and is not made up for. *)
RebuildsWhole ==
    feeding /\ ~feeding' /\ restarts' = restarts => Range(acked) \subseteq Range(index')

(* No append meets a closed handle while no sidecar write has failed: the
   lock covers the seal.  A failed one leaves the closed handle in place and
   every later append is refused until the next start. *)
NoClosedHandle == faults = 0 /\ lock = {} => handle # "closed"
=============================================================================
