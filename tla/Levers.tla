------------------------------- MODULE Levers -------------------------------
(***************************************************************************)
(* The targeted levers of containment.py: quarantine and release of a      *)
(* trace, suspension and reinstatement of an agent's lease.  Each lever is *)
(* an append-only file in which the last record of an id wins; a           *)
(* transition looks at the file, takes the containment lock, appends its   *)
(* record, and appends a receipt to the operators' stream.  When no        *)
(* receipt can be made the file is put back.                               *)
(*                                                                         *)
(* The lease id of a lease record is carried along and never read, so a    *)
(* scope is a trace or an agent.  A receipt names its record.              *)
(***************************************************************************)
EXTENDS Naturals, Sequences, SequencesExt

CONSTANTS Operators,    \* invocations of the command line
          Scopes,       \* pairs of a lever, "trace" or "lease", and an id
          None,
          MaxReceipts, MaxFaults, MaxCrashes

VARIABLES
    file,      \* the records of each lever
    stream,    \* the receipts
    anchor,    \* how many of them the anchor file covers, 0 without one
    lock,      \* who holds the flock
    pc, loc,   \* the next step of an invocation and its local variables
    seen,      \* the file as an invocation saw it before the lock
    raced,     \* some invocation acted on a file that had changed since it looked
    damage     \* emissions that failed, anchors not written, deaths

vars == <<file, stream, anchor, lock, pc, loc, seen, raced, damage>>

Lever(s) == s[1]
Levers == {"trace", "lease"}
Record(s, on) == [scope |-> s, on |-> on]

TypeOK ==
    /\ \A l \in Levers : \A i \in DOMAIN file[l] : file[l][i].scope \in Scopes
    /\ anchor \in 0 .. Len(stream)
    /\ lock \in Operators \cup {None}
    /\ pc \in [Operators -> {"idle", "lock", "append", "emit", "anchor", "rollback"}]

Init ==
    /\ file = [l \in Levers |-> <<>>]
    /\ stream = <<>>
    /\ anchor = 0
    /\ lock = None
    /\ pc = [p \in Operators |-> "idle"]
    /\ loc = [p \in Operators |-> None]
    /\ seen = [p \in Operators |-> <<>>]
    /\ raced = FALSE
    /\ damage = [faults |-> 0, anchors |-> 0, crashes |-> 0]

(* _registry_states, _active_quarantines, and the gate's own reader
   _load_registry_last_state: the last record of a scope wins. *)
Active(records, s) ==
    LET own == SelectSeq(records, LAMBDA r : r.scope = s)
    IN  own # <<>> /\ Last(own).on

Goto(p, step) == pc' = [pc EXCEPT ![p] = step]

(* The end of an invocation: the locks are released and nothing is kept. *)
Ends(p) ==
    /\ Goto(p, "idle")
    /\ loc' = [loc EXCEPT ![p] = None]
    /\ seen' = [seen EXCEPT ![p] = <<>>]
    /\ lock' = IF lock = p THEN None ELSE lock

-----------------------------------------------------------------------------
(* _trace_transition, _lease_transition up to the lock: what is on is not put
   on again, and only what is on is taken off.  No lock is held. *)
Look_Any(p, s, on) ==   \* wrong: a release of what is not held is taken
    /\ pc[p] = "idle"
    /\ on => ~Active(file[Lever(s)], s)
    /\ Goto(p, "lock")
    /\ loc' = [loc EXCEPT ![p] = [record |-> Record(s, on), original |-> None]]
    /\ seen' = [seen EXCEPT ![p] = file[Lever(s)]]
    /\ UNCHANGED <<file, stream, anchor, lock, raced, damage>>

Look(p, s, on) ==
    /\ pc[p] = "idle"
    /\ on # Active(file[Lever(s)], s)
    /\ Goto(p, "lock")
    /\ loc' = [loc EXCEPT ![p] = [record |-> Record(s, on), original |-> None]]
    /\ seen' = [seen EXCEPT ![p] = file[Lever(s)]]
    /\ UNCHANGED <<file, stream, anchor, lock, raced, damage>>

(* The lever an invocation works on. *)
Target(p) == Lever(loc[p].record.scope)

(* _registry_transition: _locked_state does not wait; the bytes to go back to
   are read under the lock. *)
Snapshot_Seen(p) == seen[p]   \* wrong: the bytes are those of the look before the lock

Snapshot(p) == file[Target(p)]

TakeLock(p) ==
    /\ pc[p] = "lock"
    /\ lock = None
    /\ lock' = p
    /\ loc' = [loc EXCEPT ![p].original = Snapshot(p)]
    /\ raced' = (raced \/ file[Target(p)] # seen[p])
    /\ Goto(p, "append")
    /\ UNCHANGED <<file, stream, anchor, seen, damage>>

LockRefused(p) ==
    /\ pc[p] = "lock"
    /\ lock # None
    /\ Ends(p)
    /\ UNCHANGED <<file, stream, anchor, raced, damage>>

AppendRecord(p) ==
    /\ pc[p] = "append"
    /\ file' = [file EXCEPT ![Target(p)] = Append(@, loc[p].record)]
    /\ Goto(p, "emit")
    /\ UNCHANGED <<stream, anchor, lock, loc, seen, raced, damage>>

(* _emit_receipt: a stream that has no anchor yet is adopted as it is, one that
   is not the one its anchor covers is refused. *)
EmitReceipt(p) ==
    /\ pc[p] = "emit"
    /\ IF anchor \in {0, Len(stream)}
       THEN /\ Len(stream) < MaxReceipts
            /\ stream' = Append(stream, loc[p].record)
            /\ anchor' = Len(stream)
            /\ Goto(p, "anchor")
       ELSE Goto(p, "rollback") /\ UNCHANGED <<stream, anchor>>
    /\ UNCHANGED <<file, lock, loc, seen, raced, damage>>

EmitFails(p) ==
    /\ pc[p] = "emit"
    /\ damage.faults < MaxFaults
    /\ damage' = [damage EXCEPT !.faults = @ + 1]
    /\ Goto(p, "rollback")
    /\ UNCHANGED <<file, stream, anchor, lock, loc, seen, raced>>

(* The anchor is written and the invocation reports its receipt. *)
WriteAnchor(p) ==
    /\ pc[p] = "anchor"
    /\ anchor' = Len(stream)
    /\ Ends(p)
    /\ UNCHANGED <<file, stream, raced, damage>>

(* Writing the anchor raises: for the caller the whole emission failed. *)
AnchorFails(p) ==
    /\ pc[p] = "anchor"
    /\ damage.anchors < MaxFaults
    /\ damage' = [damage EXCEPT !.anchors = @ + 1]
    /\ Goto(p, "rollback")
    /\ UNCHANGED <<file, stream, anchor, lock, loc, seen, raced>>

(* The receipt failed: the file is written back, or removed if it was new. *)
Rollback_Removed(p) ==   \* wrong: the file is removed in either case
    /\ pc[p] = "rollback"
    /\ file' = [file EXCEPT ![Target(p)] = <<>>]
    /\ Ends(p)
    /\ UNCHANGED <<stream, anchor, raced, damage>>

Rollback(p) ==
    /\ pc[p] = "rollback"
    /\ file' = [file EXCEPT ![Target(p)] = loc[p].original]
    /\ Ends(p)
    /\ UNCHANGED <<stream, anchor, raced, damage>>

(* A process dies; the operating system releases its locks. *)
Crash(p) ==
    /\ pc[p] \notin {"idle", "lock"}
    /\ damage.crashes < MaxCrashes
    /\ damage' = [damage EXCEPT !.crashes = @ + 1]
    /\ Ends(p)
    /\ UNCHANGED <<file, stream, anchor, raced>>

Next ==
    \E p \in Operators :
        \/ \E s \in Scopes, on \in BOOLEAN : Look(p, s, on)
        \/ TakeLock(p) \/ LockRefused(p) \/ AppendRecord(p)
        \/ EmitReceipt(p) \/ EmitFails(p) \/ WriteAnchor(p) \/ AnchorFails(p)
        \/ Rollback(p) \/ Crash(p)

Spec == Init /\ [][Next]_vars

-----------------------------------------------------------------------------
(* Properties *)

ReceiptsOf(l) == SelectSeq(stream, LAMBDA r : Lever(r.scope) = l)

Among(some, all) ==
    \E D \in SUBSET DOMAIN all :
        LET at == SetToSortSeq(D, <) IN some = [i \in DOMAIN at |-> all[at[i]]]

(* No record that was receipted is ever lost, whatever is rolled back by
   whom and whoever dies: the receipts of a lever are, in order, among its
   records; and while nobody died between two writes and every anchor was
   written, its records are exactly its receipts when nobody is at work
   (_registry_transition: "an unreceipted transition never survives"). *)
LeversReceipted ==
    damage.anchors = 0 =>
        \A l \in Levers :
            /\ Among(ReceiptsOf(l), file[l])
            /\ lock = None /\ damage.crashes = 0 => file[l] = ReceiptsOf(l)

(* As long as no invocation acted on a file that had changed since it looked,
   and none died, the stream of a scope alternates: on first, then off
   (_trace_transition, _lease_transition). *)
LeversAlternate ==
    ~raced /\ damage.crashes = 0 /\ damage.anchors = 0 =>
        \A s \in Scopes :
            LET own == SelectSeq(stream, LAMBDA r : r.scope = s)
            IN  \A i \in DOMAIN own : own[i].on <=> i % 2 = 1
=============================================================================
