---------------------------- MODULE MCApprovals ----------------------------
(* Small instances of Approvals for TLC. *)
EXTENDS Approvals

CONSTANTS t1, r1,
          Scenes   \* the scenes of a run

(* Calls and decisions in parallel threads, on one request, with one failure; one
   thread at a time, on two; or just the calls that one approval is used by. *)
Limits == [parallel |-> [calls |-> 3, decisions |-> 2, faults |-> 1, crashes |-> 1, overlaps |-> 1],
           serial   |-> [calls |-> 3, decisions |-> 2, faults |-> 1, crashes |-> 1, overlaps |-> 1],
           pair     |-> [calls |-> 3, decisions |-> 1, faults |-> 0, crashes |-> 0, overlaps |-> 1]]

VARIABLE scene

InScene ==
    /\ \A b \in DOMAIN used : used[b] <= Limits[scene][b]
    /\ scene # "serial" => /\ used.faults + used.crashes <= 1
                           /\ \A r \in Requests \ {r1} : status[r] = "new"
    /\ scene # "serial" => \A t \in Callers : loc[t].ref \in {r1, None}
    /\ scene # "serial" => \A o \in Operators : dec[o].req \in {r1, None}
    /\ scene = "serial" =>
          /\ \A t \in Callers \ {t1} : Idle(t)
          /\ Cardinality({t \in Callers \cup Operators : ~Idle(t)}) <= 1

SceneInit == Init /\ scene \in Scenes /\ InScene

SceneSpec == SceneInit /\ [][Next /\ UNCHANGED scene /\ InScene']_<<vars, scene>>
=============================================================================
