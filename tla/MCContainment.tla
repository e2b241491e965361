--------------------------- MODULE MCContainment ---------------------------
(* Small instances of Containment for TLC. *)
EXTENDS Containment

CONSTANTS v1, k1,
          Scenes   \* the scenes of a run

(* How much of each bound a scene may use: quorum holds with crashes, failing
   emissions and key changes; or holds with a crash, an activation, a key
   change and a rewritten snapshot; or invocations that run to their end. *)
Limits ==
    [faults  |-> [receipts |-> 6, crashes |-> 1, faults |-> 1, anchorFaults |-> 1,
                  activations |-> 0, swaps |-> 1, restamps |-> 0],
     restore |-> [receipts |-> 4, crashes |-> 1, faults |-> 0, anchorFaults |-> 0,
                  activations |-> 1, swaps |-> 1, restamps |-> 1],
     clean   |-> [receipts |-> 9, crashes |-> 0, faults |-> 1, anchorFaults |-> 0,
                  activations |-> 0, swaps |-> 0, restamps |-> 0]]

VARIABLE scene

InScene ==
    /\ \A b \in DOMAIN used : used[b] <= Limits[scene][b]
    /\ scene # "restore" => policy \in {v1, DenyAll}
    /\ scene = "clean" => opKey = k1

SceneInit == Init /\ scene \in Scenes /\ InScene

SceneSpec == SceneInit /\ [][Next /\ UNCHANGED scene /\ InScene']_<<vars, scene>>

(* A started invocation runs on: the operating system schedules it. *)
FairSceneSpec == SceneSpec /\ \A p \in Procs : WF_vars(Step(p))

(* One operator may hold alone, the others need a quorum of two. *)
MixedQuorum == [p \in Procs |-> IF p = CHOOSE q \in Procs : TRUE THEN 1 ELSE 2]

(* The lock is always given back, and a receipted resume is carried out unless
   its process dies (_locked_state, resume). *)
InvocationsFinish == LockReleased /\ ResumeCarriedOut
=============================================================================
