-------------------------- MODULE MCDelegationHold --------------------------
(***************************************************************************)
(* Small instances for TLC of DelegationHold, AgentAccess and Levers, one  *)
(* scene each.                                                             *)
(***************************************************************************)
EXTENDS DelegationHold

CONSTANTS t1, t2, t3, a1, a2, r2,
          Scenes   \* the scenes of a run

VARIABLE scene
VARIABLES creds, store, minted, dead, spared, registry, suspended, call, canaries, notes, todo
VARIABLES onFile, stream, anchor, lock, pc, loc, looked, changed, damage

holdVars == <<ledger, revoked, state, cpc, cloc, known, stamp, rpc, rtok, raced, used,
              lastReceipt, lost, cascaded, prior>>
accessVars == <<creds, store, minted, dead, spared, registry, suspended, call, canaries, notes, todo>>
leverVars == <<onFile, stream, anchor, lock, pc, loc, looked, changed, damage>>
allVars == <<scene, holdVars, accessVars, leverVars>>

(* t1 for a1, attenuated to t2 for a2, attenuated to t3 for a1. *)
ChainParent == [t \in Tokens |-> CASE t = t1 -> None [] t = t2 -> t1 [] t = t3 -> t2]
ChainDelegate == [t \in Tokens |-> IF t = t2 THEN a2 ELSE a1]

(* Failing receipts, dying processes and cascades around one registrar; or two
   registrars with caches of their own and containment that runs to its end,
   the first registering the head of the chain and the second its tail. *)
Limits == [chain   |-> [holds |-> 2, cascades |-> 1, faults |-> 1, crashes |-> 1],
           markers |-> [holds |-> 2, cascades |-> 0, faults |-> 0, crashes |-> 0],
           cascade |-> [holds |-> 1, cascades |-> 1, faults |-> 0, crashes |-> 0]]

InHoldScene ==
    /\ \A b \in DOMAIN used : used[b] <= Limits[scene][b]
    /\ scene # "markers" =>
          /\ rpc[r2] = "idle"
          /\ \A r \in Registrars : rtok[r] # t3
          /\ t3 \notin cascaded
    /\ rtok[r2] \notin {t1, t2}
    /\ \A r \in Registrars \ {r2} : rtok[r] # t3

----------------------------------------------------------------------------
(* Agents *)

A == INSTANCE AgentAccess WITH
        AgentIds <- {"a1", "a2"}, MintIds <- {"m1", "m2"}, Clis <- {"c1"}, CallIds <- {1},
        MaxKeys <- 2, MaxLines <- 3, ledger <- canaries

(* Commands are run whether or not the gateway runs, and gateways start and
   end; in the other scenes processes that open the credential store take turns. *)
Processes ==
    \/ \E p \in A!Procs : A!Exit(p)
    \/ /\ scene = "maintenance" \/ \A q \in A!Procs : ~store[q].up
       /\ \E p \in A!Procs : A!OpenStore(p)

(* One agent is described, enrolled and suspended, another only has keys. *)
OneDescribed ==
    /\ \A i \in DOMAIN registry : registry[i].id = "a1"
    /\ suspended \subseteq {"a1"} /\ \A p \in A!Procs : todo[p] # <<"enrol", "a2">>

(* Credentials; descriptors that are written while the gateway runs; canaries. *)
AccessNext ==
    \/ Processes
    \/ scene = "maintenance" /\ \E p \in A!Procs : A!Commands(p)
    \/ scene = "registry" /\ A!RegistryCommands
    \/ scene = "registry" /\ \E p \in A!Procs : A!IssueKey(p, "a1")
    \/ scene \in {"maintenance", "registry"} /\ A!GateSteps
    \/ scene = "canary" /\ \E p \in A!Procs : A!CanaryCommands(p)

----------------------------------------------------------------------------
(* Levers on a trace and on a lease, by two operators at a time *)

L == INSTANCE Levers WITH
        Operators <- {"o1", "o2"}, Scopes <- {<<"trace", 1>>, <<"lease", 1>>},
        MaxReceipts <- 3, MaxFaults <- 1, MaxCrashes <- 1,
        file <- onFile, seen <- looked, raced <- changed

LeversOff ==
    /\ onFile = None /\ stream = None /\ anchor = None /\ lock = None /\ pc = None
    /\ loc = None /\ looked = None /\ changed = None /\ damage = None

----------------------------------------------------------------------------
AccessOff ==
    /\ creds = None /\ store = None /\ minted = None /\ dead = None /\ spared = None /\ registry = None
    /\ suspended = None /\ call = None /\ canaries = None /\ notes = None /\ todo = None

HoldScenes == DOMAIN Limits
AccessScenes == {"maintenance", "registry", "canary"}

SceneInit ==
    /\ scene \in Scenes
    /\ Init
    /\ IF scene \in AccessScenes THEN A!Init ELSE AccessOff
    /\ IF scene = "levers" THEN L!Init ELSE LeversOff

SceneNext ==
    /\ UNCHANGED scene
    /\ \/ scene \in HoldScenes /\ Next /\ InHoldScene' /\ UNCHANGED <<accessVars, leverVars>>
       \/ scene \in AccessScenes /\ AccessNext /\ OneDescribed' /\ UNCHANGED <<holdVars, leverVars>>
       \/ scene = "levers" /\ L!Next /\ UNCHANGED <<holdVars, accessVars>>

SceneSpec == SceneInit /\ [][SceneNext]_allVars

----------------------------------------------------------------------------
(* Properties *)

(* A call is admitted only for the agent its key belongs to, while that agent is
   enrolled, and with a key that was reported revoked only where another process
   had read it before; a canary is
   reported observed at most once (authenticate, check_admission, observe).
   And what the targeted levers hold is what their receipts say
   (_registry_transition). *)
AccessStands ==
    [][/\ scene \in AccessScenes =>
              A!EntitledStep /\ A!RevokedFailStep /\ A!CanaryOnce'
       /\ scene = "levers" => L!LeversReceipted' /\ L!LeversAlternate']_allVars
=============================================================================
