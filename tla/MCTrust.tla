------------------------------- MODULE MCTrust -------------------------------
(***************************************************************************)
(* What one party may believe of another: the provenance chain and what a  *)
(* chain that verifies proves (Provenance, three scenes); the trust        *)
(* registry, written by two processes while an organisation fetches it,    *)
(* and two organisations that call each other over a registry in which a   *)
(* key may be revoked at any time (Handshake, four scenes); the authority  *)
(* graph resolved from one receipt (ChainGraph).  The parts a scene is not *)
(* about stay in their first state.                                        *)
(***************************************************************************)
EXTENDS Provenance, Handshake, ChainGraph

VARIABLE scene

----------------------------------------------------------------------------
(* The provenance chain: agents that keep to the rules and restart, agents that
   call the logger as they like on a file that is damaged, and the gate's
   extensions on a chain whose lines move. *)
Stmt(t, c, ttl, strict) ==
    [agent |-> "", models |-> {"m"}, tools |-> t, clears |-> c, ttl |-> ttl, exp |-> 0, strict |-> strict]

(* One agent may run one tool and clear one tag; the other may run every
   tool and clear nothing, or everything until its statement expires. *)
Bound == Stmt({"t1"}, {"u"}, 0, FALSE)
Free  == Stmt({}, {}, 0, TRUE)
Brief == Stmt({}, {"*"}, 1, TRUE)
MCStatements == {Bound, Free, Brief}

MCExtensions ==
    {[kind |-> "authority", cites |-> {"c", "p"}, digest |-> TRUE],
     [kind |-> "revocation", ids |-> {"p"}],
     [kind |-> "granted", lease |-> "l", ttl |-> 1, scopes |-> {"x"}],
     [kind |-> "granted", lease |-> "l", ttl |-> 0, scopes |-> {}],
     [kind |-> "redeemed", lease |-> "l", scopes |-> {"x"}],
     [kind |-> "redeemed", lease |-> "l", scopes |-> {"y"}],
     [kind |-> "finding", cites |-> 1, claims |-> "allow"],
     [kind |-> "anchor", cites |-> 2, digest |-> TRUE, mode |-> "tsa", token |-> TRUE],
     [kind |-> "anchor", cites |-> 1, digest |-> TRUE, mode |-> "internal", token |-> FALSE],
     [kind |-> "intent", tool |-> "t2", tools |-> {"t1"}, within |-> TRUE],
     [kind |-> "bilateral", outcome |-> "maybe", output |-> "own", signed |-> TRUE]}

Scenes == {"honest", "loose", "gate"}
First == CHOOSE a \in Agents : TRUE

Ops(ops) == Last(made').op \in ops

(* Agents that keep to the rules; one logger has the file open at a time. *)
Honest ==
    /\ \E a \in Agents :
        \/ /\ Record(a)
           /\ now = 1 \/ made = <<>> => Ops({"user_input"})
           /\ Len(made) = 2 => Ops({"merge", "sanitisation", "tool_call", "agent_handoff"})
        \/ OpenLogger(a)
        \/ CloseLogger(a)
    /\ kept'

(* The file is damaged once everything is written, except by a crash. *)
Loose ==
    \/ \E a \in Agents :
         /\ Record(a) /\ Last(made').ext = NoExt
         /\ Ops(CASE made = <<>> -> {"user_input"}
                  [] Len(made) = 1 -> {"retrieval", "sanitisation", "tool_call"}
                  [] OTHER -> {"sanitisation", "merge"})
         /\ Last(made').tool \in {"", "t1"}
    \/ \E a \in Agents : OpenLogger(a) \/ (Len(made) < 2 /\ Crash(a))
    \/ Len(made) = MaxReceipts /\ Alter

Gate ==
    \/ made = <<>> /\ OpenLogger(First)
    \/ \E e \in Extensions : RecordGate(First, e, IF e.kind = "authority" THEN "deny" ELSE "allow")
    \/ Len(made) = MaxReceipts /\ Alter
    \/ Len(made) < MaxReceipts /\ Tick

(* a1 comes first. *)
Issued(s, t) == \A a \in Agents : stmt[a] = Generate(a, IF a = First THEN s ELSE t)

InScene ==
    CASE scene = "honest" -> Issued(Bound, Free) \/ Issued(Bound, Brief)
      [] scene = "loose" -> Issued(Bound, Free)
      [] OTHER -> Issued(Free, Free)

SceneNext ==
    \/ scene = "honest" /\ (Honest \/ Tick)
    \/ scene = "loose" /\ Loose
    \/ scene = "gate" /\ Gate

----------------------------------------------------------------------------
(* The handshake.  Two organisations; the third call claims the other's name. *)
MCOrgKey == [o \in Orgs |-> IF o = "a" THEN "ka" ELSE "kb"]
MCOrgName == [o \in Orgs |-> IF o = "a" THEN "A" ELSE "B"]
Call(n, claims) ==
    [from |-> "a", to |-> "b", nonce |-> n, tool |-> "t", claims |-> claims, tools |-> {"t"}]
MCCalls == {Call(1, "A"), Call(2, "A"), Call(3, "B")}
MCHandoffs == {[from |-> "a", to |-> "b", input |-> "x", skill |-> TRUE, target |-> TRUE, cap |-> "c"]}

MaxPapers == 3   \* bound: passports and hand-offs on the network

(* A registry the operator has set up: both organisations are registered. *)
Set(i, type, k, n) ==
    [type |-> type, key |-> k, issuer |-> n, signed |-> TRUE, index |-> i - 1, prev |-> i - 1,
     id |-> i, ts |-> 0]
SetUp == <<Set(1, "header", "none", "none"), Set(2, "register", "ka", "A"), Set(3, "register", "kb", "B")>>

Exchanges == {"solo", "overlap", "calls", "papers"}
Setting == {"solo", "overlap"}

ExchangeInit ==
    /\ HsInit
    /\ IF scene \in Exchanges \ Setting
         THEN /\ log = SetUp /\ clock = 0 /\ shared = FALSE
              /\ copy = [o \in Orgs |-> SetUp]
              /\ mem = [w \in Writers |-> IF w \in Signing THEN SetUp ELSE <<>>]
         ELSE RegInit

(* Both processes have the registry open, or one after the other. *)
Registry ==
    /\ \/ \E w \in Writers :
            \/ OpenRegistry(w)
            \/ CloseRegistry(w)
            \/ \E k \in Keys, n \in Names : Publish(w, k, n)
            \/ \E q \in PqKeys : PublishPqKey(w, q, "A")
            \/ \E k \in Keys : Revoke(w, k)
       \/ \E n \in 1 .. MaxEntries : Fetch("b", n)
    /\ scene = "solo" => ~shared'
    /\ UNCHANGED callVars

(* The initiator's key is revoked, and the organisations hear of it. *)
Revocation ==
    /\ \/ \E w \in Signing : Len(log) = 3 /\ Revoke(w, "ka")
       \/ \E o \in Orgs, n \in 1 .. MaxEntries : Fetch(o, n)
    /\ UNCHANGED callVars

CallNext ==
    \/ \E c \in MCCalls :
         /\ c.nonce = 1 + Cardinality({m \in net : m.kind = "request"})
         /\ BuildRequest(c) /\ UNCHANGED registryVars
    \/ \E o \in Orgs, m \in net : AcceptCall(o, m) /\ UNCHANGED registryVars
    \/ \E c \in MCCalls, m \in net : VerifyAck(c, m) /\ UNCHANGED registryVars
    \/ Revocation

PaperNext ==
    \/ \E n \in Names, ttl \in {0, 1} :
         Cardinality(net) < MaxPapers /\ IssuePassport("a", n, ttl) /\ UNCHANGED registryVars
    \/ \E o \in Orgs, m \in net : VerifyPassport(o, m) /\ UNCHANGED registryVars
    \/ \E h \in MCHandoffs : Cardinality(net) < MaxPapers /\ EmitHandoff(h) /\ UNCHANGED registryVars
    \/ \E o \in Orgs, m \in net, i \in {"x", "y"} : VerifyHandoff(o, m, i) /\ UNCHANGED registryVars
    \/ Revocation
    \/ ClockTick /\ UNCHANGED callVars

ExchangeNext ==
    \/ scene \in Setting /\ Registry
    \/ scene = "calls" /\ CallNext
    \/ scene = "papers" /\ PaperNext

----------------------------------------------------------------------------
(* Receipts with up to two parents, one of them perhaps missing, citing a
   token whose delegation ends, goes round or leads nowhere. *)
Rec(parents, t, bound) == [parents |-> parents, token |-> t, bound |-> bound]
MCReceipts ==
    {<<Rec(<<>>, t, FALSE), Rec(<<1>>, "none", b), Rec(p, "t", FALSE), Rec(q, t, b)>> :
        t \in {"none", "t", "z"}, b \in BOOLEAN, p \in {<<1, 2>>, <<9>>}, q \in {<<3>>, <<3, 2>>}}
MCLedgers == {[u \in {"t", "u"} |-> IF u = "t" THEN "u" ELSE end] : end \in {"none", "t", "z"}}
MCCorpora ==
    [receipts : MCReceipts, ledger : MCLedgers, root : {4, 9}, depth : 0 .. 3, breadth : {2, 5, 9}]

Idle == CHOOSE c \in Corpora : TRUE     \* the corpus of a scene without a graph

----------------------------------------------------------------------------
TrustInit ==
    /\ scene \in Scenes \cup Exchanges \cup {"graph"}
    /\ Init /\ InScene
    /\ ExchangeInit
    /\ GraphInit /\ (scene # "graph" => corpus = Idle)

TrustNext ==
    /\ \/ SceneNext /\ UNCHANGED <<handshakeVars, graphVars>>
       \/ ExchangeNext /\ UNCHANGED <<vars, graphVars>>
       \/ scene = "graph" /\ GraphNext /\ UNCHANGED <<vars, handshakeVars>>
    /\ UNCHANGED scene

TrustSpec == TrustInit /\ [][TrustNext]_<<vars, handshakeVars, graphVars, scene>>
=============================================================================
