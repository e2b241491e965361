----------------------------- MODULE ChainGraph -----------------------------
(***************************************************************************)
(* The authority graph of one receipt (raucle/chain_graph.py): a walk over *)
(* the parents of receipts and the delegation hops of the capabilities     *)
(* they cite, bounded in depth and in the number of nodes.  What the walk  *)
(* does not resolve it must say: unknown, or pruned.                       *)
(***************************************************************************)
EXTENDS Integers, Sequences, FiniteSets, SequencesExt

CONSTANT Corpora   \* the records to resolve: [receipts, ledger, root, depth, breadth]

ASSUME ChainGraphAssumption ==
    \A c \in Corpora :
        /\ {c.depth, c.breadth} \subseteq Nat
        /\ \A h \in DOMAIN c.receipts : c.receipts[h].parents \in Seq(Range(c.receipts[h].parents))

NoToken == "none"
ReceiptNode(h) == <<"receipt", h>>
DelegationNode(t) == <<"delegation", t>>
PolicyNode(h) == <<"policy", h>>

VARIABLES
    corpus,   \* one of Corpora
    graph,    \* the results: nodes, edges, unknown and pruned references, truncated
    queue,    \* receipts to visit, each with its hop
    at,       \* the receipt being resolved
    token,    \* the delegation hop being resolved: its id, the node citing it, hops left
    pc

graphVars == <<corpus, graph, queue, at, token, pc>>

(* _decode_receipt: a missing or undecodable record resolves to nothing. *)
Decoded(h) == h \in DOMAIN corpus.receipts
Stored(h) == corpus.receipts[h]
InLedger(t) == t \in DOMAIN corpus.ledger

----------------------------------------------------------------------------
(* _GraphState. *)

Full == Cardinality(graph.nodes) >= corpus.breadth
Refused(n) == n \notin graph.nodes /\ Full

AddNode_Silent(g, n) ==   \* wrong: a full graph refuses without a word
    IF Refused(n) THEN g ELSE [g EXCEPT !.nodes = @ \cup {n}]

AddNode(g, n) ==
    IF Refused(n) THEN [g EXCEPT !.pruned = @ \cup {n}, !.truncated = TRUE]
                  ELSE [g EXCEPT !.nodes = @ \cup {n}]
AddEdges(g, from, ns) == [g EXCEPT !.edges = @ \cup {<<from, n>> : n \in ns}]
UnknownRef(g, n) == [g EXCEPT !.unknown = @ \cup {n}]
Prune_Silent(g, n) == g   \* wrong: the cut is not recorded
Prune(g, n) == [g EXCEPT !.pruned = @ \cup {n}, !.truncated = TRUE]


----------------------------------------------------------------------------
(* One turn of the queue: _process_receipt_node up to the delegation. *)

VisitTooDeep ==
    /\ pc = "walk" /\ queue # <<>> /\ Head(queue).hop > corpus.depth
    /\ graph' = Prune(graph, ReceiptNode(Head(queue).id))
    /\ queue' = Tail(queue)
    /\ UNCHANGED <<corpus, at, token, pc>>

VisitUnknown ==
    /\ pc = "walk" /\ queue # <<>> /\ Head(queue).hop <= corpus.depth
    /\ ~Decoded(Head(queue).id)
    /\ graph' = UnknownRef(graph, ReceiptNode(Head(queue).id))
    /\ queue' = Tail(queue)
    /\ UNCHANGED <<corpus, at, token, pc>>

VisitRefused ==
    /\ pc = "walk" /\ queue # <<>> /\ Head(queue).hop <= corpus.depth
    /\ Decoded(Head(queue).id) /\ Refused(ReceiptNode(Head(queue).id))
    /\ graph' = AddNode(graph, ReceiptNode(Head(queue).id))
    /\ queue' = Tail(queue)
    /\ UNCHANGED <<corpus, at, token, pc>>

(* A receipt that is visited again is processed again: its parents are put
   on the queue a second time, one hop further away. *)
Visit ==
    /\ pc = "walk" /\ queue # <<>> /\ Head(queue).hop <= corpus.depth
    /\ LET h == Head(queue).id
           hop == Head(queue).hop
       IN  /\ Decoded(h) /\ ~Refused(ReceiptNode(h))
           /\ graph' = AddEdges(AddNode(graph, ReceiptNode(h)), ReceiptNode(h),
                                {ReceiptNode(p) : p \in Range(Stored(h).parents)})
           /\ queue' = Tail(queue) \o
                 [k \in DOMAIN Stored(h).parents |-> [id |-> Stored(h).parents[k], hop |-> hop + 1]]
           /\ at' = h
           /\ token' = [id |-> Stored(h).token, from |-> ReceiptNode(h), hops |-> corpus.depth - hop]
           /\ pc' = IF Stored(h).token = NoToken THEN "policy" ELSE "delegation"
    /\ UNCHANGED corpus

(* _walk_delegation, one hop. *)
HopUnknown ==
    /\ pc = "delegation" /\ ~InLedger(token.id)
    /\ graph' = AddEdges(UnknownRef(graph, DelegationNode(token.id)), token.from, {DelegationNode(token.id)})
    /\ pc' = "policy"
    /\ UNCHANGED <<corpus, queue, at, token>>

(* The test for an earlier visit compares a token with node names, so the
   limit also prunes a hop that is in the graph already. *)
HopTooDeep ==
    /\ pc = "delegation" /\ InLedger(token.id) /\ token.hops <= 0
    /\ graph' = AddEdges(Prune(graph, DelegationNode(token.id)), token.from, {DelegationNode(token.id)})
    /\ pc' = "policy"
    /\ UNCHANGED <<corpus, queue, at, token>>

HopRefused ==
    /\ pc = "delegation" /\ InLedger(token.id) /\ token.hops > 0 /\ Refused(DelegationNode(token.id))
    /\ graph' = AddEdges(AddNode(graph, DelegationNode(token.id)), token.from, {DelegationNode(token.id)})
    /\ pc' = "policy"
    /\ UNCHANGED <<corpus, queue, at, token>>

Hop ==
    /\ pc = "delegation" /\ InLedger(token.id) /\ token.hops > 0 /\ ~Refused(DelegationNode(token.id))
    /\ graph' = AddEdges(AddNode(graph, DelegationNode(token.id)), token.from,
                         {DelegationNode(token.id)} \ {token.from})
    /\ LET parent == corpus.ledger[token.id] IN
         /\ token' = [id |-> parent, from |-> DelegationNode(token.id), hops |-> token.hops - 1]
         /\ pc' = IF parent = NoToken THEN "policy" ELSE "delegation"
    /\ UNCHANGED <<corpus, queue, at>>

(* _receipt_policy_node and _bind_policy_deployments: the policy bound to the
   receipt by a digest, if any. *)
BindPolicy ==
    /\ pc = "policy"
    /\ graph' = IF Stored(at).bound
                  THEN AddEdges(AddNode(graph, PolicyNode(at)), ReceiptNode(at), {PolicyNode(at)})
                  ELSE graph
    /\ pc' = "walk"
    /\ UNCHANGED <<corpus, queue, at, token>>

Finish ==
    /\ pc = "walk" /\ queue = <<>>
    /\ pc' = "done"
    /\ UNCHANGED <<corpus, graph, queue, at, token>>

----------------------------------------------------------------------------
EmptyGraph == [nodes |-> {}, edges |-> {}, unknown |-> {}, pruned |-> {}, truncated |-> FALSE]

(* resolve_chain_graph: a root that does not decode is the whole answer. *)
GraphInit ==
    /\ corpus \in Corpora
    /\ at = NoToken /\ token = NoToken
    /\ queue = IF Decoded(corpus.root) THEN <<[id |-> corpus.root, hop |-> 0]>> ELSE <<>>
    /\ graph = IF Decoded(corpus.root) THEN EmptyGraph
               ELSE [EmptyGraph EXCEPT !.unknown = {ReceiptNode(corpus.root)}]
    /\ pc = "walk"

GraphNext ==
    \/ VisitTooDeep \/ VisitUnknown \/ VisitRefused \/ Visit
    \/ HopUnknown \/ HopTooDeep \/ HopRefused \/ Hop
    \/ BindPolicy \/ Finish

GraphSpec == GraphInit /\ [][GraphNext]_graphVars

----------------------------------------------------------------------------
GraphTypeOK ==
    /\ pc \in {"walk", "delegation", "policy", "done"}
    /\ Cardinality(graph.nodes) <= corpus.breadth

Cites(n) ==
    CASE n[1] = "receipt" ->
           {ReceiptNode(p) : p \in Range(Stored(n[2]).parents)}
             \cup {DelegationNode(t) : t \in {Stored(n[2]).token} \ {NoToken}}
             \cup {PolicyNode(h) : h \in {i \in {n[2]} : Stored(i).bound}}
      [] n[1] = "delegation" -> {DelegationNode(t) : t \in {corpus.ledger[n[2]]} \ {NoToken}}
      [] OTHER -> {}

(* NOTHING SKIPPED.  When the graph is returned, every reference of every
   node in it is itself a node, or is reported as unknown or as pruned; a
   graph that is not marked truncated holds everything the records resolve
   (module docstring: "never silently skipped"). *)
NothingSkipped ==
    pc = "done" =>
        /\ \A n \in graph.nodes : Cites(n) \subseteq graph.nodes \cup graph.unknown \cup graph.pruned
        /\ ~graph.truncated => graph.pruned = {}
        /\ \A n \in graph.unknown : IF n[1] = "receipt" THEN ~Decoded(n[2]) ELSE ~InLedger(n[2])

(* COMPLETE.  The walk stays within its breadth, and what it returns accounts
   for every reference of every node (resolve_chain_graph). *)
GraphComplete == GraphTypeOK /\ NothingSkipped
=============================================================================
