---------------------------- MODULE MCCapability ----------------------------
(***************************************************************************)
(* Small instances for TLC of the tokens with their verifiers, of the      *)
(* proof engine and of the delegation receipts of other profiles.          *)
(***************************************************************************)
EXTENDS Verifiers, FiniteSets

VARIABLE scene
VARIABLE question   \* one question to a prover
VARIABLES receipts, attached, withdrawn, registry, pending, consumed, accepted, count

tokenVars == <<toks, registered, revoked, now, config>>
drpVars == <<receipts, attached, withdrawn, registry, pending, consumed, accepted, count>>
allVars == <<scene, question, tokenVars, drpVars>>

----------------------------------------------------------------------------
(* Tokens *)

(* A number field, a text field. *)
Free == [forbidden |-> <<>>, allowed |-> <<>>, starts |-> <<>>, max |-> <<>>, min |-> <<>>,
         required |-> {}, combos |-> {}]

Twice(S) == [v \in S |-> 2]

File(path) == [file |-> TRUE, path |-> path]

(* One constraint of each kind and some that overlap. *)
Constraints ==
    {Free} \cup
    {[Free EXCEPT !.allowed = [n |-> l]] : l \in {Once({1}), Once({1, 2}), Twice({1})}} \cup
    {[Free EXCEPT !.forbidden = [n |-> l]] : l \in {Once({1}), Once({2})}} \cup
    {[Free EXCEPT !.starts = [t |-> File(p)]] : p \in {<<"a">>, <<"a", "b">>, <<"a", Up>>}} \cup
    {[Free EXCEPT !.starts = [t |-> [file |-> FALSE, path |-> <<"a">>]]]} \cup
    {[Free EXCEPT !.max = [n |-> m]] : m \in {1, 2}} \cup
    {[Free EXCEPT !.min = [n |-> m]] : m \in {1, 2}} \cup
    {[Free EXCEPT !.required = {l}] : l \in {Once({"n"}), Twice({"n"})}} \cup
    {[Free EXCEPT !.combos = {l}] : l \in {Once({Once({"n", "t"})}), Once({Twice({"n"})})}} \cup
    {[Free EXCEPT !.allowed = [n |-> Once({1, 2})], !.max = [n |-> 1], !.required = {Once({"t"})}]}

AtMost(m) == [Free EXCEPT !.max = [n |-> m]]

Grant == [trusted |-> TRUE, agent |-> <<"x">>, tool |-> "pay", cons |-> Free, ttl |-> 2, delay |-> 0,
          actingFor |-> None, intent |-> {}, proof |-> None]

Ask == [extra |-> Free, ttl |-> None, agent |-> None, intent |-> {}, actingFor |-> None]

Intents == {[tools |-> {"pay"}, cons |-> {}], [tools |-> {"pay", "get"}, cons |-> {AtMost(1)}],
            [tools |-> None, cons |-> {AtMost(2)}]}

MCGrants ==
    {[Grant EXCEPT !.cons = c] : c \in Constraints} \cup
    {[Grant EXCEPT !.trusted = FALSE], [Grant EXCEPT !.agent = <<"x", "y">>],
     [Grant EXCEPT !.agent = <<"z">>], [Grant EXCEPT !.tool = "get"],
     [Grant EXCEPT !.ttl = 1], [Grant EXCEPT !.delay = 1],
     [Grant EXCEPT !.actingFor = "u"], [Grant EXCEPT !.proof = "one"],
     [Grant EXCEPT !.cons = AtMost(1), !.proof = "one"]} \cup
    {[Grant EXCEPT !.intent = {i}] : i \in Intents}

MCAsks ==
    {[Ask EXCEPT !.extra = c] : c \in Constraints} \cup
    {[Ask EXCEPT !.agent = <<"x", "y">>], [Ask EXCEPT !.agent = <<"z">>], [Ask EXCEPT !.ttl = 1],
     [Ask EXCEPT !.actingFor = "u"], [Ask EXCEPT !.actingFor = "v"]} \cup
    {[Ask EXCEPT !.intent = {i}] : i \in Intents}

(* The trusted proof is about the upper bound 1, the other one failed. *)
MCProofs == [one |-> [status |-> "PROVEN", about |-> AtMost(1)],
             two |-> [status |-> "REFUTED", about |-> AtMost(2)]]

Lists == {<<>>} \cup {[n |-> s] : s \in {{}, {0}, {1}, {2}, {1, 2}, {3}, {Word}}}
Texts == {<<>>} \cup {[t |-> File(p)] : p \in {<<"a">>, <<"a", "b">>, <<"a", Up, "b">>}}
                \cup {[t |-> [file |-> FALSE, path |-> <<"a", "b">>]]}

Plainest == [lists |-> [n |-> {1}], texts |-> <<>>]

MCCalls ==
    [tool : {"pay"}, agent : {<<"x">>}, actingFor : {None}, args : [lists : Lists, texts : Texts]]
    \cup [tool : {"pay", "get"}, agent : {None, <<"x">>, <<"x", "y">>, <<"z">>},
          actingFor : {None, "u", "v"}, args : {Plainest, [Plainest EXCEPT !.lists = [n |-> {2}]]}]

Identity(t) == [agent |-> t.agent, tool |-> t.tool, trusted |-> t.trusted, actingFor |-> t.actingFor,
                intent |-> t.intent, proof |-> t.proof, nbf |-> t.nbf, exp |-> t.exp]

(* One chain, each token registered before it is attenuated, or a child of a
   token that is not registered. *)
OneChain ==
    /\ \A i \in Ids : toks[i].parent = i - 1
    /\ Len(toks) = 3 => registered = {1, 2}
    /\ Len(toks) = 2 => registered # {2}

(* Chains of constraints; keys, scopes, times, users, intents and, on whole
   chains, revocations, with one bound as constraint; or proofs. *)
InScene ==
    /\ OneChain
    /\ CASE scene = "narrowing" ->
               /\ \A i \in Ids : Identity(toks[i]) =
                     [agent |-> <<"x">>, tool |-> "pay", trusted |-> TRUE, actingFor |-> None,
                      intent |-> {}, proof |-> None, nbf |-> 0, exp |-> 2]
               /\ revoked = {} /\ now = 0
               /\ config = [proofs |-> "off", strictIssuer |-> FALSE]
         [] scene = "identity" ->
               /\ \A i \in Ids : toks[i].cons \in {Free, AtMost(1)} /\ toks[i].proof = None
               /\ revoked # {} => Len(toks) = 3
               /\ Cardinality(revoked) < 2
               /\ config = [proofs |-> "off", strictIssuer |-> FALSE]
         [] scene = "proofs" ->
               /\ Len(toks) < 3
               /\ \A i \in Ids : toks[i].cons.starts = <<>> /\ toks[i].intent = {}
               /\ revoked = {} /\ now = 0

TokenScenes == {"narrowing", "identity", "proofs"}

----------------------------------------------------------------------------
(* Questions to the provers *)

Str(n) == [t |-> "string", v |-> n]
Num(n) == [t |-> "integer", v |-> n]
ArgValues == {Str(0), Str(1), Num(0), Num(1), Num(2)}

P == INSTANCE ProofEngine WITH
        Fields <- {"f", "g"}, Values <- ArgValues, Unsupported <- None

(* A declared field: its type, its values as the prover reads them and as the
   schema means them. *)
Property(type, readAs, meant) == [type |-> type, read |-> readAs, meant |-> meant]
Strings == {Str(0), Str(1)}
Numbers == {Num(0), Num(1), Num(2)}
Properties ==
    {Property("string", Strings, Strings), Property("string", {Str(0)}, {Str(0)}),
     Property("string", Strings, {Str(1)}), Property("integer", Numbers, Numbers),
     Property("integer", {Num(0), Num(1)}, {Num(0), Num(1)}),
     Property("integer", Numbers, {Num(1)}), Property("integer", {}, {}), Property("array", {}, {})}

Schemas ==
    [props : UNION {[dom -> Properties] : dom \in SUBSET {"f", "g"}}, required : SUBSET {"f", "g"},
     extra : BOOLEAN, pattern : {{}, {"g"}}]

Policies ==
    [forbidden : {<<>>, [f |-> {Str(0)}], [g |-> {Str(0)}]}, allowed : {<<>>, [f |-> {Str(1)}]},
     starts : {<<>>}, max : {<<>>, [f |-> 1]}, min : {<<>>, [f |-> 1]},
     required : {{}, {"f"}, {"g"}}, combos : {{}, {{"f", "g"}}}]

Host(labels, wild) == [labels |-> labels, wild |-> wild]
Hosts == {Host(<<"a">>, FALSE), Host(<<"a">>, TRUE), Host(<<"a", "b">>, FALSE),
          Host(<<"a", "b">>, TRUE), Host(<<"b">>, TRUE)}
Few(n) == {h \in SUBSET Hosts : Cardinality(h) <= n}

Grammars ==
    [schemes : {{"https"}, {"http", "https"}, {}}, hosts : Few(2), depths : {{0}, {0, 2}},
     query : {{}, {"k"}}, closed : BOOLEAN]
UrlPolicies ==
    [https : BOOLEAN, forbidQuery : {{}, {"k"}}, listed : {TRUE}, hosts : Few(1),
     maxDepth : {-1, 1}, unknownKey : BOOLEAN]

Templates ==
    [tokens : {{}, {"drop"}}, chained : BOOLEAN, unmodelled : BOOLEAN, query : BOOLEAN,
     tables : {{}, {"x"}, {"y"}}, inner : {{}, {"y"}}]
SqlPolicies ==
    [forbidden : {{}, {"drop"}}, chaining : BOOLEAN, tables : {{}, {"x"}}, unknownKey : {FALSE}]

Question == \/ question \in [about : {"json"}, given : Schemas, policy : Policies]
        \/ question \in [about : {"url"}, given : Grammars, policy : UrlPolicies]
        \/ question \in [about : {"sql"}, given : {<<t>> : t \in Templates}, policy : SqlPolicies]

----------------------------------------------------------------------------
(* Delegation receipts: a root, a narrower child, a one-time grandchild, one
   whose signature fails and one that drops the denied action. *)

Body == [scope |-> {"x", "y", "z"}, denied |-> {}, from |-> 0, to |-> 2, key |-> "k", nonce |-> 0,
         parent |-> 0, signed |-> TRUE, instructions |-> TRUE, oneTime |-> FALSE,
         revocationRequired |-> FALSE]
ReceiptBodies ==
    {Body, [Body EXCEPT !.scope = {"x", "y"}, !.denied = {"d"}, !.to = 1],
     [Body EXCEPT !.scope = {"x"}, !.denied = {"d"}, !.from = 1, !.to = 1, !.oneTime = TRUE,
                  !.revocationRequired = TRUE],
     [Body EXCEPT !.scope = {"x"}, !.signed = FALSE], [Body EXCEPT !.scope = {"x"}, !.to = 1]}

D == INSTANCE DelegationReceipts WITH
        Bodies <- ReceiptBodies, Unknown <- 9, MaxReceipts <- 3, MaxDepth <- 3,
        Verifiers <- {"v", "w"}, MaxVerified <- 2, MaxRevoked <- 1,
        store <- receipts, revoked <- withdrawn

DrpOff ==
    /\ receipts = None /\ attached = None /\ withdrawn = None /\ registry = None
    /\ pending = None /\ consumed = None /\ accepted = None /\ count = None

Components == [type : {"A", "B"}, label : {"", "B"}, valid : BOOLEAN, bound : {"d", "e"}]
ComponentLists == UNION {[1 .. n -> Components] : n \in 0 .. 2}
Requirements == {<<"A">>, <<"A", "AND", "B">>, <<"A", "OR", "B">>, <<>>, <<"B", ")">>}

----------------------------------------------------------------------------
(* The last scene takes no step: it is where pure functions are checked. *)

SceneInit ==
    /\ scene \in TokenScenes \cup {"questions", "receipts", "algorithms"}
    /\ Init
    /\ IF scene \in TokenScenes THEN InScene
       ELSE config = [proofs |-> "off", strictIssuer |-> FALSE]
    /\ IF scene = "questions" THEN Question ELSE question = None
    /\ IF scene = "receipts" THEN D!Init ELSE DrpOff

SceneNext ==
    /\ UNCHANGED <<scene, question>>
    /\ \/ scene \in TokenScenes /\ Next /\ InScene' /\ UNCHANGED drpVars
       \/ scene = "receipts" /\ D!Next /\ UNCHANGED tokenVars

SceneSpec == SceneInit /\ [][SceneNext]_allVars

----------------------------------------------------------------------------
(* Properties *)

(* PROVEN means that no object, URL or query the schema, grammar or template
   admits breaks the policy, also where it uses what the encoding leaves out;
   and a refutation of a JSON schema shows a real call (prove.py).  A Merkle
   disclosure of any field of a call verifies, and no value that is not in the
   call does, for calls of one to six fields (DisclosureBinds). *)
ProofsHold ==
    /\ scene = "questions" =>
          CASE question.about = "json" -> /\ P!ProofSound(question.given, question.policy)
                                          /\ P!RefutationFair(question.given, question.policy)
            [] question.about = "url"  -> P!UrlSound(question.given, question.policy,
                                                     {"a", "b"}, {"k"}, 0 .. 2)
            [] question.about = "sql"  -> P!SqlSound(question.given, question.policy)
    /\ scene = "algorithms" => \A n \in 1 .. 6 :
          DisclosureBinds([i \in 1 .. n |-> <<i, i % 2>>], (1 .. n + 1) \X {0, 1})

(* A delegation receipt that is acted on lies inside every ancestor and, if it
   is for one use, is acted on once; the requirement language means what its
   grammar says, and evidence can only help (nelson14.verify, consume,
   evaluate_requirement, verify_chain). *)
DelegationsHold ==
    /\ scene = "receipts" => D!ChainNarrows /\ D!ConsumedOnce
    /\ scene = "algorithms" =>
          /\ \A sat \in SUBSET {"A", "B"} : D!RequirementExact({"A", "B"}, sat, 5)
          /\ \A comps \in ComponentLists, known \in {{"A"}, {"A", "B"}}, r \in Requirements :
                D!EvidenceMonotone(comps, known, "d", r)
=============================================================================
