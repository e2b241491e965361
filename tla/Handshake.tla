----------------------------- MODULE Handshake -----------------------------
(***************************************************************************)
(* Calls between organisations that resolve each other's keys in a trust   *)
(* registry (raucle/trust_registry.py, handshake.py, passport.py, a2a.py). *)
(*                                                                         *)
(* The registry is an append-only, hash-chained log that registers and     *)
(* revokes issuer keys.  A writer reads the file when it opens it and      *)
(* chains new entries to what it has in memory.  Organisations fetch       *)
(* copies, which may lag behind the file, and resolve keys in the copy     *)
(* they accepted last.                                                     *)
(*                                                                         *)
(* A request carries a capability token and a nonce, the responder answers *)
(* with a signed acknowledgement, the initiator verifies it; agents        *)
(* present passports countersigned by their issuer, and hand work over     *)
(* with a receipt.  Messages may be lost, repeated, delayed and overtaken: *)
(* net is the set of messages ever sent, and receiving one does not remove *)
(* it.                                                                     *)
(***************************************************************************)
EXTENDS Integers, Sequences, SequencesExt, FiniteSets

CONSTANTS
    Writers,     \* processes that open the registry to write
    Signing,     \* the writers that hold the operator's key
    Orgs,        \* organisations that fetch the registry
    Keys,        \* classical issuer keys
    PqKeys,      \* post-quantum keys
    Names,       \* issuer names, in canonical form
    OrgKey,      \* OrgKey[o]: the key o signs with
    OrgName,     \* OrgName[o]: the name o claims to be
    Calls,       \* calls an initiator may make: [from, to, nonce, tool, claims, tools]
    Handoffs,    \* hand-off receipts: [from, to, input, skill, target, cap]
    Dedup,       \* responders keep the set of requests they have handled
    MaxEntries,  \* bound: lines of the file
    MaxAge,      \* the age of a copy an organisation accepts
    MaxClock     \* bound: the clock

ASSUME HandshakeAssumption ==
    /\ OrgKey \in [Orgs -> Keys]
    /\ Keys \cap PqKeys = {}
    /\ \A c \in Calls : {c.from, c.to} \subseteq Orgs
    /\ Dedup \in BOOLEAN
    /\ {MaxEntries, MaxAge, MaxClock} \subseteq Nat

VARIABLES
    log,       \* the lines of the file
    mem,       \* mem[w]: the entries writer w has in memory, <<>> when it has none
    copy,      \* copy[o]: the entries organisation o accepted last
    clock,
    shared,    \* history: a writer opened the registry while another had it open
    net,       \* messages sent: requests, acknowledgements, passports, hand-offs
    seen,      \* seen[o]: replay keys responder o has recorded
    accepted,  \* accepted[o]: what o let through, in order
    verdict    \* verdict[c]: what the initiator of call c has verified

registryVars == <<log, mem, copy, clock, shared>>
callVars == <<net, seen, accepted, verdict>>
handshakeVars == <<registryVars, callVars>>

NoRecord == [issuer |-> "none", revoked |-> TRUE]

----------------------------------------------------------------------------
(* _write_entry: the index and the previous hash come from memory; the line
   goes to the end of the file.  A line's number stands for its hash. *)

Tail_(es) == IF es = <<>> THEN 0 ELSE Last(es).id

Entry(w, body) ==
    [type |-> body.type, key |-> body.key, issuer |-> body.issuer, signed |-> w \in Signing,
     index |-> Len(mem[w]), prev |-> Tail_(mem[w]), id |-> Len(log) + 1, ts |-> clock]

WriteEntry(w, body) ==
    /\ Len(log) < MaxEntries
    /\ log' = Append(log, Entry(w, body))
    /\ mem' = [mem EXCEPT ![w] = Append(@, Entry(w, body))]

Header == [type |-> "header", key |-> "none", issuer |-> "none"]

(* __init__: an existing file is read, a missing one gets a header. *)
OpenRegistry(w) ==
    /\ mem[w] = <<>>
    /\ IF log = <<>> THEN WriteEntry(w, Header)
                     ELSE log' = log /\ mem' = [mem EXCEPT ![w] = log]
    /\ shared' = (shared \/ \E v \in Writers \ {w} : mem[v] # <<>>)
    /\ UNCHANGED <<copy, clock>>

CloseRegistry(w) ==
    /\ mem[w] # <<>>
    /\ mem' = [mem EXCEPT ![w] = <<>>]
    /\ UNCHANGED <<log, copy, clock, shared>>

----------------------------------------------------------------------------
(* _fold: the last registration of a key counts; a revocation after it makes
   it revoked, one before it does not. *)

Registers(es, k) == {i \in DOMAIN es : es[i].type \in {"register", "register_pq"} /\ es[i].key = k}

Resolve(es, k) ==
    IF Registers(es, k) = {} THEN NoRecord
    ELSE LET i == CHOOSE j \in Registers(es, k) : \A n \in Registers(es, k) : n <= j
         IN  [issuer |-> es[i].issuer,
              revoked |-> \E j \in i + 1 .. Len(es) : es[j].type = "revoke" /\ es[j].key = k]

Active(es, k) == ~Resolve(es, k).revoked

(* publish refuses a name that another active classical key holds. *)
NameFree_Unchecked(w, k, name) == TRUE     \* mutant: the name is not compared
NameFree(w, k, name) ==
    \A other \in Keys \ {k} : Active(mem[w], other) => Resolve(mem[w], other).issuer # name

Publish(w, k, name) ==
    /\ mem[w] # <<>>
    /\ NameFree(w, k, name)
    /\ WriteEntry(w, [type |-> "register", key |-> k, issuer |-> name])
    /\ UNCHANGED <<copy, clock, shared>>

(* publish_pq_key asks nothing about the name. *)
PublishPqKey(w, q, name) ==
    /\ mem[w] # <<>>
    /\ WriteEntry(w, [type |-> "register_pq", key |-> q, issuer |-> name])
    /\ UNCHANGED <<copy, clock, shared>>

Revoke(w, k) ==
    /\ mem[w] # <<>>
    /\ WriteEntry(w, [type |-> "revoke", key |-> k, issuer |-> "none"])
    /\ UNCHANGED <<copy, clock, shared>>

----------------------------------------------------------------------------
(* verify_integrity. *)

VerifyChainEntries(es) ==
    \A i \in DOMAIN es :
        es[i].index = i - 1 /\ es[i].prev = (IF i = 1 THEN 0 ELSE es[i - 1].id)

UniqueAmong(es, ks) ==
    \A k, n \in ks : Active(es, k) /\ Active(es, n) /\ Resolve(es, k).issuer = Resolve(es, n).issuer
                       => k = n
CheckIssuerUniqueness(es) == UniqueAmong(es, Keys) /\ UniqueAmong(es, PqKeys)

(* With the operator's key pinned, every entry must be signed by it; a
   registry whose header says it is unsigned is not authenticated. *)
VerifyOperatorSignatures(es) == \A i \in DOMAIN es : es[i].signed
Authenticated(es) == es # <<>> /\ es[1].signed /\ VerifyOperatorSignatures(es)

CheckFreshness_NoIndex(es, minIndex, maxAge) ==     \* mutant: the head is not compared
    clock - Last(es).ts <= maxAge
CheckFreshness(es, minIndex, maxAge) ==
    /\ Len(es) - 1 >= minIndex
    /\ Last(es).ts <= clock
    /\ clock - Last(es).ts <= maxAge


VerifyIntegrity(es) == VerifyChainEntries(es) /\ CheckIssuerUniqueness(es)

(* from_url: an organisation is served some prefix of the file, pins the
   operator's key and the index of the head it saw last. *)
Fetch(o, n) ==
    LET es == SubSeq(log, 1, n) IN
    /\ n \in 1 .. Len(log)
    /\ VerifyIntegrity(es)
    /\ Authenticated(es)
    /\ CheckFreshness(es, Len(copy[o]) - 1, MaxAge)
    /\ copy' = [copy EXCEPT ![o] = es]
    /\ UNCHANGED <<log, mem, clock, shared>>

ClockTick == clock < MaxClock /\ clock' = clock + 1 /\ UNCHANGED <<log, mem, copy, shared>>

RegInit ==
    /\ log = <<>> /\ clock = 0 /\ shared = FALSE
    /\ mem = [w \in Writers |-> <<>>]
    /\ copy = [o \in Orgs |-> <<>>]

RegNext ==
    \/ \E w \in Writers :
         \/ OpenRegistry(w) \/ CloseRegistry(w)
         \/ \E k \in Keys, n \in Names : Publish(w, k, n)
         \/ \E q \in PqKeys, n \in Names : PublishPqKey(w, q, n)
         \/ \E k \in Keys \cup PqKeys : Revoke(w, k)
    \/ \E o \in Orgs, n \in 1 .. MaxEntries : Fetch(o, n)
    \/ ClockTick

----------------------------------------------------------------------------
(* build_request: the token names the key that signed it; the nonce is fresh
   for every call. *)
BuildRequest(c) ==
    /\ c \in Calls
    /\ net' = net \cup {[kind |-> "request", call |-> c, key |-> OrgKey[c.from], issuer |-> c.claims]}
    /\ UNCHANGED <<seen, accepted, verdict>>

(* _ack: the signed body binds the whole request and the decision. *)
Ack(o, m, decision) ==
    [kind |-> "ack", call |-> m.call, responder |-> OrgName[o], key |-> OrgKey[o], decision |-> decision]

(* The gate of accept_call is anchored on the resolved key; what it checks is
   the call against the token. *)
GateAllows(m) == m.call.tool \in m.call.tools

(* accept_call.  The replay key is recorded before the key is resolved, so a
   request that was refused cannot be sent again either. *)
Handled_Never(o, m) == FALSE              \* mutant: no replay protection
Handled(o, m) == Dedup /\ m.call \in seen[o]


Acceptable_AnyIssuer(o, m) ==             \* mutant: the claimed name is not compared
    ~Handled(o, m) /\ Active(copy[o], m.key) /\ GateAllows(m)
Acceptable(o, m) ==
    /\ ~Handled(o, m)
    /\ Active(copy[o], m.key)
    /\ Resolve(copy[o], m.key).issuer = m.issuer
    /\ GateAllows(m)


AcceptCall(o, m) ==
    /\ m.kind = "request" /\ m.call.to = o
    /\ seen' = IF Dedup THEN [seen EXCEPT ![o] = @ \cup {m.call}] ELSE seen
    /\ net' = net \cup {Ack(o, m, IF Acceptable(o, m) THEN "ACCEPT" ELSE "REJECT")}
    /\ accepted' = IF Acceptable(o, m) THEN [accepted EXCEPT ![o] = Append(@, m)] ELSE accepted
    /\ UNCHANGED verdict

(* verify_ack with the request as the binding: the responder's key resolves
   and is active in the initiator's copy, the body names the holder of that
   key, and the request is the one that was sent. *)
CheckAckBindings_NoRequest(c, m) ==       \* mutant: only the responder is compared
    m.responder = Resolve(copy[c.from], m.key).issuer /\ m.responder = OrgName[c.to]
CheckAckBindings(c, m) ==
    /\ m.responder = Resolve(copy[c.from], m.key).issuer
    /\ m.responder = OrgName[c.to]
    /\ m.call = c


VerifyAck(c, m) ==
    /\ m.kind = "ack" /\ c \in Calls
    /\ verdict[c] = "none"
    /\ Active(copy[c.from], m.key)
    /\ CheckAckBindings(c, m)
    /\ verdict' = [verdict EXCEPT ![c] = m.decision]
    /\ UNCHANGED <<net, seen, accepted>>

----------------------------------------------------------------------------
(* Passports: issue_passport countersigns a statement with the issuer's key. *)
IssuePassport(o, name, ttl) ==
    /\ net' = net \cup {[kind |-> "passport", key |-> OrgKey[o], issuer |-> name,
                         expires |-> IF ttl = 0 THEN 0 ELSE clock + ttl]}
    /\ UNCHANGED <<seen, accepted, verdict>>

PassportValid(o, m) ==
    /\ Active(copy[o], m.key)
    /\ Resolve(copy[o], m.key).issuer = m.issuer
    /\ m.expires # 0 => clock < m.expires

VerifyPassport(o, m) ==
    /\ m.kind = "passport" /\ m \notin Range(accepted[o])
    /\ PassportValid(o, m)
    /\ accepted' = [accepted EXCEPT ![o] = Append(@, m)]
    /\ UNCHANGED <<net, seen, verdict>>

----------------------------------------------------------------------------
(* Hand-offs: the receipt is signed by the caller and checked against the
   caller's card; the callee passes the input it is about to run. *)
EmitHandoff(h) ==
    /\ h \in Handoffs
    /\ net' = net \cup {[kind |-> "handoff", receipt |-> h]}
    /\ UNCHANGED <<seen, accepted, verdict>>

(* The id is reserved before the input is compared: a receipt presented with
   another input is spent. *)
HandoffBinds(h, input) == h.input = input /\ h.target /\ h.skill
HandoffFresh(o, m) == m.receipt \notin seen[o]

VerifyHandoff(o, m, input) ==
    /\ m.kind = "handoff" /\ m.receipt.to = o
    /\ seen' = [seen EXCEPT ![o] = @ \cup {m.receipt}]
    /\ accepted' = IF HandoffFresh(o, m) /\ HandoffBinds(m.receipt, input)
                     THEN [accepted EXCEPT ![o] = Append(@, m)] ELSE accepted
    /\ UNCHANGED <<net, verdict>>

----------------------------------------------------------------------------
HsInit ==
    /\ net = {} /\ seen = [o \in Orgs |-> {}]
    /\ accepted = [o \in Orgs |-> <<>>]
    /\ verdict = [c \in Calls |-> "none"]

HsNext ==
    \/ \E c \in Calls : BuildRequest(c)
    \/ \E o \in Orgs, m \in net : AcceptCall(o, m)
    \/ \E c \in Calls, m \in net : VerifyAck(c, m)
    \/ \E o \in Orgs, n \in Names, ttl \in {0, 1} : IssuePassport(o, n, ttl)
    \/ \E o \in Orgs, m \in net : VerifyPassport(o, m)
    \/ \E h \in Handoffs : EmitHandoff(h)
    \/ \E o \in Orgs, m \in net, i \in {"x", "y"} : VerifyHandoff(o, m, i)

----------------------------------------------------------------------------
HandshakeInit == RegInit /\ HsInit

HandshakeNext ==
    \/ RegNext /\ UNCHANGED callVars
    \/ HsNext /\ UNCHANGED registryVars

HandshakeSpec == HandshakeInit /\ [][HandshakeNext]_handshakeVars

----------------------------------------------------------------------------
RegTypeOK ==
    /\ Len(log) <= MaxEntries
    /\ \A w \in Writers : Len(mem[w]) <= Len(log)
    /\ clock \in 0 .. MaxClock

(* AT MOST ONCE.  However often a request or a hand-off is delivered, the
   organisation it is for acts on it once. *)
AtMostOnce == Dedup => \A o \in Orgs : IsInjective(accepted[o])

(* AGREEMENT.  An initiator that verified ACCEPT for a call can rely on the
   organisation it called having accepted that very call, under a token of
   the initiator's own key and name, whatever acknowledgements of other
   calls are replayed to it. *)
AckAgreement ==
    \A c \in Calls : verdict[c] = "ACCEPT" =>
        \E m \in Range(accepted[c.to]) :
            m.kind = "request" /\ m.call = c /\ m.key = OrgKey[c.from]

(* NO IMPERSONATION.  What an organisation lets through under a name was
   signed with the key the operator's log has registered under that name. *)
ActsUnderOwnName ==
    \A o \in Orgs : \A m \in Range(accepted[o]) :
        m.kind \in {"request", "passport"} =>
            \E i \in DOMAIN log : log[i].type = "register" /\ log[i].key = m.key /\ log[i].issuer = m.issuer

(* IN TURN.  As long as no writer opened the registry while another had it
   open, its entries are chained, and no name is held by two active classical
   keys, which is what verify_integrity asks of them (publish; of ML-DSA keys
   publish_pq_key asks nothing). *)
LogLoads == ~shared => VerifyChainEntries(log) /\ UniqueAmong(log, Keys)

(* AGREEMENT.  A call is acted on at most once and under the name the operator
   registered, an acknowledgement that is accepted is about the very call, and
   a registry written by one process at a time loads (accept_call, verify_ack,
   verify_integrity). *)
HandshakeAgrees == AtMostOnce /\ AckAgreement /\ ActsUnderOwnName /\ LogLoads

(* NO ROLLBACK.  Whatever copies an organisation is served, a key it has once
   seen revoked becomes active for it again only by a registration that is
   later than the revocation (_check_freshness: a stale signed prefix omits
   the revocation). *)
Forward ==
    \A o \in Orgs, k \in Keys :
        /\ Resolve(copy[o], k) # NoRecord /\ Resolve(copy[o], k).revoked
        /\ Active(copy'[o], k)
        => \E i \in Registers(copy'[o], k) : i > Len(copy[o])

RegistryForward == [][Forward]_handshakeVars
=============================================================================
