----------------------------- MODULE Federation -----------------------------
(***************************************************************************)
(* What gateways share with others about indicators and audit chains.      *)
(*                                                                         *)
(* Signed feeds (raucle/feed.py): publishers sign indicators and           *)
(* manifests, subscribers fetch them over a guarded connection, verify     *)
(* them against a pinned key or the one they carry, keep them in a         *)
(* directory under their feed ids and compute which indicators are live.   *)
(*                                                                         *)
(* Anchoring the head of an audit chain with a transparency service        *)
(* (raucle/transparency.py): submit the head, poll the operation a bounded *)
(* number of times, fetch the signed statement, compare; and the later     *)
(* check of a chain file against such a statement.  The chain goes on      *)
(* growing, and may be rewritten, meanwhile.                               *)
(*                                                                         *)
(* A signature is the key that made it; a content hash is the indicator,   *)
(* the hash of an event is the event: its body and the hash before it.     *)
(***************************************************************************)
EXTENDS Integers, Sequences, SequencesExt, FiniteSets, FiniteSetsExt

CONSTANTS
    Publishers,   \* keys a subscriber may pin
    Signers,      \* IOCSigners: a key and an issuer name, any name with any key
    FeedIds,      \* feed ids, as file names: ids that _feed_path maps to one are one
    Patterns,     \* what an indicator looks for
    Subscribers,  \* processes that merge feeds into the directory
    Public, Private,  \* addresses a host name may resolve to
    Bodies,       \* what an event of a chain may say
    MaxFeeds,     \* bound: feeds published
    MaxNow,       \* bound: the clock
    MaxEvents,    \* bound: events of the chain
    MaxPolls      \* polls before the client gives up

VARIABLES
    feeds,    \* the feeds published so far, and the ones tampered with
    now,      \* the clock
    dir,      \* dir[n]: the file of feed id n: whole, torn, or none
    tmp,      \* tmp[n]: the temporary file beside it
    sub,      \* sub[s]: what subscriber s is doing
    dialled,  \* addresses connections were made to
    shared    \* two subscribers wrote one temporary file at once

VARIABLES
    chain,      \* the events in the file
    client,     \* the registration in progress
    service,    \* the operation at the service: none, pending, failed, complete, odd
    statement,  \* the last statement the client was given
    anchored    \* ghost: the chain as it was when its head was submitted

(* Of a file the key it was merged under is remembered here too. *)
NoFeed == [id |-> "none", key |-> "none", iocs |-> {}, root |-> {}, by |-> "none", pin |-> "none"]
IdleSub == [pc |-> "idle", ip |-> "none", feed |-> NoFeed]
Torn == [NoFeed EXCEPT !.by = "torn"]

----------------------------------------------------------------------------
(* The publisher, a key with the issuer name it was given.  An indicator names
   both, what it revokes and when it expires; validate_shape refuses an empty
   pattern. *)
Body(s, pattern, revokes, expires) ==
    [issuer |-> s.issuer, key |-> s.key, pattern |-> pattern, revokes |-> revokes,
     expires |-> expires]

(* The content hash covers the whole body; who and what tell apart the bodies
   that matter here. *)
Hash(b) == <<b.issuer, b.key, b.pattern>>

SignIoc(s, pattern, revokes, expires) ==
    LET b == Body(s, pattern, revokes, expires) IN [body |-> b, hash |-> Hash(b), by |-> s.key]

(* The root is taken over the sorted content hashes, so order is immaterial. *)
ComputeMerkleRoot(iocs) == {i.hash : i \in iocs}

(* The manifest's own issuer and key_id are read by nobody. *)
Manifest(k, n, iocs) == [NoFeed EXCEPT !.id = n, !.key = k, !.iocs = iocs,
                                       !.root = ComputeMerkleRoot(iocs), !.by = k]

BuildFeed(s, n, iocs) ==
    /\ \A i \in iocs : i.body.issuer = s.issuer /\ i.body.key = s.key
    /\ Cardinality(feeds) < MaxFeeds
    /\ feeds' = feeds \cup {Manifest(s.key, n, iocs)}
    /\ UNCHANGED <<now, dir, tmp, sub, dialled, shared>>

(* On the way to a subscriber an indicator is dropped, or signed by another
   key than the manifest, or another key signs it all; or a publisher puts
   indicators of several issuer names into one feed by other means. *)
Tamper(f, g) ==
    /\ f \in feeds /\ Cardinality(feeds) < MaxFeeds
    /\ feeds' = feeds \cup {g}
    /\ UNCHANGED <<now, dir, tmp, sub, dialled, shared>>

----------------------------------------------------------------------------
(* Feed.verify with the pinned key, or with the one in the feed.  Neither the
   issuer nor the key an indicator names is compared with anything. *)
IocVerifies(f, i) == i.hash = Hash(i.body) /\ i.by = f.key

VerifyFeed_ManifestOnly(f, pinned) ==        \* mutant: the indicators are not checked
    pinned \in {f.key, "none"} /\ f.root = ComputeMerkleRoot(f.iocs) /\ f.by = f.key
VerifyFeed(f, pinned) ==
    /\ pinned \in {f.key, "none"}
    /\ f.root = ComputeMerkleRoot(f.iocs)
    /\ f.by = f.key
    /\ \A i \in f.iocs : IocVerifies(f, i)

----------------------------------------------------------------------------
(* fetch_https_pinned: the name is resolved once, every address must be
   public, and the connection is made to the address that was checked. *)
IsBlockedIp(ip) == ip \in Private

AssertSafeUrl(ips) == ips # <<>> /\ \A ip \in Range(ips) : ~IsBlockedIp(ip)

FetchResolve(s, ips) ==
    /\ sub[s].pc = "idle"
    /\ sub' = [sub EXCEPT ![s] = IF AssertSafeUrl(ips)
                                   THEN [pc |-> "checked", ip |-> Head(ips), feed |-> NoFeed] ELSE @]
    /\ UNCHANGED <<feeds, now, dir, tmp, dialled, shared>>

Dial_Again(s, ips) == Head(ips)         \* mutant: the name is resolved a second time
Dial(s, ips) == sub[s].ip

(* Redirects and oversized bodies are refused; what arrives is some feed. *)
FetchConnect(s, ips, f) ==
    /\ sub[s].pc = "checked"
    /\ dialled' = dialled \cup {Dial(s, ips)}
    /\ sub' = [sub EXCEPT ![s] = [@ EXCEPT !.pc = "fetched", !.feed = f]]
    /\ UNCHANGED <<feeds, now, dir, tmp, shared>>

(* merge: verify, write the temporary file, rename it over the old one, older
   or newer and whoever signed that.  Two subscribers of the same directory
   use the same temporary name. *)
MergeVerify(s, pinned) ==
    /\ sub[s].pc = "fetched"
    /\ sub' = [sub EXCEPT ![s] = IF VerifyFeed(@.feed, pinned)
                                   THEN [@ EXCEPT !.pc = "verified", !.feed.pin = pinned]
                                   ELSE IdleSub]
    /\ UNCHANGED <<feeds, now, dir, tmp, dialled, shared>>

MergeCreate(s) ==
    /\ sub[s].pc = "verified"
    /\ tmp' = [tmp EXCEPT ![sub[s].feed.id] = Torn]
    /\ sub' = [sub EXCEPT ![s].pc = "writing"]
    /\ shared' = (shared \/ \E o \in Subscribers \ {s} :
                     sub[o].pc \in {"writing", "written"} /\ sub[o].feed.id = sub[s].feed.id)
    /\ UNCHANGED <<feeds, now, dir, dialled>>

MergeWrite(s) ==
    /\ sub[s].pc = "writing"
    /\ tmp' = [tmp EXCEPT ![sub[s].feed.id] = sub[s].feed]
    /\ sub' = [sub EXCEPT ![s].pc = "written"]
    /\ UNCHANGED <<feeds, now, dir, dialled, shared>>

Rename(n) == dir' = [dir EXCEPT ![n] = tmp[n]] /\ tmp' = [tmp EXCEPT ![n] = NoFeed]
MergeReplace_Early(s) ==                 \* mutant: renamed before it is written
    /\ sub[s].pc = "writing" /\ tmp[sub[s].feed.id] # NoFeed
    /\ Rename(sub[s].feed.id)
    /\ sub' = [sub EXCEPT ![s] = IdleSub]
    /\ UNCHANGED <<feeds, now, dialled, shared>>
MergeReplace(s) ==
    /\ sub[s].pc = "written" /\ tmp[sub[s].feed.id] # NoFeed
    /\ Rename(sub[s].feed.id)
    /\ sub' = [sub EXCEPT ![s] = IdleSub]
    /\ UNCHANGED <<feeds, now, dialled, shared>>

(* The other subscriber has renamed the file away: the rename raises. *)
MergeLost(s) ==
    /\ sub[s].pc = "written" /\ tmp[sub[s].feed.id] = NoFeed
    /\ sub' = [sub EXCEPT ![s] = IdleSub]
    /\ UNCHANGED <<feeds, now, dir, tmp, dialled, shared>>

Die(s) ==
    /\ sub[s].pc # "idle"
    /\ sub' = [sub EXCEPT ![s] = IdleSub]
    /\ UNCHANGED <<feeds, now, dir, tmp, dialled, shared>>

Tick == now < MaxNow /\ now' = now + 1 /\ UNCHANGED <<feeds, dir, tmp, sub, dialled, shared>>

----------------------------------------------------------------------------
(* The reader: unreadable files are skipped. *)
ListFeeds == {f \in Range(dir) : f.by \notin {"none", "torn"}}

Stored == UNION {f.iocs : f \in ListFeeds}

Revocations_Anyone(issuer) == UNION {i.body.revokes : i \in Stored}   \* wrong: not the issuer's own
Revocations(issuer) == UNION {i.body.revokes : i \in {j \in Stored : j.body.issuer = issuer}}

AllIocs ==
    {i \in Stored : i.hash \notin Revocations(i.body.issuer)
                    /\ (i.body.expires # 0 => now < i.body.expires)}

----------------------------------------------------------------------------
InitFeed ==
    /\ feeds = {} /\ now = 0 /\ dialled = {} /\ shared = FALSE
    /\ dir = [n \in FeedIds |-> NoFeed] /\ tmp = [n \in FeedIds |-> NoFeed]
    /\ sub = [s \in Subscribers |-> IdleSub]

SignedByOther(f) == {[i EXCEPT !.by = "other"] : i \in f.iocs}

Answers == {<<a>> : a \in Public \cup Private} \cup {<<a, b>> : a \in Public, b \in Private}

NextFeed ==
    \/ \E s \in Signers, n \in FeedIds :
         \/ \E p \in Patterns, e \in {0, 1} : BuildFeed(s, n, {SignIoc(s, p, {}, e)})
         \/ \E t \in Signers, p \in Patterns :
               BuildFeed(s, n, {SignIoc(s, "revoker", {<<t.issuer, t.key, p>>}, 0)})
    \/ \E f \in feeds :
         \/ \E i \in f.iocs : Tamper(f, [f EXCEPT !.iocs = @ \ {i}])
         \/ Tamper(f, [f EXCEPT !.iocs = SignedByOther(f)])
         \/ Tamper(f, [f EXCEPT !.by = "other"])
         \/ Tamper(f, [f EXCEPT !.key = "other", !.by = "other", !.iocs = SignedByOther(f)])
         \/ \E s \in Signers, p \in Patterns :
               s.key = f.by /\ Tamper(f, Manifest(s.key, f.id, f.iocs \cup {SignIoc(s, p, {}, 0)}))
    \/ \E s \in Subscribers, ips \in Answers :
         FetchResolve(s, ips) \/ \E f \in feeds : FetchConnect(s, ips, f)
    \/ \E s \in Subscribers :
         \/ \E k \in Publishers \cup {"none"} : MergeVerify(s, k)
         \/ MergeCreate(s) \/ MergeWrite(s) \/ MergeReplace(s) \/ MergeLost(s) \/ Die(s)
    \/ Tick

----------------------------------------------------------------------------
(* The chain that is anchored. *)

Genesis == [body |-> "genesis", prev |-> <<>>]
NoHead == [index |-> -1, hash |-> Genesis]
NoStatement == [head |-> NoHead, chain |-> "none", signed |-> FALSE]

----------------------------------------------------------------------------
HashOf(c, i) == IF i = 0 THEN Genesis ELSE c[i]

Event(c, b) == [body |-> b, prev |-> HashOf(c, Len(c))]

(* compute_chain_head checks the hash of every event, not its link. *)
ComputeChainHead(c) == [index |-> Len(c) - 1, hash |-> HashOf(c, Len(c))]

(* verify_chain of raucle/audit.py does check the links. *)
LinksHold(c) == \A i \in DOMAIN c : c[i].prev = HashOf(c, i - 1)

Append_(b) ==
    /\ Len(chain) < MaxEvents
    /\ chain' = Append(chain, Event(chain, b))
    /\ UNCHANGED <<client, service, statement, anchored>>

(* History is presented differently: one event is replaced, with a hash of
   its own, and the ones behind it are kept or written anew. *)
Relinked(c, i, b) ==
    LET Step(done, e) == Append(done, Event(done, e.body))
    IN  FoldLeft(Step, Append(SubSeq(c, 1, i - 1), [c[i] EXCEPT !.body = b]), SubSeq(c, i + 1, Len(c)))

Rewrite(i, b, relink) ==
    /\ i \in DOMAIN chain /\ chain[i].body # b
    /\ chain' = IF relink THEN Relinked(chain, i, b) ELSE [chain EXCEPT ![i].body = b]
    /\ UNCHANGED <<client, service, statement, anchored>>

----------------------------------------------------------------------------
(* SCITTAnchorClient.register. *)

Submit ==
    /\ client.pc \in {"idle", "TRANSPARENCY-ANCHORED", "TRANSPARENCY-FAILED", "PENDING", "DIGEST-MISMATCH"}
    /\ chain # <<>>
    /\ client' = [pc |-> "polling", head |-> ComputeChainHead(chain), polls |-> 0]
    /\ service' = "pending"
    /\ anchored' = chain
    /\ UNCHANGED <<chain, statement>>

(* The service works at its own pace. *)
Operate(status) ==
    /\ service = "pending" /\ service' = status
    /\ UNCHANGED <<chain, client, statement, anchored>>

PollOperation ==
    /\ client.pc = "polling"
    /\ client' =
         IF service = "pending" /\ client.polls + 1 < MaxPolls THEN [client EXCEPT !.polls = @ + 1]
         ELSE IF service = "pending" THEN [client EXCEPT !.pc = "PENDING"]
         ELSE IF service = "complete" THEN [client EXCEPT !.pc = "fetching"]
         ELSE [client EXCEPT !.pc = "TRANSPARENCY-FAILED"]
    /\ UNCHANGED <<chain, service, statement, anchored>>

(* A connection that breaks, or an answer outside the protocol, raises. *)
RequestFails ==
    /\ client.pc \in {"polling", "fetching"}
    /\ client' = [client EXCEPT !.pc = "idle"]
    /\ UNCHANGED <<chain, service, statement, anchored>>

(* The statement must echo the head that was submitted. *)
Echoes(head) == head = client.head

FetchSignedStatement(st) ==
    /\ client.pc = "fetching"
    /\ client' = [client EXCEPT !.pc = IF Echoes(st.head) THEN "TRANSPARENCY-ANCHORED"
                                                          ELSE "DIGEST-MISMATCH"]
    /\ statement' = st
    /\ UNCHANGED <<chain, service, anchored>>

----------------------------------------------------------------------------
(* verify_transparency_anchor. *)
AnchorReasons_IndexOnly(c, st, id) ==          \* mutant: the hash is not compared
    IF st.head.index # ComputeChainHead(c).index \/ ~st.signed THEN {"index"} ELSE {}
AnchorReasons(c, st, id) ==
    {r \in {"chain", "hash", "index", "signature"} :
        CASE r = "chain" -> st.chain \notin {"none", id}
          [] r = "hash" -> st.head.hash # ComputeChainHead(c).hash
          [] r = "index" -> st.head.index # ComputeChainHead(c).index
          [] r = "signature" -> ~st.signed}
VerifyTransparencyAnchor(c, st, id) ==
    IF st = NoStatement THEN "SELF-SIGNED-ONLY"
    ELSE IF AnchorReasons(c, st, id) = {} THEN "TRANSPARENCY-ANCHORED" ELSE "DIGEST-MISMATCH"

----------------------------------------------------------------------------
InitAnchor ==
    /\ chain = <<>>
    /\ client = [pc |-> "idle", head |-> NoHead, polls |-> 0]
    /\ service = "none" /\ statement = NoStatement
    /\ anchored = <<>>

(* What the service may hand out: the head it was sent, or another one. *)
Statements ==
    [head : {client.head, [client.head EXCEPT !.hash = Genesis], [client.head EXCEPT !.index = @ + 1]},
     chain : {"c", "d"}, signed : BOOLEAN]

NextAnchor ==
    \/ \E b \in Bodies : Append_(b) \/ \E i \in 1 .. MaxEvents, r \in BOOLEAN : Rewrite(i, b, r)
    \/ Submit \/ PollOperation \/ RequestFails
    \/ \E o \in {"failed", "complete", "odd"} : Operate(o)
    \/ \E st \in Statements : FetchSignedStatement(st)

----------------------------------------------------------------------------
(* Properties *)

(* Every issuer name in the directory is one key's. *)
NamesApart == \A i, j \in Stored : i.body.issuer = j.body.issuer => i.by = j.by

(* VOUCHED INDICATORS.  Whatever arrives over the network, every indicator in
   the directory was signed by the key its feed was merged under, which is the
   pinned one where one was pinned, and names that key.  As long as no two
   keys go by one issuer name, an indicator is out of use only because it
   expired or the very key that signed it withdrew it (Feed.verify,
   FeedStore.merge, all_iocs).  The name is all the reader compares: a key that
   signs under somebody else's name withdraws that one's indicators. *)
LiveIsVouched ==
    /\ \A f \in ListFeeds :
          /\ f.pin \in {f.key, "none"}
          /\ \A i \in f.iocs : i.by = f.key /\ (f.key # "other" => i.body.key = f.key)
    /\ NamesApart => \A i \in Stored \ AllIocs :
          \/ i.body.expires # 0 /\ now >= i.body.expires
          \/ \E j \in Stored : i.hash \in j.body.revokes /\ j.by = i.by

(* WHOLE FILES.  A subscriber that may die at any moment leaves every feed
   file as it was or replaced as a whole, by a feed of the same id.  Two that
   merge the same id at once write one temporary file: then, and only then, a
   torn one may be renamed. *)
FilesWhole == shared \/ \A n \in FeedIds : dir[n] = NoFeed \/ (dir[n].by # "torn" /\ dir[n].id = n)

(* CHECKED ADDRESSES.  Whatever the name service answers and however it
   changes its mind, no connection goes to a private address. *)
DialsChecked == dialled \cap Private = {}

(* NO EQUIVOCATION.  When both are well linked, a chain that checks as anchored
   is, event for event, the chain whose head the client registered: appending
   to it, replacing an event or rewriting history shows.  Neither the client
   nor the check looks at the links, which is what the premise is for. *)
NoEquivocation ==
    ( /\ client.pc = "TRANSPARENCY-ANCHORED"
      /\ LinksHold(anchored) /\ LinksHold(chain)
      /\ VerifyTransparencyAnchor(chain, statement, "c") = "TRANSPARENCY-ANCHORED" )
    => chain = anchored
=============================================================================
