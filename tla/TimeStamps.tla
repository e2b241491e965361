----------------------------- MODULE TimeStamps -----------------------------
(***************************************************************************)
(* Time stamps over a receipt ledger (timestamp.py): the head of the ledger *)
(* is sent to a time stamping authority, the token it answers with is       *)
(* re-checked and signed into an anchor, an anchor is verified alone or     *)
(* against the ledger, and a plan says which anchors must be stamped again  *)
(* before the receipts they cover may be destroyed.                         *)
(*                                                                         *)
(* The digest of a ledger line is the line's place: lines are appended,     *)
(* never changed, and no two are equal.  Token and anchor are records whose *)
(* fields are what the checks compare; their encoding is left out.          *)
(***************************************************************************)
EXTENDS Naturals, Sequences, FiniteSets, SequencesExt, FiniteSetsExt

CONSTANTS
    Retentions,   \* retention_until a receipt may carry; 0 is none
    CertEnd,      \* notAfter of the authority's certificate
    MaxLines,     \* bound: ledger lines
    MaxRequests,  \* bound: requests, and so nonces
    MaxAnswers,   \* bound: tokens issued
    MaxNow,       \* bound: time
    Operator,     \* the operator's key
    Stranger      \* any other key

VARIABLES
    ledger,    \* lines: [retain, anchor]; anchor is <<>> for a plain receipt
    request,   \* the request in flight: <<[digest, nonce, parent]>> or <<>>
    nonces,    \* requests made so far
    answers,   \* tokens the authority has issued: any may arrive, now or later
    minted,    \* what build_anchor signed, each with the head it was asked for
    doc,       \* the anchor document on disk: <<anchor>> or <<>>
    now        \* the time

vars == <<ledger, request, nonces, answers, minted, doc, now>>

Init ==
    /\ ledger = <<>>
    /\ request = <<>>
    /\ nonces = 0
    /\ answers = {}
    /\ minted = {}
    /\ doc = <<>>
    /\ now = 0

-----------------------------------------------------------------------------
(* verify_token, check by check *)

(* _check_message_imprint and _check_nonce *)
BindsRequest_Imprint(token, digest, nonce) == token.imprint = digest   \* wrong: any nonce

BindsRequest(token, digest, nonce) == token.imprint = digest /\ token.nonce = nonce

(* _require_signer_attrs and _check_signed_attributes: contentType is there
   and messageDigest is that of the TSTInfo. *)
AttributesHold(token) == token.attributes

(* _find_signer_cert, _check_gen_time_window *)
CertificateHolds(token) == token.certified /\ token.time <= CertEnd

(* _check_tsa_signature, no key pinned: the certificate in the token decides. *)
TsaSignatureHolds(token) == token.signed

VerifyToken(token, digest, nonce) ==
    /\ BindsRequest(token, digest, nonce)
    /\ AttributesHold(token)
    /\ CertificateHolds(token)
    /\ TsaSignatureHolds(token)

-----------------------------------------------------------------------------
(* Actions *)

(* The gateway appends a receipt. *)
AppendReceipt(retain) ==
    /\ Len(ledger) < MaxLines
    /\ ledger' = Append(ledger, [retain |-> retain, anchor |-> <<>>])
    /\ UNCHANGED <<request, nonces, answers, minted, doc, now>>

(* build_anchor up to the submission: chain_head_digest refuses an empty
   chain, build_timestamp_request draws a nonce. *)
Submit ==
    /\ ledger # <<>>
    /\ request = <<>>
    /\ nonces < MaxRequests
    /\ nonces' = nonces + 1
    /\ request' = <<[digest |-> Len(ledger), nonce |-> nonces + 1]>>
    /\ UNCHANGED <<ledger, answers, minted, doc, now>>

Genuine(r) == [imprint |-> r.digest, nonce |-> r.nonce, time |-> now,
               attributes |-> TRUE, certified |-> TRUE, signed |-> TRUE]

(* The authority signs the request it was sent, or something else arrives in
   its place; an answer may be lost, late or repeated. *)
Answer(r) ==
    /\ Cardinality(answers) < MaxAnswers
    /\ \E t \in {Genuine(r), [Genuine(r) EXCEPT !.attributes = FALSE],
                 [Genuine(r) EXCEPT !.certified = FALSE], [Genuine(r) EXCEPT !.signed = FALSE]} :
          answers' = answers \cup {t}
    /\ UNCHANGED <<ledger, request, nonces, minted, doc, now>>

(* build_anchor from the reply: the token is re-checked, then signed into the
   payload with the operator's key and written out. *)
Mint(token) ==
    LET r == request[1]
        a == [key |-> Operator, digest |-> r.digest, inputHash |-> r.digest, nonce |-> r.nonce,
              token |-> token, copy |-> token, time |-> token.time, mode |-> "tsa"]
    IN
    /\ request # <<>>
    /\ VerifyToken(token, r.digest, r.nonce)
    /\ minted' = minted \cup {[anchor |-> a, head |-> r.digest]}
    /\ doc' = <<a>>
    /\ request' = <<>>
    /\ UNCHANGED <<ledger, nonces, answers, now>>

(* The authority refuses, the reply is malformed or the token fails its
   re-check: TimestampError, nothing is written. *)
Abandon ==
    /\ request # <<>>
    /\ request' = <<>>
    /\ UNCHANGED <<ledger, nonces, answers, minted, doc, now>>

(* The anchor receipt is put on the ledger it anchors. *)
Record ==
    /\ doc # <<>>
    /\ Len(ledger) < MaxLines
    /\ \A k \in DOMAIN ledger : ledger[k].anchor # doc
    /\ ledger' = Append(ledger, [retain |-> 0, anchor |-> doc])
    /\ UNCHANGED <<request, nonces, answers, minted, doc, now>>

(* The document is changed on disk: whoever does it can sign only with
   another key, and can leave the signed payload alone. *)
Altered(a) ==
    {[a EXCEPT !.key = Stranger, !.digest = d, !.inputHash = d] : d \in DOMAIN ledger}
    \cup {[a EXCEPT !.key = Stranger, !.token = t, !.copy = t] : t \in answers}
    \cup {[a EXCEPT !.copy = t] : t \in answers}
    \cup {[a EXCEPT !.key = Stranger, !.mode = "opentimestamps", !.time = MaxNow]}

Tamper ==
    /\ doc # <<>>
    /\ doc[1].key = Operator
    /\ \E b \in Altered(doc[1]) : doc' = <<b>>
    /\ UNCHANGED <<ledger, request, nonces, answers, minted, now>>

Tick ==
    /\ now < MaxNow
    /\ now' = now + 1
    /\ UNCHANGED <<ledger, request, nonces, answers, minted, doc>>

Next ==
    \/ \E r \in Retentions : AppendReceipt(r)
    \/ Submit
    \/ request # <<>> /\ Answer(request[1])
    \/ \E t \in answers : Mint(t)
    \/ Abandon
    \/ Record
    \/ Tamper
    \/ Tick

Spec == Init /\ [][Next]_vars

-----------------------------------------------------------------------------
(* verify_anchor *)

(* The key to verify with: the caller's, or the document's own. *)
VerifyKey(a, pinned) == IF pinned THEN Operator ELSE a.key

(* _verify_standalone *)
VerifyStandalone(a, pinned) ==
    /\ a.key = VerifyKey(a, pinned)
    /\ a.digest = a.inputHash
    /\ a.mode \in {"tsa", "opentimestamps"}
    /\ a.mode = "tsa" => VerifyToken(a.token, a.digest, a.nonce) /\ a.time = a.token.time

(* verify_anchor without a chain, with the copy of the token beside it. *)
VerifyAnchor(a, pinned) == VerifyStandalone(a, pinned) /\ a.copy = a.token

-----------------------------------------------------------------------------
(* retimestamp_plan *)

IsAnchor(line) == line.anchor # <<>>

(* The horizon when line k is reached: what is retained up to there. *)
Horizon_First(lines, k) == lines[1].retain   \* wrong: the first receipt decides

Horizon(lines, k) == Max({0} \cup {lines[j].retain : j \in 1 .. k})

(* _anchor_entry: restamp now, restamp in time, or not at all. *)
NeedsRestamp(lines, k) ==
    LET a == lines[k].anchor[1] IN
    /\ a.mode = "tsa"
    /\ \/ ~VerifyToken(a.token, a.digest, a.nonce)
       \/ Horizon(lines, k) > 0 /\ CertEnd <= Horizon(lines, k)

(* _count_unanchored *)
Unanchored(lines) ==
    LET anchors == {k \in DOMAIN lines : IsAnchor(lines[k])} IN
    Cardinality({k \in DOMAIN lines :
        lines[k].retain > 0 /\ \A j \in anchors : j < k})

-----------------------------------------------------------------------------
(* Properties *)

TypeOK ==
    /\ Len(ledger) <= MaxLines
    /\ nonces \in 0 .. MaxRequests
    /\ Len(request) <= 1 /\ Len(doc) <= 1
    /\ now \in 0 .. MaxNow

(* A document that verifies under the operator's key is one the operator
   minted, and its token was issued for the very request that asked about
   that head: a late or repeated answer to another request never stands in
   for it, however the document was changed (build_anchor, verify_anchor). *)
AnchorAttests ==
    /\ \A m \in minted : m.anchor.token.imprint = m.head /\ m.anchor.token.nonce = m.anchor.nonce
    /\ \A m, n \in minted : m.anchor.nonce = n.anchor.nonce => m.head = n.head
    /\ doc # <<>> /\ VerifyAnchor(doc[1], TRUE) => \E m \in minted : m.anchor = doc[1]

(* The receipts that outlive the certificate of an anchor. *)
Outliving == {j \in DOMAIN ledger : ledger[j].retain > 0 /\ CertEnd <= ledger[j].retain}

(* The rule as it is written down (retimestamp_plan's docstring,
   docs/spec/time-source-v1.md:193-195): the horizon is the latest retention
   any receipt claims, and every TSA anchor has a certificate beyond it. *)
LapsesByTheRule(a) ==
    /\ a.mode = "tsa"
    /\ ~VerifyToken(a.token, a.digest, a.nonce) \/ Outliving # {}

(* How far the plan keeps the written rule.  It flags no anchor the rule does
   not, and it passes over an anchor the rule has stamped again only when the
   anchor is intact and every receipt that outlives its certificate stands
   behind it on the ledger: the code takes the latest retention read so far
   and never looks at an anchor a second time.  Nothing that an anchor itself
   covers outlives its certificate unflagged.  And a retained receipt is
   counted unanchored just when no anchor follows it. *)
PlanExact ==
    /\ \A k \in {j \in DOMAIN ledger : IsAnchor(ledger[j])} :
          LET a == ledger[k].anchor[1] IN
          /\ NeedsRestamp(ledger, k) => LapsesByTheRule(a)
          /\ LapsesByTheRule(a) /\ ~NeedsRestamp(ledger, k) <=>
                /\ a.mode = "tsa" /\ VerifyToken(a.token, a.digest, a.nonce)
                /\ Outliving # {} /\ \A j \in Outliving : j > k
    /\ Unanchored(ledger) =
          Cardinality({k \in DOMAIN ledger : /\ ledger[k].retain > 0
                                             /\ ~\E j \in k .. Len(ledger) : IsAnchor(ledger[j])})
=============================================================================
