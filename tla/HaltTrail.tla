----------------------------- MODULE HaltTrail -----------------------------
(***************************************************************************)
(* What the receipt stream of the emergency stop promises an auditor who   *)
(* sees nothing else: the receipts alone are a legal history of one halt   *)
(* state.  A hold follows a resume, an abort or nothing, or a pending hold *)
(* whose quorum is met; a resume follows a hold.                           *)
(***************************************************************************)
EXTENDS Naturals, Sequences, Functions, SequencesExt

CONSTANTS
    Approvers,    \* identities that may approve or abort
    NoOne,        \* a receipt that names no approver
    QuorumSizes   \* quorums above one that operators configure

VARIABLE trail   \* the receipts, reduced to verdict, required, roll and who

(* roll: the approvers before this receipt. *)
Entry == [verdict : {"hold", "resume", "resume_refused", "pending", "approval", "abort"},
          required : Nat, roll : Seq(Approvers), who : Approvers \cup {NoOne}]

Start == [verdict |-> "resume", required |-> 0, roll |-> <<>>, who |-> NoOne]
Newest == IF trail = <<>> THEN Start ELSE trail[Len(trail)]

Running == Newest.verdict \in {"resume", "abort"}
Pending == Newest.verdict \in {"pending", "approval"}
Held    == Newest.verdict \in {"hold", "resume_refused"}

(* The approvers so far. *)
Roll == IF Newest.verdict = "approval" THEN Append(Newest.roll, Newest.who) ELSE <<>>

QuorumMet == Len(Roll) >= Newest.required

Record(e) == trail' = Append(trail, e)

Open(n) == Running /\ Record([verdict |-> "pending", required |-> n,
                               roll |-> <<>>, who |-> NoOne])

(* When the quorum was met and the stop could still not be applied, the last
   approval is void and may be given again. *)
Valid == IF Pending /\ QuorumMet THEN Front(Roll) ELSE Roll

Approve(a) ==
    /\ Pending
    /\ a \notin Range(Valid)
    /\ Record([verdict |-> "approval", required |-> Newest.required, roll |-> Valid, who |-> a])

Abort(a) ==
    /\ Pending
    /\ Record([verdict |-> "abort", required |-> Newest.required, roll |-> Valid, who |-> a])

Hold ==
    \/ /\ Running
       /\ Record([verdict |-> "hold", required |-> 0, roll |-> <<>>, who |-> NoOne])
    \/ /\ Pending
       /\ QuorumMet
       /\ Record([verdict |-> "hold", required |-> Newest.required, roll |-> Roll, who |-> NoOne])

Resume ==
    /\ Held
    /\ \E v \in {"resume", "resume_refused"} :
         Record([verdict |-> v, required |-> Newest.required, roll |-> Newest.roll, who |-> NoOne])

Next ==
    \/ \E n \in QuorumSizes : Open(n)
    \/ \E a \in Approvers : Approve(a) \/ Abort(a)
    \/ Hold
    \/ Resume

Spec == trail = <<>> /\ [][Next]_trail
=============================================================================
