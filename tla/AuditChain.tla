----------------------------- MODULE AuditChain -----------------------------
(***************************************************************************)
(* The hash-chained audit log (raucle/audit.py): sinks that append to one  *)
(* file, and the verifier that reads it.                                   *)
(*                                                                         *)
(* A sink reads the chain when it is opened, keeps tail hash, index and    *)
(* leaves in memory, and appends lines.  The server keeps one sink for its *)
(* lifetime; the deployment intake opens one per event.  A sink may die    *)
(* with its process between two writes, or in the middle of one: the line  *)
(* is then torn, and the next line is glued to it.                         *)
(***************************************************************************)
EXTENDS Integers, Sequences, SequencesExt, FiniteSets

CONSTANTS
    Sinks,        \* HashChainSink objects on the same path
    Signed,       \* sinks have a signer and the verifier its public key
    Every,        \* checkpoint_every
    CrashPoints,  \* steps at which a process may die
    MaxEvents,    \* bound: events
    MaxSessions,  \* bound: times a sink is opened
    MaxCrashes,   \* bound: processes that die between two writes
    MaxTorn       \* bound: processes that die in the middle of a write

VARIABLES
    exists,  \* the file exists
    file,    \* its lines
    torn,    \* the last line has no newline
    pc,      \* pc[s]: "closed", or the next write of the sink
    mem,     \* mem[s]: what the sink remembers
    ended,   \* how the last session ended
    used     \* how much of each bound has been used

vars == <<exists, file, torn, pc, mem, ended, used>>

----------------------------------------------------------------------------
(* Lines.  The hash of an event covers its index, the previous hash, the event
   and the time: every event has a hash of its own, numbered from 1. *)

Genesis == 0
Meta       == [kind |-> "chain_meta"]
Garbage    == [kind |-> "garbage"]
Event(i, p, h)   == [kind |-> "event", index |-> i, prev |-> p, hash |-> h]
Checkpoint(i, r) == [kind |-> "checkpoint", index |-> i, root |-> r]

IsEvent(line) == line.kind = "event"
Hashes(f) == LET es == SelectSeq(f, IsEvent) IN [k \in DOMAIN es |-> es[k].hash]

(* _merkle_root.  A node is the sequence of the leaves below it; on a level
   with an odd number of nodes the last one is paired with itself. *)
Level(nodes) ==
    [k \in 1 .. (Len(nodes) + 1) \div 2 |->
        nodes[2*k - 1] \o nodes[IF 2*k <= Len(nodes) THEN 2*k ELSE 2*k - 1]]

MerkleRoot(leaves) ==
    LET up[n \in Nat] == IF n = 0 THEN [k \in DOMAIN leaves |-> <<leaves[k]>>]
                         ELSE Level(up[n - 1])
        height == CHOOSE n \in 0 .. Len(leaves) : Len(up[n]) <= 1
    IN IF leaves = <<>> THEN <<>> ELSE up[height][1]

NoMem == [leaves |-> <<>>, prev |-> Genesis, next |-> 0]

Init ==
    /\ exists = FALSE
    /\ file = <<>>
    /\ torn = FALSE
    /\ pc = [s \in Sinks |-> "closed"]
    /\ mem = [s \in Sinks |-> NoMem]
    /\ ended = "clean"
    /\ used = [events |-> 0, sessions |-> 0, crashes |-> 0, torn |-> 0]

(* A line written in append mode; after a torn line it is part of that line. *)
Write(line) ==
    /\ file' = IF torn THEN Append(Front(file), Garbage) ELSE Append(file, line)
    /\ torn' = FALSE

----------------------------------------------------------------------------
(* HashChainSink *)

Resumed_LineCount ==   \* wrong: metadata lines are counted as well
    LET hs == Hashes(file) IN
    [leaves |-> hs, prev |-> IF hs = <<>> THEN Genesis ELSE Last(hs), next |-> Len(file)]

(* _resume: tail hash, next index and leaves; lines that do not parse and
   metadata are skipped. *)
Resumed ==
    LET es == SelectSeq(file, IsEvent) IN
    [leaves |-> Hashes(file),
     prev   |-> IF es = <<>> THEN Genesis ELSE Last(es).hash,
     next   |-> IF es = <<>> THEN 0 ELSE Last(es).index + 1]

Session ==
    /\ used.sessions < MaxSessions
    /\ used' = [used EXCEPT !.sessions = @ + 1]

(* __init__ finds the file, which is never removed: it resumes the chain. *)
Open(s) ==
    /\ pc[s] = "closed"
    /\ exists
    /\ Session
    /\ mem' = [mem EXCEPT ![s] = Resumed]
    /\ pc' = [pc EXCEPT ![s] = "open"]
    /\ UNCHANGED <<exists, file, torn, ended>>

(* It finds no file: this will be a new chain. *)
FindNoFile(s) ==
    /\ pc[s] = "closed"
    /\ ~exists
    /\ Session
    /\ pc' = [pc EXCEPT ![s] = "absent"]
    /\ UNCHANGED <<exists, file, torn, mem, ended>>

(* It looks again, and resumes what another sink has created since. *)
LookAgain(s) ==
    /\ pc[s] = "absent"
    /\ mem' = [mem EXCEPT ![s] = IF exists THEN Resumed ELSE NoMem]
    /\ pc' = [pc EXCEPT ![s] = "create"]
    /\ UNCHANGED <<exists, file, torn, ended, used>>

(* open(path, "a"): creates the file or takes the one there is.  The header
   follows either way. *)
Create(s) ==
    /\ pc[s] = "create"
    /\ exists' = TRUE
    /\ pc' = [pc EXCEPT ![s] = "header"]
    /\ UNCHANGED <<file, torn, mem, ended, used>>

WriteChainHeader(s) ==
    /\ pc[s] = "header"
    /\ Write(Meta)
    /\ pc' = [pc EXCEPT ![s] = "open"]
    /\ UNCHANGED <<exists, mem, ended, used>>

AppendEvent(s) ==
    LET m == mem[s]
        h == used.events + 1
    IN
    /\ pc[s] = "open"
    /\ used.events < MaxEvents
    /\ used' = [used EXCEPT !.events = h]
    /\ Write(Event(m.next, m.prev, h))
    /\ mem' = [mem EXCEPT ![s] = [leaves |-> Append(m.leaves, h), prev |-> h,
                                  next |-> m.next + 1]]
    /\ pc' = [pc EXCEPT ![s] = IF Signed /\ (m.next + 1) % Every = 0
                               THEN "checkpoint" ELSE "open"]
    /\ UNCHANGED <<exists, ended>>

(* _emit_checkpoint_locked *)
WriteCheckpoint(s) ==
    IF Signed /\ mem[s].leaves # <<>>
    THEN Write(Checkpoint(mem[s].next, MerkleRoot(mem[s].leaves)))
    ELSE UNCHANGED <<file, torn>>

PeriodicCheckpoint(s) ==
    /\ pc[s] = "checkpoint"
    /\ WriteCheckpoint(s)
    /\ pc' = [pc EXCEPT ![s] = "open"]
    /\ UNCHANGED <<exists, mem, ended, used>>

CloseSink_NoCheckpoint(s) ==   \* wrong: no final checkpoint
    /\ pc[s] = "open"
    /\ pc' = [pc EXCEPT ![s] = "closed"]
    /\ mem' = [mem EXCEPT ![s] = NoMem]
    /\ ended' = "clean"
    /\ UNCHANGED <<exists, file, torn, used>>

CloseSink(s) ==
    /\ pc[s] = "open"
    /\ WriteCheckpoint(s)
    /\ pc' = [pc EXCEPT ![s] = "closed"]
    /\ mem' = [mem EXCEPT ![s] = NoMem]
    /\ ended' = "clean"
    /\ UNCHANGED <<exists, used>>

(* The process dies between two writes. *)
Crash(s) ==
    /\ pc[s] \in CrashPoints
    /\ used.crashes < MaxCrashes
    /\ used' = [used EXCEPT !.crashes = @ + 1]
    /\ pc' = [pc EXCEPT ![s] = "closed"]
    /\ mem' = [mem EXCEPT ![s] = NoMem]
    /\ ended' = "crash"
    /\ UNCHANGED <<exists, file, torn>>

(* The process dies in the middle of writing an event. *)
TornWrite(s) ==
    /\ pc[s] = "open"
    /\ used.torn < MaxTorn
    /\ used' = [used EXCEPT !.torn = @ + 1]
    /\ file' = IF torn THEN file ELSE Append(file, Garbage)
    /\ torn' = TRUE
    /\ pc' = [pc EXCEPT ![s] = "closed"]
    /\ mem' = [mem EXCEPT ![s] = NoMem]
    /\ ended' = "crash"
    /\ UNCHANGED exists

Next ==
    \E s \in Sinks :
        \/ Open(s) \/ FindNoFile(s) \/ LookAgain(s) \/ Create(s) \/ WriteChainHeader(s)
        \/ AppendEvent(s) \/ PeriodicCheckpoint(s) \/ CloseSink(s) \/ Crash(s) \/ TornWrite(s)

Spec == Init /\ [][Next]_vars
----------------------------------------------------------------------------
(* AuditVerifier.verify_chain *)

Lines(f, kind) == {i \in DOMAIN f : f[i].kind = kind}

Linked_Tree(f) ==   \* wrong: the previous hash of any earlier event will do
    LET es == SelectSeq(f, IsEvent) IN
    \A k \in DOMAIN es : es[k].prev \in {Genesis} \cup {es[j].hash : j \in 1 .. k - 1}

(* Every event has its position as index and the hash before it as prev_hash. *)
Linked(f) ==
    LET es == SelectSeq(f, IsEvent) IN
    \A k \in DOMAIN es : /\ es[k].index = k - 1
                         /\ es[k].prev = IF k = 1 THEN Genesis ELSE es[k - 1].hash

(* Every checkpoint stands for exactly the events before it. *)
CheckpointsMatch(f) ==
    \A i \in Lines(f, "checkpoint") :
        LET before == Hashes(SubSeq(f, 1, i - 1)) IN
        f[i].index = Len(before) /\ f[i].root = MerkleRoot(before)

TailCovered_Any(f) ==   \* wrong: any checkpoint will do
    Lines(f, "event") # {} => Lines(f, "checkpoint") # {}

(* AUDIT-TRUNC: a signed checkpoint covers the last event. *)
TailCovered(f) ==
    Lines(f, "event") # {} =>
        \E i \in Lines(f, "checkpoint") : f[i].index = Cardinality(Lines(f, "event"))

Intact(f) ==
    /\ Lines(f, "garbage") = {}
    /\ Cardinality(Lines(f, "chain_meta")) <= 1
    /\ Linked(f)
    /\ CheckpointsMatch(f)

(* AUDIT-DOWNGRADE: a verifier with a key wants the signed header. *)
Valid(f) ==
    /\ Intact(f)
    /\ Signed => Lines(f, "chain_meta") # {} /\ TailCovered(f)

----------------------------------------------------------------------------
(* Properties *)

LineType ==
    {Meta, Garbage}
    \cup [kind : {"event"}, index : Nat, prev : Nat, hash : Nat]
    \cup [kind : {"checkpoint"}, index : Nat, root : Seq(Nat) \ {<<>>}]

(* Type invariant; a checkpoint always stands for at least one event. *)
TypeOK ==
    /\ exists \in BOOLEAN
    /\ file \in Seq(LineType)
    /\ torn \in BOOLEAN
    /\ pc \in [Sinks -> {"closed", "absent", "create", "header", "open", "checkpoint"}]
    /\ mem \in [Sinks -> [leaves : Seq(Nat), prev : Nat, next : Nat]]
    /\ ended \in {"clean", "crash"}
    /\ used \in [events : Nat, sessions : Nat, crashes : Nat, torn : Nat]

AllClosed == \A s \in Sinks : pc[s] = "closed"

(* Whatever happened before, a chain that has its header and no torn line
   verifies once its last session was closed, with the key too: close covers
   the tail that a crash left uncovered.  A process that dies between creating
   the file and its header leaves a chain without a header for good. *)
ClosedChainVerifies ==
    AllClosed /\ exists /\ ended = "clean" /\ used.torn = 0 /\ Lines(file, "chain_meta") # {}
        => Valid(file)

(* The chain never breaks by itself, however often it is resumed and wherever
   its process dies between two writes, and damage stays where it happened: up
   to the first line that was cut short the chain is as its writers left it,
   whatever is appended afterwards (_resume). *)
DamageIsLocal ==
    LET bad == Lines(file, "garbage")
        end == IF bad = {} THEN Len(file)
               ELSE (CHOOSE i \in bad : \A j \in bad : i <= j) - 1
    IN Intact(SubSeq(file, 1, end))

(* The file with lines i..j removed, with line i repeated after line j, and
   with lines i and j exchanged. *)
Edits(f) ==
    LET D == DOMAIN f IN
    {SubSeq(f, 1, i - 1) \o SubSeq(f, j + 1, Len(f)) : i \in D, j \in D}
    \cup {SubSeq(f, 1, j) \o <<f[i]>> \o SubSeq(f, j + 1, Len(f)) : i \in D, j \in D}
    \cup {[f EXCEPT ![i] = f[j], ![j] = f[i]] : i \in D, j \in D}

(* An edit of a verified signed chain is noticed, unless it leaves the history
   as it was or cuts it back to a signed checkpoint (the case verify_chain
   leaves to an external anchor). *)
TamperEvident ==
    Signed /\ Valid(file) =>
        \A g \in Edits(file) :
            Valid(g) => /\ IsPrefix(Hashes(g), Hashes(file))
                        /\ \/ Hashes(g) = <<>>
                           \/ \E i \in Lines(file, "checkpoint") :
                                file[i].index = Len(Hashes(g))
=============================================================================
