---------------------------- MODULE ReceiptPages ----------------------------
(***************************************************************************)
(* Reading the receipt index: pages of GET /api/receipts that follow a     *)
(* cursor while receipts go on arriving, indexes are rebuilt and old ones  *)
(* are migrated (receipt_index.py, gateway_app.py); and the walk from a    *)
(* receipt to its ancestors.                                               *)
(*                                                                         *)
(* Equal calls in one second make equal receipts, so a hash stands for     *)
(* what is in the receipt, and several rows may have one hash.  Hashes and *)
(* times are numbers: both are only compared.                              *)
(***************************************************************************)
EXTENDS Integers, Sequences, SequencesExt, FiniteSets

CONSTANTS Payload,   \* of each hash: when it was issued, and for which agent
          Limits,    \* page sizes a client may ask for
          MaxPage,   \* the largest page that is served, 1000 in the code
          Anyone,    \* no filter
          NoCursor,
          MaxRows, MaxRestarts

VARIABLES
    chain,     \* the hashes of the receipts of record, in order
    waiting,   \* positions of the chain that are not yet in the index
    rows,      \* the hashes of the index; a row's place is its rowid
    walk,      \* a client that follows the pages
    restarts

vars == <<chain, waiting, rows, walk, restarts>>

Hashes == DOMAIN Payload

TypeOK ==
    /\ chain \in Seq(Hashes) /\ rows \in Seq(Hashes)
    /\ waiting \subseteq DOMAIN chain
    /\ walk.state \in {"idle", "paging", "done"}

-----------------------------------------------------------------------------
(* Queries *)

Key(rs, i) == [iat |-> Payload[rs[i]].iat, hash |-> rs[i], rowid |-> i]

(* ORDER BY iat DESC, receipt_hash DESC, rowid DESC *)
Newer(a, b) ==
    \/ a.iat > b.iat
    \/ a.iat = b.iat /\ a.hash > b.hash
    \/ a.iat = b.iat /\ a.hash = b.hash /\ a.rowid > b.rowid

Matches(rs, agent) == {i \in DOMAIN rs : agent \in {Anyone, Payload[rs[i]].agent}}

(* "After the cursor": a cursor without a rowid, of an index before the
   migration, has -1 for it. *)
After_NoTie(k, cursor) ==   \* wrong: rows with the hash of the cursor are passed over
    \/ cursor = NoCursor
    \/ k.iat < cursor.iat
    \/ k.iat = cursor.iat /\ k.hash < cursor.hash

After(k, cursor) ==
    \/ cursor = NoCursor
    \/ Newer(cursor, k)

Clamped(limit) == IF limit < 1 THEN 1 ELSE IF limit > MaxPage THEN MaxPage ELSE limit

(* ReceiptIndex.query *)
Query(rs, agent, limit, cursor) ==
    LET found == {Key(rs, i) : i \in {j \in Matches(rs, agent) : After(Key(rs, j), cursor)}}
        sorted == SetToSortSeq(found, Newer)
    IN  SubSeq(sorted, 1, IF Len(sorted) < Clamped(limit) THEN Len(sorted) ELSE Clamped(limit))

(* _receipt_page_via_index: only a full page has a next one. *)
FullPage_Asked(page, limit) == page # <<>> /\ Len(page) = limit   \* wrong: the size that was asked for

FullPage(page, limit) == page # <<>> /\ Len(page) = Clamped(limit)

-----------------------------------------------------------------------------
(* Actions *)

Idle == [state |-> "idle", agent |-> Anyone, limit |-> 1, cursor |-> NoCursor, got |-> <<>>,
         before |-> <<>>, moved |-> FALSE]

(* _migrate_dedupe_schema: an index of the first version, which has one row for
   a hash, is copied row by row when it is opened; a client may still hold a
   cursor of it, which does not name a row. *)
Migrated ==
    /\ chain \in {c \in [1 .. 2 -> Hashes] : IsInjective(c)}
    /\ rows = chain
    /\ walk \in {Idle} \cup
          {[Idle EXCEPT !.state = "paging", !.before = chain, !.got = <<Key(chain, i)>>,
                        !.cursor = [Key(chain, i) EXCEPT !.rowid = -1]] :
               i \in {j \in 1 .. 2 : ~Newer(Key(chain, 3 - j), Key(chain, j))}}

(* _init_schema: a new index, or one that is migrated. *)
Init ==
    /\ \/ chain = <<>> /\ rows = <<>> /\ walk = Idle
       \/ Migrated
    /\ waiting = {}
    /\ restarts = 0

(* A receipt is appended to the chain, and indexed later. *)
AppendReceipt(h) ==
    /\ Len(chain) < MaxRows
    /\ chain' = Append(chain, h)
    /\ waiting' = waiting \cup {Len(chain) + 1}
    /\ UNCHANGED <<rows, walk, restarts>>

(* index_receipt, outside of the lock of the store: threads may change places. *)
IndexReceipt(i) ==
    /\ i \in waiting
    /\ rows' = Append(rows, chain[i])
    /\ waiting' = waiting \ {i}
    /\ UNCHANGED <<chain, walk, restarts>>

(* The process ends, the index is lost, and rebuild_from_store feeds a new one
   in the order of the chain before anything is served. *)
Rebuild ==
    /\ restarts < MaxRestarts
    /\ rows' = chain
    /\ waiting' = {}
    /\ walk' = [walk EXCEPT !.moved = walk.moved \/ walk.state = "paging"]
    /\ restarts' = restarts + 1
    /\ UNCHANGED chain

(* get_receipts: a client asks for a first page, and then follows next_cursor
   until there is none. *)
Page(w) ==
    LET page == Query(rows, w.agent, w.limit, w.cursor) IN
    /\ walk' = [w EXCEPT !.got = @ \o page,
                         !.cursor = IF FullPage(page, w.limit) THEN Last(page) ELSE NoCursor,
                         !.state = IF FullPage(page, w.limit) THEN "paging" ELSE "done"]
    /\ UNCHANGED <<chain, waiting, rows, restarts>>

FirstPage(agent, limit) ==
    /\ walk.state = "idle"
    /\ Page([Idle EXCEPT !.agent = agent, !.limit = limit, !.before = rows])

NextPage == walk.state = "paging" /\ Page(walk)

Next ==
    \/ \E h \in Hashes : AppendReceipt(h)
    \/ \E i \in waiting : IndexReceipt(i)
    \/ Rebuild
    \/ \E a \in {Anyone} \cup {Payload[h].agent : h \in Hashes}, n \in Limits : FirstPage(a, n)
    \/ NextPage

Spec == Init /\ [][Next]_vars

-----------------------------------------------------------------------------
(* Properties *)

HowMany(h, hs) == Cardinality({i \in DOMAIN hs : hs[i] = h})

(* A client that follows the pages to their end is shown every receipt that was
   there when it began, newest first and none twice, whatever arrived since;
   and across a rebuild of the index at least one copy of each
   (query, cursor_for, _receipt_page_via_index). *)
PagesComplete ==
    LET shown == [i \in DOMAIN walk.got |-> walk.got[i].hash]
        owed  == {walk.before[i] : i \in Matches(walk.before, walk.agent)}
    IN
    /\ walk.state = "done" =>
          \A h \in owed : IF walk.moved THEN h \in Range(shown)
                          ELSE HowMany(h, shown) >= HowMany(h, walk.before)
    /\ ~walk.moved => \A i \in 1 .. Len(walk.got) - 1 :
                         walk.got[i].iat >= walk.got[i + 1].iat /\ walk.got[i] # walk.got[i + 1]

-----------------------------------------------------------------------------
(* Ancestors.  parents is a function on the receipts of the index. *)

(* ReceiptIndex.ancestry: the receipts of one distance after those of the one
   before, each once, up to max_depth. *)
Ancestry_Short(parents, start, maxDepth) ==   \* wrong: the receipts at the last depth are left out
    LET RECURSIVE Walk(_, _, _)
        Walk(front, found, depth) ==
            IF front = {} \/ depth >= maxDepth THEN found
            ELSE LET known == front \cap DOMAIN parents
                 IN  Walk((UNION {parents[h] : h \in known}) \ (found \cup known),
                          found \cup known, depth + 1)
    IN  Walk({start}, {}, 0)

Ancestry(parents, start, maxDepth) ==
    LET RECURSIVE Walk(_, _, _)
        Walk(front, found, depth) ==
            IF front = {} \/ depth > maxDepth THEN found
            ELSE LET known == front \cap DOMAIN parents
                 IN  Walk((UNION {parents[h] : h \in known}) \ (found \cup known),
                          found \cup known, depth + 1)
    IN  Walk({start}, {}, 0)

(* The walk finds exactly the receipts of the index to which a path of known
   receipts of at most maxDepth steps leads, also around a cycle (ancestry). *)
AncestryExact(parents, start, maxDepth) ==
    LET Path(h, n) == \E p \in [0 .. n -> DOMAIN parents] :
                          /\ p[0] = start /\ p[n] = h
                          /\ \A k \in 1 .. n : p[k] \in parents[p[k - 1]]
    IN  Ancestry(parents, start, maxDepth) =
            {h \in DOMAIN parents : \E n \in 0 .. maxDepth : Path(h, n)}
=============================================================================
