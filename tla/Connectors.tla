----------------------------- MODULE Connectors -----------------------------
(***************************************************************************)
(* Audit sources that are pulled (connectors/base.py and its three vendors): *)
(* pages are fetched by cursor, redelivered events dropped, mapped events    *)
(* yielded one by one to whoever writes them to a chain.  A rate limit or a  *)
(* malformed page raises out of the pull; the caller may pull again with the *)
(* same connector, or with a fresh one after a restart.                      *)
(*                                                                         *)
(* The vendor's log is 1 .. Events, page c holds the PageSize events from    *)
(* c * PageSize on and may repeat the last event of the page before.         *)
(***************************************************************************)
EXTENDS Naturals, Sequences, FiniteSets, SequencesExt, FiniteSetsExt

CONSTANTS
    Events,     \* events in the vendor's log
    PageSize,   \* events per page
    MaxFaults,  \* bound: rate limits, malformed pages and abandoned pulls
    MaxPulls    \* bound: calls of fetch_all

VARIABLES
    seen,     \* the connector's _seen
    cursor,   \* the generator's cursor
    start,    \* the cursor the pull began at
    page,     \* events of the fetched page that are not yet yielded
    more,     \* the page's next_cursor
    pc,       \* "idle", "fetch", "yield"
    sink,     \* what the caller has written, in order
    faults,   \* faults so far
    pulls,    \* pulls so far
    torn,     \* a page was left half yielded while its events were remembered
    session   \* written by the connector object in use

vars == <<seen, cursor, start, page, more, pc, sink, faults, pulls, torn, session>>

NoMore == 99
LastPage == (Events - 1) \div PageSize

Init ==
    /\ seen = {} /\ cursor = 0 /\ start = 0 /\ page = <<>> /\ more = NoMore
    /\ pc = "idle"
    /\ sink = <<>>
    /\ faults = 0 /\ pulls = 0
    /\ torn = FALSE
    /\ session = <<>>

(* fetch_all(after): the generator starts at the cursor it is given. *)
Pull(after) ==
    /\ pc = "idle"
    /\ pulls < MaxPulls
    /\ pulls' = pulls + 1
    /\ cursor' = after /\ start' = after
    /\ page' = <<>>
    /\ pc' = "fetch"
    /\ UNCHANGED <<seen, more, sink, faults, torn, session>>

(* The page at a cursor; with overlap it begins with the event before. *)
PageAt(c, overlap) ==
    [k \in 1 .. Min({PageSize, Events - c * PageSize}) + overlap |-> c * PageSize + k - overlap]

NextCursor(c) == IF c = LastPage THEN NoMore ELSE c + 1

(* fetch_page: the events kept are remembered at once, the cursor advances
   whatever was dropped. *)
Remember(events) == SelectSeq(events, LAMBDA e : e \notin seen)

Fetch(overlap) ==
    /\ pc = "fetch"
    /\ page' = Remember(PageAt(cursor, overlap))
    /\ seen' = seen \cup Range(PageAt(cursor, overlap))
    /\ more' = NextCursor(cursor)
    /\ pc' = "yield"
    /\ UNCHANGED <<start, cursor, sink, faults, pulls, torn, session>>

FetchNext == \E o \in {0, 1} : o <= cursor /\ Fetch(o)

FetchFails_Skips ==   \* wrong: a failing page counts as an empty one
    /\ pc = "fetch"
    /\ faults < MaxFaults
    /\ faults' = faults + 1
    /\ page' = <<>>
    /\ more' = NextCursor(cursor)
    /\ pc' = "yield"
    /\ UNCHANGED <<start, seen, cursor, sink, pulls, torn, session>>

(* _page raises: RateLimitError, a status that is not 200, a body that is no
   page or an event without its id.  Nothing of the page is remembered. *)
FetchFails ==
    /\ pc = "fetch"
    /\ faults < MaxFaults
    /\ faults' = faults + 1
    /\ pc' = "idle"
    /\ UNCHANGED <<start, seen, cursor, page, more, sink, pulls, torn, session>>

(* One event is yielded, mapped by _map, and written by the caller. *)
Yield ==
    /\ pc = "yield"
    /\ page # <<>>
    /\ sink' = Append(sink, Head(page))
    /\ session' = Append(session, Head(page))
    /\ page' = Tail(page)
    /\ UNCHANGED <<start, seen, cursor, more, pc, faults, pulls, torn>>

(* The page is used up: on to the next, or the pull is over. *)
EndOfPage ==
    /\ pc = "yield"
    /\ page = <<>>
    /\ IF more = NoMore THEN pc' = "idle" /\ cursor' = NoMore
       ELSE pc' = "fetch" /\ cursor' = more
    /\ UNCHANGED <<start, seen, page, more, sink, faults, pulls, torn, session>>

(* The caller fails on an event and drops the generator. *)
Abandon ==
    /\ pc = "yield"
    /\ page # <<>>
    /\ faults < MaxFaults
    /\ faults' = faults + 1
    /\ torn' = TRUE
    /\ pc' = "idle"
    /\ page' = <<>>
    /\ UNCHANGED <<start, seen, cursor, more, sink, pulls, session>>

(* The process restarts: a fresh connector remembers nothing. *)
Restart ==
    /\ pc = "idle"
    /\ pulls < MaxPulls
    /\ seen # {}
    /\ seen' = {} /\ torn' = FALSE /\ session' = <<>> /\ cursor' = 0
    /\ UNCHANGED <<start, page, more, pc, sink, faults, pulls>>

Next ==
    \/ \E c \in 0 .. LastPage : Pull(c)
    \/ FetchNext \/ FetchFails \/ Yield \/ EndOfPage \/ Abandon \/ Restart

Spec == Init /\ [][Next]_vars

-----------------------------------------------------------------------------
(* _guard_rate_limit.  Headers are [retryAfter, remaining, reset], each a
   number or Absent; the vendor names the header that stands for the reset. *)
Absent == 100

ResetHeader(vendor, h) ==
    CASE vendor = "okta"   -> h.reset
      [] vendor = "github" -> h.remaining   \* the key handed over is X-RateLimit-Remaining
      [] vendor = "entra"  -> h.retryAfter

IsLimit(vendor, status, h) ==
    \/ status = 429
    \/ status = 403 /\ (IF h.remaining # Absent THEN h.remaining ELSE ResetHeader(vendor, h)) = 0

(* The hint: seconds to wait, or Absent when no header tells. *)
RetryHint_NoReset(vendor, h, now) == h.retryAfter   \* wrong: the reset header is not read

RetryHint(vendor, h, now) ==
    CASE h.retryAfter # Absent           -> h.retryAfter
      [] h.retryAfter = Absent /\ ResetHeader(vendor, h) # Absent ->
             IF ResetHeader(vendor, h) > now THEN ResetHeader(vendor, h) - now ELSE 0
      [] OTHER                           -> Absent

-----------------------------------------------------------------------------
(* Properties *)

TypeOK ==
    /\ seen \subseteq 1 .. Events
    /\ pc \in {"idle", "fetch", "yield"}
    /\ faults \in 0 .. MaxFaults /\ pulls \in 0 .. MaxPulls

(* One connector hands over an event once, however pages overlap and however
   often it is pulled again; and a pull that ends has handed
   over everything from its start on, by itself or by an earlier pull, unless the caller left a page half-way: its events are remembered, so a
   second pull passes over them (fetch_page). *)
OnceAndAll ==
    /\ \A j, k \in DOMAIN session : j # k => session[j] # session[k]
    /\ pc = "idle" /\ cursor = NoMore /\ ~torn =>
          start * PageSize + 1 .. Events \subseteq Range(session)

(* A limited caller is told what the source itself said: Retry-After if it is
   there, else the time until the source's reset.  (Okta and Entra; the
   GitHub connector hands over the header of the remaining calls.) *)
HintIsVendors(vendor, h, now) ==
    RetryHint(vendor, h, now) =
        IF h.retryAfter # Absent THEN h.retryAfter
        ELSE IF vendor # "entra" /\ h.reset # Absent THEN Max({0, h.reset - now}) ELSE Absent
=============================================================================
