------------------------------ MODULE Captured ------------------------------
(***************************************************************************)
(* The table captured_requests as the management API reads it (localup-api *)
(* handlers.rs): the state of a tunnel's service, worked out from four     *)
(* queries one after another, and the pages of list_requests, asked for    *)
(* one after another.  Rows are stored between any two queries, and not in *)
(* the order in which their requests began.                                *)
(***************************************************************************)
EXTENDS Integers, Sequences, FiniteSets

CONSTANTS
    Id,            \* tunnels
    Minute,        \* how far back compute_upstream_status looks
    PageLimit,     \* sizes of pages that are asked for
    MaxRows,       \* bound: captured requests
    MaxClock       \* bound: time

ASSUME CapturedAssumption ==
    /\ Minute \in Nat /\ PageLimit \subseteq Nat \ {0}
    /\ MaxRows \in Nat /\ MaxClock \in Nat

NoAnswer == 0                              \* status NULL
Status == {NoAnswer, 200, 502}

VARIABLES
    captured,      \* the rows, in the order in which they were stored
    clock,
    view           \* a call of compute_upstream_status, or a reader of pages

capturedVars == <<captured, clock, view>>

\* The calls' own variables; `from', `overtaken' and `failed' are history: the rows there
\* at the beginning, whether rows were stored meanwhile, and whether a query failed.
NoView == [at |-> "idle", tunnel |-> {}, cutoff |-> 0, bad |-> 0, total |-> 0, verdict |-> "none",
           limit |-> 1, offset |-> 0, seen |-> {},
           from |-> 0, overtaken |-> FALSE, failed |-> FALSE]

CapturedInit == captured = <<>> /\ clock = 0 /\ view = NoView

ClockTicks == clock < MaxClock /\ clock' = clock + 1 /\ UNCHANGED <<captured, view>>

\* The row of a request is stored when it ends, under the time it began.
Store(i) ==
    /\ Len(captured) < MaxRows
    /\ \E s \in Status, t \in 1..clock :
         /\ \A k \in DOMAIN captured : captured[k].created # t
         /\ captured' = Append(captured, [id |-> i, status |-> s, created |-> t])
    /\ view' = [view EXCEPT !.overtaken = TRUE]
    /\ UNCHANGED clock

-----------------------------------------------------------------------------
(***************************************************************************)
(* compute_upstream_status.                                                *)
(***************************************************************************)
Recent == {k \in DOMAIN captured : captured[k].id \in view.tunnel /\ captured[k].created > view.cutoff}
With(status) == {k \in Recent : captured[k].status = status}

BeginStatus(i) ==
    /\ view.at = "idle"
    /\ view' = [NoView EXCEPT !.at = "bad", !.tunnel = {i}, !.cutoff = clock - Minute, !.from = Len(captured)]
    /\ UNCHANGED <<captured, clock>>

\* unwrap_or(0): a query that fails has counted nothing.
Count(rows) == {0, Cardinality(rows)}
Fails(n, rows) == view.failed \/ n # Cardinality(rows)

CountBad ==
    /\ view.at = "bad"
    /\ \E n \in Count(With(502)) :
         view' = [view EXCEPT !.at = "total", !.bad = n, !.failed = Fails(n, With(502))]
    /\ UNCHANGED <<captured, clock>>

\* Fault: the total is counted before the failures are.
CountTotal_First ==
    /\ view.at = "total"
    /\ \E n \in Count({k \in Recent : k <= view.from}) :
         view' = [view EXCEPT !.at = "pending", !.total = n, !.failed = Fails(n, Recent)]
    /\ UNCHANGED <<captured, clock>>

CountTotal ==
    /\ view.at = "total"
    /\ \E n \in Count(Recent) :
         view' = [view EXCEPT !.at = "pending", !.total = n, !.failed = Fails(n, Recent)]
    /\ UNCHANGED <<captured, clock>>

\* Without failures no further query is needed.
CountPending ==
    /\ view.at = "pending"
    /\ \E n \in Count(With(NoAnswer)) :
         view' = [view EXCEPT !.at = IF view.total > 0 /\ view.bad > 0 THEN "latest" ELSE "done",
                              !.verdict = IF view.total = 0 THEN "unknown"
                                          ELSE IF view.bad > 0 THEN "none"
                                          ELSE IF n > 0 /\ n = view.total THEN "down" ELSE "up",
                              !.failed = Fails(n, With(NoAnswer))]
    /\ UNCHANGED <<captured, clock>>

IsLatest(k) == k \in Recent /\ \A j \in Recent : captured[j].created <= captured[k].created

\* After failures the latest request decides, and if that was answered the majority.
ReadLatest ==
    /\ view.at = "latest"
    /\ \/ \E k \in DOMAIN captured :
            /\ IsLatest(k)
            /\ view' = [view EXCEPT !.at = "done",
                                    !.verdict = IF captured[k].status # 200 \/ view.bad * 2 > view.total
                                                THEN "down" ELSE "up"]
       \/ view' = [view EXCEPT !.at = "done", !.verdict = "unknown", !.failed = TRUE]
    /\ UNCHANGED <<captured, clock>>

-----------------------------------------------------------------------------
(***************************************************************************)
(* list_requests, and list_tcp_connections, which pages in the same way.   *)
(* Newest first; the page that the offset is in.                           *)
(***************************************************************************)
Newer(k) == Cardinality({j \in DOMAIN captured : captured[j].created > captured[k].created})
PageStart(offset, limit) == (offset \div limit) * limit
OnPage(k, offset, limit) == Newer(k) \in PageStart(offset, limit) .. PageStart(offset, limit) + limit - 1

\* A reader asks for page after page until one is not full.
BeginPages(limit) ==
    /\ view.at = "idle"
    /\ view' = [NoView EXCEPT !.at = "page", !.limit = limit, !.from = Len(captured)]
    /\ UNCHANGED <<captured, clock>>

ReadPage ==
    /\ view.at = "page"
    /\ LET full == Len(captured) >= PageStart(view.offset, view.limit) + view.limit IN
       view' = [view EXCEPT
                  !.seen = @ \cup {k \in DOMAIN captured : OnPage(k, view.offset, view.limit)},
                  !.offset = @ + view.limit,
                  !.at = IF full THEN "page" ELSE "read"]
    /\ UNCHANGED <<captured, clock>>

CapturedNext ==
    \/ ClockTicks \/ \E i \in Id : Store(i) \/ BeginStatus(i)
    \/ CountBad \/ CountTotal \/ CountPending \/ ReadLatest
    \/ (\E limit \in PageLimit : BeginPages(limit)) \/ ReadPage

CapturedSpec == CapturedInit /\ [][CapturedNext]_capturedVars
-----------------------------------------------------------------------------
Answered == With(200)

\* The verdict on a tunnel's service, whatever was stored between the four queries: it is
\* down only if a recent request failed or is without an answer; it is up without any
\* answer only if a row was stored between the queries or a query failed; it is unknown
\* only if there was no recent request at the beginning or a query failed; and there are
\* no more failures than requests shown.
StatusTrue ==
    view.at = "done" =>
      /\ view.verdict = "down" => Answered # Recent
      /\ view.verdict = "up" => Answered # {} \/ view.overtaken \/ view.failed
      /\ view.verdict = "unknown" => (\A k \in Recent : k > view.from) \/ view.failed
      /\ view.total > 0 => view.bad <= view.total

\* A reader who asks for one page after another sees every request that was there when it
\* began, whatever is stored meanwhile, and in front of which rows.
PagesCover == view.at = "read" => 1..view.from \subseteq view.seen
=============================================================================
