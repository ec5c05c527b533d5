-------------------------- MODULE TradeSubmission --------------------------
(***************************************************************************)
(* POST /trades (app/routers/trades.py) and the service behind it          *)
(* (app/services/trade_submission_service.py): a player's batch of new     *)
(* trades and cancellations, at most one a day.                            *)
(*                                                                         *)
(* A request is served by a thread of its own; each of its actions is one  *)
(* `with connect()` block, committed before the next one.  The job closes  *)
(* trades meanwhile (TradeExecution), any connection may raise, and the    *)
(* day may turn while a batch is being written.                            *)
(***************************************************************************)
EXTENDS Integers, FiniteSets

CONSTANTS
    User, Trade,
    Request,        \* requests: one batch of one user each
    None,
    DayLength,      \* hours of a day
    MaxNow          \* bound: the clock stops here

ASSUME ClockAssumption == DayLength \in Nat \ {0} /\ MaxNow \in Nat
ASSUME NoneAssumption == None \notin Int \cup User

VARIABLES
    now,            \* the current hour, counted from the first midnight
    active,         \* table active_trades
    historical,     \* table historical_trades
    lastSubmitted,  \* table trade_submissions; None where a user has no row
    request,        \* per request, its place in the code and its local variables
    overlapped      \* users that had two requests in progress, for the properties

vars == <<now, active, historical, lastSubmitted, request, overlapped>>

Pcs == {"idle", "check", "insert", "cancel", "record",
        "created", "conflict", "invalid", "failed"}

\* date is when the request arrived, at the time its rows carry; toInsert
\* and toCancel are what its loops have left.
Requests == [pc : Pcs, user : User \cup {None}, date : Int, at : Int,
             new : SUBSET Trade, toInsert : SUBSET Trade, toCancel : SUBSET Trade,
             cancelled : SUBSET Trade]
IdleRequest == [pc |-> "idle", user |-> None, date |-> 0, at |-> 0, new |-> {},
                toInsert |-> {}, toCancel |-> {}, cancelled |-> {}]

ActiveTrades == [id : Trade, user : User, from : Int]
HistoricalTrades == [id : Trade, user : User, from : Int, hour : Int,
                     status : {"cancelled", "closed"}]

Day(hour) == hour \div DayLength

InProgress(q) == request[q].pc \in {"check", "insert", "cancel", "record"}

\* The rows of a trade, open or closed.
RowsOf(t) == {a \in active \cup historical : a.id = t}

-----------------------------------------------------------------------------
\* The first day starts with trades of the day before still open.
Init ==
    /\ now = 0
    /\ \E S \in SUBSET Trade, owner \in [Trade -> User] :
           active = {[id |-> t, user |-> owner[t], from |-> 0] : t \in S}
    /\ historical = {}
    /\ lastSubmitted = [u \in User |-> None]
    /\ request = [q \in Request |-> IdleRequest]
    /\ overlapped = {}

Tick ==
    /\ now < MaxNow
    /\ now' = now + 1
    /\ UNCHANGED <<active, historical, lastSubmitted, request, overlapped>>

-----------------------------------------------------------------------------
(* submit_trades and submit.                                               *)

\* The router reads the date and _validate looks at the whole batch.  The
\* ids of new trades are fresh; any known trade can be asked to be cancelled.
Arrive(q, u, new, cancel, valid) ==
    /\ request[q].pc = "idle"
    /\ \A t \in new : RowsOf(t) = {} /\ \A p \in Request : t \notin request[p].new
    /\ \A t \in cancel : RowsOf(t) # {}
    /\ valid \/ new # {}
    /\ request' = [request EXCEPT ![q] =
            [@ EXCEPT !.pc = IF valid THEN "check" ELSE "invalid",
                      !.user = u, !.date = now, !.new = new,
                      !.toInsert = new, !.toCancel = cancel]]
    /\ overlapped' = IF valid /\ \E p \in Request : InProgress(p) /\ request[p].user = u
                     THEN overlapped \cup {u} ELSE overlapped
    /\ UNCHANGED <<now, active, historical, lastSubmitted>>

\* has_submmitted_today.
SubmittedToday(u, date) == lastSubmitted[u] # None /\ Day(lastSubmitted[u]) = Day(date)

\* Where a request is in submit, by what it has left to do.  A batch that
\* changed nothing is not recorded and does not use up the day.
Stage(j) == [j EXCEPT !.pc =
    CASE j.toInsert # {} -> "insert"
      [] j.toInsert = {} /\ j.toCancel # {} -> "cancel"
      [] j.toInsert = {} /\ j.toCancel = {} /\ j.new \cup j.cancelled # {} -> "record"
      [] OTHER -> "created"]

CheckByHour(q) ==
    /\ request[q].pc = "check"
    /\ request' = [request EXCEPT ![q] =
            IF lastSubmitted[@.user] = @.date
            THEN [@ EXCEPT !.pc = "conflict"]
            ELSE Stage([@ EXCEPT !.at = now])]
    /\ UNCHANGED <<now, active, historical, lastSubmitted, overlapped>>

Check(q) ==
    /\ request[q].pc = "check"
    /\ request' = [request EXCEPT ![q] =
            IF SubmittedToday(@.user, @.date)
            THEN [@ EXCEPT !.pc = "conflict"]
            ELSE Stage([@ EXCEPT !.at = now])]
    /\ UNCHANGED <<now, active, historical, lastSubmitted, overlapped>>

InsertRequestedOnce(q, t) ==
    /\ request[q].pc = "insert" /\ t \in request[q].toInsert
    /\ active' = active \cup {[id |-> t, user |-> request[q].user, from |-> request[q].date + 1]}
    /\ request' = [request EXCEPT ![q] = Stage([@ EXCEPT !.toInsert = {}])]
    /\ UNCHANGED <<now, historical, lastSubmitted, overlapped>>

\* One turn of the loop over the new trades: insert_requested.
InsertRequested(q, t) ==
    /\ request[q].pc = "insert" /\ t \in request[q].toInsert
    /\ active' = active \cup {[id |-> t, user |-> request[q].user, from |-> request[q].date + 1]}
    /\ LET left == request[q].toInsert \ {t}
       IN  request' = [request EXCEPT ![q] = Stage([@ EXCEPT !.toInsert = left])]
    /\ UNCHANGED <<now, historical, lastSubmitted, overlapped>>

CancellableByAnyone(u, t) == {a \in active : a.id = t}

\* The rows cancel_if_active selects.
Cancellable(u, t) == {a \in active : a.id = t /\ a.user = u}

CancelledAsRequested(a, hour) == [id |-> a.id, user |-> a.user, from |-> a.from, hour |-> hour,
                                  status |-> "requested"]
Cancelled(a, hour) == [id |-> a.id, user |-> a.user, from |-> a.from, hour |-> hour,
                       status |-> "cancelled"]

CancelWithoutLooking(q, t) ==
    /\ request[q].pc = "cancel" /\ t \in request[q].toCancel
    /\ LET rows == Cancellable(request[q].user, t)
           left == request[q].toCancel \ {t}
           cancelled == request[q].cancelled \cup {t}
       IN  /\ active' = active \ rows
           /\ historical' = historical \cup {Cancelled(a, request[q].date) : a \in rows}
           /\ request' = [request EXCEPT ![q] =
                    Stage([@ EXCEPT !.toCancel = left, !.cancelled = cancelled])]
    /\ UNCHANGED <<now, lastSubmitted, overlapped>>

\* One turn of the loop over the cancellations: cancel_if_active moves the
\* row, and tells whether there was one.
CancelIfActive(q, t) ==
    /\ request[q].pc = "cancel" /\ t \in request[q].toCancel
    /\ LET rows == Cancellable(request[q].user, t)
           left == request[q].toCancel \ {t}
           cancelled == request[q].cancelled \cup (IF rows = {} THEN {} ELSE {t})
       IN  /\ active' = active \ rows
           /\ historical' = historical \cup {Cancelled(a, request[q].date) : a \in rows}
           /\ request' = [request EXCEPT ![q] =
                    Stage([@ EXCEPT !.toCancel = left, !.cancelled = cancelled])]
    /\ UNCHANGED <<now, lastSubmitted, overlapped>>

\* record_submission overwrites the user's row.
RecordSubmission(q) ==
    /\ request[q].pc = "record"
    /\ lastSubmitted' = [lastSubmitted EXCEPT ![request[q].user] = request[q].at]
    /\ request' = [request EXCEPT ![q].pc = "created"]
    /\ UNCHANGED <<now, active, historical, overlapped>>

\* A connection raises (it is locked, or belongs to another thread's
\* transaction) or the process ends: what was written stays.
Raises(q) ==
    /\ InProgress(q)
    /\ request' = [request EXCEPT ![q].pc = "failed"]
    /\ UNCHANGED <<now, active, historical, lastSubmitted, overlapped>>

\* The job closes a trade of an hour that is over.
JobCloses(a) ==
    /\ a \in active /\ a.from < now
    /\ \E hour \in a.from .. now - 1 :
         historical' = historical \cup {[id |-> a.id, user |-> a.user, from |-> a.from,
                                         hour |-> hour, status |-> "closed"]}
    /\ active' = active \ {a}
    /\ UNCHANGED <<now, lastSubmitted, request, overlapped>>

-----------------------------------------------------------------------------
Submit(q) ==
    \/ \E u \in User, new, cancel \in SUBSET Trade, valid \in BOOLEAN :
           Arrive(q, u, new, cancel, valid)
    \/ Check(q)
    \/ \E t \in Trade : InsertRequested(q, t) \/ CancelIfActive(q, t)
    \/ RecordSubmission(q)
    \/ Raises(q)

Next ==
    \/ Tick
    \/ \E q \in Request : Submit(q)
    \/ \E a \in active : JobCloses(a)

Spec == Init /\ [][Next]_vars

-----------------------------------------------------------------------------
(* Properties.                                                             *)

\* Every table and local variable holds what its column or annotation says.
TypeOK ==
    /\ now \in Int
    /\ active \subseteq ActiveTrades
    /\ historical \subseteq HistoricalTrades
    /\ lastSubmitted \in [User -> Int \cup {None}]
    /\ request \in [Request -> Requests]
    /\ overlapped \subseteq User

\* The answer tells what was stored, whatever requests and the job do
\* meanwhile: of a created batch every new trade exists exactly once, from
\* the hour after the request; of a refused one, none.
AnswerIsTrue ==
    \A q \in Request :
        /\ request[q].pc = "created" =>
              \A t \in request[q].new :
                  \E a \in RowsOf(t) : /\ RowsOf(t) = {a}
                                       /\ a.user = request[q].user
                                       /\ a.from = request[q].date + 1
        /\ request[q].pc \in {"conflict", "invalid"} =>
              \A t \in request[q].new : RowsOf(t) = {}

\* A trade a batch reports as cancelled was cancelled by that batch, for the
\* user who placed it, and by no other: neither a second batch nor the job
\* has closed it too.
CancelledByOne ==
    \A q \in Request : \A t \in request[q].cancelled :
        /\ \E a \in historical : /\ RowsOf(t) = {a}
                                 /\ a.status = "cancelled"
                                 /\ a.user = request[q].user /\ a.hour = request[q].date
        /\ \A p \in Request \ {q} : t \notin request[p].cancelled

\* Only a batch of its owner closes a trade as cancelled.
NoSilentCancel ==
    \A c \in historical : c.status = "cancelled" =>
        \E q \in Request : request[q].user = c.user /\ c.id \in request[q].cancelled

Changed(q) == request[q].pc = "created" /\ (request[q].new # {} \/ request[q].cancelled # {})

OneBatchADay(users) ==
    \A p, q \in Request :
        /\ Changed(p) /\ Changed(q)
        /\ request[p].user = request[q].user /\ request[p].user \in users
        /\ Day(request[p].date) = Day(request[q].date)
        => p = q

\* A user whose requests never overlap gets one batch a day, also when the
\* day turns while one is being written or earlier ones failed.
OneBatchADayInTurn == OneBatchADay(User \ overlapped)

\* "Record that the user submitted": a record of such a user is of a later day
\* than the one it overwrites, be it written by a request that was slow and
\* came the day before.
RecordedDayMovesOn ==
    [][\A u \in User \ overlapped :
           lastSubmitted[u] \notin {None, lastSubmitted'[u]} =>
               Day(lastSubmitted[u]) < Day(lastSubmitted'[u])]_lastSubmitted

-----------------------------------------------------------------------------
(* What the repository says and the code does not keep.                    *)

\* The request has placed or cancelled a trade, whatever becomes of it.
Acted(q) == request[q].new \ request[q].toInsert # {} \/ request[q].cancelled # {}

\* "the authenticated player's one-per-day batch": of the requests of a day,
\* one at most places and cancels trades.  A second does when it passes the
\* check before the first is recorded, when the first has failed halfway, or
\* when a slow request of the day before has put the recorded date back.
OnePerDayBatch ==
    \A p, q \in Request :
        /\ Acted(p) /\ Acted(q)
        /\ request[p].user = request[q].user
        /\ Day(request[p].date) = Day(request[q].date)
        => p = q
=============================================================================
