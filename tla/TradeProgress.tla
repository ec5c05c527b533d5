--------------------------- MODULE TradeProgress ---------------------------
(***************************************************************************)
(* What becomes of players' orders in the end: TradeExecution under the    *)
(* fairness its scheduler gives it.  The scheduler starts the job again    *)
(* and again, and a thread that can go on goes on.  Players need do        *)
(* nothing, and process and prices fail only so often.                     *)
(***************************************************************************)
EXTENDS TradeExecution

CONSTANTS
    Early,       \* the sets of orders that may have been placed before the start
    MaxFaults    \* bound: crashes and failed price requests

ASSUME MaxFaultsAssumption == MaxFaults \in Nat
ASSUME EarlyAssumption == Early \subseteq SUBSET Trade

VARIABLE faults

liveVars == <<vars, faults>>

-----------------------------------------------------------------------------
EarlyPortfolio == [fills |-> {}, last |-> FirstHour - 2, born |-> FirstHour - 2]

\* Two hours have passed since some players opened their portfolios and placed
\* their orders, and the job has not run since.  The others may do so at any
\* time; as a bound, there are no faults then.
LiveInit ==
    /\ hour = FirstHour /\ settled = FALSE
    /\ active \in Early /\ activeFrom = [t \in Trade |-> FirstHour - 1]
    /\ historical = {}
    /\ portfolio = [u \in User |-> IF \E t \in active : Owner[t] = u
                                 THEN EarlyPortfolio ELSE None]
    /\ states = {}
    /\ activeConn = None
    /\ pending = [r \in Run |-> NoWrites]
    /\ job = [r \in Run |-> IdleJob]
    /\ faults = IF active = Trade THEN 0 ELSE MaxFaults

\* Every step of a run but those in which its prices fail.
Runs(r) ==
    \/ Fastforward(r) \/ SaveStates(r)
    \/ GetPrices(r)
    \/ job[r].pc \notin {"prices", "next_user"} /\ ExecuteHour(r)

Fault == Crash \/ \E r \in Run : PricesRaise(r)

LiveNext ==
    \/ (Tick \/ Requests \/ \E r \in Run : Runs(r)) /\ UNCHANGED faults
    \/ Fault /\ faults < MaxFaults /\ faults' = faults + 1

\* to_thread's threads run, the scheduler's loop starts the next run when its
\* hour has come, and time passes.
Fairness ==
    /\ WF_vars(Tick)
    /\ \A r \in Run : WF_vars(Runs(r))

LiveSpec == LiveInit /\ [][LiveNext]_liveVars /\ Fairness

-----------------------------------------------------------------------------
(* Properties.                                                             *)

\* Every run ends, whatever it meets: it never waits on a lock it holds
\* itself, and no order or user is visited again.
RunsEnd == \A r \in Run : job[r].pc # "idle" ~> job[r].pc = "idle"

\* Whether a trade may raise in an hour, and whether it is sure to close there,
\* whatever its user's other trades have filled.
AnyFills == SUBSET (Trade \X OpenHours)
MayRaise == [t \in Trade, h \in OpenHours |->
                \E fills \in AnyFills : Outcome(t, h, fills) = "raises"]
SureToClose == [t \in Trade, h \in OpenHours |->
                   \A fills \in AnyFills : Outcome(t, h, fills) \in ClosingStatuses]

Reached(u, h) == portfolio[u] # None /\ portfolio[u].last >= h

\* An open order that raises in an hour still ahead keeps its user there.
Blocked(u) ==
    \E t \in active, h \in OpenHours :
        Owner[t] = u /\ activeFrom[t] <= h /\ ~Reached(u, h) /\ MayRaise[t, h]

\* No hour is left behind: after any crash, exception or cancellation a user
\* with a portfolio is brought up to every hour the market was open in,
\* unless one of their own orders raises.  Nobody waits for another's order.
CatchesUp ==
    \A u \in User, h \in OpenHours :
        (portfolio[u] # None /\ h <= LastPassedHour)
            ~> (Reached(u, h) \/ Blocked(u))

\* An order that closes in an hour still ahead of its user's portfolio, and
\* that the clock reaches, is closed in the end, without any request.
OrdersClose ==
    \A t \in Trade, h \in OpenHours :
        LET u == Owner[t]
        IN  (/\ t \in active /\ activeFrom[t] <= h /\ h < MaxHour
             /\ portfolio[u] # None /\ ~Reached(u, h) /\ SureToClose[t, h])
                ~> (t \notin active \/ Blocked(u))

\* While an hour is the last that has passed, the state of everyone who has
\* reached it is recorded in the end.  A run may give up halfway, because a
\* player opens a portfolio while it is about to, but no user's lag or failure
\* makes every run give up before the others are saved.
StatesAreRecorded ==
    \A u \in User, h \in OpenHours :
        (Reached(u, h) /\ LastPassedHour = h)
            ~> (LastPassedHour > h \/ \E s \in states : s.user = u /\ s.hour >= h)
=============================================================================
