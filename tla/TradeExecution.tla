--------------------------- MODULE TradeExecution ---------------------------
(***************************************************************************)
(* Job runs that fast-forward every user's active trades to the current    *)
(* hour and then record every user's portfolio                             *)
(* (app/jobs/trades_and_portfolio_update_job.py), against requests that    *)
(* place and cancel trades, over one SQLite database whose transaction is  *)
(* an attribute shared by all threads (app/services/database_service.py).  *)
(*                                                                         *)
(* A run is a thread of the job pool.  Each of its actions is one          *)
(* `with connect()` block, or the code between two of them, so TLC         *)
(* interleaves runs and requests wherever the program can.                 *)
(*                                                                         *)
(* A portfolio is the set of fills its cash and holdings are made of, one  *)
(* <<trade, hour>> for each; what a fill does to the money is OrderFill's  *)
(* subject.  Outcome(t, h, fills) is what _try_execute_trade returns for   *)
(* trade t in the window of hour h on a portfolio made of those fills: one *)
(* of ClosingStatuses, "stays_open" or "raises".                           *)
(***************************************************************************)
EXTENDS Integers, FiniteSets

CONSTANTS
    User, Trade, Run,
    None,
    Owner,             \* the user each trade belongs to
    Rank,              \* order of (requested_at, id) among the trades
    OpenHours,         \* hours the market is open
    Outcome(_, _, _),
    FirstHour,         \* current hour at the start
    MaxHour            \* bound: the clock stops here

ASSUME OwnerAssumption == Owner \in [Trade -> User]
ASSUME RankAssumption == Rank \in [Trade -> Nat]
ASSUME HourAssumption == /\ FirstHour \in Nat /\ MaxHour \in Nat /\ FirstHour <= MaxHour
                         /\ OpenHours \subseteq Nat

\* The statuses _to_status can give a trade the job closes.
ClosingStatuses == {"executed", "insufficient_funds", "symbol_unavailable",
                    "malformed_request"}

Fills == Trade \X Int
Closings == [id : Trade, status : ClosingStatuses, hour : Int]
HistoricalTrades == Closings \cup [id : Trade, status : {"cancelled"}, hour : Int]

\* last is last_hourly_update; born, the hour the row was inserted, is not in
\* the row and only serves the properties.
Portfolios == [fills : SUBSET Fills, last : Int, born : Int]

ASSUME NoneAssumption == /\ None \notin Run \cup User
                         /\ None \notin Portfolios

VARIABLES
    hour, settled,       \* the clock: current hour, and whether 16 minutes of it have passed
    active, activeFrom,  \* table active_trades
    historical,          \* table historical_trades
    portfolio,           \* table portfolios; None where a user has no row
    states,              \* table portfolio_states
    activeConn,          \* DatabaseService._active_connection: whose transaction it is
    pending,             \* per run, the uncommitted writes of its transaction
    job                  \* per run, its place in the code and its local variables

clockVars == <<hour, settled>>
tables == <<active, activeFrom, historical, portfolio, states>>
vars == <<hour, settled, active, activeFrom, historical, portfolio, states,
          activeConn, pending, job>>

-----------------------------------------------------------------------------
(* Hours, tables and connections.                                          *)

\* HourlyDate.last_passed_hour: an hour's prices arrive 16 minutes after
\* its end.
LastPassedAtHourEnd == hour - 1
LastPassedHour == IF settled THEN hour - 1 ELSE hour - 2

DefaultPortfolio == [fills |-> {}, last |-> hour, born |-> hour]

NoWrites == [moves |-> {}, portfolio |-> None]

\* A run that goes through the users in left, with no other local set.
Between(pc, left, h) == [pc |-> pc, left |-> left, user |-> None, hour |-> h, upto |-> 0,
                         todo |-> {}, base |-> {}, closings |-> {}]
IdleJob == Between("idle", {}, 0)

MovedIds(moves) == {c.id : c \in moves}

Executed(u) == {<<c.id, c.hour>> : c \in {d \in historical : /\ d.status = "executed"
                                                             /\ Owner[d.id] = u}}

ActiveInHourFromStart(u, h) == {t \in active : Owner[t] = u /\ activeFrom[t] = h}

\* list_active_in_order: the rows, and the order they come in.
ActiveInHour(u, h) == {t \in active : Owner[t] = u /\ activeFrom[t] <= h}
Before(s, t) == \/ activeFrom[s] < activeFrom[t]
                \/ activeFrom[s] = activeFrom[t] /\ Rank[s] < Rank[t]
IsFirst(t, S) == t \in S /\ \A s \in S \ {t} : Before(t, s)

\* A connection holds SQLite's write lock from its first write until it
\* commits or rolls back.
HoldsWriteLock(r) == pending[r] # NoWrites
OthersWriteNothing(r) == \A s \in Run \ {r} : ~HoldsWriteLock(s)
NobodyWrites == \A r \in Run : ~HoldsWriteLock(r)

\* connect() outside a transaction opens a connection of its own.
OwnConnection == activeConn = None
\* connect() inside r's transaction, while the shared attribute is still r's.
InTransaction(r) == activeConn = r
\* connect() yields another thread's connection, which sqlite3 refuses to use.
ForeignConnection(r) == activeConn \notin {None, r}

UserDone(j) == Between("next_user", j.left, 0)

\* The next hour of enumerate_range, or the end of the user's loop.
HourDone(j) ==
    IF j.hour < j.upto
    THEN [j EXCEPT !.pc = "trades", !.hour = @ + 1,
                   !.todo = {}, !.base = {}, !.closings = {}]
    ELSE UserDone(j)

-----------------------------------------------------------------------------
Init ==
    /\ hour = FirstHour /\ settled = FALSE
    /\ active = {} /\ activeFrom = [t \in Trade |-> 0]
    /\ historical = {}
    /\ portfolio = [u \in User |-> None]
    /\ states = {}
    /\ activeConn = None
    /\ pending = [r \in Run |-> NoWrites]
    /\ job = [r \in Run |-> IdleJob]

-----------------------------------------------------------------------------
(* The clock and the requests.                                             *)

Tick ==
    /\ IF settled THEN hour < MaxHour /\ hour' = hour + 1 ELSE hour' = hour
    /\ settled' = ~settled
    /\ UNCHANGED <<tables, activeConn, pending, job>>

\* insert_requested of one trade of a batch.  The batch's date is read when
\* the request arrives, so the hour may have turned since.
PlaceTrade(t) ==
    /\ OwnConnection /\ NobodyWrites
    /\ t \notin active \cup MovedIds(historical)
    /\ \E date \in {hour - 1, hour} : activeFrom' = [activeFrom EXCEPT ![t] = date + 1]
    /\ active' = active \cup {t}
    /\ UNCHANGED <<clockVars, historical, portfolio, states, activeConn, pending, job>>

\* cancel_if_active.
CancelTrade(t) ==
    /\ OwnConnection /\ NobodyWrites
    /\ t \in active
    /\ historical' = historical \cup {[id |-> t, status |-> "cancelled", hour |-> hour]}
    /\ active' = active \ {t}
    /\ UNCHANGED <<clockVars, activeFrom, portfolio, states, activeConn, pending, job>>

\* GET /portfolio of a user that has none.
OpenPortfolio(u) ==
    /\ OwnConnection /\ NobodyWrites
    /\ portfolio[u] = None
    /\ portfolio' = [portfolio EXCEPT ![u] = DefaultPortfolio]
    /\ UNCHANGED <<clockVars, active, activeFrom, historical, states, activeConn, pending, job>>

\* The process ends; SQLite rolls back what was not committed.
Crash ==
    /\ activeConn' = None
    /\ pending' = [r \in Run |-> NoWrites]
    /\ job' = [r \in Run |-> IdleJob]
    /\ UNCHANGED <<clockVars, tables>>

-----------------------------------------------------------------------------
(* fastforward_all_users and fastforward_user_trades_to_current_hour.      *)

\* A user without a row in any table may not be registered yet.
MayBeNew(u) == /\ portfolio[u] = None
               /\ \A t \in active \cup MovedIds(historical) : Owner[t] # u

\* Nothing keeps a second run of the job from starting beside the first.
StartRun(r, users) ==
    /\ job[r].pc = "idle"
    /\ OwnConnection
    /\ \A u \in User \ users : MayBeNew(u)
    /\ job' = [job EXCEPT ![r] = Between("next_user", users, 0)]
    /\ UNCHANGED <<clockVars, tables, activeConn, pending>>

\* Start from the hour after the last update.
BeginUser(r, u) ==
    /\ job[r].pc = "next_user" /\ u \in job[r].left
    /\ OwnConnection
    /\ LET j == [job[r] EXCEPT !.user = u, !.left = @ \ {u}]
           next == IF portfolio[u] = None
                   THEN [j EXCEPT !.pc = "create"]
                   ELSE IF portfolio[u].last + 1 <= LastPassedHour
                   THEN [j EXCEPT !.pc = "trades", !.hour = portfolio[u].last + 1,
                                  !.upto = LastPassedHour]
                   ELSE UserDone(j)
       IN  job' = [job EXCEPT ![r] = next]
    /\ UNCHANGED <<clockVars, tables, activeConn, pending>>

\* get_or_create inserts the default portfolio.  It counts as updated up to
\* the current hour, so no passed hour is left to go through.
CreatePortfolio(r) ==
    /\ job[r].pc = "create"
    /\ OwnConnection /\ NobodyWrites
    /\ portfolio[job[r].user] = None
    /\ portfolio' = [portfolio EXCEPT ![job[r].user] = DefaultPortfolio]
    /\ job' = [job EXCEPT ![r] = UserDone(@)]
    /\ UNCHANGED <<clockVars, active, activeFrom, historical, states, activeConn, pending>>

-----------------------------------------------------------------------------
(* execute_user_trades_at_hour.                                            *)

ListActiveTrades(r) ==
    /\ job[r].pc = "trades"
    /\ OwnConnection
    /\ job' = [job EXCEPT ![r].pc = "portfolio",
                          ![r].todo = ActiveInHour(job[r].user, job[r].hour)]
    /\ UNCHANGED <<clockVars, tables, activeConn, pending>>

\* An hour the portfolio already has is skipped.
ReadPortfolio(r) ==
    /\ job[r].pc = "portfolio"
    /\ OwnConnection
    /\ job' = [job EXCEPT ![r] =
                 IF portfolio[job[r].user].last >= @.hour
                 THEN HourDone(@)
                 ELSE [@ EXCEPT !.pc = "prices", !.base = portfolio[job[r].user].fills]]
    /\ UNCHANGED <<clockVars, tables, activeConn, pending>>

\* An hour the market is closed is left without a trace.
GetPrices(r) ==
    /\ job[r].pc = "prices"
    /\ OwnConnection
    /\ job' = [job EXCEPT ![r] =
                 IF @.hour \in OpenHours THEN [@ EXCEPT !.pc = "try"] ELSE HourDone(@)]
    /\ UNCHANGED <<clockVars, tables, activeConn, pending>>

TryTradeClosingOpenOrders(r, t) ==
    /\ job[r].pc = "try"
    /\ IsFirst(t, job[r].todo)
    /\ LET result == Outcome(t, job[r].hour, job[r].base)
       IN  /\ result # "raises"
           /\ job' = [job EXCEPT
                ![r].todo = @ \ {t},
                ![r].base = IF result = "executed"
                            THEN @ \cup {<<t, job[r].hour>>} ELSE @,
                ![r].closings = @ \cup {[id |-> t, status |-> result, hour |-> job[r].hour]}]
    /\ UNCHANGED <<clockVars, tables, activeConn, pending>>

\* One turn of the loop over the active trades.
TryTrade(r, t) ==
    /\ job[r].pc = "try"
    /\ IsFirst(t, job[r].todo)
    /\ LET result == Outcome(t, job[r].hour, job[r].base)
       IN  /\ result # "raises"
           /\ job' = [job EXCEPT
                ![r].todo = @ \ {t},
                ![r].base = IF result = "executed"
                            THEN @ \cup {<<t, job[r].hour>>} ELSE @,
                ![r].closings = IF result \in ClosingStatuses
                                THEN @ \cup {[id |-> t, status |-> result,
                                              hour |-> job[r].hour]}
                                ELSE @]
    /\ UNCHANGED <<clockVars, tables, activeConn, pending>>

\* DbTransaction.__enter__.
BeginTransaction(r) ==
    /\ job[r].pc = "try" /\ job[r].todo = {}
    /\ activeConn' = r
    /\ job' = [job EXCEPT ![r].pc = "move"]
    /\ UNCHANGED <<clockVars, tables, pending>>

NextMoveUnchecked(r, c) ==
    /\ job[r].pc = "move"
    /\ c \in job[r].closings /\ IsFirst(c.id, MovedIds(job[r].closings))

\* The next trade for move_to_executed, which must still be active.
NextMove(r, c) ==
    /\ job[r].pc = "move"
    /\ c \in job[r].closings /\ IsFirst(c.id, MovedIds(job[r].closings))
    /\ c.id \in active

MoveInTransaction(r, c) ==
    /\ NextMove(r, c)
    /\ InTransaction(r) /\ OthersWriteNothing(r)
    /\ pending' = [pending EXCEPT ![r].moves = @ \cup {c}]
    /\ job' = [job EXCEPT ![r].closings = @ \ {c}]
    /\ UNCHANGED <<clockVars, tables, activeConn>>

\* Another run left its transaction and took the shared attribute with it:
\* move_to_executed opens a connection of its own and commits it.
MoveOnOwnConnection(r, c) ==
    /\ NextMove(r, c)
    /\ OwnConnection /\ NobodyWrites
    /\ active' = active \ {c.id}
    /\ historical' = historical \cup {c}
    /\ job' = [job EXCEPT ![r].closings = @ \ {c}]
    /\ UNCHANGED <<clockVars, activeFrom, portfolio, states, activeConn, pending>>

NewPortfolioOfOneHour(r) == [fills |-> {f \in job[r].base : f[2] = job[r].hour},
                             last |-> job[r].hour,
                             born |-> portfolio[job[r].user].born]

\* The portfolio row a run writes: what it computed from the row it read.
NewPortfolio(r) == [fills |-> job[r].base, last |-> job[r].hour,
                    born |-> portfolio[job[r].user].born]

AllMoved(r) == job[r].pc = "move" /\ job[r].closings = {}

UpdateInTransaction(r) ==
    /\ AllMoved(r)
    /\ InTransaction(r) /\ OthersWriteNothing(r)
    /\ pending' = [pending EXCEPT ![r].portfolio = NewPortfolio(r)]
    /\ job' = [job EXCEPT ![r].pc = "commit"]
    /\ UNCHANGED <<clockVars, tables, activeConn>>

UpdateOnOwnConnection(r) ==
    /\ AllMoved(r)
    /\ OwnConnection /\ NobodyWrites
    /\ portfolio' = [portfolio EXCEPT ![job[r].user] = NewPortfolio(r)]
    /\ job' = [job EXCEPT ![r].pc = "commit"]
    /\ UNCHANGED <<clockVars, active, activeFrom, historical, states, activeConn, pending>>

CommitWithoutPortfolio(r) ==
    /\ job[r].pc = "commit"
    /\ active' = active \ MovedIds(pending[r].moves)
    /\ historical' = historical \cup pending[r].moves
    /\ pending' = [pending EXCEPT ![r] = NoWrites]
    /\ activeConn' = None
    /\ job' = [job EXCEPT ![r] = HourDone(@)]
    /\ UNCHANGED <<clockVars, activeFrom, portfolio, states>>

\* DbTransaction.__exit__ without an exception.
Commit(r) ==
    /\ job[r].pc = "commit"
    /\ active' = active \ MovedIds(pending[r].moves)
    /\ historical' = historical \cup pending[r].moves
    /\ portfolio' = IF pending[r].portfolio = None THEN portfolio
                    ELSE [portfolio EXCEPT ![job[r].user] = pending[r].portfolio]
    /\ pending' = [pending EXCEPT ![r] = NoWrites]
    /\ activeConn' = None
    /\ job' = [job EXCEPT ![r] = HourDone(@)]
    /\ UNCHANGED <<clockVars, activeFrom, states>>

-----------------------------------------------------------------------------
(* save_state_for_all_users.                                               *)

\* last_passed_hour and get_latest_open_market_prices, then the users.
BeginSaving(r) ==
    /\ job[r].pc = "next_user" /\ job[r].left = {}
    /\ OwnConnection
    /\ job' = [job EXCEPT ![r] = Between("save", User, LastPassedHour)]
    /\ UNCHANGED <<clockVars, tables, activeConn, pending>>

\* The run goes on with the next user to save, or ends.
SavedUser(j) == IF j.left = {} THEN IdleJob
                ELSE [j EXCEPT !.pc = "save", !.user = None, !.base = {}]

\* A user with a state of that hour or a later one is skipped.
CheckLastRecorded(r, u) ==
    /\ job[r].pc = "save" /\ u \in job[r].left
    /\ OwnConnection
    /\ LET j == [job[r] EXCEPT !.user = u, !.left = @ \ {u}]
           recorded == \E s \in states : s.user = u /\ s.hour >= j.hour
       IN  job' = [job EXCEPT ![r] = IF recorded THEN SavedUser(j)
                                     ELSE [j EXCEPT !.pc = "save_portfolio"]]
    /\ UNCHANGED <<clockVars, tables, activeConn, pending>>

SavePortfolioUnchecked(r) ==
    /\ job[r].pc = "save_portfolio"
    /\ OwnConnection
    /\ LET p == portfolio[job[r].user]
       IN  job' = [job EXCEPT ![r] =
                 IF p = None THEN [@ EXCEPT !.pc = "save_create"]
                 ELSE [@ EXCEPT !.pc = "save_write", !.base = p.fills]]
    /\ UNCHANGED <<clockVars, tables, activeConn, pending>>

SavePortfolioGivesUp(r) ==
    /\ job[r].pc = "save_portfolio"
    /\ OwnConnection
    /\ LET p == portfolio[job[r].user]
       IN  job' = [job EXCEPT ![r] =
                 IF p = None THEN [@ EXCEPT !.pc = "save_create"]
                 ELSE IF p.last < @.hour THEN IdleJob
                 ELSE [@ EXCEPT !.pc = "save_write", !.base = p.fills]]
    /\ UNCHANGED <<clockVars, tables, activeConn, pending>>

\* So is one whose trades of that hour have not been executed yet.
SavePortfolio(r) ==
    /\ job[r].pc = "save_portfolio"
    /\ OwnConnection
    /\ LET p == portfolio[job[r].user]
       IN  job' = [job EXCEPT ![r] =
                 IF p = None THEN [@ EXCEPT !.pc = "save_create"]
                 ELSE IF p.last < @.hour THEN SavedUser(@)
                 ELSE [@ EXCEPT !.pc = "save_write", !.base = p.fills]]
    /\ UNCHANGED <<clockVars, tables, activeConn, pending>>

SaveCreatedPortfolio(r) ==
    /\ job[r].pc = "save_create"
    /\ OwnConnection /\ NobodyWrites
    /\ portfolio[job[r].user] = None
    /\ portfolio' = [portfolio EXCEPT ![job[r].user] = DefaultPortfolio]
    /\ job' = [job EXCEPT ![r].pc = "save_write", ![r].base = {}]
    /\ UNCHANGED <<clockVars, active, activeFrom, historical, states, activeConn, pending>>

\* try_record_state: the first writer of the hour wins.
RecordState(r) ==
    /\ job[r].pc = "save_write"
    /\ OwnConnection /\ NobodyWrites
    /\ states' = IF \E s \in states : s.user = job[r].user /\ s.hour = job[r].hour
                 THEN states
                 ELSE states \cup {[user |-> job[r].user, hour |-> job[r].hour,
                                    fills |-> job[r].base]}
    /\ job' = [job EXCEPT ![r] = SavedUser(@)]
    /\ UNCHANGED <<clockVars, active, activeFrom, historical, portfolio, activeConn, pending>>

-----------------------------------------------------------------------------
(* Exceptions.                                                             *)

SavePcs == {"save", "save_portfolio", "save_create", "save_write"}
TransactionPcs == {"move", "commit"}

RaiseIntoNextHour(r) ==
    /\ job' = [job EXCEPT ![r] = IF @.pc \in SavePcs \/ (@.pc = "next_user" /\ @.left = {})
                                 THEN IdleJob ELSE HourDone(@)]
    /\ IF job[r].pc \in TransactionPcs
       THEN activeConn' = None /\ pending' = [pending EXCEPT ![r] = NoWrites]
       ELSE UNCHANGED <<activeConn, pending>>
    /\ UNCHANGED <<clockVars, tables>>

RaiseIntoSameHour(r) ==
    /\ job' = [job EXCEPT ![r] = IF @.pc \in SavePcs \/ (@.pc = "next_user" /\ @.left = {})
                                 THEN IdleJob
                                 ELSE [@ EXCEPT !.pc = "trades", !.todo = {}, !.base = {}, !.closings = {}]]
    /\ IF job[r].pc \in TransactionPcs
       THEN activeConn' = None /\ pending' = [pending EXCEPT ![r] = NoWrites]
       ELSE UNCHANGED <<activeConn, pending>>
    /\ UNCHANGED <<clockVars, tables>>

RaiseOutOfRun(r) ==
    /\ job' = [job EXCEPT ![r] = IdleJob]
    /\ IF job[r].pc \in TransactionPcs
       THEN activeConn' = None /\ pending' = [pending EXCEPT ![r] = NoWrites]
       ELSE UNCHANGED <<activeConn, pending>>
    /\ UNCHANGED <<clockVars, tables>>

\* What a step that raises leaves behind: a transaction rolls back and
\* clears the shared attribute, fastforward_all_users goes on with the next
\* user, and save_state_for_all_users gives up the whole run.
Raise(r) ==
    /\ job' = [job EXCEPT ![r] = IF @.pc \in SavePcs \/ (@.pc = "next_user" /\ @.left = {})
                                 THEN IdleJob ELSE UserDone(@)]
    /\ IF job[r].pc \in TransactionPcs
       THEN activeConn' = None /\ pending' = [pending EXCEPT ![r] = NoWrites]
       ELSE UNCHANGED <<activeConn, pending>>
    /\ UNCHANGED <<clockVars, tables>>

\* Another thread's transaction is open and its connection refuses this one.
\* A user whose get_or_create raises is left out of the run.
ConnectRaises(r) ==
    /\ ForeignConnection(r)
    /\ job[r].pc \notin {"idle", "try", "commit", "next_user"}
    /\ Raise(r)

BeginUserRaises(r, u) ==
    /\ ForeignConnection(r)
    /\ job[r].pc = "next_user" /\ u \in job[r].left
    /\ job' = [job EXCEPT ![r].left = @ \ {u}]
    /\ UNCHANGED <<clockVars, tables, activeConn, pending>>

BeginSavingRaises(r) ==
    /\ ForeignConnection(r)
    /\ job[r].pc = "next_user" /\ job[r].left = {}
    /\ Raise(r)

\* "database is locked": the write lock was not released in time.
WriteLockTimesOut(r) ==
    /\ \/ job[r].pc = "move" /\ InTransaction(r) /\ ~OthersWriteNothing(r)
       \/ /\ job[r].pc \in {"move", "create", "save_create", "save_write"}
          /\ OwnConnection /\ ~NobodyWrites
    /\ Raise(r)

MoveSkipsClosedTrade(r, c) ==
    /\ job[r].pc = "move"
    /\ c \in job[r].closings /\ IsFirst(c.id, MovedIds(job[r].closings))
    /\ ~ForeignConnection(r)
    /\ c.id \notin active
    /\ job' = [job EXCEPT ![r].closings = @ \ {c}]
    /\ UNCHANGED <<clockVars, tables, activeConn, pending>>

\* move_to_executed finds that the trade was closed in the meantime.
MoveRaises(r, c) ==
    /\ job[r].pc = "move"
    /\ c \in job[r].closings /\ IsFirst(c.id, MovedIds(job[r].closings))
    /\ ~ForeignConnection(r)
    /\ c.id \notin active
    /\ Raise(r)

\* Someone else created the user's portfolio first.
CreateRaises(r) ==
    /\ job[r].pc \in {"create", "save_create"}
    /\ OwnConnection
    /\ portfolio[job[r].user] # None
    /\ Raise(r)

\* The price request fails.
PricesRaise(r) ==
    /\ \/ job[r].pc = "prices"
       \/ job[r].pc = "next_user" /\ job[r].left = {}
    /\ Raise(r)

\* _try_execute_trade raises: the quantity a value order comes to overflows.
TryTradeRaises(r, t) ==
    /\ job[r].pc = "try"
    /\ IsFirst(t, job[r].todo)
    /\ Outcome(t, job[r].hour, job[r].base) = "raises"
    /\ Raise(r)

-----------------------------------------------------------------------------
Fastforward(r) ==
    \/ \E users \in SUBSET User : StartRun(r, users)
    \/ \E u \in User : BeginUser(r, u) \/ BeginUserRaises(r, u)
    \/ CreatePortfolio(r) \/ CreateRaises(r)
    \/ ConnectRaises(r) \/ WriteLockTimesOut(r)

ExecuteHour(r) ==
    \/ ListActiveTrades(r)
    \/ ReadPortfolio(r)
    \/ GetPrices(r) \/ PricesRaise(r)
    \/ \E t \in Trade : TryTrade(r, t) \/ TryTradeRaises(r, t)
    \/ BeginTransaction(r)
    \/ \E c \in job[r].closings : \/ MoveInTransaction(r, c)
                                  \/ MoveOnOwnConnection(r, c)
                                  \/ MoveRaises(r, c)
    \/ UpdateInTransaction(r)
    \/ UpdateOnOwnConnection(r)
    \/ Commit(r)

SaveStates(r) ==
    \/ BeginSaving(r) \/ BeginSavingRaises(r)
    \/ \E u \in User : CheckLastRecorded(r, u)
    \/ SavePortfolio(r)
    \/ SaveCreatedPortfolio(r)
    \/ RecordState(r)

Requests ==
    \/ \E t \in Trade : PlaceTrade(t) \/ CancelTrade(t)
    \/ \E u \in User : OpenPortfolio(u)

Next ==
    \/ Tick
    \/ Requests
    \/ Crash
    \/ \E r \in Run : Fastforward(r) \/ ExecuteHour(r) \/ SaveStates(r)

Spec == Init /\ [][Next]_vars

-----------------------------------------------------------------------------
(* Properties of any number of runs.                                       *)

JobPcs == {"idle", "next_user", "create", "trades", "portfolio", "prices", "try",
           "move", "commit"} \cup SavePcs
Jobs == [pc : JobPcs, left : SUBSET User, user : User \cup {None}, hour : Int, upto : Int,
         todo : SUBSET Trade, base : SUBSET Fills, closings : SUBSET Closings]

\* Every table, connection and local variable holds what its column or its
\* annotation says.
TypeOK ==
    /\ hour \in Int /\ settled \in BOOLEAN
    /\ active \subseteq Trade /\ activeFrom \in [Trade -> Int]
    /\ historical \subseteq HistoricalTrades
    /\ portfolio \in [User -> Portfolios \cup {None}]
    /\ states \subseteq [user : User, hour : Int, fills : SUBSET Fills]
    /\ activeConn \in Run \cup {None}
    /\ pending \in [Run -> [moves : SUBSET Closings, portfolio : Portfolios \cup {None}]]
    /\ job \in [Run -> Jobs]

\* A trade is never both open and closed, nor closed twice, whatever runs
\* and requests overlap: the moves of move_to_executed and cancel_if_active
\* keep active_trades and historical_trades apart.
ClosedOnce ==
    /\ active \cap MovedIds(historical) = {}
    /\ \A c, d \in historical : c.id = d.id => c = d

\* A portfolio never holds a fill whose trade is not executed in that hour:
\* no overlap of runs invents money or shares out of a cancelled, open or
\* twice executed trade.
NoGhostFill ==
    \A u \in User : portfolio[u] # None => portfolio[u].fills \subseteq Executed(u)

\* The job closes a trade only for an hour that trade was active in and
\* whose prices are complete.
ClosedInPassedHour ==
    \A c \in historical :
        c.status # "cancelled" =>
            /\ activeFrom[c.id] <= c.hour
            /\ c.hour + 1 < hour \/ (c.hour + 1 = hour /\ settled)

-----------------------------------------------------------------------------
(* Properties of runs that do not overlap.                                 *)

\* "a failure partway through can't leave a trade marked executed without
\* the portfolio reflecting it (or vice versa)": the portfolio is made of
\* exactly the executed trades, after any crash, exception or cancellation.
PortfolioReflectsTrades ==
    \A u \in User : portfolio[u] # None => portfolio[u].fills = Executed(u)

\* "states never precede the trades that affected them", and never follow
\* later ones: the state recorded for an hour is made of exactly the fills
\* up to that hour, also after trades of later hours.
StateOfItsHour ==
    \A s \in states : s.fills = {f \in Executed(s.user) : f[2] <= s.hour}

\* The fills t meets in hour h: of earlier hours, and of the trades before it.
FillsBefore(t, h) == {f \in Executed(Owner[t]) : f[2] < h \/ (f[2] = h /\ Before(f[1], t))}
LeftOpen(t, h) == Outcome(t, h, FillsBefore(t, h)) \notin ClosingStatuses \cup {"raises"}

\* An open trade was tried in every open hour it was active in and the
\* portfolio has gone through since it was created, and left open.
OpenTradesTried ==
    \A t \in active, h \in OpenHours :
        LET p == portfolio[Owner[t]]
        IN  (p # None /\ activeFrom[t] <= h /\ h <= p.last /\ h > p.born)
                => LeftOpen(t, h)

\* So was a trade that has been closed, in every such hour before the one it
\* was closed for, which the portfolio has come to.
TriedBeforeClosing(c) ==
    LET p == portfolio[Owner[c.id]]
    IN  /\ p # None /\ c.hour <= p.last
        /\ \A h \in OpenHours :
               (activeFrom[c.id] <= h /\ h < c.hour /\ h > p.born) => LeftOpen(c.id, h)

ClosedTradesTried == \A c \in historical : c.status # "cancelled" => TriedBeforeClosing(c)

\* No trade was passed over in an hour, be it still open or closed in a later
\* one: each hour tried it on the fills of the trades before it.
NoMissedHour == OpenTradesTried /\ ClosedTradesTried

\* A portfolio never goes back to an earlier hour or forgets a fill.
PortfolioOnlyGrows ==
    [][\A u \in User : portfolio[u] # None =>
            /\ portfolio'[u] # None
            /\ portfolio'[u].last >= portfolio[u].last
            /\ portfolio[u].fills \subseteq portfolio'[u].fills]_vars

\* A player sees an hour of their portfolio executed at once and in turn, or
\* not at all: a run's steps between its transactions do not show, and a crash
\* or an exception leaves no trace.  See HourlyAccounts.
Promised == INSTANCE HourlyAccounts WITH passed <- LastPassedHour

KeepsAccounts == Promised!Spec

-----------------------------------------------------------------------------
(* What the repository says and the code does not keep.                    *)

\* "a failure partway through can't leave a trade marked executed without
\* the portfolio reflecting it (or vice versa)", when runs may overlap: once
\* every run is over, nothing is left half done.
NothingLeftHalfDone ==
    (\A r \in Run : job[r].pc = "idle") => PortfolioReflectsTrades

\* "If portfolio is new, start from the earliest active_from out of active
\* trades": a new portfolio misses none of the hours its trades were active
\* in.  get_or_create dates it to the current hour, so it does.
NewPortfolioMissesNoHour ==
    \A t \in active, h \in OpenHours :
        LET p == portfolio[Owner[t]]
        IN  (p # None /\ activeFrom[t] <= h /\ h <= p.last /\ h <= LastPassedHour)
                => LeftOpen(t, h)
=============================================================================
