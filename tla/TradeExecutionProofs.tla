------------------------ MODULE TradeExecutionProofs ------------------------
(* What TradeExecution guarantees for any users, trades and runs.          *)
EXTENDS TradeExecution, TLAPS

\* The ends of a user's loop, of an hour and of a save are job records.
LEMMA BetweenType ==
  ASSUME NEW pc \in JobPcs, NEW left \in SUBSET User, NEW h \in Int
  PROVE  Between(pc, left, h) \in Jobs
  <1>1. /\ {} \in SUBSET Trade /\ {} \in SUBSET Fills /\ {} \in SUBSET Closings
        /\ None \in User \cup {None} /\ 0 \in Int
    OBVIOUS
  <1> QED
    BY <1>1 DEF Between, Jobs

LEMMA IdleJobType == IdleJob \in Jobs
  BY BetweenType DEF IdleJob, JobPcs

LEMMA UserDoneType == ASSUME NEW j \in Jobs PROVE UserDone(j) \in Jobs
  <1>1. "next_user" \in JobPcs /\ j.left \in SUBSET User /\ 0 \in Int
    BY DEF Jobs, JobPcs
  <1> QED
    BY <1>1, BetweenType DEF UserDone

LEMMA HourDoneType == ASSUME NEW j \in Jobs PROVE HourDone(j) \in Jobs
  <1>1. CASE j.hour < j.upto
    <2>1. "trades" \in JobPcs /\ j.hour + 1 \in Int
      BY DEF Jobs, JobPcs
    <2>2. HourDone(j) = [j EXCEPT !.pc = "trades", !.hour = @ + 1,
                                  !.todo = {}, !.base = {}, !.closings = {}]
      BY <1>1 DEF HourDone
    <2> QED
      BY <2>1, <2>2 DEF Jobs
  <1>2. CASE ~(j.hour < j.upto)
    BY <1>2, UserDoneType DEF HourDone
  <1> QED
    BY <1>1, <1>2

\* The loop over the hours goes on with the same user, or leaves it.
LEMMA HourDonePc ==
  ASSUME NEW j \in Jobs
  PROVE  \/ HourDone(j) = UserDone(j) /\ HourDone(j).pc = "next_user"
         \/ HourDone(j).pc = "trades" /\ HourDone(j).user = j.user
  BY DEF HourDone, UserDone, Between, Jobs

LEMMA SavedUserType == ASSUME NEW j \in Jobs PROVE SavedUser(j) \in Jobs
  BY IdleJobType DEF SavedUser, Jobs, JobPcs, SavePcs

LEMMA NoWritesType == NoWrites \in [moves : SUBSET Closings, portfolio : Portfolios \cup {None}]
  BY DEF NoWrites

\* The places in the code where the local user is set, and those reached only
\* after get_or_create returned that user's portfolio.
HourPcs == {"trades", "portfolio", "prices", "try", "move", "commit"}
UserPcs == HourPcs \cup {"create", "save_portfolio", "save_create", "save_write"}

\* The local user is a user, and keeps the portfolio row it was seen to have.
RowExists ==
    \A r \in Run :
        /\ job[r].pc \in UserPcs => job[r].user \in User
        /\ job[r].pc \in HourPcs => portfolio[job[r].user] # None

\* TypeOK is not inductive by itself: the columns read from portfolio[user]
\* have a type only because the row exists.
Typed == TypeOK /\ RowExists

LEMMA RowOf ==
  ASSUME Typed, NEW r \in Run, job[r].pc \in HourPcs
  PROVE  job[r].user \in User /\ portfolio[job[r].user] # None
  <1>1. job[r].pc \in UserPcs
    BY DEF UserPcs
  <1>2. RowExists
    BY DEF Typed
  <1> QED
    BY <1>1, <1>2, Zenon DEF RowExists

LEMMA RaiseTyped == ASSUME Typed, NEW r \in Run, Raise(r) PROVE Typed'
  <1>1. job' \in [Run -> Jobs]
    BY IdleJobType, UserDoneType DEF Typed, TypeOK, Raise
  <1>2. TypeOK'
    BY <1>1, NoWritesType DEF Typed, TypeOK, Raise, clockVars, tables
  <1>3. job'[r].pc \notin UserPcs
    BY DEF Typed, TypeOK, Raise, UserDone, IdleJob, Between, UserPcs, HourPcs
  <1>4. \A q \in Run : q # r => job'[q] = job[q]
    BY DEF Typed, TypeOK, Raise
  <1>5. portfolio' = portfolio
    BY DEF Raise, tables
  <1> QED
    BY <1>2, <1>3, <1>4, <1>5 DEF Typed, RowExists, UserPcs

\* The steps of run r that raise and unwind.
Raises(r) ==
    \/ ConnectRaises(r) \/ WriteLockTimesOut(r) \/ CreateRaises(r) \/ PricesRaise(r)
    \/ BeginSavingRaises(r)
    \/ \E t \in Trade : TryTradeRaises(r, t)
    \/ \E c \in job[r].closings : MoveRaises(r, c)

LEMMA RaisesRaise == ASSUME NEW r \in Run, Raises(r) PROVE Raise(r)
  BY DEF Raises, ConnectRaises, WriteLockTimesOut, CreateRaises, PricesRaise,
         BeginSavingRaises, TryTradeRaises, MoveRaises

\* A step that takes run r from one place to another, keeps the rows of
\* portfolios and leaves the other runs alone keeps the rows every run needs.
LEMMA StepKeepsRows ==
  ASSUME Typed, NEW r \in Run,
         \A q \in Run : q # r => job'[q] = job[q],
         \A u \in User : portfolio[u] # None => portfolio'[u] # None,
         job'[r].pc \in UserPcs => job'[r].user \in User,
         job'[r].pc \in HourPcs => portfolio'[job'[r].user] # None
  PROVE  RowExists'
  BY DEF Typed, RowExists, UserPcs

\* So does a step within the hours of one user that keeps the columns typed.
LEMMA HourStepTyped ==
  ASSUME Typed, NEW r \in Run, NEW j \in Jobs,
         job[r].pc \in HourPcs,
         \/ job' = [job EXCEPT ![r] = j] /\ j.pc \in HourPcs /\ j.user = job[r].user
         \/ job' = [job EXCEPT ![r] = HourDone(job[r])],
         \A u \in User : portfolio[u] # None => portfolio'[u] # None,
         hour' \in Int /\ settled' \in BOOLEAN,
         active' \subseteq Trade /\ activeFrom' \in [Trade -> Int],
         historical' \subseteq HistoricalTrades,
         portfolio' \in [User -> Portfolios \cup {None}],
         states' \subseteq [user : User, hour : Int, fills : SUBSET Fills],
         activeConn' \in Run \cup {None},
         pending' \in [Run -> [moves : SUBSET Closings, portfolio : Portfolios \cup {None}]]
  PROVE  Typed'
  <1>1. /\ HourDone(job[r]) \in Jobs
        /\ \/ HourDone(job[r]).pc = "next_user"
           \/ HourDone(job[r]).pc = "trades" /\ HourDone(job[r]).user = job[r].user
    BY HourDoneType, HourDonePc DEF Typed, TypeOK
  <1>2. TypeOK'
    <2>1. job' \in [Run -> Jobs]
      BY <1>1 DEF Typed, TypeOK
    <2> QED
      BY <2>1 DEF TypeOK
  <1>3. /\ \A q \in Run : q # r => job'[q] = job[q]
        /\ \/ job'[r].pc \in HourPcs /\ job'[r].user = job[r].user
           \/ job'[r].pc = "next_user"
    BY <1>1 DEF Typed, TypeOK, HourPcs
  <1>4. job[r].user \in User /\ portfolio[job[r].user] # None
    BY RowOf
  <1>5. RowExists'
    BY <1>3, <1>4, StepKeepsRows DEF UserPcs, HourPcs
  <1> QED
    BY <1>2, <1>5 DEF Typed

\* One that leaves all the columns alone, in particular.
LEMMA StepStaysWithUser ==
  ASSUME Typed, NEW r \in Run, NEW j \in Jobs,
         job[r].pc \in HourPcs,
         \/ job' = [job EXCEPT ![r] = j] /\ j.pc \in HourPcs /\ j.user = job[r].user
         \/ job' = [job EXCEPT ![r] = HourDone(job[r])],
         UNCHANGED <<clockVars, tables, activeConn, pending>>
  PROVE  Typed'
  BY HourStepTyped DEF Typed, TypeOK, clockVars, tables

\* A step outside the hours of a user, where only the local user has to be
\* a user.
LEMMA SaveStepTyped ==
  ASSUME Typed, NEW r \in Run, NEW j \in Jobs,
         job' = [job EXCEPT ![r] = j],
         j.pc \notin HourPcs,
         j.pc \in UserPcs => j.user \in User,
         \A u \in User : portfolio[u] # None => portfolio'[u] # None,
         portfolio' \in [User -> Portfolios \cup {None}],
         states' \subseteq [user : User, hour : Int, fills : SUBSET Fills],
         UNCHANGED <<clockVars, active, activeFrom, historical, activeConn, pending>>
  PROVE  Typed'
  <1>1. TypeOK'
    BY DEF Typed, TypeOK, clockVars
  <1>2. job'[r] = j /\ \A q \in Run : q # r => job'[q] = job[q]
    BY DEF Typed, TypeOK
  <1>3. RowExists'
    BY <1>2, StepKeepsRows
  <1> QED
    BY <1>1, <1>3 DEF Typed

\* The next user to save, or the end of the run, has no local user.
LEMMA SavedUserPc ==
  ASSUME NEW j \in Jobs
  PROVE  SavedUser(j) \in Jobs /\ SavedUser(j).pc \in {"idle", "save"}
  BY SavedUserType DEF SavedUser, IdleJob, Between, Jobs

\* The row update writes is a portfolio.
LEMMA NewPortfolioType ==
  ASSUME Typed, NEW r \in Run, job[r].pc = "move"
  PROVE  NewPortfolio(r) \in Portfolios
  <1>1. job[r].user \in User /\ portfolio[job[r].user] # None
    BY RowOf DEF HourPcs
  <1>2. portfolio[job[r].user] \in Portfolios /\ job[r] \in Jobs
    BY <1>1 DEF Typed, TypeOK
  <1> QED
    BY <1>2 DEF NewPortfolio, Portfolios, Jobs

LEMMA AlwaysTyped == Spec => []Typed
<1>1. Init => Typed
  <2>1. Init => TypeOK
    <3>1. HourAssumption => FirstHour \in Int
      BY DEF HourAssumption
    <3> SUFFICES ASSUME Init PROVE TypeOK
      OBVIOUS
    <3>2. hour \in Int /\ activeFrom \in [Trade -> Int]
      BY <3>1, HourAssumption DEF Init
    <3>5. settled \in BOOLEAN
      BY DEF Init
    <3>3. /\ pending \in [Run -> [moves : SUBSET Closings, portfolio : Portfolios \cup {None}]]
          /\ job \in [Run -> Jobs]
      BY IdleJobType, NoWritesType DEF Init
    <3>4. /\ portfolio \in [User -> Portfolios \cup {None}]
          /\ activeConn \in Run \cup {None}
          /\ active = {} /\ historical = {} /\ states = {}
      BY DEF Init
    <3> QED
      BY <3>2, <3>3, <3>4, <3>5 DEF TypeOK
  <2>2. Init => RowExists
    BY DEF Init, RowExists, IdleJob, Between, UserPcs, HourPcs
  <2> QED
    BY <2>1, <2>2 DEF Typed
<1>2. Typed /\ [Next]_vars => Typed'
  <2> SUFFICES ASSUME Typed, Next PROVE Typed'
    BY DEF Typed, TypeOK, RowExists, vars
  <2>1. CASE Tick
    BY <2>1 DEF Typed, TypeOK, RowExists, Tick, tables
  <2>2. ASSUME NEW t \in Trade, PlaceTrade(t) PROVE Typed'
    BY <2>2 DEF Typed, TypeOK, RowExists, PlaceTrade, clockVars
  <2>3. ASSUME NEW t \in Trade, CancelTrade(t) PROVE Typed'
    BY <2>3 DEF Typed, TypeOK, RowExists, CancelTrade, HistoricalTrades, clockVars
  <2>4. ASSUME NEW u \in User, OpenPortfolio(u) PROVE Typed'
    <3>1. DefaultPortfolio \in Portfolios
      BY DEF DefaultPortfolio, Portfolios, Typed, TypeOK
    <3> QED
      BY <2>4, <3>1, NoneAssumption DEF Typed, TypeOK, RowExists, UserPcs, OpenPortfolio, clockVars
  <2>5. CASE Crash
    <3>1. TypeOK'
      BY <2>5, IdleJobType, NoWritesType DEF Typed, TypeOK, Crash, clockVars, tables
    <3> QED
      BY <2>5, <3>1 DEF Typed, RowExists, Crash, IdleJob, Between, UserPcs, HourPcs
  <2>6. ASSUME NEW r \in Run, NEW users \in SUBSET User, StartRun(r, users) PROVE Typed'
    <3>1. Between("next_user", users, 0) \in Jobs
      BY BetweenType DEF JobPcs
    <3>2. Between("next_user", users, 0).pc = "next_user"
      BY DEF Between
    <3> QED
      BY <2>6, <3>1, <3>2, SaveStepTyped
         DEF StartRun, Typed, TypeOK, tables, UserPcs, HourPcs
  <2>7. ASSUME NEW r \in Run, NEW u \in User, BeginUser(r, u) PROVE Typed'
    <3> DEFINE j == [job[r] EXCEPT !.user = u, !.left = @ \ {u}]
               start == [j EXCEPT !.pc = "trades", !.hour = portfolio[u].last + 1,
                                  !.upto = LastPassedHour]
    <3>1. j \in Jobs /\ j.user = u
      BY DEF Typed, TypeOK, Jobs
    <3>2. /\ [j EXCEPT !.pc = "create"] \in Jobs
          /\ [j EXCEPT !.pc = "create"].pc = "create"
          /\ [j EXCEPT !.pc = "create"].user = u
      BY <3>1 DEF Jobs, JobPcs
    <3>3. ASSUME portfolio[u] # None
          PROVE  start \in Jobs /\ start.pc = "trades" /\ start.user = u
      <4>1. portfolio[u].last + 1 \in Int /\ LastPassedHour \in Int /\ "trades" \in JobPcs
        BY <3>3 DEF Typed, TypeOK, Portfolios, LastPassedHour, JobPcs
      <4> HIDE DEF j
      <4> QED BY <3>1, <4>1 DEF Jobs
    <3>4. UserDone(j) \in Jobs /\ UserDone(j).pc = "next_user"
      BY <3>1, UserDoneType DEF UserDone, Between
    <3> HIDE DEF j, start
    <3>5. \/ job' = [job EXCEPT ![r] = [j EXCEPT !.pc = "create"]]
          \/ job' = [job EXCEPT ![r] = start] /\ portfolio[u] # None
          \/ job' = [job EXCEPT ![r] = UserDone(j)]
      BY <2>7 DEF BeginUser, j, start
    <3>6. TypeOK'
      BY <2>7, <3>2, <3>3, <3>4, <3>5 DEF Typed, TypeOK, BeginUser, clockVars, tables
    <3>7. /\ \A q \in Run : q # r => job'[q] = job[q]
          /\ \/ job'[r].pc = "create" /\ job'[r].user = u
             \/ job'[r].pc = "trades" /\ job'[r].user = u /\ portfolio[u] # None
             \/ job'[r].pc = "next_user"
      BY <3>2, <3>3, <3>4, <3>5 DEF Typed, TypeOK
    <3>8. portfolio' = portfolio
      BY <2>7 DEF BeginUser, tables
    <3>9. RowExists'
      BY <3>7, <3>8, StepKeepsRows DEF UserPcs, HourPcs
    <3> QED
      BY <3>6, <3>9 DEF Typed
  <2>8. ASSUME NEW r \in Run, CreatePortfolio(r) PROVE Typed'
    <3>1. DefaultPortfolio \in Portfolios
      BY DEF DefaultPortfolio, Portfolios, Typed, TypeOK
    <3>2. TypeOK'
      BY <2>8, <3>1, UserDoneType DEF Typed, TypeOK, CreatePortfolio, clockVars
    <3>3. RowExists'
      BY <2>8, <3>1, NoneAssumption, StepKeepsRows
         DEF Typed, TypeOK, CreatePortfolio, UserDone, Between, UserPcs, HourPcs
    <3> QED
      BY <3>2, <3>3 DEF Typed
  <2>9. ASSUME NEW r \in Run, ListActiveTrades(r) PROVE Typed'
    <3>1. ActiveInHour(job[r].user, job[r].hour) \in SUBSET Trade
      BY DEF Typed, TypeOK, ActiveInHour
    <3> DEFINE listed == [job[r] EXCEPT !.pc = "portfolio",
                                        !.todo = ActiveInHour(job[r].user, job[r].hour)]
    <3>2. "portfolio" \in JobPcs /\ job[r] \in Jobs
      BY DEF Typed, TypeOK, JobPcs
    <3>3. listed \in Jobs /\ listed.pc = "portfolio" /\ listed.user = job[r].user
      BY <3>1, <3>2 DEF Jobs
    <3>4. job' = [job EXCEPT ![r] = listed]
      BY <2>9 DEF ListActiveTrades
    <3> QED
      BY <2>9, <3>3, <3>4, StepStaysWithUser DEF ListActiveTrades, HourPcs
  <2>10. ASSUME NEW r \in Run, ReadPortfolio(r) PROVE Typed'
    <3> DEFINE j == job[r]
               read == [j EXCEPT !.pc = "prices", !.base = portfolio[j.user].fills]
    <3>1. portfolio[j.user].fills \in SUBSET Fills /\ j.user \in User
      <4>0. j.pc = "portfolio"
        BY <2>10 DEF ReadPortfolio
      <4>1. j.user \in User /\ portfolio[j.user] # None
        BY <4>0, RowOf DEF HourPcs
      <4>2. portfolio[j.user] \in Portfolios
        BY <4>1 DEF Typed, TypeOK
      <4> QED
        BY <4>1, <4>2 DEF Portfolios
    <3>2. read \in Jobs /\ read.pc = "prices" /\ read.user = j.user
      <4>1. "prices" \in JobPcs /\ j \in Jobs
        BY DEF Typed, TypeOK, JobPcs
      <4> HIDE DEF j
      <4> QED BY <3>1, <4>1 DEF Jobs
    <3>3. \/ job' = [job EXCEPT ![r] = HourDone(j)]
          \/ job' = [job EXCEPT ![r] = read]
      BY <2>10 DEF ReadPortfolio
    <3> QED
      BY <2>10, <3>2, <3>3, StepStaysWithUser DEF ReadPortfolio, HourPcs
  <2>11. ASSUME NEW r \in Run, GetPrices(r) PROVE Typed'
    <3> DEFINE open == [job[r] EXCEPT !.pc = "try"]
    <3>1. open \in Jobs /\ open.pc = "try" /\ open.user = job[r].user
      BY DEF Typed, TypeOK, Jobs, JobPcs
    <3>2. \/ job' = [job EXCEPT ![r] = HourDone(job[r])]
          \/ job' = [job EXCEPT ![r] = open]
      BY <2>11 DEF GetPrices
    <3> QED
      BY <2>11, <3>1, <3>2, StepStaysWithUser DEF GetPrices, HourPcs
  <2>12. ASSUME NEW r \in Run, NEW t \in Trade, TryTrade(r, t) PROVE Typed'
    <3> DEFINE result == Outcome(t, job[r].hour, job[r].base)
               base == IF result = "executed"
                       THEN job[r].base \cup {<<t, job[r].hour>>} ELSE job[r].base
               closings == IF result \in ClosingStatuses
                           THEN job[r].closings \cup {[id |-> t, status |-> result,
                                                      hour |-> job[r].hour]}
                           ELSE job[r].closings
               tried == [job[r] EXCEPT !.todo = @ \ {t}, !.base = base,
                                       !.closings = closings]
    <3>1. job[r] \in Jobs /\ job[r].pc = "try"
      BY <2>12 DEF Typed, TypeOK, TryTrade
    <3>2. base \in SUBSET Fills /\ closings \in SUBSET Closings
      BY <3>1 DEF Jobs, Fills, Closings
    <3>3. job' = [job EXCEPT ![r] = tried]
      BY <2>12 DEF TryTrade
    <3>4. tried \in Jobs /\ tried.pc = "try" /\ tried.user = job[r].user
      <4> HIDE DEF base, closings
      <4> QED BY <3>1, <3>2 DEF Jobs
    <3> QED
      BY <2>12, <3>1, <3>3, <3>4, StepStaysWithUser DEF TryTrade, HourPcs
  <2>13. ASSUME NEW r \in Run, BeginTransaction(r) PROVE Typed'
    <3> DEFINE moving == [job[r] EXCEPT !.pc = "move"]
    <3>1. job[r].pc = "try" /\ job' = [job EXCEPT ![r] = moving] /\ portfolio' = portfolio
      BY <2>13 DEF BeginTransaction, tables
    <3>2. moving \in Jobs /\ moving.pc = "move" /\ moving.user = job[r].user
      BY DEF Typed, TypeOK, Jobs, JobPcs
    <3> QED
      BY <2>13, <3>1, <3>2, HourStepTyped DEF BeginTransaction, Typed, TypeOK, clockVars, tables, HourPcs
  <2>14. ASSUME NEW r \in Run, NEW c \in job[r].closings, MoveInTransaction(r, c)
         PROVE  Typed'
    <3> DEFINE moved == [job[r] EXCEPT !.closings = @ \ {c}]
    <3>1. /\ job[r].pc = "move" /\ job' = [job EXCEPT ![r] = moved] /\ portfolio' = portfolio
          /\ pending' = [pending EXCEPT ![r].moves = @ \cup {c}]
      BY <2>14 DEF MoveInTransaction, NextMove, tables
    <3>2. moved \in Jobs /\ moved.pc = "move" /\ moved.user = job[r].user /\ c \in Closings
      BY <3>1 DEF Typed, TypeOK, Jobs
    <3>3. pending' \in [Run -> [moves : SUBSET Closings, portfolio : Portfolios \cup {None}]]
      BY <3>1, <3>2 DEF Typed, TypeOK
    <3> QED
      BY <2>14, <3>1, <3>2, <3>3, HourStepTyped
         DEF MoveInTransaction, Typed, TypeOK, clockVars, tables, HourPcs
  <2>15. ASSUME NEW r \in Run, NEW c \in job[r].closings, MoveOnOwnConnection(r, c)
         PROVE  Typed'
    <3> DEFINE moved == [job[r] EXCEPT !.closings = @ \ {c}]
    <3>1. job[r].pc = "move" /\ job' = [job EXCEPT ![r] = moved] /\ portfolio' = portfolio
      BY <2>15 DEF MoveOnOwnConnection, NextMove
    <3>2. moved \in Jobs /\ moved.pc = "move" /\ moved.user = job[r].user /\ c \in Closings
      BY <3>1 DEF Typed, TypeOK, Jobs
    <3>3. historical' \subseteq HistoricalTrades /\ active' \subseteq Trade
      BY <2>15, <3>2 DEF MoveOnOwnConnection, HistoricalTrades, Typed, TypeOK
    <3> QED
      BY <2>15, <3>1, <3>2, <3>3, HourStepTyped
         DEF MoveOnOwnConnection, Typed, TypeOK, clockVars, HourPcs
  <2>16. ASSUME NEW r \in Run, UpdateInTransaction(r) PROVE Typed'
    <3> DEFINE done == [job[r] EXCEPT !.pc = "commit"]
    <3>1. /\ job[r].pc = "move" /\ job' = [job EXCEPT ![r] = done] /\ portfolio' = portfolio
          /\ pending' = [pending EXCEPT ![r].portfolio = NewPortfolio(r)]
      BY <2>16 DEF UpdateInTransaction, AllMoved, tables
    <3>2. done \in Jobs /\ done.pc = "commit" /\ done.user = job[r].user
      BY DEF Typed, TypeOK, Jobs, JobPcs
    <3>3. NewPortfolio(r) \in Portfolios
      BY <3>1, NewPortfolioType
    <3>4. pending' \in [Run -> [moves : SUBSET Closings, portfolio : Portfolios \cup {None}]]
      BY <3>1, <3>3 DEF Typed, TypeOK
    <3> QED
      BY <2>16, <3>1, <3>2, <3>4, HourStepTyped
         DEF UpdateInTransaction, Typed, TypeOK, clockVars, tables, HourPcs
  <2>17. ASSUME NEW r \in Run, UpdateOnOwnConnection(r) PROVE Typed'
    <3> DEFINE done == [job[r] EXCEPT !.pc = "commit"]
    <3>1. /\ job[r].pc = "move" /\ job' = [job EXCEPT ![r] = done]
          /\ portfolio' = [portfolio EXCEPT ![job[r].user] = NewPortfolio(r)]
      BY <2>17 DEF UpdateOnOwnConnection, AllMoved
    <3>2. done \in Jobs /\ done.pc = "commit" /\ done.user = job[r].user
      BY DEF Typed, TypeOK, Jobs, JobPcs
    <3>3. NewPortfolio(r) \in Portfolios
      BY <3>1, NewPortfolioType
    <3>4. /\ portfolio' \in [User -> Portfolios \cup {None}]
          /\ \A u \in User : portfolio[u] # None => portfolio'[u] # None
      BY <3>1, <3>3, NoneAssumption DEF Typed, TypeOK
    <3> QED
      BY <2>17, <3>1, <3>2, <3>4, HourStepTyped
         DEF UpdateOnOwnConnection, Typed, TypeOK, clockVars, HourPcs
  <2>18. ASSUME NEW r \in Run, Commit(r) PROVE Typed'
    <3> DEFINE p == pending[r].portfolio
    <3>1. /\ job[r].pc = "commit" /\ job' = [job EXCEPT ![r] = HourDone(job[r])]
          /\ portfolio' = IF p = None THEN portfolio
                          ELSE [portfolio EXCEPT ![job[r].user] = p]
          /\ pending' = [pending EXCEPT ![r] = NoWrites]
          /\ active' = active \ MovedIds(pending[r].moves)
          /\ historical' = historical \cup pending[r].moves
          /\ activeConn' = None
      BY <2>18 DEF Commit
    <3>2. p \in Portfolios \cup {None} /\ pending[r].moves \in SUBSET Closings
      BY DEF Typed, TypeOK
    <3>3. /\ portfolio' \in [User -> Portfolios \cup {None}]
          /\ \A u \in User : portfolio[u] # None => portfolio'[u] # None
      BY <3>1, <3>2 DEF Typed, TypeOK
    <3>4. /\ active' \subseteq Trade /\ historical' \subseteq HistoricalTrades
          /\ pending' \in [Run -> [moves : SUBSET Closings, portfolio : Portfolios \cup {None}]]
          /\ activeConn' \in Run \cup {None}
      BY <3>1, <3>2, NoWritesType DEF HistoricalTrades, Typed, TypeOK
    <3> QED
      BY <2>18, <3>1, <3>3, <3>4, HourStepTyped
         DEF Commit, Typed, TypeOK, clockVars, HourPcs
  <2>19. ASSUME NEW r \in Run, BeginSaving(r) PROVE Typed'
    <3>1. LastPassedHour \in Int /\ "save" \in JobPcs
      BY DEF Typed, TypeOK, LastPassedHour, JobPcs, SavePcs
    <3>2. /\ Between("save", User, LastPassedHour) \in Jobs
          /\ Between("save", User, LastPassedHour).pc = "save"
      BY <3>1, BetweenType DEF Between
    <3> QED
      BY <2>19, <3>2, SaveStepTyped
         DEF BeginSaving, Typed, TypeOK, tables, UserPcs, HourPcs
  <2>20. ASSUME NEW r \in Run, NEW u \in User, CheckLastRecorded(r, u) PROVE Typed'
    <3> DEFINE j == [job[r] EXCEPT !.user = u, !.left = @ \ {u}]
               unsaved == [j EXCEPT !.pc = "save_portfolio"]
    <3>1. j \in Jobs /\ j.user = u
      BY DEF Typed, TypeOK, Jobs
    <3>2. unsaved \in Jobs /\ unsaved.pc = "save_portfolio" /\ unsaved.user = u
      <4> HIDE DEF j
      <4> QED BY <3>1 DEF Jobs, JobPcs, SavePcs
    <3>3. SavedUser(j) \in Jobs /\ SavedUser(j).pc \in {"idle", "save"}
      BY <3>1, SavedUserPc
    <3> HIDE DEF j, unsaved
    <3>4. job' = [job EXCEPT ![r] = unsaved] \/ job' = [job EXCEPT ![r] = SavedUser(j)]
      BY <2>20 DEF CheckLastRecorded, j, unsaved
    <3> QED
      BY <2>20, <3>2, <3>3, <3>4, SaveStepTyped
         DEF CheckLastRecorded, Typed, TypeOK, tables, UserPcs, HourPcs
  <2>21. ASSUME NEW r \in Run, SavePortfolio(r) PROVE Typed'
    <3> DEFINE p == portfolio[job[r].user]
               create == [job[r] EXCEPT !.pc = "save_create"]
               write == [job[r] EXCEPT !.pc = "save_write", !.base = p.fills]
    <3>1. /\ job[r].pc = "save_portfolio" /\ job[r] \in Jobs
          /\ UNCHANGED <<clockVars, tables, activeConn, pending>>
      BY <2>21 DEF SavePortfolio, Typed, TypeOK
    <3>2. job[r].user \in User
      BY <3>1 DEF Typed, RowExists, UserPcs
    <3>3. create \in Jobs /\ create.pc = "save_create" /\ create.user = job[r].user
      BY <3>1 DEF Jobs, JobPcs, SavePcs
    <3>4. ASSUME p # None
          PROVE  write \in Jobs /\ write.pc = "save_write" /\ write.user = job[r].user
      <4>1. p.fills \in SUBSET Fills /\ "save_write" \in JobPcs
        BY <3>2, <3>4 DEF Typed, TypeOK, Portfolios, JobPcs, SavePcs
      <4> HIDE DEF p
      <4> QED BY <3>1, <4>1 DEF Jobs
    <3>5. SavedUser(job[r]) \in Jobs /\ SavedUser(job[r]).pc \in {"idle", "save"}
      BY <3>1, SavedUserPc
    <3> HIDE DEF create, write, p
    <3>6. \/ job' = [job EXCEPT ![r] = create]
          \/ job' = [job EXCEPT ![r] = SavedUser(job[r])]
          \/ p # None /\ job' = [job EXCEPT ![r] = write]
      BY <2>21 DEF SavePortfolio, create, write, p
    <3> QED
      BY <3>1, <3>2, <3>3, <3>4, <3>5, <3>6, SaveStepTyped
         DEF Typed, TypeOK, tables, UserPcs, HourPcs
  <2>22. ASSUME NEW r \in Run, SaveCreatedPortfolio(r) PROVE Typed'
    <3> DEFINE write == [job[r] EXCEPT !.pc = "save_write", !.base = {}]
    <3>1. /\ job[r].pc = "save_create" /\ job[r] \in Jobs
          /\ job' = [job EXCEPT ![r] = write]
          /\ portfolio' = [portfolio EXCEPT ![job[r].user] = DefaultPortfolio]
          /\ UNCHANGED <<clockVars, active, activeFrom, historical, states, activeConn, pending>>
      BY <2>22 DEF SaveCreatedPortfolio, Typed, TypeOK
    <3>2. job[r].user \in User
      BY <3>1 DEF Typed, RowExists, UserPcs
    <3>3. write \in Jobs /\ write.pc = "save_write" /\ write.user = job[r].user
      BY <3>1 DEF Jobs, JobPcs, SavePcs
    <3>4. DefaultPortfolio \in Portfolios
      BY DEF DefaultPortfolio, Portfolios, Typed, TypeOK
    <3>5. /\ portfolio' \in [User -> Portfolios \cup {None}]
          /\ \A u \in User : portfolio[u] # None => portfolio'[u] # None
      BY <3>1, <3>4, NoneAssumption DEF Typed, TypeOK
    <3> QED
      BY <3>1, <3>2, <3>3, <3>5, SaveStepTyped DEF Typed, TypeOK, HourPcs
  <2>23. ASSUME NEW r \in Run, RecordState(r) PROVE Typed'
    <3>1. /\ job[r].pc = "save_write" /\ job[r] \in Jobs
          /\ job' = [job EXCEPT ![r] = SavedUser(job[r])]
          /\ UNCHANGED <<clockVars, active, activeFrom, historical, portfolio, activeConn, pending>>
      BY <2>23 DEF RecordState, Typed, TypeOK
    <3>2. job[r].user \in User /\ job[r].hour \in Int /\ job[r].base \in SUBSET Fills
      BY <3>1 DEF Typed, RowExists, UserPcs, Jobs
    <3>3. states' \subseteq [user : User, hour : Int, fills : SUBSET Fills]
      BY <2>23, <3>2 DEF RecordState, Typed, TypeOK
    <3> QED
      BY <3>1, <3>3, SavedUserPc, SaveStepTyped DEF Typed, TypeOK, UserPcs, HourPcs
  <2>24. ASSUME NEW r \in Run, NEW u \in User, BeginUserRaises(r, u) PROVE Typed'
    <3> DEFINE skipped == [job[r] EXCEPT !.left = @ \ {u}]
    <3>1. job[r].pc = "next_user" /\ job' = [job EXCEPT ![r] = skipped]
      BY <2>24 DEF BeginUserRaises
    <3>2. skipped \in Jobs /\ skipped.pc = "next_user"
      BY <3>1 DEF Typed, TypeOK, Jobs
    <3> QED
      BY <2>24, <3>1, <3>2, SaveStepTyped
         DEF BeginUserRaises, Typed, TypeOK, tables, UserPcs, HourPcs
  <2>25. ASSUME NEW r \in Run, Raises(r) PROVE Typed'
    BY <2>25, RaisesRaise, RaiseTyped
  <2> QED
    BY <2>1, <2>2, <2>3, <2>4, <2>5, <2>6, <2>7, <2>8, <2>9, <2>10, <2>11, <2>12, <2>13,
       <2>14, <2>15, <2>16, <2>17, <2>18, <2>19, <2>20, <2>21, <2>22, <2>23, <2>24, <2>25
       DEF Next, Requests, Fastforward, ExecuteHour, SaveStates, Raises
<1> QED
  BY <1>1, <1>2, PTL DEF Spec

\* Every column and every local variable keeps its type.
THEOREM Typing == Spec => []TypeOK
  <1>1. Typed => TypeOK
    BY DEF Typed
  <1> QED
    BY <1>1, AlwaysTyped, PTL
=============================================================================
