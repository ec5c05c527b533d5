----------------------- MODULE TradeExecutionSafety -----------------------
(* Overlapping runs and requests close no trade twice and leave no fill in  *)
(* a portfolio whose trade is not executed, for any users, trades and runs. *)
EXTENDS TradeExecutionProofs

-----------------------------------------------------------------------------
(* The invariant.                                                          *)

\* Executed, of any set of closed trades.
ExecutedIn(closed, u) == {<<c.id, c.hour>> : c \in {d \in closed : /\ d.status = "executed"
                                                                   /\ Owner[d.id] = u}}

OneWriter == \A r, s \in Run : HoldsWriteLock(r) /\ HoldsWriteLock(s) => r = s

\* What a run in place j with the uncommitted writes w keeps of its trades,
\* while act are the rows of active_trades.  A trade it is about to close is in
\* one of three places once, and stays active until the move of it commits.
Bookkeeping(j, w, act) ==
    /\ w # NoWrites => j.pc \in TransactionPcs
    /\ j.pc \notin {"portfolio", "prices", "try"} => j.todo = {}
    /\ j.pc \notin {"try", "move"} => j.closings = {}
    /\ j.todo \cap MovedIds(j.closings) = {}
    /\ \A c, d \in j.closings \cup w.moves : c.id = d.id => c = d
    /\ MovedIds(w.moves) \subseteq act

\* And of its fills: each is a trade that is executed, or that the run is still
\* to record as executed in the same transaction.
Accounted(j, w, closed) ==
    /\ w.portfolio # None =>
           /\ j.pc = "commit"
           /\ w.portfolio.fills \subseteq ExecutedIn(closed \cup w.moves, j.user)
    /\ \A t \in j.todo : Owner[t] = j.user
    /\ j.pc \in {"prices", "try", "move"} =>
           j.base \subseteq ExecutedIn(closed \cup j.closings \cup w.moves, j.user)

RunConsistent(r) == /\ Bookkeeping(job[r], pending[r], active)
                    /\ Accounted(job[r], pending[r], historical)

Consistent ==
    /\ Typed
    /\ OneWriter
    /\ \A r \in Run : RunConsistent(r)
    /\ ClosedOnce
    /\ NoGhostFill

-----------------------------------------------------------------------------
(* Lemmas about the parts of the invariant.                                *)

\* A fill is executed in closed when one of its trades is the fill's.
LEMMA InExecuted ==
  ASSUME NEW closed, NEW u, NEW c \in closed, c.status = "executed", Owner[c.id] = u
  PROVE  <<c.id, c.hour>> \in ExecutedIn(closed, u)
  BY DEF ExecutedIn

LEMMA ExecutedGrows ==
  ASSUME NEW closed, NEW more, closed \subseteq more, NEW u
  PROVE  ExecutedIn(closed, u) \subseteq ExecutedIn(more, u)
  BY DEF ExecutedIn

LEMMA ExecutedIsExecutedIn == ASSUME NEW u PROVE Executed(u) = ExecutedIn(historical, u)
  BY DEF Executed, ExecutedIn

\* More active trades and more closed ones disturb no run.
LEMMA MoreActive ==
  ASSUME NEW j, NEW w, NEW act, NEW act2, Bookkeeping(j, w, act),
         w = NoWrites \/ act \subseteq act2
  PROVE  Bookkeeping(j, w, act2)
  BY DEF Bookkeeping, NoWrites, MovedIds

LEMMA MoreClosed ==
  ASSUME NEW j, NEW w, NEW closed, NEW closed2, Accounted(j, w, closed),
         closed \subseteq closed2
  PROVE  Accounted(j, w, closed2)
  <1>1. ExecutedIn(closed \cup w.moves, j.user)
          \subseteq ExecutedIn(closed2 \cup w.moves, j.user)
    BY DEF ExecutedIn
  <1>2. ExecutedIn(closed \cup j.closings \cup w.moves, j.user)
          \subseteq ExecutedIn(closed2 \cup j.closings \cup w.moves, j.user)
    BY DEF ExecutedIn
  <1> QED
    BY <1>1, <1>2 DEF Accounted

\* A run outside the hours of a user, or at their start, that has nothing
\* to close.
LEMMA NothingToClose ==
  ASSUME NEW j, j.todo = {}, j.closings = {},
         j.pc \notin {"prices", "try", "move"}, NEW act, NEW closed
  PROVE  Bookkeeping(j, NoWrites, act) /\ Accounted(j, NoWrites, closed)
  BY DEF Bookkeeping, Accounted, NoWrites, MovedIds

LEMMA UserDoneCloses ==
  ASSUME NEW j \in Jobs
  PROVE  /\ UserDone(j).pc = "next_user"
         /\ UserDone(j).todo = {} /\ UserDone(j).closings = {}
  BY DEF UserDone, Between

LEMMA HourDoneCloses ==
  ASSUME NEW j \in Jobs
  PROVE  /\ HourDone(j).pc \in {"next_user", "trades"}
         /\ HourDone(j).todo = {} /\ HourDone(j).closings = {}
  BY UserDoneCloses DEF HourDone, Jobs

LEMMA IdleCloses ==
  IdleJob.pc = "idle" /\ IdleJob.todo = {} /\ IdleJob.closings = {}
  BY DEF IdleJob, Between

LEMMA SavedUserCloses ==
  ASSUME NEW j \in Jobs, j.todo = {}, j.closings = {}
  PROVE  /\ SavedUser(j).pc \in {"idle", "save"}
         /\ SavedUser(j).todo = {} /\ SavedUser(j).closings = {}
  BY IdleCloses DEF SavedUser, Jobs

\* What a fill needs to stay backed by its trade: rows only grow by fills that
\* are executed, and executed trades stay so.
LEMMA FillsStayExecuted ==
  ASSUME NoGhostFill, historical \subseteq historical',
         \A u \in User : \/ portfolio'[u] = portfolio[u]
                         \/ /\ portfolio'[u] # None
                            /\ portfolio'[u].fills \subseteq ExecutedIn(historical', u)
  PROVE  NoGhostFill'
  <1> SUFFICES ASSUME NEW u \in User, portfolio'[u] # None
               PROVE  portfolio'[u].fills \subseteq ExecutedIn(historical', u)
    BY ExecutedIsExecutedIn DEF NoGhostFill, Executed, ExecutedIn
  <1>1. CASE portfolio'[u] = portfolio[u]
    <2>1. portfolio[u].fills \subseteq ExecutedIn(historical, u)
      BY <1>1, ExecutedIsExecutedIn DEF NoGhostFill
    <2>2. ExecutedIn(historical, u) \subseteq ExecutedIn(historical', u)
      BY ExecutedGrows
    <2> QED
      BY <1>1, <2>1, <2>2
  <1> QED
    BY <1>1

\* A run that a step does not move, and whose writes it keeps, stays
\* consistent: nobody takes away an active trade while it holds the write lock.
LEMMA OthersStayConsistent ==
  ASSUME Consistent, NEW s \in Run,
         job'[s] = job[s], pending'[s] = pending[s],
         pending[s] = NoWrites \/ active \subseteq active',
         historical \subseteq historical'
  PROVE  RunConsistent(s)'
  <1>1. RunConsistent(s)
    BY DEF Consistent
  <1>2. Bookkeeping(job[s], pending[s], active')
    BY <1>1, MoreActive DEF RunConsistent
  <1>3. Accounted(job[s], pending[s], historical')
    BY <1>1, MoreClosed DEF RunConsistent
  <1> QED
    BY <1>2, <1>3 DEF RunConsistent

\* A run gets the write lock only while nobody else has it.
LEMMA StillOneWriter ==
  ASSUME OneWriter, NEW r \in Run,
         \A s \in Run \ {r} : pending'[s] = pending[s],
         \/ pending'[r] = pending[r] \/ pending'[r] = NoWrites
         \/ OthersWriteNothing(r)
  PROVE  OneWriter'
  BY DEF OneWriter, HoldsWriteLock, OthersWriteNothing

-----------------------------------------------------------------------------
(* Steps.                                                                  *)

\* A step of run r keeps the invariant if it does so for r, for the closed
\* trades and for the portfolios.
LEMMA RunStep ==
  ASSUME Consistent, Typed', NEW r \in Run, NEW j, NEW w,
         job' = [job EXCEPT ![r] = j], pending' = [pending EXCEPT ![r] = w],
         w \in {pending[r], NoWrites} \/ OthersWriteNothing(r),
         active \subseteq active' \/ OthersWriteNothing(r),
         historical \subseteq historical',
         Bookkeeping(j, w, active'), Accounted(j, w, historical'),
         ClosedOnce', NoGhostFill'
  PROVE  Consistent'
  <1>1. job[r] \in Jobs /\ job'[r] = j /\ pending'[r] = w
    BY DEF Consistent, Typed, TypeOK
  <1>2. \A s \in Run \ {r} : job'[s] = job[s] /\ pending'[s] = pending[s]
    BY DEF Consistent, Typed, TypeOK
  <1>3. ASSUME NEW s \in Run PROVE RunConsistent(s)'
    <2>1. CASE s = r
      BY <1>1, <2>1 DEF RunConsistent
    <2>2. CASE s # r
      <3>1. pending[s] = NoWrites \/ active \subseteq active'
        BY <2>2 DEF OthersWriteNothing, HoldsWriteLock
      <3> QED
        BY <1>2, <2>2, <3>1, OthersStayConsistent
    <2> QED
      BY <2>1, <2>2
  <1>4. OneWriter'
    BY <1>1, <1>2, StillOneWriter DEF Consistent
  <1> QED
    BY <1>3, <1>4 DEF Consistent

\* A run that leaves the hour it was in, or is between users, drops what it
\* had not committed.  Portfolios may be created meanwhile.
LEMMA RunLeaves ==
  ASSUME Consistent, Typed', NEW r \in Run, NEW j,
         job' = [job EXCEPT ![r] = j], pending' = [pending EXCEPT ![r] = NoWrites],
         j.todo = {}, j.closings = {}, j.pc \notin {"prices", "try", "move"},
         active' = active, historical' = historical,
         \A u \in User : \/ portfolio'[u] = portfolio[u]
                         \/ portfolio'[u] # None /\ portfolio'[u].fills = {}
  PROVE  Consistent'
  <1>1. Bookkeeping(j, NoWrites, active') /\ Accounted(j, NoWrites, historical')
    BY NothingToClose
  <1>2. ClosedOnce'
    BY DEF Consistent, ClosedOnce
  <1>3. NoGhostFill'
    BY FillsStayExecuted DEF Consistent
  <1> QED
    BY <1>1, <1>2, <1>3, RunStep

\* A step that changes only the place and the local variables of a run.
LEMMA RunContinues ==
  ASSUME Consistent, Typed', NEW r \in Run, NEW j,
         job' = [job EXCEPT ![r] = j],
         UNCHANGED <<active, historical, portfolio, pending>>,
         Bookkeeping(j, pending[r], active), Accounted(j, pending[r], historical)
  PROVE  Consistent'
  <1>1. pending' = [pending EXCEPT ![r] = pending[r]]
    BY DEF Consistent, Typed, TypeOK
  <1>2. ClosedOnce' /\ NoGhostFill'
    BY DEF Consistent, ClosedOnce, NoGhostFill, Executed
  <1> QED
    BY <1>1, <1>2, RunStep

\* A step of a request.
LEMMA RequestStep ==
  ASSUME Consistent, Typed', UNCHANGED <<job, pending>>,
         active \subseteq active' \/ NobodyWrites,
         historical \subseteq historical',
         ClosedOnce', NoGhostFill'
  PROVE  Consistent'
  <1>1. ASSUME NEW s \in Run PROVE RunConsistent(s)'
    BY OthersStayConsistent DEF NobodyWrites, HoldsWriteLock
  <1>2. OneWriter'
    BY DEF Consistent, OneWriter, HoldsWriteLock
  <1> QED
    BY <1>1, <1>2 DEF Consistent

\* Outside a transaction nothing is uncommitted.
LEMMA NothingUncommitted ==
  ASSUME Consistent, NEW r \in Run, job[r].pc \notin TransactionPcs
  PROVE  pending[r] = NoWrites /\ pending = [pending EXCEPT ![r] = NoWrites]
  <1>1. pending[r] = NoWrites
    BY DEF Consistent, RunConsistent, Bookkeeping
  <1> QED
    BY <1>1 DEF Consistent, Typed, TypeOK

LEMMA RaiseConsistent ==
  ASSUME Consistent, Typed', NEW r \in Run, Raise(r) PROVE Consistent'
  <1>1. pending' = [pending EXCEPT ![r] = NoWrites]
    BY NothingUncommitted DEF Raise
  <1>2. PICK j \in {IdleJob, UserDone(job[r])} : job' = [job EXCEPT ![r] = j]
    BY DEF Raise
  <1>3. job[r] \in Jobs
    BY DEF Consistent, Typed, TypeOK
  <1>4. j.todo = {} /\ j.closings = {} /\ j.pc \notin {"prices", "try", "move"}
    BY <1>3, IdleCloses, UserDoneCloses
  <1>5. active' = active /\ historical' = historical /\ portfolio' = portfolio
    BY DEF Raise, tables
  <1> QED
    BY <1>1, <1>2, <1>4, <1>5, RunLeaves

-----------------------------------------------------------------------------
(* The steps that close a trade or write a portfolio.                      *)

\* _try_execute_trade: the trade leaves the list for the closings at most once.
LEMMA TryTradeConsistent ==
  ASSUME Consistent, Typed', NEW r \in Run, NEW t \in Trade, TryTrade(r, t)
  PROVE  Consistent'
  <1> DEFINE j == job[r]
             result == Outcome(t, j.hour, j.base)
             closing == [id |-> t, status |-> result, hour |-> j.hour]
             base == IF result = "executed" THEN j.base \cup {<<t, j.hour>>} ELSE j.base
             closings == IF result \in ClosingStatuses THEN j.closings \cup {closing}
                         ELSE j.closings
             tried == [j EXCEPT !.todo = @ \ {t}, !.base = base, !.closings = closings]
  <1>1. /\ j \in Jobs /\ j.pc = "try" /\ t \in j.todo
        /\ job' = [job EXCEPT ![r] = tried]
        /\ UNCHANGED <<active, historical, portfolio, pending>>
    BY DEF TryTrade, IsFirst, Consistent, Typed, TypeOK, tables
  <1>2. pending[r] = NoWrites
    BY <1>1, NothingUncommitted DEF TransactionPcs
  <1>3. Bookkeeping(j, pending[r], active) /\ Accounted(j, pending[r], historical)
    BY DEF Consistent, RunConsistent
  <1> HIDE DEF closings, base
  <1>4. /\ tried.pc = "try" /\ tried.user = j.user /\ tried.todo = j.todo \ {t}
        /\ tried.base = base /\ tried.closings = closings
    BY <1>1 DEF Jobs
  <1> HIDE DEF tried, j, result
  <1>5. Bookkeeping(tried, NoWrites, active)
    <2>1. t \notin MovedIds(j.closings)
      BY <1>1, <1>3 DEF Bookkeeping
    <2>2. closings \subseteq j.closings \cup {closing}
      BY DEF closings
    <2>3. \A c, d \in closings : c.id = d.id => c = d
      BY <1>3, <2>1, <2>2 DEF Bookkeeping, MovedIds
    <2>4. (j.todo \ {t}) \cap MovedIds(closings) = {}
      BY <1>3, <2>2 DEF Bookkeeping, MovedIds
    <2> QED
      BY <1>4, <2>3, <2>4 DEF Bookkeeping, NoWrites, MovedIds
  <1>6. Accounted(tried, NoWrites, historical)
    <2>1. base \subseteq ExecutedIn(historical \cup closings \cup NoWrites.moves, j.user)
      <3>1. j.base \subseteq ExecutedIn(historical \cup closings \cup NoWrites.moves, j.user)
        <4>1. j.base \subseteq ExecutedIn(historical \cup j.closings \cup NoWrites.moves, j.user)
          BY <1>1, <1>2, <1>3 DEF Accounted
        <4>2. j.closings \subseteq closings
          BY DEF closings
        <4> QED
          BY <4>1, <4>2 DEF ExecutedIn
      <3>2. CASE result = "executed"
        <4>1. closing \in closings
          BY <3>2 DEF closings, ClosingStatuses
        <4>2. closing.status = "executed" /\ closing.id = t /\ closing.hour = j.hour
          BY <3>2
        <4>3. Owner[t] = j.user
          BY <1>1, <1>3 DEF Accounted
        <4> HIDE DEF closing
        <4>4. <<t, j.hour>> \in ExecutedIn(historical \cup closings \cup NoWrites.moves, j.user)
          <5>1. closing \in historical \cup closings \cup NoWrites.moves
            BY <4>1
          <5>2. <<closing.id, closing.hour>>
                   \in ExecutedIn(historical \cup closings \cup NoWrites.moves, j.user)
            BY <4>2, <4>3, <5>1, InExecuted
          <5> QED
            BY <4>2, <5>2
        <4> QED
          BY <3>1, <3>2, <4>4 DEF base
      <3> QED
        BY <3>1, <3>2 DEF base
    <2>2. \A x \in j.todo \ {t} : Owner[x] = j.user
      BY <1>3 DEF Accounted
    <2> QED
      BY <1>4, <2>1, <2>2 DEF Accounted, NoWrites
  <1> QED
    BY <1>1, <1>2, <1>5, <1>6, RunContinues

\* The trade that moves is active, so it was not closed before.
LEMMA MoveInTransactionConsistent ==
  ASSUME Consistent, Typed', NEW r \in Run, NEW c \in job[r].closings,
         MoveInTransaction(r, c)
  PROVE  Consistent'
  <1> DEFINE j == job[r]
             moved == [j EXCEPT !.closings = @ \ {c}]
             w == [pending[r] EXCEPT !.moves = @ \cup {c}]
  <1>1. /\ j \in Jobs /\ j.pc = "move" /\ c.id \in active
        /\ job' = [job EXCEPT ![r] = moved]
        /\ pending' = [pending EXCEPT ![r] = w]
        /\ OthersWriteNothing(r)
        /\ UNCHANGED <<active, historical, portfolio>>
    BY DEF MoveInTransaction, NextMove, Consistent, Typed, TypeOK, tables
  <1>2. Bookkeeping(j, pending[r], active) /\ Accounted(j, pending[r], historical)
    BY DEF Consistent, RunConsistent
  <1>3. /\ moved.pc = "move" /\ moved.user = j.user /\ moved.todo = j.todo
        /\ moved.base = j.base /\ moved.closings = j.closings \ {c}
        /\ w.moves = pending[r].moves \cup {c} /\ w.portfolio = pending[r].portfolio
    BY <1>1 DEF Jobs, Consistent, Typed, TypeOK
  <1>4. c \in j.closings
    OBVIOUS
  <1> HIDE DEF moved, w, j
  <1>5. Bookkeeping(moved, w, active)
    <2>1. moved.closings \cup w.moves \subseteq j.closings \cup pending[r].moves
      BY <1>3, <1>4
    <2>2. MovedIds(w.moves) \subseteq active /\ MovedIds(moved.closings) \subseteq MovedIds(j.closings)
      BY <1>1, <1>2, <1>3 DEF Bookkeeping, MovedIds
    <2> QED
      BY <1>1, <1>2, <1>3, <2>1, <2>2 DEF Bookkeeping, TransactionPcs
  <1>6. Accounted(moved, w, historical)
    <2>1. historical \cup moved.closings \cup w.moves = historical \cup j.closings \cup pending[r].moves
      BY <1>3, <1>4
    <2> QED
      BY <1>1, <1>2, <1>3, <2>1 DEF Accounted
  <1>7. ClosedOnce' /\ NoGhostFill'
    BY <1>1 DEF Consistent, ClosedOnce, NoGhostFill, Executed
  <1> QED
    BY <1>1, <1>5, <1>6, <1>7, RunStep

LEMMA MoveOnOwnConnectionConsistent ==
  ASSUME Consistent, Typed', NEW r \in Run, NEW c \in job[r].closings,
         MoveOnOwnConnection(r, c)
  PROVE  Consistent'
  <1> DEFINE j == job[r]
             moved == [j EXCEPT !.closings = @ \ {c}]
  <1>1. /\ j \in Jobs /\ j.pc = "move" /\ c.id \in active
        /\ job' = [job EXCEPT ![r] = moved]
        /\ OthersWriteNothing(r) /\ pending[r] = NoWrites
        /\ active' = active \ {c.id} /\ historical' = historical \cup {c}
        /\ pending' = [pending EXCEPT ![r] = NoWrites] /\ portfolio' = portfolio
    BY DEF MoveOnOwnConnection, NextMove, NobodyWrites, OthersWriteNothing, HoldsWriteLock,
           Consistent, Typed, TypeOK
  <1>2. Bookkeeping(j, NoWrites, active) /\ Accounted(j, NoWrites, historical)
    BY <1>1 DEF Consistent, RunConsistent
  <1>3. /\ moved.pc = "move" /\ moved.user = j.user /\ moved.todo = j.todo
        /\ moved.base = j.base /\ moved.closings = j.closings \ {c}
    BY <1>1 DEF Jobs
  <1>4. c \in j.closings
    OBVIOUS
  <1> HIDE DEF moved, j
  <1>5. Bookkeeping(moved, NoWrites, active')
    <2>1. /\ moved.closings \cup NoWrites.moves \subseteq j.closings \cup NoWrites.moves
          /\ MovedIds(moved.closings) \subseteq MovedIds(j.closings)
          /\ MovedIds(NoWrites.moves) = {}
      BY <1>3 DEF MovedIds, NoWrites
    <2> QED
      BY <1>1, <1>2, <1>3, <2>1 DEF Bookkeeping
  <1>6. Accounted(moved, NoWrites, historical')
    <2>1. historical' \cup moved.closings \cup NoWrites.moves = historical \cup j.closings \cup NoWrites.moves
      BY <1>1, <1>3, <1>4
    <2> QED
      BY <1>1, <1>2, <1>3, <2>1 DEF Accounted, NoWrites
  <1>7. ClosedOnce'
    BY <1>1 DEF Consistent, ClosedOnce, MovedIds
  <1>8. NoGhostFill'
    BY <1>1, FillsStayExecuted DEF Consistent
  <1> QED
    BY <1>1, <1>5, <1>6, <1>7, <1>8, RunStep

\* The row a run writes holds what was executed and what it is about to
\* commit as executed.
LEMMA UpdateInTransactionConsistent ==
  ASSUME Consistent, Typed', NEW r \in Run, UpdateInTransaction(r)
  PROVE  Consistent'
  <1> DEFINE j == job[r]
             done == [j EXCEPT !.pc = "commit"]
             w == [pending[r] EXCEPT !.portfolio = NewPortfolio(r)]
  <1>1. /\ j \in Jobs /\ j.pc = "move" /\ j.closings = {}
        /\ job' = [job EXCEPT ![r] = done]
        /\ pending' = [pending EXCEPT ![r] = w]
        /\ OthersWriteNothing(r)
        /\ UNCHANGED <<active, historical, portfolio>>
    BY DEF UpdateInTransaction, AllMoved, Consistent, Typed, TypeOK, tables
  <1>2. Bookkeeping(j, pending[r], active) /\ Accounted(j, pending[r], historical)
    BY DEF Consistent, RunConsistent
  <1>3. /\ done.pc = "commit" /\ done.user = j.user /\ done.todo = j.todo
        /\ done.closings = {}
        /\ w.moves = pending[r].moves /\ w.portfolio.fills = j.base
    BY <1>1 DEF Jobs, Consistent, Typed, TypeOK, NewPortfolio
  <1> HIDE DEF done, w, j
  <1>4. Bookkeeping(done, w, active)
    BY <1>1, <1>2, <1>3 DEF Bookkeeping, TransactionPcs
  <1>5. Accounted(done, w, historical)
    <2>1. historical \cup j.closings \cup pending[r].moves = historical \cup w.moves
      BY <1>1, <1>3
    <2>2. j.todo = {}
      BY <1>1, <1>2 DEF Bookkeeping
    <2> QED
      BY <1>1, <1>2, <1>3, <2>1, <2>2 DEF Accounted
  <1>6. ClosedOnce' /\ NoGhostFill'
    BY <1>1 DEF Consistent, ClosedOnce, NoGhostFill, Executed
  <1> QED
    BY <1>1, <1>4, <1>5, <1>6, RunStep

\* On a connection of its own it has moved all of them already.
LEMMA UpdateOnOwnConnectionConsistent ==
  ASSUME Consistent, Typed', NEW r \in Run, UpdateOnOwnConnection(r)
  PROVE  Consistent'
  <1> DEFINE j == job[r]
             done == [j EXCEPT !.pc = "commit"]
  <1>1. /\ j \in Jobs /\ j.pc = "move" /\ j.closings = {}
        /\ job' = [job EXCEPT ![r] = done]
        /\ pending[r] = NoWrites /\ pending' = [pending EXCEPT ![r] = NoWrites]
        /\ portfolio' = [portfolio EXCEPT ![j.user] = NewPortfolio(r)]
        /\ UNCHANGED <<active, historical>>
    BY DEF UpdateOnOwnConnection, AllMoved, NobodyWrites, HoldsWriteLock,
           Consistent, Typed, TypeOK
  <1>2. Bookkeeping(j, NoWrites, active) /\ Accounted(j, NoWrites, historical)
    BY <1>1 DEF Consistent, RunConsistent
  <1>3. NewPortfolio(r) \in Portfolios /\ NewPortfolio(r).fills = j.base
    BY <1>1, NewPortfolioType DEF Consistent, NewPortfolio
  <1>4. done.pc = "commit" /\ done.todo = {} /\ done.closings = {}
    BY <1>1, <1>2 DEF Jobs, Bookkeeping
  <1> HIDE DEF done, j
  <1>5. Bookkeeping(done, NoWrites, active') /\ Accounted(done, NoWrites, historical')
    BY <1>4, NothingToClose
  <1>6. ClosedOnce'
    BY <1>1 DEF Consistent, ClosedOnce
  <1>7. NoGhostFill'
    <2>1. j.base \subseteq ExecutedIn(historical, j.user)
      <3>1. historical \cup j.closings \cup NoWrites.moves = historical
        BY <1>1 DEF NoWrites
      <3> QED
        BY <1>1, <1>2, <3>1 DEF Accounted
    <2>2. ASSUME NEW u \in User, u = j.user
          PROVE  portfolio'[u] # None /\ portfolio'[u].fills \subseteq ExecutedIn(historical', u)
      <3>1. portfolio'[u] = NewPortfolio(r)
        BY <1>1, <2>2 DEF Consistent, Typed, TypeOK
      <3> QED
        BY <1>1, <1>3, <2>1, <2>2, <3>1, NoneAssumption
    <2>3. ASSUME NEW u \in User, u # j.user PROVE portfolio'[u] = portfolio[u]
      BY <1>1, <2>3 DEF Consistent, Typed, TypeOK
    <2> QED
      BY <1>1, <2>2, <2>3, FillsStayExecuted DEF Consistent
  <1> QED
    BY <1>1, <1>5, <1>6, <1>7, RunStep

\* A commit turns all the closings into closed trades with the row they are
\* in, or, when they moved on another connection, has nothing to add.
LEMMA CommitConsistent ==
  ASSUME Consistent, Typed', NEW r \in Run, Commit(r)
  PROVE  Consistent'
  <1> DEFINE j == job[r]
             moves == pending[r].moves
             p == pending[r].portfolio
             done == HourDone(j)
  <1>1. /\ j \in Jobs /\ j.pc = "commit"
        /\ job' = [job EXCEPT ![r] = done]
        /\ pending' = [pending EXCEPT ![r] = NoWrites]
        /\ active' = active \ MovedIds(moves)
        /\ historical' = historical \cup moves
        /\ portfolio' = IF p = None THEN portfolio ELSE [portfolio EXCEPT ![j.user] = p]
    BY DEF Commit, Consistent, Typed, TypeOK
  <1>2. Bookkeeping(j, pending[r], active) /\ Accounted(j, pending[r], historical)
    BY DEF Consistent, RunConsistent
  <1>3. done.pc \in {"next_user", "trades"} /\ done.todo = {} /\ done.closings = {}
    BY <1>1, HourDoneCloses
  <1>4. active \subseteq active' \/ OthersWriteNothing(r)
    <2>1. CASE HoldsWriteLock(r)
      BY <2>1 DEF Consistent, OneWriter, OthersWriteNothing
    <2>2. CASE ~HoldsWriteLock(r)
      BY <1>1, <2>2 DEF HoldsWriteLock, NoWrites, MovedIds
    <2> QED
      BY <2>1, <2>2
  <1> HIDE DEF done, j
  <1>5. Bookkeeping(done, NoWrites, active') /\ Accounted(done, NoWrites, historical')
    BY <1>3, NothingToClose
  <1>6. ClosedOnce'
    <2>1. \A c, d \in moves : c.id = d.id => c = d
      BY <1>2 DEF Bookkeeping
    <2>2. \A c \in moves : c.id \in active
      BY <1>2 DEF Bookkeeping, MovedIds
    <2>3. \A c \in historical : c.id \notin active
      BY DEF Consistent, ClosedOnce, MovedIds
    <2> HIDE DEF moves
    <2>4. active' \cap MovedIds(historical') = {}
      BY <1>1, <2>3 DEF MovedIds
    <2>5. \A c, d \in historical' : c.id = d.id => c = d
      BY <1>1, <2>1, <2>2, <2>3 DEF Consistent, ClosedOnce
    <2> QED
      BY <2>4, <2>5 DEF ClosedOnce
  <1>7. NoGhostFill'
    <2> HIDE DEF moves, p
    <2>1. p # None => p.fills \subseteq ExecutedIn(historical', j.user)
      BY <1>1, <1>2 DEF Accounted, moves, p
    <2>2. ASSUME NEW u \in User
          PROVE  \/ portfolio'[u] = portfolio[u]
                 \/ /\ portfolio'[u] # None
                    /\ portfolio'[u].fills \subseteq ExecutedIn(historical', u)
      <3>1. portfolio'[u] = portfolio[u] \/ (p # None /\ u = j.user /\ portfolio'[u] = p)
        BY <1>1 DEF Consistent, Typed, TypeOK
      <3> QED
        BY <2>1, <3>1
    <2> QED
      BY <1>1, <2>2, FillsStayExecuted DEF Consistent
  <1> QED
    BY <1>1, <1>4, <1>5, <1>6, <1>7, RunStep

-----------------------------------------------------------------------------
(* The other steps of a run.                                               *)

\* Between users, and while it saves states, a run has nothing to close.
LEMMA NothingLocal ==
  ASSUME Consistent, NEW r \in Run,
         job[r].pc \notin {"portfolio", "prices", "try", "move", "commit"}
  PROVE  /\ job[r] \in Jobs /\ job[r].todo = {} /\ job[r].closings = {}
         /\ pending = [pending EXCEPT ![r] = NoWrites]
  <1>1. job[r].todo = {} /\ job[r].closings = {}
    BY DEF Consistent, RunConsistent, Bookkeeping
  <1> QED
    BY <1>1, NothingUncommitted DEF TransactionPcs, Consistent, Typed, TypeOK

LEMMA CreatesEmpty ==
  ASSUME Consistent, NEW u \in User, portfolio' = [portfolio EXCEPT ![u] = DefaultPortfolio]
  PROVE  \A v \in User : \/ portfolio'[v] = portfolio[v]
                         \/ portfolio'[v] # None /\ portfolio'[v].fills = {}
  <1>1. DefaultPortfolio \in Portfolios /\ DefaultPortfolio.fills = {}
    BY DEF DefaultPortfolio, Portfolios, Consistent, Typed, TypeOK
  <1> QED
    BY <1>1, NoneAssumption DEF Consistent, Typed, TypeOK

LEMMA ListActiveTradesConsistent ==
  ASSUME Consistent, Typed', NEW r \in Run, ListActiveTrades(r) PROVE Consistent'
  <1> DEFINE j == job[r]
             listed == [j EXCEPT !.pc = "portfolio", !.todo = ActiveInHour(j.user, j.hour)]
  <1>1. /\ j.pc = "trades" /\ job' = [job EXCEPT ![r] = listed]
        /\ UNCHANGED <<active, historical, portfolio, pending>>
    BY DEF ListActiveTrades, tables
  <1>2. j \in Jobs /\ j.closings = {} /\ pending[r] = NoWrites
    BY <1>1, NothingLocal, NothingUncommitted DEF TransactionPcs
  <1>3. /\ listed.pc = "portfolio" /\ listed.closings = {} /\ listed.user = j.user
        /\ listed.todo = ActiveInHour(j.user, j.hour)
    BY <1>2 DEF Jobs
  <1> HIDE DEF j, listed
  <1>4. Bookkeeping(listed, NoWrites, active) /\ Accounted(listed, NoWrites, historical)
    BY <1>3 DEF Bookkeeping, Accounted, NoWrites, MovedIds, ActiveInHour
  <1> QED
    BY <1>1, <1>2, <1>4, RunContinues DEF j

LEMMA ReadPortfolioConsistent ==
  ASSUME Consistent, Typed', NEW r \in Run, ReadPortfolio(r) PROVE Consistent'
  <1> DEFINE j == job[r]
             read == [j EXCEPT !.pc = "prices", !.base = portfolio[j.user].fills]
  <1>1. /\ j.pc = "portfolio" /\ j \in Jobs
        /\ UNCHANGED <<active, historical, portfolio, pending>>
    BY DEF ReadPortfolio, tables, Consistent, Typed, TypeOK
  <1>2. pending[r] = NoWrites /\ pending = [pending EXCEPT ![r] = NoWrites]
    BY <1>1, NothingUncommitted DEF TransactionPcs
  <1>3. CASE job' = [job EXCEPT ![r] = HourDone(j)]
    BY <1>1, <1>2, <1>3, HourDoneCloses, RunLeaves
  <1>4. CASE job' = [job EXCEPT ![r] = read]
    <2>1. portfolio[j.user].fills \subseteq ExecutedIn(historical, j.user)
      <3>1. Typed /\ j.pc \in HourPcs
        BY <1>1 DEF Consistent, HourPcs
      <3>2. j.user \in User /\ portfolio[j.user] # None
        BY <3>1, RowOf
      <3> QED
        BY <3>2, ExecutedIsExecutedIn DEF Consistent, NoGhostFill
    <2>2. Bookkeeping(j, NoWrites, active) /\ Accounted(j, NoWrites, historical)
      BY <1>2 DEF Consistent, RunConsistent
    <2>3. /\ read.pc = "prices" /\ read.user = j.user /\ read.todo = j.todo
          /\ read.closings = j.closings /\ read.base = portfolio[j.user].fills
      BY <1>1 DEF Jobs
    <2> HIDE DEF j, read
    <2>4. Bookkeeping(read, NoWrites, active)
      BY <1>1, <2>2, <2>3 DEF Bookkeeping, TransactionPcs
    <2>5. Accounted(read, NoWrites, historical)
      <3>1. read.base \subseteq ExecutedIn(historical \cup read.closings \cup NoWrites.moves, j.user)
        BY <2>1, <2>3 DEF ExecutedIn
      <3> QED
        BY <2>2, <2>3, <3>1 DEF Accounted, NoWrites
    <2> QED
      BY <1>1, <1>2, <1>4, <2>4, <2>5, RunContinues
  <1> QED
    BY <1>3, <1>4 DEF ReadPortfolio

LEMMA GetPricesConsistent ==
  ASSUME Consistent, Typed', NEW r \in Run, GetPrices(r) PROVE Consistent'
  <1> DEFINE j == job[r]
             open == [j EXCEPT !.pc = "try"]
  <1>1. /\ j.pc = "prices" /\ j \in Jobs
        /\ UNCHANGED <<active, historical, portfolio, pending>>
    BY DEF GetPrices, tables, Consistent, Typed, TypeOK
  <1>2. pending[r] = NoWrites /\ pending = [pending EXCEPT ![r] = NoWrites]
    BY <1>1, NothingUncommitted DEF TransactionPcs
  <1>3. CASE job' = [job EXCEPT ![r] = HourDone(j)]
    BY <1>1, <1>2, <1>3, HourDoneCloses, RunLeaves
  <1>4. CASE job' = [job EXCEPT ![r] = open]
    <2>1. Bookkeeping(j, NoWrites, active) /\ Accounted(j, NoWrites, historical)
      BY <1>2 DEF Consistent, RunConsistent
    <2>2. /\ open.pc = "try" /\ open.user = j.user /\ open.todo = j.todo
          /\ open.closings = j.closings /\ open.base = j.base
      BY <1>1 DEF Jobs
    <2> HIDE DEF j, open
    <2>3. Bookkeeping(open, NoWrites, active) /\ Accounted(open, NoWrites, historical)
      BY <1>1, <2>1, <2>2 DEF Bookkeeping, Accounted, TransactionPcs
    <2> QED
      BY <1>1, <1>2, <1>4, <2>3, RunContinues
  <1> QED
    BY <1>3, <1>4 DEF GetPrices

LEMMA BeginTransactionConsistent ==
  ASSUME Consistent, Typed', NEW r \in Run, BeginTransaction(r) PROVE Consistent'
  <1> DEFINE j == job[r]
             moving == [j EXCEPT !.pc = "move"]
  <1>1. /\ j.pc = "try" /\ j.todo = {} /\ j \in Jobs
        /\ job' = [job EXCEPT ![r] = moving]
        /\ UNCHANGED <<active, historical, portfolio, pending>>
    BY DEF BeginTransaction, tables, Consistent, Typed, TypeOK
  <1>2. pending[r] = NoWrites
    BY <1>1, NothingUncommitted DEF TransactionPcs
  <1>3. Bookkeeping(j, NoWrites, active) /\ Accounted(j, NoWrites, historical)
    BY <1>2 DEF Consistent, RunConsistent
  <1>4. /\ moving.pc = "move" /\ moving.user = j.user /\ moving.todo = j.todo
        /\ moving.closings = j.closings /\ moving.base = j.base
    BY <1>1 DEF Jobs
  <1> HIDE DEF j, moving
  <1>5. Bookkeeping(moving, NoWrites, active) /\ Accounted(moving, NoWrites, historical)
    BY <1>1, <1>3, <1>4 DEF Bookkeeping, Accounted, TransactionPcs
  <1> QED
    BY <1>1, <1>2, <1>5, RunContinues

\* The steps of a run between users and while it saves states.
BetweenUsers(r) ==
    \/ \E users \in SUBSET User : StartRun(r, users)
    \/ \E u \in User : BeginUser(r, u) \/ BeginUserRaises(r, u) \/ CheckLastRecorded(r, u)
    \/ CreatePortfolio(r)
    \/ BeginSaving(r) \/ SavePortfolio(r) \/ SaveCreatedPortfolio(r) \/ RecordState(r)

LEMMA BetweenCloses ==
  ASSUME NEW pc, NEW left, NEW h
  PROVE  /\ Between(pc, left, h).pc = pc
         /\ Between(pc, left, h).todo = {} /\ Between(pc, left, h).closings = {}
  BY DEF Between

LEMMA BetweenUsersConsistent ==
  ASSUME Consistent, Typed', NEW r \in Run, BetweenUsers(r) PROVE Consistent'
  <1> DEFINE Quiet(j) == /\ job' = [job EXCEPT ![r] = j]
                         /\ j.todo = {} /\ j.closings = {}
                         /\ j.pc \notin {"prices", "try", "move"}
  <1>1. job[r].pc \notin {"portfolio", "prices", "try", "move", "commit"}
    BY DEF BetweenUsers, StartRun, BeginUser, BeginUserRaises, CheckLastRecorded,
           CreatePortfolio, BeginSaving, SavePortfolio, SaveCreatedPortfolio, RecordState
  <1>2. /\ job[r] \in Jobs /\ job[r].todo = {} /\ job[r].closings = {}
        /\ pending = [pending EXCEPT ![r] = NoWrites]
    BY <1>1, NothingLocal
  <1>3. active' = active /\ historical' = historical /\ pending' = pending
    BY DEF BetweenUsers, StartRun, BeginUser, BeginUserRaises, CheckLastRecorded,
           CreatePortfolio, BeginSaving, SavePortfolio, SaveCreatedPortfolio, RecordState,
           tables
  <1>4. \A u \in User : \/ portfolio'[u] = portfolio[u]
                        \/ portfolio'[u] # None /\ portfolio'[u].fills = {}
    <2>1. CASE CreatePortfolio(r) \/ SaveCreatedPortfolio(r)
      <3>1. job[r].user \in User
        BY <2>1 DEF CreatePortfolio, SaveCreatedPortfolio, Consistent, Typed, RowExists, UserPcs
      <3> QED
        BY <2>1, <3>1, CreatesEmpty DEF CreatePortfolio, SaveCreatedPortfolio
    <2>2. CASE ~(CreatePortfolio(r) \/ SaveCreatedPortfolio(r))
      BY <2>2 DEF BetweenUsers, StartRun, BeginUser, BeginUserRaises, CheckLastRecorded,
                  BeginSaving, SavePortfolio, RecordState, tables
    <2> QED
      BY <2>1, <2>2
  <1>5. \E j : Quiet(j)
    <2>1. ASSUME NEW users \in SUBSET User, StartRun(r, users) PROVE \E j : Quiet(j)
      <3>1. Quiet(Between("next_user", users, 0))
        BY <2>1, BetweenCloses DEF StartRun
      <3> QED
        BY <3>1
    <2>2. ASSUME NEW u \in User, BeginUser(r, u) PROVE \E j : Quiet(j)
      <3> DEFINE j == [job[r] EXCEPT !.user = u, !.left = @ \ {u}]
                 create == [j EXCEPT !.pc = "create"]
                 start == [j EXCEPT !.pc = "trades", !.hour = portfolio[u].last + 1,
                                    !.upto = LastPassedHour]
      <3>1. j \in Jobs /\ j.todo = {} /\ j.closings = {}
        BY <1>2 DEF Jobs
      <3>2. /\ create.pc = "create" /\ create.todo = {} /\ create.closings = {}
            /\ start.pc = "trades" /\ start.todo = {} /\ start.closings = {}
        <4> HIDE DEF j
        <4> QED BY <3>1 DEF Jobs
      <3>3. /\ UserDone(j).pc = "next_user"
            /\ UserDone(j).todo = {} /\ UserDone(j).closings = {}
        BY <3>1, UserDoneCloses
      <3> HIDE DEF j, create, start
      <3>4. \/ job' = [job EXCEPT ![r] = create]
            \/ job' = [job EXCEPT ![r] = start]
            \/ job' = [job EXCEPT ![r] = UserDone(j)]
        BY <2>2 DEF BeginUser, j, create, start
      <3> QED
        BY <3>2, <3>3, <3>4
    <2>3. ASSUME NEW u \in User, BeginUserRaises(r, u) PROVE \E j : Quiet(j)
      <3> DEFINE skipped == [job[r] EXCEPT !.left = @ \ {u}]
      <3>1. /\ job' = [job EXCEPT ![r] = skipped] /\ skipped.pc = job[r].pc
            /\ skipped.todo = {} /\ skipped.closings = {}
        BY <1>2, <2>3 DEF BeginUserRaises, Jobs
      <3> HIDE DEF skipped
      <3> QED
        BY <1>1, <3>1
    <2>4. ASSUME NEW u \in User, CheckLastRecorded(r, u) PROVE \E j : Quiet(j)
      <3> DEFINE j == [job[r] EXCEPT !.user = u, !.left = @ \ {u}]
                 unsaved == [j EXCEPT !.pc = "save_portfolio"]
      <3>1. j \in Jobs /\ j.todo = {} /\ j.closings = {}
        BY <1>2 DEF Jobs
      <3>2. unsaved.pc = "save_portfolio" /\ unsaved.todo = {} /\ unsaved.closings = {}
        <4> HIDE DEF j
        <4> QED BY <3>1 DEF Jobs
      <3>3. /\ SavedUser(j).pc \in {"idle", "save"}
            /\ SavedUser(j).todo = {} /\ SavedUser(j).closings = {}
        BY <3>1, SavedUserCloses
      <3> HIDE DEF j, unsaved
      <3>4. job' = [job EXCEPT ![r] = unsaved] \/ job' = [job EXCEPT ![r] = SavedUser(j)]
        BY <2>4 DEF CheckLastRecorded, j, unsaved
      <3> QED
        BY <3>2, <3>3, <3>4
    <2>5. CASE CreatePortfolio(r)
      <3>1. Quiet(UserDone(job[r]))
        BY <1>2, <2>5, UserDoneCloses DEF CreatePortfolio
      <3> QED
        BY <3>1
    <2>6. CASE BeginSaving(r)
      <3>1. Quiet(Between("save", User, LastPassedHour))
        BY <2>6, BetweenCloses DEF BeginSaving
      <3> QED
        BY <3>1
    <2>7. CASE SavePortfolio(r) \/ SaveCreatedPortfolio(r)
      <3> DEFINE create == [job[r] EXCEPT !.pc = "save_create"]
                 write(base) == [job[r] EXCEPT !.pc = "save_write", !.base = base]
      <3>1. create.pc = "save_create" /\ create.todo = {} /\ create.closings = {}
        BY <1>2 DEF Jobs
      <3>2. ASSUME NEW base
            PROVE  /\ write(base).pc = "save_write"
                   /\ write(base).todo = {} /\ write(base).closings = {}
        BY <1>2 DEF Jobs
      <3>3. /\ SavedUser(job[r]).pc \in {"idle", "save"}
            /\ SavedUser(job[r]).todo = {} /\ SavedUser(job[r]).closings = {}
        BY <1>2, SavedUserCloses
      <3> HIDE DEF create, write
      <3>4. \/ job' = [job EXCEPT ![r] = create]
            \/ job' = [job EXCEPT ![r] = SavedUser(job[r])]
            \/ \E base : job' = [job EXCEPT ![r] = write(base)]
        BY <2>7 DEF SavePortfolio, SaveCreatedPortfolio, create, write
      <3> QED
        BY <3>1, <3>2, <3>3, <3>4
    <2>8. CASE RecordState(r)
      <3>1. Quiet(SavedUser(job[r]))
        BY <1>2, <2>8, SavedUserCloses DEF RecordState
      <3> QED
        BY <3>1
    <2> QED
      BY <2>1, <2>2, <2>3, <2>4, <2>5, <2>6, <2>7, <2>8 DEF BetweenUsers
  <1> QED
    BY <1>2, <1>3, <1>4, <1>5, RunLeaves

-----------------------------------------------------------------------------
(* The requests, the clock and the crash.                                  *)

LEMMA RequestsConsistent == ASSUME Consistent, Typed', Requests PROVE Consistent'
  <1>1. ASSUME NEW t \in Trade, PlaceTrade(t) PROVE Consistent'
    <2>1. ClosedOnce' /\ NoGhostFill'
      BY <1>1 DEF PlaceTrade, Consistent, ClosedOnce, NoGhostFill, Executed
    <2> QED
      BY <1>1, <2>1, RequestStep DEF PlaceTrade
  <1>2. ASSUME NEW t \in Trade, CancelTrade(t) PROVE Consistent'
    <2> DEFINE c == [id |-> t, status |-> "cancelled", hour |-> hour]
    <2>1. /\ c.id = t /\ t \in active /\ NobodyWrites
          /\ active' = active \ {t} /\ historical' = historical \cup {c}
          /\ UNCHANGED <<portfolio, pending, job>>
      BY <1>2 DEF CancelTrade
    <2> HIDE DEF c
    <2>2. ClosedOnce'
      BY <2>1 DEF Consistent, ClosedOnce, MovedIds
    <2>3. NoGhostFill'
      BY <2>1, FillsStayExecuted DEF Consistent
    <2> QED
      BY <2>1, <2>2, <2>3, RequestStep
  <1>3. ASSUME NEW u \in User, OpenPortfolio(u) PROVE Consistent'
    <2>1. NoGhostFill'
      BY <1>3, CreatesEmpty, FillsStayExecuted DEF OpenPortfolio, Consistent
    <2> QED
      BY <1>3, <2>1, RequestStep DEF OpenPortfolio, Consistent, ClosedOnce
  <1> QED
    BY <1>1, <1>2, <1>3 DEF Requests

LEMMA TickConsistent == ASSUME Consistent, Typed', Tick PROVE Consistent'
  <1>1. UNCHANGED <<active, historical, portfolio, pending, job>>
    BY DEF Tick, tables
  <1> QED
    BY <1>1, RequestStep DEF Consistent, ClosedOnce, NoGhostFill, Executed

\* Nothing uncommitted survives, and every run is over.
LEMMA CrashConsistent == ASSUME Consistent, Typed', Crash PROVE Consistent'
  <1>1. UNCHANGED <<active, historical, portfolio>>
    BY DEF Crash, tables
  <1>2. ASSUME NEW r \in Run PROVE RunConsistent(r)'
    <2>1. job'[r] = IdleJob /\ pending'[r] = NoWrites
      BY DEF Crash
    <2> QED
      BY <2>1, IdleCloses, NothingToClose DEF RunConsistent
  <1>3. OneWriter'
    BY DEF Crash, OneWriter, HoldsWriteLock
  <1> QED
    BY <1>1, <1>2, <1>3 DEF Consistent, ClosedOnce, NoGhostFill, Executed

-----------------------------------------------------------------------------
LEMMA AlwaysConsistent == Spec => []Consistent
<1>1. Init /\ Typed => Consistent
  <2> SUFFICES ASSUME Init, Typed PROVE Consistent
    OBVIOUS
  <2>1. ASSUME NEW r \in Run PROVE RunConsistent(r)
    <3>1. job[r] = IdleJob /\ pending[r] = NoWrites
      BY DEF Init
    <3> QED
      BY <3>1, IdleCloses, NothingToClose DEF RunConsistent
  <2>2. OneWriter /\ ClosedOnce /\ NoGhostFill
    BY DEF Init, OneWriter, HoldsWriteLock, ClosedOnce, MovedIds, NoGhostFill
  <2> QED
    BY <2>1, <2>2 DEF Consistent
<1>2. Consistent /\ Typed' /\ [Next]_vars => Consistent'
  <2> SUFFICES ASSUME Consistent, Typed', [Next]_vars PROVE Consistent'
    OBVIOUS
  <2>1. CASE Tick
    BY <2>1, TickConsistent
  <2>2. CASE Requests
    BY <2>2, RequestsConsistent
  <2>3. CASE Crash
    BY <2>3, CrashConsistent
  <2>4. ASSUME NEW r \in Run, Fastforward(r) PROVE Consistent'
    <3>1. BetweenUsers(r) \/ Raises(r)
      BY <2>4 DEF Fastforward, BetweenUsers, Raises
    <3> QED
      BY <3>1, BetweenUsersConsistent, RaisesRaise, RaiseConsistent
  <2>5. ASSUME NEW r \in Run, ExecuteHour(r) PROVE Consistent'
    <3>1. ASSUME Raises(r) PROVE Consistent'
      BY <3>1, RaisesRaise, RaiseConsistent
    <3>2. ASSUME NEW t \in Trade, TryTrade(r, t) PROVE Consistent'
      BY <3>2, TryTradeConsistent
    <3>3. ASSUME NEW c \in job[r].closings, MoveInTransaction(r, c) PROVE Consistent'
      BY <3>3, MoveInTransactionConsistent
    <3>4. ASSUME NEW c \in job[r].closings, MoveOnOwnConnection(r, c) PROVE Consistent'
      BY <3>4, MoveOnOwnConnectionConsistent
    <3> QED
      BY <2>5, <3>1, <3>2, <3>3, <3>4, ListActiveTradesConsistent, ReadPortfolioConsistent,
         GetPricesConsistent, BeginTransactionConsistent, UpdateInTransactionConsistent,
         UpdateOnOwnConnectionConsistent, CommitConsistent
      DEF ExecuteHour, Raises
  <2>6. ASSUME NEW r \in Run, SaveStates(r) PROVE Consistent'
    <3>1. BetweenUsers(r) \/ Raises(r)
      BY <2>6 DEF SaveStates, BetweenUsers, Raises
    <3> QED
      BY <3>1, BetweenUsersConsistent, RaisesRaise, RaiseConsistent
  <2>7. CASE UNCHANGED vars
    BY <2>7, RequestStep DEF vars, Consistent, ClosedOnce, NoGhostFill, Executed
  <2> QED
    BY <2>1, <2>2, <2>3, <2>4, <2>5, <2>6, <2>7 DEF Next
<1> QED
  BY <1>1, <1>2, AlwaysTyped, PTL DEF Spec

\* move_to_executed and cancel_if_active never close a trade twice nor leave
\* a closed one open, whatever runs and requests overlap, fail or crash.
THEOREM EachTradeClosesOnce == Spec => []ClosedOnce
  <1>1. Consistent => ClosedOnce
    BY DEF Consistent
  <1> QED
    BY <1>1, AlwaysConsistent, PTL

\* No overlap, failure or crash leaves a fill in a portfolio whose trade the
\* history does not have as executed in that hour.
THEOREM EveryFillIsExecuted == Spec => []NoGhostFill
  <1>1. Consistent => NoGhostFill
    BY DEF Consistent
  <1> QED
    BY <1>1, AlwaysConsistent, PTL
=============================================================================
