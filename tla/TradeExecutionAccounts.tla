----------------------- MODULE TradeExecutionAccounts ----------------------
(* When trades are executed: for hours that have passed, whatever runs      *)
(* overlap, and, while one run works at a time, an hour of a user at once   *)
(* and in turn, as HourlyAccounts promises.                                 *)
EXTENDS TradeExecutionSafety

-----------------------------------------------------------------------------
(* What the steps of a run do to its local variables.                      *)

\* The trades that have a row, open or closed.
Known == active \cup MovedIds(historical)

TablesStay == UNCHANGED <<clockVars, tables>>
SameHour(j, k) == k.user = j.user /\ k.hour = j.hour /\ k.upto = j.upto
Quiet(k) == k.todo = {} /\ k.closings = {}

\* The run goes on with the next hour, or the next user.
LeavesHour(j, k) ==
    /\ Quiet(k)
    /\ \/ k.pc = "next_user"
       \/ /\ k.pc = "trades" /\ k.user = j.user
          /\ k.hour = j.hour + 1 /\ k.upto = j.upto /\ k.hour <= k.upto

LEMMA HourDoneLeaves == ASSUME NEW j \in Jobs PROVE LeavesHour(j, HourDone(j))
  <1>1. CASE j.hour < j.upto
    <2> DEFINE k == [j EXCEPT !.pc = "trades", !.hour = @ + 1,
                              !.todo = {}, !.base = {}, !.closings = {}]
    <2>1. HourDone(j) = k
      BY <1>1 DEF HourDone
    <2>2. j.hour \in Int /\ j.upto \in Int
      BY DEF Jobs
    <2>3. /\ k.pc = "trades" /\ k.user = j.user /\ k.hour = j.hour + 1 /\ k.upto = j.upto
          /\ k.todo = {} /\ k.closings = {}
      BY DEF Jobs
    <2> HIDE DEF k
    <2> QED
      BY <1>1, <2>1, <2>2, <2>3 DEF LeavesHour, Quiet
  <1>2. CASE ~(j.hour < j.upto)
    BY <1>2, UserDoneCloses DEF HourDone, LeavesHour, Quiet
  <1> QED
    BY <1>1, <1>2

LEMMA ListFields ==
  ASSUME Consistent, NEW r \in Run, ListActiveTrades(r)
  PROVE  /\ job[r].pc = "trades" /\ job'[r].pc = "portfolio"
         /\ SameHour(job[r], job'[r]) /\ job'[r].closings = {}
         /\ job'[r].todo = ActiveInHour(job[r].user, job[r].hour)
         /\ pending[r] = NoWrites /\ TablesStay /\ UNCHANGED <<activeConn, pending>>
  <1> DEFINE j == job[r]
             k == [j EXCEPT !.pc = "portfolio", !.todo = ActiveInHour(j.user, j.hour)]
  <1>1. j.pc = "trades" /\ job' = [job EXCEPT ![r] = k] /\ TablesStay
        /\ UNCHANGED <<activeConn, pending>>
    BY DEF ListActiveTrades, TablesStay
  <1>2. job'[r] = k
    BY <1>1 DEF Consistent, Typed, TypeOK
  <1>3. j \in Jobs /\ j.closings = {} /\ pending[r] = NoWrites
    BY <1>1, NothingLocal, NothingUncommitted DEF TransactionPcs
  <1>4. /\ k.pc = "portfolio" /\ SameHour(j, k) /\ k.closings = j.closings
        /\ k.todo = ActiveInHour(j.user, j.hour)
    BY <1>3 DEF Jobs, SameHour
  <1> HIDE DEF k
  <1> QED
    BY <1>1, <1>2, <1>3, <1>4

LEMMA ReadFields ==
  ASSUME Consistent, NEW r \in Run, ReadPortfolio(r)
  PROVE  /\ job[r].pc = "portfolio" /\ pending[r] = NoWrites
         /\ \/ /\ LeavesHour(job[r], job'[r])
               /\ portfolio[job[r].user].last >= job[r].hour
            \/ /\ job'[r].pc = "prices" /\ SameHour(job[r], job'[r])
               /\ job'[r].todo = job[r].todo /\ job'[r].closings = {}
               /\ job'[r].base = portfolio[job[r].user].fills
         /\ TablesStay /\ UNCHANGED <<activeConn, pending>>
  <1> DEFINE j == job[r]
             k == [j EXCEPT !.pc = "prices", !.base = portfolio[j.user].fills]
  <1>1. /\ j.pc = "portfolio" /\ TablesStay /\ UNCHANGED <<activeConn, pending>>
        /\ \/ portfolio[j.user].last >= j.hour /\ job' = [job EXCEPT ![r] = HourDone(j)]
           \/ job' = [job EXCEPT ![r] = k]
    BY DEF ReadPortfolio, TablesStay
  <1>2. j \in Jobs /\ j.closings = {} /\ pending[r] = NoWrites
    BY <1>1, NothingUncommitted
    DEF TransactionPcs, Consistent, Typed, TypeOK, RunConsistent, Bookkeeping
  <1>3. /\ k.pc = "prices" /\ SameHour(j, k) /\ k.todo = j.todo /\ k.closings = j.closings
        /\ k.base = portfolio[j.user].fills
    BY <1>2 DEF Jobs, SameHour
  <1>4. LeavesHour(j, HourDone(j))
    BY <1>2, HourDoneLeaves
  <1> HIDE DEF k
  <1>5. job'[r] = k \/ (job'[r] = HourDone(j) /\ portfolio[j.user].last >= j.hour)
    BY <1>1 DEF Consistent, Typed, TypeOK
  <1> QED
    BY <1>1, <1>2, <1>3, <1>4, <1>5

LEMMA PricesFields ==
  ASSUME Consistent, NEW r \in Run, GetPrices(r)
  PROVE  /\ job[r].pc = "prices" /\ pending[r] = NoWrites /\ job[r].closings = {}
         /\ \/ LeavesHour(job[r], job'[r]) /\ job[r].hour \notin OpenHours
            \/ /\ job'[r].pc = "try" /\ SameHour(job[r], job'[r])
               /\ job'[r].todo = job[r].todo /\ job'[r].closings = {}
               /\ job'[r].base = job[r].base /\ job[r].hour \in OpenHours
         /\ TablesStay /\ UNCHANGED <<activeConn, pending>>
  <1> DEFINE j == job[r]
             k == [j EXCEPT !.pc = "try"]
  <1>1. /\ j.pc = "prices" /\ TablesStay /\ UNCHANGED <<activeConn, pending>>
        /\ \/ j.hour \notin OpenHours /\ job' = [job EXCEPT ![r] = HourDone(j)]
           \/ j.hour \in OpenHours /\ job' = [job EXCEPT ![r] = k]
    BY DEF GetPrices, TablesStay
  <1>2. j \in Jobs /\ j.closings = {} /\ pending[r] = NoWrites
    BY <1>1, NothingUncommitted
    DEF TransactionPcs, Consistent, Typed, TypeOK, RunConsistent, Bookkeeping
  <1>3. /\ k.pc = "try" /\ SameHour(j, k) /\ k.todo = j.todo /\ k.closings = j.closings
        /\ k.base = j.base
    BY <1>2 DEF Jobs, SameHour
  <1>4. LeavesHour(j, HourDone(j))
    BY <1>2, HourDoneLeaves
  <1> HIDE DEF k
  <1>5. \/ job'[r] = k /\ j.hour \in OpenHours
        \/ job'[r] = HourDone(j) /\ j.hour \notin OpenHours
    BY <1>1 DEF Consistent, Typed, TypeOK
  <1> QED
    BY <1>1, <1>2, <1>3, <1>4, <1>5

LEMMA TryFields ==
  ASSUME Consistent, NEW r \in Run, NEW t \in Trade, TryTrade(r, t)
  PROVE  LET j == job[r]
             k == job'[r]
             result == Outcome(t, j.hour, j.base)
         IN  /\ j.pc = "try" /\ k.pc = "try" /\ SameHour(j, k)
             /\ IsFirst(t, j.todo) /\ k.todo = j.todo \ {t} /\ result # "raises"
             /\ k.base = IF result = "executed" THEN j.base \cup {<<t, j.hour>>} ELSE j.base
             /\ k.closings = IF result \in ClosingStatuses
                             THEN j.closings \cup {[id |-> t, status |-> result,
                                                    hour |-> j.hour]}
                             ELSE j.closings
             /\ pending[r] = NoWrites /\ TablesStay /\ UNCHANGED <<activeConn, pending>>
  <1> DEFINE j == job[r]
             result == Outcome(t, j.hour, j.base)
             base == IF result = "executed" THEN j.base \cup {<<t, j.hour>>} ELSE j.base
             closings == IF result \in ClosingStatuses
                         THEN j.closings \cup {[id |-> t, status |-> result, hour |-> j.hour]}
                         ELSE j.closings
             k == [j EXCEPT !.todo = @ \ {t}, !.base = base, !.closings = closings]
  <1>1. /\ j.pc = "try" /\ IsFirst(t, j.todo) /\ result # "raises"
        /\ job' = [job EXCEPT ![r] = k]
        /\ TablesStay /\ UNCHANGED <<activeConn, pending>>
    BY DEF TryTrade, TablesStay
  <1>2. j \in Jobs /\ job'[r] = k /\ pending[r] = NoWrites
    BY <1>1, NothingUncommitted DEF TransactionPcs, Consistent, Typed, TypeOK
  <1> HIDE DEF base, closings, result
  <1>3. /\ k.pc = j.pc /\ SameHour(j, k) /\ k.todo = j.todo \ {t}
        /\ k.base = base /\ k.closings = closings
    BY <1>2 DEF Jobs, SameHour
  <1> HIDE DEF k, j
  <1>4. /\ job'[r].pc = "try" /\ SameHour(j, job'[r]) /\ job'[r].todo = j.todo \ {t}
        /\ job'[r].base = base /\ job'[r].closings = closings
    BY <1>1, <1>2, <1>3
  <1> QED
    BY <1>1, <1>2, <1>4 DEF j, base, closings, result

LEMMA BeginFields ==
  ASSUME Consistent, NEW r \in Run, BeginTransaction(r)
  PROVE  /\ job[r].pc = "try" /\ job'[r].pc = "move" /\ SameHour(job[r], job'[r])
         /\ job[r].todo = {} /\ job'[r].todo = {}
         /\ job'[r].closings = job[r].closings /\ job'[r].base = job[r].base
         /\ pending[r] = NoWrites /\ TablesStay /\ pending' = pending /\ activeConn' = r
  <1> DEFINE j == job[r]
             k == [j EXCEPT !.pc = "move"]
  <1>1. /\ j.pc = "try" /\ j.todo = {} /\ job' = [job EXCEPT ![r] = k]
        /\ TablesStay /\ pending' = pending /\ activeConn' = r
    BY DEF BeginTransaction, TablesStay
  <1>2. j \in Jobs /\ job'[r] = k /\ pending[r] = NoWrites
    BY <1>1, NothingUncommitted DEF TransactionPcs, Consistent, Typed, TypeOK
  <1>3. /\ k.pc = "move" /\ SameHour(j, k) /\ k.todo = j.todo
        /\ k.base = j.base /\ k.closings = j.closings
    BY <1>2 DEF Jobs, SameHour
  <1> HIDE DEF k
  <1> QED
    BY <1>1, <1>2, <1>3

LEMMA MoveFields ==
  ASSUME Consistent, NEW r \in Run, NEW c \in job[r].closings,
         MoveInTransaction(r, c) \/ MoveOnOwnConnection(r, c)
  PROVE  /\ job[r].pc = "move" /\ job'[r].pc = "move" /\ SameHour(job[r], job'[r])
         /\ job'[r].todo = job[r].todo /\ job'[r].base = job[r].base
         /\ job'[r].closings = job[r].closings \ {c}
         /\ c.id \in active /\ UNCHANGED <<clockVars, activeFrom, portfolio, states, activeConn>>
         /\ \/ /\ pending'[r].moves = pending[r].moves \cup {c}
               /\ pending'[r].portfolio = pending[r].portfolio
               /\ UNCHANGED <<active, historical>>
            \/ /\ activeConn = None /\ pending' = pending
               /\ active' = active \ {c.id} /\ historical' = historical \cup {c}
  <1> DEFINE j == job[r]
             k == [j EXCEPT !.closings = @ \ {c}]
             w == [pending[r] EXCEPT !.moves = @ \cup {c}]
  <1>1. /\ j.pc = "move" /\ c.id \in active /\ job' = [job EXCEPT ![r] = k]
        /\ UNCHANGED <<clockVars, activeFrom, portfolio, states, activeConn>>
        /\ \/ pending' = [pending EXCEPT ![r] = w] /\ UNCHANGED <<active, historical>>
           \/ /\ activeConn = None /\ pending' = pending
              /\ active' = active \ {c.id} /\ historical' = historical \cup {c}
    BY DEF MoveInTransaction, MoveOnOwnConnection, NextMove, OwnConnection, tables
  <1>2. j \in Jobs /\ job'[r] = k
    BY <1>1 DEF Consistent, Typed, TypeOK
  <1>3. /\ k.pc = "move" /\ SameHour(j, k) /\ k.todo = j.todo
        /\ k.base = j.base /\ k.closings = j.closings \ {c}
    BY <1>1, <1>2 DEF Jobs, SameHour
  <1>4. pending' = [pending EXCEPT ![r] = w] =>
            /\ pending'[r].moves = pending[r].moves \cup {c}
            /\ pending'[r].portfolio = pending[r].portfolio
    BY DEF Consistent, Typed, TypeOK
  <1> HIDE DEF k, w
  <1> QED
    BY <1>1, <1>2, <1>3, <1>4

LEMMA UpdateFields ==
  ASSUME Consistent, NEW r \in Run, UpdateInTransaction(r) \/ UpdateOnOwnConnection(r)
  PROVE  /\ job[r].pc = "move" /\ job'[r].pc = "commit" /\ SameHour(job[r], job'[r])
         /\ job'[r].todo = job[r].todo /\ job[r].closings = {} /\ job'[r].closings = {}
         /\ UNCHANGED <<clockVars, active, activeFrom, historical, states, activeConn>>
         /\ \/ /\ pending'[r].moves = pending[r].moves
               /\ pending'[r].portfolio = NewPortfolio(r)
               /\ UNCHANGED portfolio
            \/ activeConn = None /\ pending' = pending
  <1> DEFINE j == job[r]
             k == [j EXCEPT !.pc = "commit"]
             w == [pending[r] EXCEPT !.portfolio = NewPortfolio(r)]
  <1>1. /\ j.pc = "move" /\ j.closings = {} /\ job' = [job EXCEPT ![r] = k]
        /\ UNCHANGED <<clockVars, active, activeFrom, historical, states, activeConn>>
        /\ \/ pending' = [pending EXCEPT ![r] = w] /\ UNCHANGED portfolio
           \/ activeConn = None /\ pending' = pending
    BY DEF UpdateInTransaction, UpdateOnOwnConnection, AllMoved, OwnConnection, tables
  <1>2. j \in Jobs /\ job'[r] = k
    BY <1>1 DEF Consistent, Typed, TypeOK
  <1>3. /\ k.pc = "commit" /\ SameHour(j, k) /\ k.todo = j.todo /\ k.closings = j.closings
    BY <1>2 DEF Jobs, SameHour
  <1>4. pending' = [pending EXCEPT ![r] = w] =>
            /\ pending'[r].moves = pending[r].moves
            /\ pending'[r].portfolio = NewPortfolio(r)
    BY DEF Consistent, Typed, TypeOK
  <1> HIDE DEF k, w
  <1> QED
    BY <1>1, <1>2, <1>3, <1>4

LEMMA CommitFields ==
  ASSUME Consistent, NEW r \in Run, Commit(r)
  PROVE  /\ job[r].pc = "commit" /\ LeavesHour(job[r], job'[r]) /\ pending'[r] = NoWrites
         /\ active' = active \ MovedIds(pending[r].moves)
         /\ historical' = historical \cup pending[r].moves
         /\ portfolio' = IF pending[r].portfolio = None THEN portfolio
                         ELSE [portfolio EXCEPT ![job[r].user] = pending[r].portfolio]
         /\ UNCHANGED <<clockVars, activeFrom, states>>
  <1>1. job[r] \in Jobs
    BY DEF Consistent, Typed, TypeOK
  <1>2. LeavesHour(job[r], HourDone(job[r]))
    BY <1>1, HourDoneLeaves
  <1>3. job'[r] = HourDone(job[r]) /\ pending'[r] = NoWrites
    BY DEF Commit, Consistent, Typed, TypeOK
  <1> QED
    BY <1>2, <1>3 DEF Commit

\* The steps between users: a run begins with a user, or ends the hours.
LEMMA BeginUserFields ==
  ASSUME Consistent, NEW r \in Run, NEW u \in User, BeginUser(r, u)
  PROVE  /\ Quiet(job'[r]) /\ TablesStay /\ UNCHANGED <<activeConn, pending>>
         /\ job[r].pc = "next_user" /\ activeConn = None
         /\ \/ job'[r].pc \in {"create", "next_user"}
            \/ /\ job'[r].pc = "trades" /\ job'[r].user = u /\ portfolio[u] # None
               /\ job'[r].hour = portfolio[u].last + 1
               /\ job'[r].upto = LastPassedHour /\ job'[r].hour <= job'[r].upto
  <1> DEFINE j == [job[r] EXCEPT !.user = u, !.left = @ \ {u}]
             create == [j EXCEPT !.pc = "create"]
             start == [j EXCEPT !.pc = "trades", !.hour = portfolio[u].last + 1,
                                !.upto = LastPassedHour]
  <1>1. /\ job[r].pc = "next_user" /\ activeConn = None
        /\ TablesStay /\ UNCHANGED <<activeConn, pending>>
        /\ \/ job' = [job EXCEPT ![r] = create]
           \/ /\ job' = [job EXCEPT ![r] = start]
              /\ portfolio[u] # None /\ portfolio[u].last + 1 <= LastPassedHour
           \/ job' = [job EXCEPT ![r] = UserDone(j)]
    BY DEF BeginUser, OwnConnection, TablesStay
  <1>2. job[r] \in Jobs /\ Quiet(job[r])
    BY <1>1, NothingLocal DEF Quiet
  <1>3. j \in Jobs /\ j.user = u /\ Quiet(j)
    BY <1>2 DEF Jobs, Quiet
  <1> HIDE DEF j
  <1>4. create.pc = "create" /\ Quiet(create)
    BY <1>3 DEF Jobs, Quiet
  <1>5. /\ start.pc = "trades" /\ start.user = u /\ Quiet(start)
        /\ start.hour = portfolio[u].last + 1 /\ start.upto = LastPassedHour
    BY <1>3 DEF Jobs, Quiet
  <1>6. UserDone(j).pc = "next_user" /\ Quiet(UserDone(j))
    BY <1>3, UserDoneCloses DEF Quiet
  <1> HIDE DEF create, start
  <1>7. \/ job'[r] = create
        \/ job'[r] = start /\ portfolio[u] # None /\ portfolio[u].last + 1 <= LastPassedHour
        \/ job'[r] = UserDone(j)
    BY <1>1 DEF Consistent, Typed, TypeOK
  <1> QED
    BY <1>1, <1>4, <1>5, <1>6, <1>7

LEMMA CreateFields ==
  ASSUME Consistent, NEW r \in Run, CreatePortfolio(r)
  PROVE  /\ job[r].pc = "create" /\ job'[r].pc = "next_user" /\ Quiet(job'[r])
         /\ job[r].user \in User /\ portfolio[job[r].user] = None
         /\ portfolio' = [portfolio EXCEPT ![job[r].user] = DefaultPortfolio]
         /\ UNCHANGED <<clockVars, active, activeFrom, historical, states, activeConn, pending>>
  <1>1. job[r].pc = "create" /\ job' = [job EXCEPT ![r] = UserDone(job[r])]
    BY DEF CreatePortfolio
  <1>2. job[r] \in Jobs /\ job'[r] = UserDone(job[r]) /\ job[r].user \in User
    BY <1>1 DEF Consistent, Typed, TypeOK, RowExists, UserPcs
  <1> QED
    BY <1>1, <1>2, UserDoneCloses DEF CreatePortfolio, Quiet

LEMMA CheckSavedFields ==
  ASSUME Consistent, NEW r \in Run, NEW u \in User, CheckLastRecorded(r, u)
  PROVE  /\ Quiet(job'[r]) /\ TablesStay /\ UNCHANGED <<activeConn, pending>>
         /\ job[r].pc = "save"
         /\ \/ job'[r].pc = "idle"
            \/ job'[r].pc = "save" /\ job'[r].hour = job[r].hour
            \/ /\ job'[r].pc = "save_portfolio" /\ job'[r].user = u
               /\ job'[r].hour = job[r].hour
               /\ \A s \in states : s.user = u => ~(s.hour >= job[r].hour)
  <1> DEFINE j == [job[r] EXCEPT !.user = u, !.left = @ \ {u}]
             unsaved == [j EXCEPT !.pc = "save_portfolio"]
             recorded == \E s \in states : s.user = u /\ s.hour >= j.hour
  <1>1. /\ job[r].pc = "save" /\ TablesStay /\ UNCHANGED <<activeConn, pending>>
        /\ job' = [job EXCEPT ![r] = IF recorded THEN SavedUser(j) ELSE unsaved]
    BY DEF CheckLastRecorded, TablesStay
  <1>2. job[r] \in Jobs /\ Quiet(job[r])
    BY <1>1, NothingLocal DEF Quiet
  <1>3. j \in Jobs /\ j.user = u /\ j.hour = job[r].hour /\ Quiet(j)
    BY <1>2 DEF Jobs, Quiet
  <1>4. job'[r] = IF recorded THEN SavedUser(j) ELSE unsaved
    BY <1>1 DEF Consistent, Typed, TypeOK
  <1> HIDE DEF j
  <1>5. unsaved.pc = "save_portfolio" /\ unsaved.user = u /\ unsaved.hour = j.hour /\ Quiet(unsaved)
    BY <1>3 DEF Jobs, Quiet
  <1>6. /\ Quiet(SavedUser(j))
        /\ SavedUser(j).pc = "idle" \/ (SavedUser(j).pc = "save" /\ SavedUser(j).hour = j.hour)
    BY <1>3, IdleCloses DEF SavedUser, Jobs, Quiet
  <1> HIDE DEF unsaved
  <1> QED
    BY <1>1, <1>3, <1>4, <1>5, <1>6

LEMMA BeginSavingFields ==
  ASSUME Consistent, NEW r \in Run, BeginSaving(r)
  PROVE  /\ job'[r].pc = "save" /\ job'[r].hour = LastPassedHour /\ Quiet(job'[r])
         /\ job[r].pc = "next_user" /\ TablesStay /\ UNCHANGED <<activeConn, pending>>
  <1>1. job'[r] = Between("save", User, LastPassedHour)
    BY DEF BeginSaving, Consistent, Typed, TypeOK
  <1> QED
    BY <1>1 DEF BeginSaving, TablesStay, Between, Quiet

LEMMA SaveFields ==
  ASSUME Consistent, NEW r \in Run, SavePortfolio(r)
  PROVE  LET p == portfolio[job[r].user]
         IN  /\ Quiet(job'[r]) /\ TablesStay /\ UNCHANGED <<activeConn, pending>>
             /\ job[r].pc = "save_portfolio"
             /\ \/ job'[r].pc = "idle"
                \/ job'[r].pc = "save" /\ job'[r].hour = job[r].hour
                \/ /\ job'[r].pc = "save_create" /\ SameHour(job[r], job'[r])
                \/ /\ job'[r].pc = "save_write" /\ SameHour(job[r], job'[r])
                   /\ p # None /\ ~(p.last < job[r].hour) /\ job'[r].base = p.fills
  <1> DEFINE j == job[r]
             p == portfolio[j.user]
             create == [j EXCEPT !.pc = "save_create"]
             write == [j EXCEPT !.pc = "save_write", !.base = p.fills]
  <1>1. /\ j.pc = "save_portfolio" /\ TablesStay /\ UNCHANGED <<activeConn, pending>>
        /\ \/ job' = [job EXCEPT ![r] = create]
           \/ job' = [job EXCEPT ![r] = SavedUser(j)]
           \/ p # None /\ ~(p.last < j.hour) /\ job' = [job EXCEPT ![r] = write]
    BY DEF SavePortfolio, TablesStay
  <1>2. j \in Jobs /\ Quiet(j)
    BY <1>1, NothingLocal DEF Quiet
  <1> HIDE DEF p
  <1>3. create.pc = "save_create" /\ SameHour(j, create) /\ Quiet(create)
    BY <1>2 DEF Jobs, Quiet, SameHour
  <1>4. write.pc = "save_write" /\ SameHour(j, write) /\ Quiet(write) /\ write.base = p.fills
    BY <1>2 DEF Jobs, Quiet, SameHour
  <1>5. /\ Quiet(SavedUser(j))
        /\ SavedUser(j).pc = "idle" \/ (SavedUser(j).pc = "save" /\ SavedUser(j).hour = j.hour)
    BY <1>2, IdleCloses DEF SavedUser, Jobs, Quiet
  <1> HIDE DEF create, write
  <1>6. \/ job'[r] = create
        \/ job'[r] = SavedUser(j)
        \/ p # None /\ ~(p.last < j.hour) /\ job'[r] = write
    BY <1>1 DEF Consistent, Typed, TypeOK
  <1> QED
    BY <1>1, <1>3, <1>4, <1>5, <1>6 DEF p

LEMMA SaveCreatedFields ==
  ASSUME Consistent, NEW r \in Run, SaveCreatedPortfolio(r)
  PROVE  /\ job[r].pc = "save_create" /\ job'[r].pc = "save_write"
         /\ SameHour(job[r], job'[r]) /\ Quiet(job'[r]) /\ job'[r].base = {}
         /\ job[r].user \in User /\ portfolio[job[r].user] = None
         /\ portfolio' = [portfolio EXCEPT ![job[r].user] = DefaultPortfolio]
         /\ UNCHANGED <<clockVars, active, activeFrom, historical, states, activeConn, pending>>
  <1> DEFINE j == job[r]
             k == [j EXCEPT !.pc = "save_write", !.base = {}]
  <1>1. j.pc = "save_create" /\ job' = [job EXCEPT ![r] = k]
    BY DEF SaveCreatedPortfolio
  <1>2. j \in Jobs /\ Quiet(j) /\ j.user \in User /\ job'[r] = k
    BY <1>1, NothingLocal DEF Quiet, Consistent, Typed, TypeOK, RowExists, UserPcs
  <1>3. k.pc = "save_write" /\ SameHour(j, k) /\ Quiet(k) /\ k.base = {}
    BY <1>2 DEF Jobs, Quiet, SameHour
  <1> HIDE DEF k
  <1> QED
    BY <1>1, <1>2, <1>3 DEF SaveCreatedPortfolio

LEMMA RecordFields ==
  ASSUME Consistent, NEW r \in Run, RecordState(r)
  PROVE  /\ job[r].pc = "save_write" /\ Quiet(job'[r]) /\ job[r].user \in User
         /\ \/ job'[r].pc = "idle"
            \/ job'[r].pc = "save" /\ job'[r].hour = job[r].hour
         /\ \/ /\ \E s \in states : s.user = job[r].user /\ s.hour = job[r].hour
               /\ UNCHANGED states
            \/ states' = states \cup {[user |-> job[r].user, hour |-> job[r].hour,
                                       fills |-> job[r].base]}
         /\ UNCHANGED <<clockVars, active, activeFrom, historical, portfolio, activeConn, pending>>
  <1> DEFINE j == job[r]
  <1>1. j.pc = "save_write" /\ job' = [job EXCEPT ![r] = SavedUser(j)]
    BY DEF RecordState
  <1>2. j \in Jobs /\ Quiet(j) /\ j.user \in User /\ job'[r] = SavedUser(j)
    BY <1>1, NothingLocal DEF Quiet, Consistent, Typed, TypeOK, RowExists, UserPcs
  <1>3. /\ Quiet(SavedUser(j))
        /\ SavedUser(j).pc = "idle" \/ (SavedUser(j).pc = "save" /\ SavedUser(j).hour = j.hour)
    BY <1>2, IdleCloses DEF SavedUser, Jobs, Quiet
  <1> QED
    BY <1>1, <1>2, <1>3 DEF RecordState

\* A run starts, leaves a user out or unwinds: it comes to another user or ends.
Unwinds(r) == \/ \E users \in SUBSET User : StartRun(r, users)
              \/ \E u \in User : BeginUserRaises(r, u)
              \/ Raises(r)

LEMMA UnwindFields ==
  ASSUME Consistent, NEW r \in Run, Unwinds(r)
  PROVE  /\ job'[r].pc \in {"next_user", "idle"} /\ Quiet(job'[r])
         /\ pending'[r] = NoWrites /\ TablesStay
         /\ activeConn' \in {activeConn, None}
  <1>0. job[r] \in Jobs
    BY DEF Consistent, Typed, TypeOK
  <1>1. ASSUME NEW users \in SUBSET User, StartRun(r, users)
        PROVE  /\ job'[r].pc = "next_user" /\ Quiet(job'[r])
               /\ pending'[r] = NoWrites /\ TablesStay /\ activeConn' = activeConn
    <2>1. job[r].pc = "idle" /\ job'[r] = Between("next_user", users, 0)
      BY <1>1 DEF StartRun, Consistent, Typed, TypeOK
    <2>2. pending[r] = NoWrites
      BY <2>1, NothingUncommitted DEF TransactionPcs
    <2> QED
      BY <1>1, <2>1, <2>2 DEF StartRun, TablesStay, Between, Quiet
  <1>2. ASSUME NEW u \in User, BeginUserRaises(r, u)
        PROVE  /\ job'[r].pc = "next_user" /\ Quiet(job'[r])
               /\ pending'[r] = NoWrites /\ TablesStay /\ activeConn' = activeConn
    <2> DEFINE k == [job[r] EXCEPT !.left = @ \ {u}]
    <2>1. job[r].pc = "next_user" /\ job' = [job EXCEPT ![r] = k]
      BY <1>2 DEF BeginUserRaises
    <2>2. job'[r] = k /\ Quiet(job[r]) /\ pending[r] = NoWrites
      BY <2>1, NothingLocal, NothingUncommitted
      DEF TransactionPcs, Quiet, Consistent, Typed, TypeOK
    <2>3. k.pc = job[r].pc /\ Quiet(k)
      BY <1>0, <2>2 DEF Jobs, Quiet
    <2> HIDE DEF k
    <2> QED
      BY <1>2, <2>1, <2>2, <2>3 DEF BeginUserRaises, TablesStay
  <1>3. ASSUME Raises(r)
        PROVE  /\ job'[r].pc \in {"next_user", "idle"} /\ Quiet(job'[r])
               /\ pending'[r] = NoWrites /\ TablesStay
               /\ activeConn' \in {activeConn, None}
    <2>1. Raise(r)
      BY <1>3, RaisesRaise
    <2>2. pending' = [pending EXCEPT ![r] = NoWrites]
      BY <2>1, NothingUncommitted DEF Raise
    <2>3. job'[r] \in {IdleJob, UserDone(job[r])}
      BY <2>1 DEF Raise, Consistent, Typed, TypeOK
    <2>4. pending'[r] = NoWrites
      BY <2>2 DEF Consistent, Typed, TypeOK
    <2> QED
      BY <1>0, <2>1, <2>3, <2>4, IdleCloses, UserDoneCloses DEF Raise, TablesStay, Quiet
  <1> QED
    BY <1>1, <1>2, <1>3 DEF Unwinds

\* Everything a step of run r does is one of these.
LEMMA RunSteps ==
  ASSUME NEW r \in Run, Fastforward(r) \/ ExecuteHour(r) \/ SaveStates(r)
  PROVE  \/ ListActiveTrades(r) \/ ReadPortfolio(r) \/ GetPrices(r)
         \/ \E t \in Trade : TryTrade(r, t)
         \/ BeginTransaction(r)
         \/ \E c \in job[r].closings : MoveInTransaction(r, c) \/ MoveOnOwnConnection(r, c)
         \/ UpdateInTransaction(r) \/ UpdateOnOwnConnection(r)
         \/ Commit(r)
         \/ \E u \in User : BeginUser(r, u) \/ CheckLastRecorded(r, u)
         \/ CreatePortfolio(r) \/ BeginSaving(r) \/ SavePortfolio(r)
         \/ SaveCreatedPortfolio(r) \/ RecordState(r)
         \/ Unwinds(r)
  BY DEF Fastforward, ExecuteHour, SaveStates, Unwinds, Raises

\* It moves no other run.
LEMMA OthersStay ==
  ASSUME Consistent, NEW r \in Run, Fastforward(r) \/ ExecuteHour(r) \/ SaveStates(r),
         NEW s \in Run, s # r
  PROVE  job'[s] = job[s] /\ pending'[s] = pending[s]
  <1>1. job \in [Run -> Jobs] /\ pending \in [Run -> [moves : SUBSET Closings, portfolio : Portfolios \cup {None}]]
    BY DEF Consistent, Typed, TypeOK
  <1>2. CASE ListActiveTrades(r) \/ ReadPortfolio(r) \/ GetPrices(r) \/ BeginTransaction(r)
             \/ \E t \in Trade : TryTrade(r, t)
    BY <1>1, <1>2 DEF ListActiveTrades, ReadPortfolio, GetPrices, BeginTransaction, TryTrade
  <1>3. CASE \/ \E c \in job[r].closings : MoveInTransaction(r, c) \/ MoveOnOwnConnection(r, c)
             \/ UpdateInTransaction(r) \/ UpdateOnOwnConnection(r) \/ Commit(r)
    BY <1>1, <1>3 DEF MoveInTransaction, MoveOnOwnConnection, UpdateInTransaction,
       UpdateOnOwnConnection, Commit
  <1>4. CASE \/ \E u \in User : BeginUser(r, u) \/ CheckLastRecorded(r, u)
             \/ CreatePortfolio(r) \/ BeginSaving(r) \/ SavePortfolio(r)
             \/ SaveCreatedPortfolio(r) \/ RecordState(r)
    BY <1>1, <1>4 DEF BeginUser, CheckLastRecorded, CreatePortfolio, BeginSaving,
       SavePortfolio, SaveCreatedPortfolio, RecordState
  <1>5. CASE Unwinds(r)
    BY <1>1, <1>5, RaisesRaise DEF Unwinds, StartRun, BeginUserRaises, Raise
  <1> QED
    BY <1>2, <1>3, <1>4, <1>5, RunSteps

\* The clock does not run backwards, and a trade with a row keeps one and the
\* hour it is active from.
LEMMA WorldMovesOn ==
  ASSUME Consistent, [Next]_vars
  PROVE  /\ Known \subseteq Known' /\ \A t \in Known : activeFrom'[t] = activeFrom[t]
         /\ LastPassedHour \in Int /\ LastPassedHour' \in Int
         /\ LastPassedHour <= LastPassedHour'
  <1> USE DEF Known, MovedIds
  <1>1. hour \in Int /\ settled \in BOOLEAN /\ activeFrom \in [Trade -> Int]
    BY DEF Consistent, Typed, TypeOK
  <1>2. CASE Tick
    BY <1>1, <1>2 DEF Tick, LastPassedHour, tables
  <1>3. ASSUME UNCHANGED clockVars, Known \subseteq Known',
               \A t \in Known : activeFrom'[t] = activeFrom[t]
        PROVE  /\ LastPassedHour \in Int /\ LastPassedHour' \in Int
               /\ LastPassedHour <= LastPassedHour'
    BY <1>1, <1>3 DEF clockVars, LastPassedHour
  <1>4. CASE Requests
    <2>1. ASSUME NEW t \in Trade, PlaceTrade(t)
          PROVE  /\ UNCHANGED clockVars /\ Known \subseteq Known'
                 /\ \A x \in Known : activeFrom'[x] = activeFrom[x]
      BY <1>1, <2>1 DEF PlaceTrade, Consistent, Typed, TypeOK
    <2>2. ASSUME NEW t \in Trade, CancelTrade(t)
          PROVE  /\ UNCHANGED clockVars /\ Known \subseteq Known'
                 /\ \A x \in Known : activeFrom'[x] = activeFrom[x]
      BY <2>2 DEF CancelTrade
    <2> QED
      BY <1>3, <1>4, <2>1, <2>2 DEF Requests, OpenPortfolio
  <1>5. CASE UNCHANGED <<clockVars, active, activeFrom, historical>>
    BY <1>3, <1>5 DEF Known
  <1>6. ASSUME NEW r \in Run, Fastforward(r) \/ ExecuteHour(r) \/ SaveStates(r)
        PROVE  /\ UNCHANGED clockVars /\ UNCHANGED activeFrom /\ Known \subseteq Known'
    <2>1. CASE Commit(r)
      <3>1. \A c \in pending[r].moves : c \in historical'
        BY <2>1, CommitFields
      <3> QED
        BY <2>1, <3>1, CommitFields
    <2>2. ASSUME NEW c \in job[r].closings,
                 MoveInTransaction(r, c) \/ MoveOnOwnConnection(r, c)
          PROVE  /\ UNCHANGED clockVars /\ UNCHANGED activeFrom /\ Known \subseteq Known'
      BY <2>2, MoveFields
    <2>3. CASE UNCHANGED <<clockVars, active, activeFrom, historical>>
      BY <2>3
    <2> QED
      BY <1>6, <2>1, <2>2, <2>3, RunSteps, ListFields, ReadFields, PricesFields, TryFields,
         BeginFields, UpdateFields, BeginUserFields, CheckSavedFields, CreateFields,
         BeginSavingFields, SaveFields, SaveCreatedFields, RecordFields, UnwindFields
      DEF TablesStay, tables
  <1>7. CASE Crash \/ UNCHANGED vars
    BY <1>5, <1>7 DEF Crash, vars, tables, clockVars
  <1> QED
    BY <1>2, <1>3, <1>4, <1>6, <1>7 DEF Next

-----------------------------------------------------------------------------
(* Trades are closed for hours that have passed, by any number of runs.    *)

\* A run at j with the uncommitted writes w is in an hour that has passed,
\* and its trades are of known ids and were active in it.
OnTime(j, w, known, from, passed) ==
    /\ j.pc \in HourPcs => j.hour <= j.upto /\ j.upto <= passed
    /\ \A t \in j.todo : t \in known /\ from[t] <= j.hour
    /\ \A c \in j.closings \cup w.moves :
           c.id \in known /\ from[c.id] <= c.hour /\ c.hour = j.hour

Closed(c, from, passed) == c.status # "cancelled" => from[c.id] <= c.hour /\ c.hour <= passed

RunsOnTime ==
    /\ \A r \in Run : OnTime(job[r], pending[r], Known, activeFrom, LastPassedHour)
    /\ \A c \in historical : Closed(c, activeFrom, LastPassedHour)

\* Time passes and trades are added.
LEMMA StaysOnTime ==
  ASSUME NEW j \in Jobs, NEW w, NEW known, NEW from, NEW passed \in Int,
         OnTime(j, w, known, from, passed),
         NEW known2, NEW from2, NEW passed2 \in Int,
         known \subseteq known2, \A t \in known : from2[t] = from[t], passed <= passed2
  PROVE  OnTime(j, w, known2, from2, passed2)
  <1>1. j.hour \in Int /\ j.upto \in Int
    BY DEF Jobs
  <1> QED
    BY <1>1 DEF OnTime

\* A run between hours has no trades.
LEMMA QuietOnTime ==
  ASSUME NEW k, Quiet(k), NEW known, NEW from, NEW passed,
         k.pc \in HourPcs => k.hour <= k.upto /\ k.upto <= passed
  PROVE  OnTime(k, NoWrites, known, from, passed)
  BY DEF OnTime, Quiet, NoWrites

LEMMA LeavesOnTime ==
  ASSUME NEW j, NEW k, LeavesHour(j, k), j.pc \in HourPcs,
         NEW w, NEW known, NEW from, NEW passed, OnTime(j, w, known, from, passed)
  PROVE  OnTime(k, NoWrites, known, from, passed)
  <1>1. k.pc \in HourPcs => k.hour <= k.upto /\ k.upto <= passed
    BY DEF LeavesHour, OnTime, HourPcs
  <1> QED
    BY <1>1, QuietOnTime DEF LeavesHour

\* A step of run r, by what it makes of r's place and writes.
LEMMA RunOnTime ==
  ASSUME Consistent, RunsOnTime, NEW r \in Run,
         Fastforward(r) \/ ExecuteHour(r) \/ SaveStates(r)
  PROVE  OnTime(job'[r], pending'[r], Known, activeFrom, LastPassedHour)
  <1> DEFINE j == job[r]
             w == pending[r]
             k == job'[r]
  <1>1. /\ OnTime(j, w, Known, activeFrom, LastPassedHour)
        /\ j \in Jobs /\ LastPassedHour \in Int
    BY DEF RunsOnTime, Consistent, Typed, TypeOK, LastPassedHour
  <1>2. CASE ListActiveTrades(r)
    <2>1. \A t \in ActiveInHour(j.user, j.hour) : t \in Known /\ activeFrom[t] <= j.hour
      BY DEF ActiveInHour, Known
    <2> HIDE DEF j, k
    <2>2. /\ j.pc = "trades" /\ k.pc = "portfolio" /\ SameHour(j, k) /\ k.closings = {}
          /\ k.todo = ActiveInHour(j.user, j.hour) /\ pending'[r] = NoWrites
      BY <1>2, ListFields DEF j, k
    <2> QED
      BY <1>1, <2>1, <2>2 DEF OnTime, SameHour, HourPcs, NoWrites, k
  <1>3. CASE ReadPortfolio(r) \/ GetPrices(r)
    <2>1. j.pc \in HourPcs /\ pending'[r] = NoWrites /\ w = NoWrites
      BY <1>3, ReadFields, PricesFields DEF HourPcs
    <2>2. CASE LeavesHour(j, k)
      BY <1>1, <2>1, <2>2, LeavesOnTime
    <2>3. CASE SameHour(j, k) /\ k.todo = j.todo /\ k.closings = {}
      BY <1>1, <2>1, <2>3 DEF OnTime, SameHour, NoWrites
    <2> QED
      BY <1>3, <2>2, <2>3, ReadFields, PricesFields
  <1>4. ASSUME NEW t \in Trade, TryTrade(r, t)
        PROVE  OnTime(k, pending'[r], Known, activeFrom, LastPassedHour)
    <2> DEFINE closing == [id |-> t, status |-> Outcome(t, j.hour, j.base), hour |-> j.hour]
    <2>1. /\ j.pc = "try" /\ k.pc = "try" /\ SameHour(j, k) /\ t \in j.todo
          /\ k.todo \subseteq j.todo /\ k.closings \subseteq j.closings \cup {closing}
          /\ pending'[r] = NoWrites
      <3>1. k.closings = IF Outcome(t, j.hour, j.base) \in ClosingStatuses
                         THEN j.closings \cup {closing} ELSE j.closings
        BY <1>4, TryFields
      <3>2. /\ j.pc = "try" /\ k.pc = "try" /\ SameHour(j, k) /\ IsFirst(t, j.todo)
            /\ k.todo = j.todo \ {t} /\ pending'[r] = NoWrites
        BY <1>4, TryFields
      <3> HIDE DEF closing, j, k
      <3> QED
        BY <3>1, <3>2 DEF IsFirst
    <2>2. closing.id = t /\ closing.hour = j.hour
      OBVIOUS
    <2> HIDE DEF closing, j, k
    <2> QED
      BY <1>1, <2>1, <2>2 DEF OnTime, SameHour, HourPcs, NoWrites
  <1>5. CASE BeginTransaction(r)
    <2>1. /\ j.pc = "try" /\ SameHour(j, k) /\ k.todo = {} /\ k.closings = j.closings
          /\ pending'[r] = NoWrites
      BY <1>5, BeginFields
    <2> HIDE DEF j, k
    <2> QED
      BY <1>1, <2>1 DEF OnTime, SameHour, HourPcs, NoWrites, k
  <1>6. ASSUME NEW c \in job[r].closings, MoveInTransaction(r, c) \/ MoveOnOwnConnection(r, c)
        PROVE  OnTime(k, pending'[r], Known, activeFrom, LastPassedHour)
    <2>1. /\ j.pc = "move" /\ SameHour(j, k) /\ k.todo = j.todo
          /\ k.closings \cup pending'[r].moves \subseteq j.closings \cup w.moves
      BY <1>6, MoveFields
    <2> HIDE DEF j, k, w
    <2> QED
      BY <1>1, <2>1 DEF OnTime, SameHour, HourPcs
  <1>7. CASE UpdateInTransaction(r) \/ UpdateOnOwnConnection(r)
    <2>1. /\ j.pc = "move" /\ SameHour(j, k) /\ k.todo = j.todo /\ k.closings = {}
          /\ pending'[r].moves = w.moves
      BY <1>7, UpdateFields
    <2> HIDE DEF j, k, w
    <2> QED
      BY <1>1, <2>1 DEF OnTime, SameHour, HourPcs, k
  <1>8. CASE Commit(r)
    <2>1. j.pc \in HourPcs /\ LeavesHour(j, k) /\ pending'[r] = NoWrites
      BY <1>8, CommitFields DEF HourPcs
    <2> QED
      BY <1>1, <2>1, LeavesOnTime
  <1>9. ASSUME NEW u \in User, BeginUser(r, u)
        PROVE  OnTime(k, pending'[r], Known, activeFrom, LastPassedHour)
    <2>1. /\ Quiet(k) /\ pending'[r] = pending[r] /\ j.pc = "next_user"
          /\ k.pc \in HourPcs => k.hour <= k.upto /\ k.upto = LastPassedHour
      BY <1>9, BeginUserFields DEF HourPcs
    <2>2. pending[r] = NoWrites
      BY <2>1, NothingUncommitted DEF TransactionPcs
    <2> QED
      BY <1>1, <2>1, <2>2, QuietOnTime
  <1>10. CASE \/ \E u \in User : CheckLastRecorded(r, u)
              \/ CreatePortfolio(r) \/ BeginSaving(r) \/ SavePortfolio(r)
              \/ SaveCreatedPortfolio(r) \/ RecordState(r)
    <2>1. Quiet(k) /\ pending'[r] = pending[r] /\ k.pc \notin HourPcs /\ j.pc \notin TransactionPcs
      BY <1>10, CheckSavedFields, CreateFields, BeginSavingFields, SaveFields,
         SaveCreatedFields, RecordFields
      DEF HourPcs, TransactionPcs
    <2>2. pending[r] = NoWrites
      BY <2>1, NothingUncommitted
    <2> QED
      BY <2>1, <2>2, QuietOnTime
  <1>11. CASE Unwinds(r)
    BY <1>11, UnwindFields, QuietOnTime DEF HourPcs
  <1> QED
    BY <1>2, <1>3, <1>4, <1>5, <1>6, <1>7, <1>8, <1>9, <1>10, <1>11, RunSteps

\* What a step closes is known to have been active in an hour that has passed.
LEMMA NewlyClosed ==
  ASSUME Consistent, RunsOnTime, [Next]_vars, NEW c \in historical' \ historical
  PROVE  Closed(c, activeFrom, LastPassedHour) /\ (c.status # "cancelled" => c.id \in active)
  <1>1. ASSUME NEW t \in Trade, CancelTrade(t) PROVE c.status = "cancelled"
    BY <1>1 DEF CancelTrade
  <1>2. ASSUME NEW r \in Run, Fastforward(r) \/ ExecuteHour(r) \/ SaveStates(r)
        PROVE  Closed(c, activeFrom, LastPassedHour) /\ c.id \in active
    <2>1. /\ OnTime(job[r], pending[r], Known, activeFrom, LastPassedHour)
          /\ job[r] \in Jobs /\ LastPassedHour \in Int
      BY DEF RunsOnTime, Consistent, Typed, TypeOK, LastPassedHour
    <2>2. /\ c \in job[r].closings \cup pending[r].moves /\ job[r].pc \in HourPcs
          /\ c.id \in active
      <3>1. CASE Commit(r)
        <4>1. c \in pending[r].moves /\ job[r].pc = "commit"
          BY <3>1, CommitFields
        <4>2. MovedIds(pending[r].moves) \subseteq active
          BY DEF Consistent, RunConsistent, Bookkeeping
        <4> QED
          BY <4>1, <4>2 DEF MovedIds, HourPcs
      <3>2. ASSUME NEW d \in job[r].closings,
                   MoveInTransaction(r, d) \/ MoveOnOwnConnection(r, d)
            PROVE  c = d /\ job[r].pc = "move" /\ c.id \in active
        BY <3>2, MoveFields
      <3>3. CASE historical' = historical
        BY <3>3
      <3> QED
        BY <1>2, <3>1, <3>2, <3>3, RunSteps, ListFields, ReadFields, PricesFields, TryFields,
           BeginFields, UpdateFields, BeginUserFields, CheckSavedFields, CreateFields,
           BeginSavingFields, SaveFields, SaveCreatedFields, RecordFields, UnwindFields
        DEF TablesStay, tables, HourPcs
    <2>3. c.hour = job[r].hour /\ activeFrom[c.id] <= c.hour
      BY <2>1, <2>2 DEF OnTime
    <2>4. job[r].hour <= job[r].upto /\ job[r].upto <= LastPassedHour
      BY <2>1, <2>2 DEF OnTime
    <2>5. job[r].hour \in Int /\ job[r].upto \in Int
      BY <2>1 DEF Jobs
    <2> QED
      BY <2>1, <2>2, <2>3, <2>4, <2>5 DEF Closed
  <1>3. CASE historical' = historical
    BY <1>3
  <1> QED
    BY <1>1, <1>2, <1>3 DEF Next, Requests, Tick, PlaceTrade, OpenPortfolio, Crash, vars,
       tables, Closed

LEMMA AlwaysOnTime == Spec => []RunsOnTime
  <1>1. Init => RunsOnTime
    <2>1. Quiet(IdleJob) /\ IdleJob.pc = "idle"
      BY IdleCloses DEF Quiet
    <2>2. \A k : IdleJob.pc \notin HourPcs
      BY <2>1 DEF HourPcs
    <2> QED
      BY <2>1, <2>2, QuietOnTime DEF Init, RunsOnTime
  <1>2. Consistent /\ RunsOnTime /\ [Next]_vars /\ Consistent' => RunsOnTime'
    <2> SUFFICES ASSUME Consistent, RunsOnTime, [Next]_vars, Consistent' PROVE RunsOnTime'
      OBVIOUS
    <2>1. /\ Known \subseteq Known' /\ \A t \in Known : activeFrom'[t] = activeFrom[t]
          /\ LastPassedHour \in Int /\ LastPassedHour' \in Int
          /\ LastPassedHour <= LastPassedHour'
      BY WorldMovesOn
    <2>2. ASSUME NEW s \in Run
          PROVE  OnTime(job'[s], pending'[s], Known, activeFrom, LastPassedHour)
      <3>1. ASSUME NEW r \in Run, Fastforward(r) \/ ExecuteHour(r) \/ SaveStates(r)
            PROVE  OnTime(job'[s], pending'[s], Known, activeFrom, LastPassedHour)
        BY <3>1, RunOnTime, OthersStay DEF RunsOnTime
      <3>2. CASE UNCHANGED <<job, pending>>
        BY <3>2 DEF RunsOnTime
      <3>3. CASE Crash
        <4>1. job'[s] = IdleJob /\ pending'[s] = NoWrites
          BY <3>3 DEF Crash
        <4> QED
          BY <4>1, IdleCloses, QuietOnTime DEF Quiet, HourPcs
      <3> QED
        BY <3>1, <3>2, <3>3 DEF Next, Requests, Tick, PlaceTrade, CancelTrade, OpenPortfolio, vars
    <2>3. ASSUME NEW s \in Run
          PROVE  OnTime(job'[s], pending'[s], Known', activeFrom', LastPassedHour')
      <3>1. job'[s] \in Jobs
        BY DEF Consistent, Typed, TypeOK
      <3> QED
        BY <2>1, <2>2, <3>1, StaysOnTime
    <2>4. ASSUME NEW c \in historical' PROVE Closed(c, activeFrom', LastPassedHour')
      <3>1. Closed(c, activeFrom, LastPassedHour) /\ (c.status # "cancelled" => c.id \in Known)
        BY NewlyClosed DEF RunsOnTime, Known, MovedIds
      <3>2. c.hour \in Int
        BY DEF Consistent, Typed, TypeOK, HistoricalTrades, Closings
      <3> QED
        BY <2>1, <3>1, <3>2 DEF Closed
    <2> QED
      BY <2>3, <2>4 DEF RunsOnTime
  <1> QED
    BY <1>1, <1>2, AlwaysConsistent, PTL DEF Spec

\* The job closes a trade for an hour it was active in and whose prices are
\* complete, for any overlap of runs, requests, exceptions and crashes.
THEOREM ClosingsAreOfPassedHours == Spec => []ClosedInPassedHour
  <1>1. Consistent /\ RunsOnTime => ClosedInPassedHour
    <2> SUFFICES ASSUME Consistent, RunsOnTime, NEW c \in historical, c.status # "cancelled"
                 PROVE  /\ activeFrom[c.id] <= c.hour
                        /\ c.hour + 1 < hour \/ (c.hour + 1 = hour /\ settled)
      BY DEF ClosedInPassedHour
    <2>1. c.hour \in Int /\ hour \in Int /\ settled \in BOOLEAN
      BY DEF Consistent, Typed, TypeOK, HistoricalTrades, Closings
    <2>2. activeFrom[c.id] <= c.hour /\ c.hour <= LastPassedHour
      BY DEF RunsOnTime, Closed
    <2> QED
      BY <2>1, <2>2 DEF LastPassedHour
  <1> QED
    BY <1>1, AlwaysConsistent, AlwaysOnTime, PTL

-----------------------------------------------------------------------------
(* One run at a time.                                                      *)

\* Any number of threads, none of which starts a run before the last one is
\* over.
OneAtATime == \A r, s \in Run : job[r].pc # "idle" /\ job[s].pc # "idle" => r = s

\* The market is shut in the hours between.
ShutBetween(h, i) == \A k \in h + 1 .. i - 1 : k \notin OpenHours

\* Before and ActiveInHour, of any tables.
Precedes(s, t, from) == from[s] < from[t] \/ (from[s] = from[t] /\ Rank[s] < Rank[t])
DueIn(j, act, from) == {t \in act : Owner[t] = j.user /\ from[t] <= j.hour}

\* Of the closings of hour h, t has the one its predecessors leave it.
Settled(t, closings, fills, h, from) ==
    LET meets == fills \cup Promised!FillsOf({c \in closings : Precedes(c.id, t, from)})
        outcome == Outcome(t, h, meets)
    IN  /\ outcome # "raises"
        /\ {c \in closings : c.id = t} =
               IF outcome \in ClosingStatuses
               THEN {[id |-> t, status |-> outcome, hour |-> h]} ELSE {}

\* What a run in an hour, at j with the uncommitted writes w, has made of the
\* row p of its user: the due trades it has tried are settled, in their order.
InHour(j, w, p, closings, tried, from) ==
    /\ p.last < j.hour /\ ShutBetween(p.last, j.hour)
    /\ j.pc \in {"portfolio", "prices"} => tried = {}
    /\ j.pc \in {"try", "move", "commit"} =>
           /\ j.hour \in OpenHours
           /\ \A t \in tried : Settled(t, closings, p.fills, j.hour, from)
           /\ \A s \in tried \cup MovedIds(closings), t \in j.todo : Precedes(s, t, from)
    /\ \A c \in closings : Owner[c.id] = j.user
    /\ j.pc \in {"prices", "try", "move"} => j.base = p.fills \cup Promised!FillsOf(closings)
    /\ j.pc = "commit" =>
           w.portfolio = [fills |-> p.fills \cup Promised!FillsOf(closings),
                          last |-> j.hour, born |-> p.born]

Hourly(j, w, p, act, from) ==
    InHour(j, w, p, j.closings \cup w.moves, DueIn(j, act, from) \ j.todo, from)

\* A run that saves states is at an hour that has passed, and at no user's
\* second state of it; no portfolio has come to a later hour meanwhile.
Saves(j, ports, sts, passed) ==
    /\ FirstHour - 2 <= j.hour /\ j.hour <= passed
    /\ \A u \in User : ports[u] # None => \A f \in ports[u].fills : f[2] <= j.hour
    /\ j.pc # "save" => \A s \in sts : s.user = j.user => s.hour < j.hour
    /\ j.pc = "save_write" => /\ ports[j.user] # None
                              /\ ports[j.user].last >= j.hour
                              /\ ports[j.user].fills = j.base

Alone(r) ==
    /\ job[r].pc \in TransactionPcs => activeConn = r
    /\ job[r].pc \in HourPcs =>
           Hourly(job[r], pending[r], portfolio[job[r].user], active, activeFrom)
    /\ job[r].pc \in SavePcs => Saves(job[r], portfolio, states, LastPassedHour)

Serial == hour \in FirstHour .. MaxHour /\ \A r \in Run : Alone(r)

\* Trades that become due for later hours, and trades that are cancelled,
\* change nothing for the run.
LEMMA HourlyStays ==
  ASSUME NEW j, NEW w, NEW p, NEW act, NEW from, Hourly(j, w, p, act, from),
         NEW act2, NEW from2,
         \A t \in DueIn(j, act2, from2) : t \in act /\ from2[t] = from[t],
         \A t \in j.todo : from2[t] = from[t],
         \A c \in j.closings \cup w.moves : from2[c.id] = from[c.id]
  PROVE  Hourly(j, w, p, act2, from2)
  <1> DEFINE closings == j.closings \cup w.moves
             tried == DueIn(j, act, from) \ j.todo
             tried2 == DueIn(j, act2, from2) \ j.todo
  <1>1. tried2 \subseteq tried /\ \A t \in tried2 : from2[t] = from[t]
    BY DEF DueIn
  <1>2. \A s \in MovedIds(closings) : from2[s] = from[s]
    BY DEF MovedIds
  <1> HIDE DEF closings, tried, tried2
  <1>3. ASSUME NEW t \in tried2, Settled(t, closings, p.fills, j.hour, from)
        PROVE  Settled(t, closings, p.fills, j.hour, from2)
    <2>1. {c \in closings : Precedes(c.id, t, from2)} = {c \in closings : Precedes(c.id, t, from)}
      BY <1>1, <1>2 DEF Precedes, MovedIds
    <2> QED
      BY <1>3, <2>1 DEF Settled
  <1>4. \A s \in tried2 \cup MovedIds(closings), t \in j.todo :
            Precedes(s, t, from) => Precedes(s, t, from2)
    BY <1>1, <1>2 DEF Precedes
  <1>5. InHour(j, w, p, closings, tried, from)
    BY DEF Hourly, closings, tried
  <1>6. InHour(j, w, p, closings, tried2, from2)
    BY <1>1, <1>3, <1>4, <1>5 DEF InHour
  <1> QED
    BY <1>6 DEF Hourly, closings, tried2

\* A run at the start of an hour.
LEMMA HourlyStarts ==
  ASSUME NEW k, k.pc = "trades", Quiet(k), NEW p, NEW act, NEW from,
         p.last < k.hour, ShutBetween(p.last, k.hour)
  PROVE  Hourly(k, NoWrites, p, act, from)
  <1>1. k.closings \cup NoWrites.moves = {}
    BY DEF Quiet, NoWrites
  <1> QED
    BY <1>1 DEF Hourly, InHour

\* Nothing precedes itself or its successors.
LEMMA PrecedesOneWay ==
  ASSUME NEW s \in Trade, NEW t \in Trade, NEW from \in [Trade -> Int], Precedes(s, t, from)
  PROVE  ~Precedes(t, s, from) /\ s # t
  <1>1. from[s] \in Int /\ from[t] \in Int /\ Rank[s] \in Nat /\ Rank[t] \in Nat
    BY RankAssumption
  <1> QED
    BY <1>1 DEF Precedes

LEMMA FillsOfMore ==
  ASSUME NEW closings, NEW c
  PROVE  Promised!FillsOf(closings \cup {c}) =
             Promised!FillsOf(closings) \cup (IF c.status = "executed" THEN {<<c.id, c.hour>>}
                                              ELSE {})
  BY DEF Promised!FillsOf

\* A trade that comes to a result in hour h, after those in closings.
WithResult(closings, t, result, h) ==
    IF result \in ClosingStatuses
    THEN closings \cup {[id |-> t, status |-> result, hour |-> h]} ELSE closings

\* The first of todo comes to that result, after all in tried are settled.
TriesFirst(t, result, h, closings, fills, tried, todo, from) ==
    /\ from \in [Trade -> Int] /\ t \in Trade /\ t \in todo
    /\ tried \subseteq Trade /\ todo \subseteq Trade
    /\ \A c \in closings : c.id \in Trade
    /\ \A s \in tried : Settled(s, closings, fills, h, from)
    /\ \A s \in tried \cup MovedIds(closings), x \in todo : Precedes(s, x, from)
    /\ \A x \in todo \ {t} : Precedes(t, x, from)
    /\ result # "raises" /\ result = Outcome(t, h, fills \cup Promised!FillsOf(closings))

\* It meets what all the tried ones have left, and its closing is after theirs.
LEMMA TrySettles ==
  ASSUME NEW t, NEW result, NEW h, NEW closings, NEW fills, NEW tried, NEW todo, NEW from,
         TriesFirst(t, result, h, closings, fills, tried, todo, from)
  PROVE  LET closings2 == WithResult(closings, t, result, h)
         IN  /\ \A s \in tried \cup {t} : Settled(s, closings2, fills, h, from)
             /\ \A s \in tried \cup {t} \cup MovedIds(closings2), x \in todo \ {t} :
                    Precedes(s, x, from)
  <1> DEFINE closings2 == WithResult(closings, t, result, h)
  <1>0. closings2 = IF result \in ClosingStatuses
                    THEN closings \cup {[id |-> t, status |-> result, hour |-> h]}
                    ELSE closings
    BY DEF WithResult
  <1> HIDE DEF closings2
  <1> USE DEF TriesFirst
  <1> DEFINE closing == [id |-> t, status |-> result, hour |-> h]
  <1>1. closing.id = t
    OBVIOUS
  <1>2. \A c \in closings : c.id \in MovedIds(closings)
    BY DEF MovedIds
  <1>3. \A c \in closings : Precedes(c.id, t, from) /\ c.id # t
    BY <1>2, PrecedesOneWay
  <1>4. ~Precedes(t, t, from)
    BY PrecedesOneWay
  <1>5. \A s \in tried : ~Precedes(t, s, from) /\ s # t
    BY PrecedesOneWay
  <1>6. Settled(t, closings2, fills, h, from)
    <2>1. {c \in closings2 : Precedes(c.id, t, from)} = closings
      BY <1>0, <1>1, <1>3, <1>4
    <2>2. {c \in closings2 : c.id = t} = IF result \in ClosingStatuses THEN {closing} ELSE {}
      <3> HIDE DEF closing
      <3> QED
        BY <1>0, <1>1, <1>3 DEF closing
    <2> QED
      BY <2>1, <2>2 DEF Settled
  <1>7. ASSUME NEW s \in tried PROVE Settled(s, closings2, fills, h, from)
    <2>1. closings2 = closings \/ closings2 = closings \cup {closing}
      BY <1>0
    <2> HIDE DEF closing
    <2>2. /\ {c \in closings2 : Precedes(c.id, s, from)} = {c \in closings : Precedes(c.id, s, from)}
          /\ {c \in closings2 : c.id = s} = {c \in closings : c.id = s}
      BY <1>1, <1>5, <2>1
    <2> QED
      BY <2>2 DEF Settled
  <1>8. MovedIds(closings2) \subseteq MovedIds(closings) \cup {t}
    BY <1>0, <1>1 DEF MovedIds
  <1>9. \A s \in tried \cup {t} : Settled(s, closings2, fills, h, from)
    BY <1>6, <1>7
  <1>10. \A s \in tried \cup {t} \cup MovedIds(closings2), x \in todo \ {t} : Precedes(s, x, from)
    BY <1>8
  <1> QED
    BY <1>9, <1>10 DEF closings2

\* A run in an hour of its user, before that hour is committed.
LEMMA HourFacts ==
  ASSUME Consistent, Serial, NEW r \in Run, job[r].pc \in HourPcs
  PROVE  /\ job[r] \in Jobs /\ job[r].user \in User
         /\ job[r].hour \in Int /\ job[r].upto \in Int
         /\ portfolio[job[r].user] # None /\ portfolio[job[r].user] \in Portfolios
         /\ portfolio[job[r].user].last \in Int
         /\ Hourly(job[r], pending[r], portfolio[job[r].user], active, activeFrom)
  <1>1. job[r].user \in User /\ portfolio[job[r].user] # None
    BY RowOf DEF Consistent
  <1>2. job[r] \in Jobs /\ portfolio[job[r].user] \in Portfolios
    BY <1>1 DEF Consistent, Typed, TypeOK
  <1> QED
    BY <1>1, <1>2 DEF Serial, Alone, Jobs, Portfolios

\* The next hour, when the one the run is in was shut.
LEMMA NextHourStarts ==
  ASSUME NEW j \in Jobs, NEW k, LeavesHour(j, k), NEW p, p.last \in Int, p.last <= j.hour,
         ShutBetween(p.last, j.hour), p.last = j.hour \/ j.hour \notin OpenHours,
         k.pc \in HourPcs, NEW act, NEW from
  PROVE  Hourly(k, NoWrites, p, act, from) /\ k.pc = "trades" /\ k.user = j.user
  <1>1. k.pc = "trades" /\ Quiet(k) /\ k.user = j.user /\ k.hour = j.hour + 1
    BY DEF LeavesHour, HourPcs
  <1>2. j.hour \in Int
    BY DEF Jobs
  <1>3. p.last < k.hour /\ ShutBetween(p.last, k.hour)
    BY <1>1, <1>2 DEF ShutBetween
  <1> QED
    BY <1>1, <1>3, HourlyStarts

LEMMA ListAlone ==
  ASSUME Consistent, Serial, NEW r \in Run, ListActiveTrades(r) PROVE Alone(r)'
  <1> DEFINE j == job[r]
             k == job'[r]
             p == portfolio[j.user]
  <1>1. /\ j.pc = "trades" /\ k.pc = "portfolio" /\ SameHour(j, k) /\ k.closings = {}
        /\ k.todo = ActiveInHour(j.user, j.hour)
        /\ pending[r] = NoWrites /\ pending'[r] = NoWrites
        /\ active' = active /\ activeFrom' = activeFrom /\ portfolio' = portfolio
    BY ListFields DEF TablesStay, tables
  <1>2. Hourly(j, NoWrites, p, active, activeFrom)
    BY <1>1, HourFacts DEF HourPcs
  <1> HIDE DEF j, k, p
  <1>3. DueIn(k, active, activeFrom) \ k.todo = {}
    BY <1>1 DEF DueIn, ActiveInHour, SameHour
  <1>4. k.closings \cup NoWrites.moves = {}
    BY <1>1 DEF NoWrites
  <1>5. Hourly(k, NoWrites, p, active, activeFrom)
    BY <1>1, <1>2, <1>3, <1>4 DEF Hourly, InHour, SameHour
  <1> QED
    BY <1>1, <1>5 DEF Alone, TransactionPcs, SavePcs, SameHour, j, k, p

LEMMA ReadAlone ==
  ASSUME Consistent, Serial, NEW r \in Run, ReadPortfolio(r) PROVE Alone(r)'
  <1> DEFINE j == job[r]
             k == job'[r]
             p == portfolio[j.user]
  <1>1. /\ j.pc = "portfolio" /\ pending[r] = NoWrites /\ pending'[r] = NoWrites
        /\ active' = active /\ activeFrom' = activeFrom /\ portfolio' = portfolio
        /\ \/ p.last >= j.hour
           \/ /\ k.pc = "prices" /\ SameHour(j, k) /\ k.todo = j.todo
              /\ k.closings = {} /\ k.base = p.fills
    BY ReadFields DEF TablesStay, tables
  <1>2. Hourly(j, NoWrites, p, active, activeFrom) /\ j.hour \in Int /\ p.last \in Int
    BY <1>1, HourFacts DEF HourPcs
  <1> HIDE DEF j, k, p
  <1>3. p.last < j.hour
    BY <1>2 DEF Hourly, InHour
  <1>4. /\ k.pc = "prices" /\ SameHour(j, k) /\ k.todo = j.todo
        /\ k.closings = {} /\ k.base = p.fills
    BY <1>1, <1>2, <1>3
  <1>5. /\ k.closings \cup NoWrites.moves = {} /\ Promised!FillsOf({}) = {}
        /\ DueIn(k, active, activeFrom) = DueIn(j, active, activeFrom)
    BY <1>4 DEF NoWrites, DueIn, SameHour, Promised!FillsOf
  <1>6. Hourly(k, NoWrites, p, active, activeFrom)
    BY <1>1, <1>2, <1>4, <1>5 DEF Hourly, InHour, SameHour
  <1> QED
    BY <1>1, <1>4, <1>6 DEF Alone, TransactionPcs, SavePcs, SameHour, j, k, p

LEMMA PricesAlone ==
  ASSUME Consistent, Serial, NEW r \in Run, GetPrices(r) PROVE Alone(r)'
  <1> DEFINE j == job[r]
             k == job'[r]
             p == portfolio[j.user]
  <1>1. /\ j.pc = "prices" /\ pending[r] = NoWrites /\ pending'[r] = NoWrites
        /\ j.closings = {}
        /\ active' = active /\ activeFrom' = activeFrom /\ portfolio' = portfolio
        /\ \/ LeavesHour(j, k) /\ j.hour \notin OpenHours
           \/ /\ k.pc = "try" /\ SameHour(j, k) /\ k.todo = j.todo
              /\ k.closings = {} /\ k.base = j.base /\ j.hour \in OpenHours
    BY PricesFields DEF TablesStay, tables
  <1>2. /\ Hourly(j, NoWrites, p, active, activeFrom)
        /\ j \in Jobs /\ j.hour \in Int /\ p.last \in Int
    BY <1>1, HourFacts DEF HourPcs
  <1> HIDE DEF j, k, p
  <1>3. p.last < j.hour /\ ShutBetween(p.last, j.hour)
    BY <1>2 DEF Hourly, InHour
  <1>4. CASE LeavesHour(j, k) /\ j.hour \notin OpenHours
    <2>1. k.pc \in {"next_user", "trades"}
      BY <1>4 DEF LeavesHour
    <2>2. k.pc \in HourPcs => Hourly(k, NoWrites, p, active, activeFrom) /\ k.user = j.user
      BY <1>2, <1>3, <1>4, NextHourStarts
    <2> QED
      BY <1>1, <2>1, <2>2 DEF Alone, TransactionPcs, SavePcs, j, k, p
  <1>5. CASE /\ k.pc = "try" /\ SameHour(j, k) /\ k.todo = j.todo
             /\ k.closings = {} /\ k.base = j.base /\ j.hour \in OpenHours
    <2>1. /\ k.closings \cup NoWrites.moves = {} /\ j.closings \cup NoWrites.moves = {}
          /\ DueIn(k, active, activeFrom) = DueIn(j, active, activeFrom)
          /\ MovedIds({}) = {}
      BY <1>1, <1>5 DEF NoWrites, DueIn, SameHour, MovedIds
    <2>2. Hourly(k, NoWrites, p, active, activeFrom)
      BY <1>1, <1>2, <1>5, <2>1 DEF Hourly, InHour, SameHour
    <2> QED
      BY <1>1, <1>5, <2>2 DEF Alone, TransactionPcs, SavePcs, SameHour, j, k, p
  <1> QED
    BY <1>1, <1>4, <1>5

LEMMA TryAlone ==
  ASSUME Consistent, RunsOnTime, Serial, NEW r \in Run, NEW t \in Trade, TryTrade(r, t)
  PROVE  Alone(r)'
  <1> DEFINE j == job[r]
             k == job'[r]
             p == portfolio[j.user]
             result == Outcome(t, j.hour, j.base)
             closing == [id |-> t, status |-> result, hour |-> j.hour]
             tried == DueIn(j, active, activeFrom) \ j.todo
             tried2 == DueIn(k, active, activeFrom) \ k.todo
  <1>1. /\ j.pc = "try" /\ k.pc = "try" /\ SameHour(j, k)
        /\ IsFirst(t, j.todo) /\ k.todo = j.todo \ {t} /\ result # "raises"
        /\ k.base = IF result = "executed" THEN j.base \cup {<<t, j.hour>>} ELSE j.base
        /\ k.closings = IF result \in ClosingStatuses THEN j.closings \cup {closing}
                        ELSE j.closings
        /\ pending[r] = NoWrites /\ pending'[r] = NoWrites
    BY TryFields
  <1>2. active' = active /\ activeFrom' = activeFrom /\ portfolio' = portfolio
    BY TryFields DEF TablesStay, tables
  <1>3. Hourly(j, NoWrites, p, active, activeFrom) /\ j \in Jobs
    BY <1>1, HourFacts DEF HourPcs
  <1>4. Owner[t] = j.user
    BY <1>1 DEF IsFirst, Consistent, RunConsistent, Accounted
  <1>5. activeFrom \in [Trade -> Int] /\ active \subseteq Trade
    BY DEF Consistent, Typed, TypeOK
  <1>6. closing.id = t /\ closing.status = result /\ closing.hour = j.hour
    OBVIOUS
  <1> HIDE DEF j, k, p, result, closing
  <1>7. /\ j.closings \cup NoWrites.moves = j.closings
        /\ k.closings \cup NoWrites.moves = k.closings
    BY DEF NoWrites
  <1>8. InHour(j, NoWrites, p, j.closings, tried, activeFrom)
    BY <1>3, <1>7 DEF Hourly
  <1>9. \A x \in j.todo \ {t} : Precedes(t, x, activeFrom)
    BY <1>1 DEF IsFirst, Before, Precedes
  <1>10. /\ tried \in SUBSET Trade /\ tried2 \subseteq tried \cup {t}
         /\ j.todo \in SUBSET Trade /\ t \in j.todo
         /\ \A c \in j.closings : c.id \in Trade
    BY <1>1, <1>3, <1>5 DEF DueIn, SameHour, Jobs, Closings, IsFirst
  <1> HIDE DEF tried, tried2
  <1>11. result = Outcome(t, j.hour, p.fills \cup Promised!FillsOf(j.closings))
    BY <1>1, <1>8 DEF InHour, result
  <1>12. k.closings = IF result \in ClosingStatuses
                      THEN j.closings \cup {[id |-> t, status |-> result, hour |-> j.hour]}
                      ELSE j.closings
    BY <1>1 DEF closing
  <1>13. /\ \A s \in tried2 : Settled(s, k.closings, p.fills, j.hour, activeFrom)
         /\ \A s \in tried2 \cup MovedIds(k.closings), x \in k.todo : Precedes(s, x, activeFrom)
    <2>1. /\ \A s \in tried : Settled(s, j.closings, p.fills, j.hour, activeFrom)
          /\ \A s \in tried \cup MovedIds(j.closings), x \in j.todo : Precedes(s, x, activeFrom)
      BY <1>1, <1>8 DEF InHour
    <2>2. k.todo = j.todo \ {t} /\ result # "raises"
      BY <1>1
    <2>3. TriesFirst(t, result, j.hour, j.closings, p.fills, tried, j.todo, activeFrom)
      BY <1>5, <1>9, <1>10, <1>11, <2>1, <2>2 DEF TriesFirst
    <2>4. k.closings = WithResult(j.closings, t, result, j.hour)
      BY <1>12 DEF WithResult
    <2> QED
      BY <1>10, <2>2, <2>3, <2>4, TrySettles
  <1>14. k.base = p.fills \cup Promised!FillsOf(k.closings)
    <2>1. j.base = p.fills \cup Promised!FillsOf(j.closings)
      BY <1>1, <1>8 DEF InHour
    <2>2. Promised!FillsOf(j.closings \cup {closing}) =
              Promised!FillsOf(j.closings) \cup (IF result = "executed" THEN {<<t, j.hour>>} ELSE {})
      BY <1>6, FillsOfMore
    <2>3. result = "executed" => result \in ClosingStatuses
      BY DEF ClosingStatuses
    <2> QED
      BY <1>1, <2>1, <2>2, <2>3
  <1>15. \A c \in k.closings : Owner[c.id] = k.user
    BY <1>1, <1>4, <1>6, <1>8 DEF InHour, SameHour
  <1>16. InHour(k, NoWrites, p, k.closings, tried2, activeFrom)
    BY <1>1, <1>8, <1>13, <1>14, <1>15 DEF InHour, SameHour
  <1>17. Hourly(k, NoWrites, p, active, activeFrom)
    BY <1>7, <1>16 DEF Hourly, tried2
  <1> QED
    BY <1>1, <1>2, <1>17 DEF Alone, TransactionPcs, SavePcs, SameHour, j, k, p

LEMMA BeginAlone ==
  ASSUME Consistent, Serial, NEW r \in Run, BeginTransaction(r) PROVE Alone(r)'
  <1> DEFINE j == job[r]
             k == job'[r]
             p == portfolio[j.user]
  <1>1. /\ j.pc = "try" /\ k.pc = "move" /\ SameHour(j, k) /\ k.todo = j.todo
        /\ k.closings = j.closings /\ k.base = j.base
        /\ pending[r] = NoWrites /\ pending'[r] = NoWrites /\ activeConn' = r
        /\ active' = active /\ activeFrom' = activeFrom /\ portfolio' = portfolio
    BY BeginFields DEF TablesStay, tables
  <1>2. Hourly(j, NoWrites, p, active, activeFrom)
    BY <1>1, HourFacts DEF HourPcs
  <1> HIDE DEF j, k, p
  <1>3. DueIn(k, active, activeFrom) = DueIn(j, active, activeFrom)
    BY <1>1 DEF DueIn, SameHour
  <1>4. Hourly(k, NoWrites, p, active, activeFrom)
    BY <1>1, <1>2, <1>3 DEF Hourly, InHour, SameHour
  <1> QED
    BY <1>1, <1>4 DEF Alone, SavePcs, SameHour, j, k, p

\* A run in its transaction has the shared connection.
LEMMA InTransactionAlone ==
  ASSUME Consistent, Serial, NEW r \in Run, job[r].pc \in TransactionPcs
  PROVE  activeConn = r /\ activeConn # None
  BY NoneAssumption DEF Serial, Alone

LEMMA MoveAlone ==
  ASSUME Consistent, Serial, NEW r \in Run, NEW c \in job[r].closings,
         MoveInTransaction(r, c) \/ MoveOnOwnConnection(r, c)
  PROVE  Alone(r)' /\ UNCHANGED <<clockVars, tables>>
  <1> DEFINE j == job[r]
             k == job'[r]
             p == portfolio[j.user]
             w == pending[r]
             v == pending'[r]
  <1>1. /\ j.pc = "move" /\ k.pc = "move" /\ SameHour(j, k) /\ k.todo = j.todo
        /\ k.base = j.base /\ k.closings = j.closings \ {c}
        /\ UNCHANGED <<clockVars, activeFrom, portfolio, states, activeConn>>
        /\ \/ v.moves = w.moves \cup {c} /\ UNCHANGED <<active, historical>>
           \/ activeConn = None
    BY MoveFields
  <1>2. activeConn = r /\ activeConn # None
    BY <1>1, InTransactionAlone DEF TransactionPcs
  <1>3. v.moves = w.moves \cup {c} /\ UNCHANGED <<active, historical>>
    BY <1>1, <1>2
  <1>4. Hourly(j, w, p, active, activeFrom)
    BY <1>1, HourFacts DEF HourPcs
  <1>5. k.closings \cup v.moves = j.closings \cup w.moves
    BY <1>1, <1>3
  <1> HIDE DEF j, k, p, w, v
  <1>6. DueIn(k, active, activeFrom) = DueIn(j, active, activeFrom)
    BY <1>1 DEF DueIn, SameHour
  <1>7. Hourly(k, v, p, active, activeFrom)
    BY <1>1, <1>4, <1>5, <1>6 DEF Hourly, InHour, SameHour
  <1> QED
    BY <1>1, <1>2, <1>3, <1>7 DEF Alone, SavePcs, SameHour, tables, j, k, p, v

LEMMA UpdateAlone ==
  ASSUME Consistent, Serial, NEW r \in Run, UpdateInTransaction(r) \/ UpdateOnOwnConnection(r)
  PROVE  Alone(r)' /\ UNCHANGED <<clockVars, tables>>
  <1> DEFINE j == job[r]
             k == job'[r]
             p == portfolio[j.user]
             w == pending[r]
             v == pending'[r]
  <1>1. /\ j.pc = "move" /\ k.pc = "commit" /\ SameHour(j, k) /\ k.todo = j.todo
        /\ j.closings = {} /\ k.closings = {}
        /\ UNCHANGED <<clockVars, active, activeFrom, historical, states, activeConn>>
        /\ \/ v.moves = w.moves /\ v.portfolio = NewPortfolio(r) /\ UNCHANGED portfolio
           \/ activeConn = None
    BY UpdateFields
  <1>2. activeConn = r /\ activeConn # None
    BY <1>1, InTransactionAlone DEF TransactionPcs
  <1>3. v.moves = w.moves /\ v.portfolio = NewPortfolio(r) /\ UNCHANGED portfolio
    BY <1>1, <1>2
  <1>4. Hourly(j, w, p, active, activeFrom)
    BY <1>1, HourFacts DEF HourPcs
  <1>5. k.closings \cup v.moves = w.moves /\ j.closings \cup w.moves = w.moves
    BY <1>1, <1>3
  <1>6. v.portfolio = [fills |-> j.base, last |-> j.hour, born |-> p.born]
    BY <1>3 DEF NewPortfolio
  <1> HIDE DEF j, k, p, w, v
  <1>7. DueIn(k, active, activeFrom) = DueIn(j, active, activeFrom)
    BY <1>1 DEF DueIn, SameHour
  <1>8. j.base = p.fills \cup Promised!FillsOf(w.moves)
    BY <1>1, <1>4, <1>5 DEF Hourly, InHour
  <1>9. v.portfolio = [fills |-> p.fills \cup Promised!FillsOf(w.moves),
                       last |-> k.hour, born |-> p.born]
    BY <1>1, <1>6, <1>8 DEF SameHour
  <1>10. Hourly(k, v, p, active, activeFrom)
    BY <1>1, <1>4, <1>5, <1>7, <1>9 DEF Hourly, InHour, SameHour
  <1> QED
    BY <1>1, <1>2, <1>3, <1>10 DEF Alone, SavePcs, SameHour, tables, j, k, p, v

\* What a commit does when the run is alone: it moves every closing of the
\* hour, and the row takes their fills and comes to the hour.
LEMMA CommitAtOnce ==
  ASSUME Consistent, Serial, NEW r \in Run, Commit(r)
  PROVE  LET j == job[r]
             p == portfolio[j.user]
             closings == pending[r].moves
             q == [fills |-> p.fills \cup Promised!FillsOf(closings),
                   last |-> j.hour, born |-> p.born]
         IN  /\ j.pc = "commit" /\ j.todo = {} /\ closings \subseteq Closings
             /\ LeavesHour(j, job'[r]) /\ pending'[r] = NoWrites
             /\ InHour(j, pending[r], p, closings, DueIn(j, active, activeFrom), activeFrom)
             /\ active' = active \ MovedIds(closings)
             /\ historical' = historical \cup closings
             /\ portfolio' = [portfolio EXCEPT ![j.user] = q]
             /\ UNCHANGED <<clockVars, activeFrom, states>>
  <1> DEFINE j == job[r]
             p == portfolio[j.user]
             closings == pending[r].moves
             q == [fills |-> p.fills \cup Promised!FillsOf(closings),
                   last |-> j.hour, born |-> p.born]
  <1>1. j.pc = "commit"
    BY CommitFields
  <1>2. /\ j \in Jobs /\ j.user \in User /\ j.hour \in Int /\ p \in Portfolios
        /\ Hourly(j, pending[r], p, active, activeFrom)
    BY <1>1, HourFacts DEF HourPcs
  <1>3. j.todo = {} /\ j.closings = {}
    BY <1>1 DEF Consistent, RunConsistent, Bookkeeping
  <1>4. closings \subseteq Closings /\ pending[r].portfolio \in Portfolios \cup {None}
    BY DEF Consistent, Typed, TypeOK
  <1>5. /\ j.closings \cup closings = closings
        /\ DueIn(j, active, activeFrom) \ j.todo = DueIn(j, active, activeFrom)
    BY <1>3
  <1> HIDE DEF p, closings
  <1>6. InHour(j, pending[r], p, closings, DueIn(j, active, activeFrom), activeFrom)
    BY <1>2, <1>5 DEF Hourly, closings
  <1>7. pending[r].portfolio = q
    BY <1>1, <1>6 DEF InHour
  <1>8. q \in Portfolios
    <2>1. Promised!FillsOf(closings) \subseteq Fills
      BY <1>4 DEF Promised!FillsOf, Closings, Fills
    <2> QED
      BY <1>2, <2>1 DEF Portfolios
  <1>9. portfolio' = [portfolio EXCEPT ![j.user] = q]
    <2> HIDE DEF q
    <2> QED
      BY <1>7, <1>8, NoneAssumption, CommitFields
  <1> QED
    BY <1>1, <1>3, <1>4, <1>6, <1>9, CommitFields DEF p, closings

LEMMA CommitAlone ==
  ASSUME Consistent, Serial, NEW r \in Run, Commit(r) PROVE Alone(r)'
  <1> DEFINE j == job[r]
             k == job'[r]
             q == [fills |-> portfolio[j.user].fills \cup Promised!FillsOf(pending[r].moves),
                   last |-> j.hour, born |-> portfolio[j.user].born]
  <1>1. /\ j.pc = "commit" /\ LeavesHour(j, k) /\ pending'[r] = NoWrites
        /\ portfolio' = [portfolio EXCEPT ![j.user] = q]
    BY CommitAtOnce
  <1>2. j \in Jobs /\ j.user \in User /\ j.hour \in Int
    BY <1>1, HourFacts DEF HourPcs
  <1>3. portfolio'[j.user] = q
    BY <1>1, <1>2 DEF Consistent, Typed, TypeOK
  <1>4. q.last = j.hour
    OBVIOUS
  <1> HIDE DEF q, j, k
  <1>5. ShutBetween(q.last, j.hour)
    BY <1>2, <1>4 DEF ShutBetween
  <1>6. k.pc \in HourPcs => Hourly(k, NoWrites, q, active', activeFrom') /\ k.user = j.user
    BY <1>1, <1>2, <1>4, <1>5, NextHourStarts
  <1>7. k.pc \in {"next_user", "trades"}
    BY <1>1 DEF LeavesHour
  <1> QED
    BY <1>1, <1>3, <1>6, <1>7 DEF Alone, TransactionPcs, SavePcs, k

\* A run that is in no hour, saves nothing and has nothing uncommitted.
LEMMA BetweenAlone ==
  ASSUME NEW r \in Run, job'[r].pc \notin HourPcs \cup SavePcs
  PROVE  Alone(r)'
  BY DEF Alone, HourPcs, TransactionPcs

LEMMA BeginUserAlone ==
  ASSUME Consistent, Serial, NEW r \in Run, NEW u \in User, BeginUser(r, u) PROVE Alone(r)'
  <1> DEFINE k == job'[r]
             p == portfolio[u]
  <1>1. /\ Quiet(k) /\ job[r].pc = "next_user" /\ pending' = pending
        /\ active' = active /\ activeFrom' = activeFrom /\ portfolio' = portfolio
        /\ \/ k.pc \in {"create", "next_user"}
           \/ k.pc = "trades" /\ k.user = u /\ p # None /\ k.hour = p.last + 1
    BY BeginUserFields DEF TablesStay, tables
  <1>2. pending'[r] = NoWrites
    BY <1>1, NothingUncommitted DEF TransactionPcs
  <1>3. CASE k.pc = "trades" /\ k.user = u /\ p # None /\ k.hour = p.last + 1
    <2>1. p.last \in Int
      BY <1>3 DEF Consistent, Typed, TypeOK, Portfolios
    <2> HIDE DEF k, p
    <2>2. p.last < k.hour /\ ShutBetween(p.last, k.hour)
      BY <1>3, <2>1 DEF ShutBetween
    <2>3. Hourly(k, NoWrites, p, active, activeFrom)
      BY <1>1, <1>3, <2>2, HourlyStarts
    <2> QED
      BY <1>1, <1>2, <1>3, <2>3 DEF Alone, TransactionPcs, SavePcs, k, p
  <1>4. CASE k.pc \in {"create", "next_user"}
    BY <1>4, BetweenAlone DEF HourPcs, SavePcs
  <1> QED
    BY <1>1, <1>3, <1>4

\* A run that saves states.
LEMMA SaveFacts ==
  ASSUME Consistent, Serial, NEW r \in Run, job[r].pc \in SavePcs
  PROVE  /\ Saves(job[r], portfolio, states, LastPassedHour)
         /\ job[r] \in Jobs /\ job[r].hour \in Int
         /\ hour \in Int /\ settled \in BOOLEAN /\ LastPassedHour \in Int
         /\ LastPassedHour < hour
         /\ portfolio \in [User -> Portfolios \cup {None}]
         /\ states \subseteq [user : User, hour : Int, fills : SUBSET Fills]
  BY DEF Serial, Alone, Consistent, Typed, TypeOK, Jobs, LastPassedHour

LEMMA SavesAlone ==
  ASSUME NEW r \in Run, job'[r].pc \in SavePcs,
         Saves(job'[r], portfolio', states', LastPassedHour')
  PROVE  Alone(r)'
  BY DEF Alone, SavePcs, HourPcs, TransactionPcs

\* The hours of all fills have passed.
LEMMA FillsArePassed ==
  ASSUME Consistent, RunsOnTime, NEW u \in User, portfolio[u] # None,
         NEW f \in portfolio[u].fills
  PROVE  f[2] <= LastPassedHour
  <1>1. f \in Executed(u)
    BY DEF Consistent, NoGhostFill
  <1>2. PICK c \in historical : c.status = "executed" /\ f = <<c.id, c.hour>>
    BY <1>1 DEF Executed
  <1> QED
    BY <1>2 DEF RunsOnTime, Closed

LEMMA BeginSavingAlone ==
  ASSUME Consistent, RunsOnTime, Serial, NEW r \in Run, BeginSaving(r) PROVE Alone(r)'
  <1> DEFINE k == job'[r]
  <1>1. /\ k.pc = "save" /\ k.hour = LastPassedHour
        /\ UNCHANGED <<hour, settled, portfolio, states>>
    BY BeginSavingFields DEF TablesStay, tables, clockVars
  <1>2. hour \in FirstHour .. MaxHour /\ settled \in BOOLEAN /\ FirstHour \in Int
    BY HourAssumption DEF Serial, Consistent, Typed, TypeOK
  <1>3. FirstHour - 2 <= LastPassedHour /\ LastPassedHour \in Int
    BY <1>2 DEF LastPassedHour
  <1> HIDE DEF k
  <1>4. Saves(k, portfolio, states, LastPassedHour)
    BY <1>1, <1>3, FillsArePassed DEF Saves
  <1>5. Saves(k, portfolio', states', LastPassedHour')
    BY <1>1, <1>4 DEF LastPassedHour
  <1> QED
    BY <1>1, <1>5, SavesAlone DEF SavePcs, k

LEMMA CheckSavedAlone ==
  ASSUME Consistent, Serial, NEW r \in Run, NEW u \in User, CheckLastRecorded(r, u)
  PROVE  Alone(r)'
  <1> DEFINE j == job[r]
             k == job'[r]
  <1>1. /\ j.pc = "save" /\ UNCHANGED <<hour, settled, portfolio, states>>
        /\ \/ k.pc = "idle"
           \/ k.pc = "save" /\ k.hour = j.hour
           \/ /\ k.pc = "save_portfolio" /\ k.user = u /\ k.hour = j.hour
              /\ \A s \in states : s.user = u => ~(s.hour >= j.hour)
    BY CheckSavedFields DEF TablesStay, tables, clockVars
  <1>2. /\ Saves(j, portfolio, states, LastPassedHour) /\ j.hour \in Int
        /\ states \subseteq [user : User, hour : Int, fills : SUBSET Fills]
    BY <1>1, SaveFacts DEF SavePcs
  <1> HIDE DEF j, k
  <1>3. \A s \in states : s.hour \in Int
    BY <1>2
  <1>4. k.pc \in SavePcs => Saves(k, portfolio, states, LastPassedHour)
    BY <1>1, <1>2, <1>3 DEF Saves, SavePcs
  <1>5. k.pc \in SavePcs => Saves(k, portfolio', states', LastPassedHour')
    BY <1>1, <1>4 DEF LastPassedHour
  <1>6. k.pc \notin HourPcs
    BY <1>1 DEF HourPcs
  <1> QED
    BY <1>5, <1>6, SavesAlone, BetweenAlone DEF k

LEMMA SaveAlone ==
  ASSUME Consistent, Serial, NEW r \in Run, SavePortfolio(r) PROVE Alone(r)'
  <1> DEFINE j == job[r]
             k == job'[r]
             p == portfolio[j.user]
  <1>1. /\ j.pc = "save_portfolio" /\ UNCHANGED <<hour, settled, portfolio, states>>
        /\ \/ k.pc = "idle"
           \/ k.pc = "save" /\ k.hour = j.hour
           \/ k.pc = "save_create" /\ SameHour(j, k)
           \/ /\ k.pc = "save_write" /\ SameHour(j, k)
              /\ p # None /\ ~(p.last < j.hour) /\ k.base = p.fills
    BY SaveFields DEF TablesStay, tables, clockVars
  <1>2. /\ Saves(j, portfolio, states, LastPassedHour) /\ j.hour \in Int /\ j.user \in User
        /\ p # None => p.last \in Int
    BY <1>1, SaveFacts
    DEF SavePcs, Portfolios, Consistent, Typed, TypeOK, RowExists, UserPcs
  <1> HIDE DEF j, k
  <1>3. k.pc \in SavePcs => Saves(k, portfolio, states, LastPassedHour)
    BY <1>1, <1>2 DEF Saves, SavePcs, SameHour
  <1>4. k.pc \in SavePcs => Saves(k, portfolio', states', LastPassedHour')
    BY <1>1, <1>3 DEF LastPassedHour
  <1>5. k.pc \notin HourPcs
    BY <1>1 DEF HourPcs
  <1> QED
    BY <1>4, <1>5, SavesAlone, BetweenAlone DEF k

LEMMA SaveCreatedAlone ==
  ASSUME Consistent, Serial, NEW r \in Run, SaveCreatedPortfolio(r) PROVE Alone(r)'
  <1> DEFINE j == job[r]
             k == job'[r]
  <1>1. /\ j.pc = "save_create" /\ k.pc = "save_write" /\ SameHour(j, k) /\ k.base = {}
        /\ j.user \in User /\ UNCHANGED <<hour, settled, states>>
        /\ portfolio' = [portfolio EXCEPT ![j.user] = DefaultPortfolio]
    BY SaveCreatedFields DEF clockVars
  <1>2. /\ Saves(j, portfolio, states, LastPassedHour) /\ j.hour \in Int /\ hour \in Int
        /\ LastPassedHour \in Int /\ LastPassedHour < hour
        /\ portfolio \in [User -> Portfolios \cup {None}]
    BY <1>1, SaveFacts DEF SavePcs
  <1>3. DefaultPortfolio.fills = {} /\ DefaultPortfolio.last = hour /\ DefaultPortfolio # None
    <2>1. DefaultPortfolio \in Portfolios
      BY <1>2 DEF DefaultPortfolio, Portfolios
    <2> QED
      BY <2>1, NoneAssumption DEF DefaultPortfolio
  <1> HIDE DEF j, k
  <1>4. /\ portfolio'[j.user] = DefaultPortfolio
        /\ \A u \in User : portfolio'[u] \in {portfolio[u], DefaultPortfolio}
    BY <1>1, <1>2
  <1>5. Saves(k, portfolio', states, LastPassedHour)
    BY <1>1, <1>2, <1>3, <1>4 DEF Saves, SameHour
  <1>6. Saves(k, portfolio', states', LastPassedHour')
    BY <1>1, <1>5 DEF LastPassedHour
  <1> QED
    BY <1>1, <1>6, SavesAlone DEF SavePcs, k

LEMMA RecordAlone ==
  ASSUME Consistent, Serial, NEW r \in Run, RecordState(r) PROVE Alone(r)'
  <1> DEFINE j == job[r]
             k == job'[r]
  <1>1. /\ j.pc = "save_write" /\ UNCHANGED <<hour, settled, portfolio>>
        /\ k.pc = "idle" \/ (k.pc = "save" /\ k.hour = j.hour)
    BY RecordFields DEF clockVars
  <1>2. Saves(j, portfolio, states, LastPassedHour)
    BY <1>1, SaveFacts DEF SavePcs
  <1> HIDE DEF j, k
  <1>3. k.pc \in SavePcs => Saves(k, portfolio, states', LastPassedHour)
    BY <1>1, <1>2 DEF Saves, SavePcs
  <1>4. k.pc \in SavePcs => Saves(k, portfolio', states', LastPassedHour')
    BY <1>1, <1>3 DEF LastPassedHour
  <1>5. k.pc \notin HourPcs
    BY <1>1 DEF HourPcs
  <1> QED
    BY <1>4, <1>5, SavesAlone, BetweenAlone DEF k

\* What others do beside a run: a trade they place is active from an hour that
\* has not passed, and the row of the run's user stays.
LEMMA BesidesInHour ==
  ASSUME Consistent, RunsOnTime, Serial, NEW r \in Run, job[r].pc \in HourPcs,
         Requests \/ Tick
  PROVE  Hourly(job[r], pending[r], portfolio'[job[r].user], active', activeFrom')
  <1> DEFINE j == job[r]
             w == pending[r]
             p == portfolio[j.user]
  <1>1. /\ Hourly(j, w, p, active, activeFrom) /\ j.user \in User /\ p # None
        /\ j.hour \in Int /\ j.upto \in Int
    BY HourFacts
  <1>2. /\ hour \in Int /\ settled \in BOOLEAN /\ activeFrom \in [Trade -> Int]
        /\ active \subseteq Trade /\ portfolio \in [User -> Portfolios \cup {None}]
        /\ LastPassedHour \in Int /\ LastPassedHour < hour
    BY DEF Consistent, Typed, TypeOK, LastPassedHour
  <1>3. /\ j.hour <= LastPassedHour
        /\ \A t \in j.todo : t \in Known
        /\ \A c \in j.closings \cup w.moves : c.id \in Known
    BY <1>1, <1>2 DEF RunsOnTime, OnTime
  <1> HIDE DEF j, w, p
  <1>4. CASE Tick
    BY <1>1, <1>4 DEF Tick, tables, j, w, p
  <1>5. ASSUME NEW t \in Trade, PlaceTrade(t)
        PROVE  Hourly(j, w, portfolio'[j.user], active', activeFrom')
    <2>1. PICK date \in {hour - 1, hour} : activeFrom' = [activeFrom EXCEPT ![t] = date + 1]
      BY <1>5 DEF PlaceTrade
    <2>2. /\ t \notin Known /\ active' = active \cup {t} /\ portfolio' = portfolio
      BY <1>5 DEF PlaceTrade, Known
    <2>3. /\ activeFrom'[t] = date + 1 /\ ~(activeFrom'[t] <= j.hour)
          /\ \A x \in Trade : x # t => activeFrom'[x] = activeFrom[x]
      BY <1>1, <1>2, <1>3, <2>1
    <2>4. \A x \in Known : x \in Trade /\ activeFrom'[x] = activeFrom[x]
      <3>1. \A x \in Known : x \in Trade
        BY <1>2 DEF Known, MovedIds, Consistent, Typed, TypeOK, HistoricalTrades, Closings
      <3> QED
        BY <2>2, <2>3, <3>1
    <2>5. \A x \in DueIn(j, active', activeFrom') : x \in active /\ activeFrom'[x] = activeFrom[x]
      BY <1>2, <2>2, <2>3 DEF DueIn
    <2>6. Hourly(j, w, p, active', activeFrom')
      BY <1>1, <1>3, <2>4, <2>5, HourlyStays
    <2> QED
      BY <2>2, <2>6 DEF p
  <1>6. ASSUME NEW t \in Trade, CancelTrade(t)
        PROVE  Hourly(j, w, portfolio'[j.user], active', activeFrom')
    <2>1. active' = active \ {t} /\ portfolio' = portfolio /\ activeFrom' = activeFrom
      BY <1>6 DEF CancelTrade
    <2>2. \A x \in DueIn(j, active', activeFrom') : x \in active
      BY <2>1 DEF DueIn
    <2>3. Hourly(j, w, p, active', activeFrom')
      BY <1>1, <2>1, <2>2, HourlyStays
    <2> QED
      BY <2>1, <2>3 DEF p
  <1>7. ASSUME NEW u \in User, OpenPortfolio(u)
        PROVE  Hourly(j, w, portfolio'[j.user], active', activeFrom')
    <2>1. /\ u # j.user /\ active' = active /\ activeFrom' = activeFrom
          /\ portfolio' = [portfolio EXCEPT ![u] = DefaultPortfolio]
      BY <1>1, <1>7 DEF OpenPortfolio, p
    <2>2. portfolio'[j.user] = p
      BY <1>1, <1>2, <2>1 DEF p
    <2> QED
      BY <1>1, <2>1, <2>2
  <1> QED
    BY <1>4, <1>5, <1>6, <1>7 DEF Requests, j, w

\* A row that somebody opens has no fills, and the hour a run saves is passed.
LEMMA BesidesSaving ==
  ASSUME Consistent, Serial, NEW r \in Run, job[r].pc \in SavePcs, Requests \/ Tick
  PROVE  Saves(job[r], portfolio', states', LastPassedHour')
  <1> DEFINE j == job[r]
  <1>1. /\ Saves(j, portfolio, states, LastPassedHour) /\ j.hour \in Int
        /\ hour \in Int /\ settled \in BOOLEAN /\ LastPassedHour \in Int
        /\ portfolio \in [User -> Portfolios \cup {None}]
    BY SaveFacts
  <1>2. j.pc = "save_write" => j.user \in User
    BY DEF Consistent, Typed, RowExists, UserPcs
  <1> HIDE DEF j
  <1>3. CASE Tick
    <2>1. LastPassedHour' \in Int /\ LastPassedHour <= LastPassedHour'
      BY <1>1, <1>3 DEF Tick, LastPassedHour
    <2>2. portfolio' = portfolio /\ states' = states
      BY <1>3 DEF Tick, tables
    <2> QED
      BY <1>1, <2>1, <2>2 DEF Saves, j
  <1>4. CASE UNCHANGED <<clockVars, portfolio, states>>
    BY <1>1, <1>4 DEF Saves, LastPassedHour, clockVars, j
  <1>5. ASSUME NEW u \in User, OpenPortfolio(u)
        PROVE  Saves(j, portfolio', states', LastPassedHour')
    <2>1. /\ LastPassedHour' = LastPassedHour /\ states' = states /\ portfolio[u] = None
          /\ portfolio' = [portfolio EXCEPT ![u] = DefaultPortfolio]
      BY <1>5 DEF OpenPortfolio, LastPassedHour, clockVars
    <2>2. \A v \in User : portfolio'[v] = IF v = u THEN DefaultPortfolio ELSE portfolio[v]
      BY <1>1, <2>1
    <2>3. DefaultPortfolio.fills = {}
      BY DEF DefaultPortfolio
    <2>4. \A v \in User : portfolio'[v] # None => \A f \in portfolio'[v].fills : f[2] <= j.hour
      BY <1>1, <2>2, <2>3 DEF Saves
    <2>5. j.pc = "save_write" => portfolio'[j.user] = portfolio[j.user]
      BY <1>1, <1>2, <2>1, <2>2 DEF Saves
    <2> QED
      BY <1>1, <2>1, <2>4, <2>5 DEF Saves
  <1> QED
    BY <1>3, <1>4, <1>5 DEF Requests, PlaceTrade, CancelTrade, j

LEMMA BesidesAlone ==
  ASSUME Consistent, RunsOnTime, Serial, NEW r \in Run, Requests \/ Tick
  PROVE  Alone(r)'
  <1>1. UNCHANGED <<activeConn, pending, job>>
    BY DEF Requests, Tick, PlaceTrade, CancelTrade, OpenPortfolio
  <1> QED
    BY <1>1, BesidesInHour, BesidesSaving DEF Serial, Alone

\* A step of a run leaves it alone.
LEMMA RunAlone ==
  ASSUME Consistent, RunsOnTime, Serial, NEW r \in Run,
         Fastforward(r) \/ ExecuteHour(r) \/ SaveStates(r)
  PROVE  Alone(r)' /\ UNCHANGED clockVars
  <1>1. CASE ListActiveTrades(r) \/ ReadPortfolio(r) \/ GetPrices(r) \/ BeginTransaction(r)
    BY <1>1, ListAlone, ReadAlone, PricesAlone, BeginAlone, ListFields, ReadFields,
       PricesFields, BeginFields DEF TablesStay
  <1>2. ASSUME NEW t \in Trade, TryTrade(r, t) PROVE Alone(r)' /\ UNCHANGED clockVars
    BY <1>2, TryAlone, TryFields DEF TablesStay
  <1>3. CASE \/ \E c \in job[r].closings : MoveInTransaction(r, c) \/ MoveOnOwnConnection(r, c)
             \/ UpdateInTransaction(r) \/ UpdateOnOwnConnection(r) \/ Commit(r)
    BY <1>3, MoveAlone, UpdateAlone, CommitAlone, CommitFields
  <1>4. ASSUME NEW u \in User, BeginUser(r, u) \/ CheckLastRecorded(r, u)
        PROVE  Alone(r)' /\ UNCHANGED clockVars
    BY <1>4, BeginUserAlone, CheckSavedAlone, BeginUserFields, CheckSavedFields DEF TablesStay
  <1>5. CASE BeginSaving(r) \/ SavePortfolio(r) \/ SaveCreatedPortfolio(r) \/ RecordState(r)
    BY <1>5, BeginSavingAlone, SaveAlone, SaveCreatedAlone, RecordAlone, BeginSavingFields,
       SaveFields, SaveCreatedFields, RecordFields DEF TablesStay
  <1>6. CASE CreatePortfolio(r) \/ Unwinds(r)
    BY <1>6, CreateFields, UnwindFields, BetweenAlone DEF HourPcs, SavePcs, TablesStay
  <1> QED
    BY <1>1, <1>2, <1>3, <1>4, <1>5, <1>6, RunSteps

\* An idle thread can only start a run.
LEMMA IdleStarts ==
  ASSUME Consistent, NEW r \in Run, Fastforward(r) \/ ExecuteHour(r) \/ SaveStates(r),
         job[r].pc = "idle"
  PROVE  job'[r].pc # "idle"
  <1>1. \E users \in SUBSET User : StartRun(r, users)
    <2>1. ~Raises(r)
      BY DEF Raises, ConnectRaises, WriteLockTimesOut, CreateRaises, PricesRaise,
             BeginSavingRaises, TryTradeRaises, MoveRaises
    <2>2. \A u \in User : ~BeginUserRaises(r, u)
      BY DEF BeginUserRaises
    <2>3. Unwinds(r)
      BY RunSteps, ListFields, ReadFields, PricesFields, TryFields, BeginFields, MoveFields,
         UpdateFields, CommitFields, BeginUserFields, CheckSavedFields, CreateFields,
         BeginSavingFields, SaveFields, SaveCreatedFields, RecordFields
      DEF BeginSaving
    <2> QED
      BY <2>1, <2>2, <2>3 DEF Unwinds
  <1>2. PICK users \in SUBSET User : StartRun(r, users)
    BY <1>1
  <1>3. job'[r] = Between("next_user", users, 0)
    BY <1>2 DEF StartRun, Consistent, Typed, TypeOK
  <1> QED
    BY <1>3 DEF Between

LEMMA StepSerial ==
  ASSUME OneAtATime, OneAtATime', Consistent, RunsOnTime, Serial, [Next]_vars PROVE Serial'
  <1>1. ASSUME NEW r \in Run, Fastforward(r) \/ ExecuteHour(r) \/ SaveStates(r) PROVE Serial'
    <2>1. Alone(r)' /\ UNCHANGED clockVars
      BY <1>1, RunAlone
    <2>2. ASSUME NEW s \in Run, s # r PROVE Alone(s)'
      <3>1. job'[s] = job[s]
        BY <1>1, <2>2, OthersStay
      <3>2. job[s].pc = "idle"
        BY <1>1, <2>2, <3>1, IdleStarts DEF OneAtATime
      <3> QED
        BY <3>1, <3>2, BetweenAlone DEF HourPcs, SavePcs
    <2> QED
      BY <2>1, <2>2 DEF Serial, clockVars
  <1>2. CASE Requests
    <2>1. hour' = hour
      BY <1>2 DEF Requests, PlaceTrade, CancelTrade, OpenPortfolio, clockVars
    <2> QED
      BY <1>2, <2>1, BesidesAlone DEF Serial
  <1>3. CASE Tick
    <2>1. hour' \in FirstHour .. MaxHour
      BY <1>3, HourAssumption DEF Tick, Serial
    <2> QED
      BY <1>3, <2>1, BesidesAlone DEF Serial
  <1>4. CASE Crash
    <2>1. \A r \in Run : job'[r] = IdleJob
      BY <1>4 DEF Crash
    <2>2. \A r \in Run : Alone(r)'
      BY <2>1, IdleCloses, BetweenAlone DEF HourPcs, SavePcs
    <2> QED
      BY <1>4, <2>2 DEF Crash, clockVars, Serial
  <1>5. CASE UNCHANGED vars
    <2>1. ASSUME NEW r \in Run PROVE Alone(r)'
      BY <1>5 DEF vars, Serial, Alone, LastPassedHour
    <2> QED
      BY <1>5, <2>1 DEF vars, Serial
  <1> QED
    BY <1>1, <1>2, <1>3, <1>4, <1>5 DEF Next

LEMMA AlwaysSerial == Spec /\ []OneAtATime => []Serial
  <1>1. Init => Serial
    <2> SUFFICES ASSUME Init PROVE Serial
      OBVIOUS
    <2>1. hour \in FirstHour .. MaxHour
      BY HourAssumption DEF Init
    <2>2. ASSUME NEW r \in Run PROVE Alone(r)
      <3>1. job[r] = IdleJob
        BY DEF Init
      <3> QED
        BY <3>1, IdleCloses DEF Alone, HourPcs, SavePcs, TransactionPcs
    <2> QED
      BY <2>1, <2>2 DEF Serial
  <1>2. /\ OneAtATime /\ OneAtATime' /\ Consistent /\ RunsOnTime /\ Serial /\ [Next]_vars
        => Serial'
    BY StepSerial
  <1> QED
    BY <1>1, <1>2, AlwaysConsistent, AlwaysOnTime, PTL DEF Spec

-----------------------------------------------------------------------------
(* The promise is kept.                                                    *)

\* The steps that do not show.
LEMMA Unseen ==
  ASSUME UNCHANGED <<clockVars, tables>> PROVE Promised!Next
  <1>1. UNCHANGED <<hour, settled, active, activeFrom, historical, portfolio, states>>
    BY DEF clockVars, tables
  <1> QED
    BY <1>1 DEF Promised!Next, Promised!vars, LastPassedHour

LEMMA TickPromised == ASSUME Serial, settled \in BOOLEAN, Tick PROVE Promised!Next
  <1>1. hour \in Int /\ hour <= MaxHour /\ MaxHour \in Int
    BY HourAssumption DEF Serial
  <1>2. UNCHANGED <<active, activeFrom, historical, portfolio, states>>
    BY DEF Tick, tables
  <1>3. CASE settled
    <2>0. settled' = FALSE /\ hour' = hour + 1
      BY <1>3 DEF Tick
    <2>1. LastPassedHour' = LastPassedHour
      BY <1>1, <1>3, <2>0 DEF LastPassedHour
    <2> QED
      BY <1>2, <2>1 DEF Promised!Next, Promised!vars
  <1>4. CASE ~settled
    <2>0. settled' = TRUE /\ hour' = hour
      BY <1>4 DEF Tick
    <2>1. LastPassedHour' = LastPassedHour + 1 /\ LastPassedHour < MaxHour
      BY <1>1, <1>4, <2>0 DEF LastPassedHour
    <2> QED
      BY <1>2, <2>1 DEF Promised!Next, Promised!HourPasses
  <1> QED
    BY <1>3, <1>4

\* A row that is opened is dated to the current hour, of which nothing has passed.
LEMMA OpenPromised ==
  ASSUME hour \in Int, settled \in BOOLEAN, NEW u \in User, portfolio[u] = None,
         portfolio' = [portfolio EXCEPT ![u] = DefaultPortfolio],
         UNCHANGED <<clockVars, active, activeFrom, historical, states>>
  PROVE  Promised!Next
  <1>1. hour \in LastPassedHour + 1 .. LastPassedHour + 2
    BY DEF LastPassedHour
  <1>2. LastPassedHour' = LastPassedHour
    BY DEF LastPassedHour, clockVars
  <1>3. Promised!Open(u)
    BY <1>1, <1>2 DEF Promised!Open, DefaultPortfolio
  <1> QED
    BY <1>3 DEF Promised!Next

LEMMA RequestsPromised == ASSUME Consistent, Requests PROVE Promised!Next
  <1>1. hour \in Int /\ settled \in BOOLEAN
    BY DEF Consistent, Typed, TypeOK
  <1>2. ASSUME NEW t \in Trade, PlaceTrade(t) PROVE Promised!Next
    <2>1. PICK date \in {hour - 1, hour} : activeFrom' = [activeFrom EXCEPT ![t] = date + 1]
      BY <1>2 DEF PlaceTrade
    <2>2. date + 1 \in LastPassedHour + 1 .. LastPassedHour + 3
      BY <1>1 DEF LastPassedHour
    <2>3. /\ t \notin active /\ \A c \in historical : c.id # t
          /\ active' = active \cup {t}
          /\ LastPassedHour' = LastPassedHour /\ UNCHANGED <<historical, portfolio, states>>
      BY <1>2 DEF PlaceTrade, MovedIds, LastPassedHour, clockVars
    <2>4. Promised!Place(t)
      BY <2>1, <2>2, <2>3 DEF Promised!Place
    <2> QED
      BY <2>4 DEF Promised!Next
  <1>3. ASSUME NEW t \in Trade, CancelTrade(t) PROVE Promised!Next
    <2>1. hour \in LastPassedHour + 1 .. LastPassedHour + 2
      BY <1>1 DEF LastPassedHour
    <2>2. Promised!Cancel(t)
      BY <1>3, <2>1 DEF CancelTrade, Promised!Cancel, LastPassedHour, clockVars
    <2> QED
      BY <2>2 DEF Promised!Next
  <1>4. ASSUME NEW u \in User, OpenPortfolio(u) PROVE Promised!Next
    BY <1>1, <1>4, OpenPromised DEF OpenPortfolio
  <1> QED
    BY <1>2, <1>3, <1>4 DEF Requests

\* A commit is the whole hour of its user.
LEMMA CommitPromised ==
  ASSUME Consistent, RunsOnTime, Serial, NEW r \in Run, Commit(r) PROVE Promised!Next
  <1> DEFINE j == job[r]
             p == portfolio[j.user]
             closings == pending[r].moves
             due == DueIn(j, active, activeFrom)
             q == [fills |-> p.fills \cup Promised!FillsOf(closings),
                   last |-> j.hour, born |-> p.born]
  <1>1. /\ j.pc = "commit" /\ closings \subseteq Closings
        /\ InHour(j, pending[r], p, closings, due, activeFrom)
        /\ active' = active \ MovedIds(closings)
        /\ historical' = historical \cup closings
        /\ portfolio' = [portfolio EXCEPT ![j.user] = q]
        /\ UNCHANGED <<clockVars, activeFrom, states>>
    BY CommitAtOnce
  <1>2. /\ j.user \in User /\ j.hour \in Int /\ j.upto \in Int
        /\ p # None /\ p \in Portfolios /\ p.last \in Int
        /\ portfolio \in [User -> Portfolios \cup {None}]
    BY <1>1, HourFacts DEF HourPcs, Consistent, Typed, TypeOK
  <1>3. LastPassedHour \in Int /\ j.hour <= j.upto /\ j.upto <= LastPassedHour
    BY <1>1 DEF RunsOnTime, OnTime, HourPcs, LastPassedHour, Consistent, Typed, TypeOK
  <1>4. \A c \in closings : /\ c.id \in active /\ activeFrom[c.id] <= j.hour
                            /\ c.hour = j.hour /\ c.status \in ClosingStatuses
    <2>1. MovedIds(closings) \subseteq active
      BY DEF Consistent, RunConsistent, Bookkeeping
    <2>2. \A c \in closings : activeFrom[c.id] <= c.hour /\ c.hour = j.hour
      BY DEF RunsOnTime, OnTime
    <2> QED
      BY <1>1, <2>1, <2>2 DEF MovedIds, Closings
  <1>5. historical' \ historical = closings
    <2>1. \A c \in closings : c \notin historical
      BY <1>4 DEF Consistent, ClosedOnce, MovedIds
    <2> QED
      BY <1>1, <2>1
  <1> HIDE DEF j, p, closings, due
  <1>6. Promised!Due(j.user, j.hour) = due
    BY DEF Promised!Due, due, DueIn
  <1>7. /\ j.hour \in OpenHours /\ p.last < j.hour /\ ShutBetween(p.last, j.hour)
        /\ \A t \in due : Settled(t, closings, p.fills, j.hour, activeFrom)
        /\ \A c \in closings : Owner[c.id] = j.user
    BY <1>1 DEF InHour
  <1>8. Promised!IsNextHour(j.user, j.hour)
    BY <1>2, <1>3, <1>7 DEF Promised!IsNextHour, ShutBetween, p
  <1>9. Promised!AreTheClosings(closings, j.user, j.hour)
    <2>1. \A c \in closings : c.id \in due /\ c.hour = j.hour /\ c.status \in ClosingStatuses
      BY <1>4, <1>7 DEF due, DueIn
    <2>2. ASSUME NEW t \in due
          PROVE  LET outcome == Outcome(t, j.hour, Promised!Meets(t, j.user, closings))
                 IN  /\ outcome # "raises"
                     /\ {c \in closings : c.id = t} =
                            IF outcome \in ClosingStatuses
                            THEN {[id |-> t, status |-> outcome, hour |-> j.hour]}
                            ELSE {}
      <3>1. Promised!Meets(t, j.user, closings) =
                p.fills \cup Promised!FillsOf({c \in closings : Precedes(c.id, t, activeFrom)})
        BY DEF Promised!Meets, Promised!Before, Precedes, p
      <3>2. Settled(t, closings, p.fills, j.hour, activeFrom)
        BY <1>7
      <3> QED
        BY <3>1, <3>2 DEF Settled
    <2>3. Promised!ClosingStatuses = ClosingStatuses
      BY DEF Promised!ClosingStatuses, ClosingStatuses
    <2> QED
      BY <1>6, <2>1, <2>2, <2>3 DEF Promised!AreTheClosings
  <1>10. portfolio' = [portfolio EXCEPT ![j.user].fills = @ \cup Promised!FillsOf(closings),
                                        ![j.user].last = j.hour]
    <2>0. p = [fills |-> p.fills, last |-> p.last, born |-> p.born]
      BY <1>2 DEF Portfolios
    <2>1. [[p EXCEPT !.fills = p.fills \cup Promised!FillsOf(closings)]
              EXCEPT !.last = j.hour] = q
      <3> DEFINE fills == p.fills \cup Promised!FillsOf(closings)
      <3> HIDE DEF fills
      <3>1. [p EXCEPT !.fills = fills] = [fills |-> fills, last |-> p.last, born |-> p.born]
        BY <2>0
      <3>2. [[fills |-> fills, last |-> p.last, born |-> p.born] EXCEPT !.last = j.hour] =
                [fills |-> fills, last |-> j.hour, born |-> p.born]
        OBVIOUS
      <3> QED
        BY <3>1, <3>2 DEF fills
    <2>2. portfolio' = [portfolio EXCEPT ![j.user] = q]
      BY <1>1
    <2> HIDE DEF q
    <2> QED
      BY <1>2, <2>1, <2>2 DEF p
  <1>11. Promised!ExecuteHour(j.user, j.hour)
    <2>1. LastPassedHour' = LastPassedHour /\ UNCHANGED <<activeFrom, states>>
      BY <1>1 DEF LastPassedHour, clockVars
    <2>2. active' = active \ {c.id : c \in closings} /\ historical \subseteq historical'
      BY <1>1 DEF MovedIds
    <2> QED
      BY <1>5, <1>8, <1>9, <1>10, <2>1, <2>2 DEF Promised!ExecuteHour
  <1> QED
    BY <1>2, <1>7, <1>11 DEF Promised!Next

LEMMA RecordPromised ==
  ASSUME Consistent, Serial, NEW r \in Run, RecordState(r) PROVE Promised!Next
  <1> DEFINE j == job[r]
             p == portfolio[j.user]
  <1>1. /\ j.pc = "save_write" /\ j.user \in User
        /\ UNCHANGED <<clockVars, active, activeFrom, historical, portfolio>>
        /\ \/ UNCHANGED states
           \/ states' = states \cup {[user |-> j.user, hour |-> j.hour, fills |-> j.base]}
    BY RecordFields
  <1>2. /\ Saves(j, portfolio, states, LastPassedHour) /\ j.hour \in Int
        /\ hour \in Int /\ LastPassedHour \in Int /\ LastPassedHour < hour
    BY <1>1, SaveFacts DEF SavePcs
  <1>3. /\ p # None /\ p.last >= j.hour /\ p.fills = j.base
        /\ \A f \in p.fills : f[2] <= j.hour
        /\ \A s \in states : s.user = j.user => s.hour < j.hour
    BY <1>1, <1>2 DEF Saves
  <1>4. j.hour \in FirstHour - 2 .. MaxHour /\ j.hour <= LastPassedHour
    BY <1>2, HourAssumption DEF Saves, Serial
  <1>5. LastPassedHour' = LastPassedHour
    BY <1>1 DEF LastPassedHour, clockVars
  <1>6. CASE UNCHANGED states
    BY <1>1, <1>6, Unseen DEF tables
  <1>7. CASE states' = states \cup {[user |-> j.user, hour |-> j.hour, fills |-> j.base]}
    <2>1. Promised!Record(j.user, j.hour)
      BY <1>1, <1>3, <1>4, <1>5, <1>7 DEF Promised!Record
    <2> QED
      BY <1>1, <1>4, <2>1 DEF Promised!Next
  <1> QED
    BY <1>1, <1>6, <1>7

LEMMA RunPromised ==
  ASSUME Consistent, RunsOnTime, Serial, NEW r \in Run,
         Fastforward(r) \/ ExecuteHour(r) \/ SaveStates(r)
  PROVE  Promised!Next
  <1>1. CASE ListActiveTrades(r) \/ ReadPortfolio(r) \/ GetPrices(r) \/ BeginTransaction(r)
             \/ \E t \in Trade : TryTrade(r, t)
    BY <1>1, ListFields, ReadFields, PricesFields, BeginFields, TryFields, Unseen DEF TablesStay
  <1>2. CASE \/ \E c \in job[r].closings : MoveInTransaction(r, c) \/ MoveOnOwnConnection(r, c)
             \/ UpdateInTransaction(r) \/ UpdateOnOwnConnection(r)
    BY <1>2, MoveAlone, UpdateAlone, Unseen
  <1>3. CASE \/ \E u \in User : BeginUser(r, u) \/ CheckLastRecorded(r, u)
             \/ BeginSaving(r) \/ SavePortfolio(r) \/ Unwinds(r)
    BY <1>3, BeginUserFields, CheckSavedFields, BeginSavingFields, SaveFields, UnwindFields,
       Unseen DEF TablesStay
  <1>4. CASE CreatePortfolio(r) \/ SaveCreatedPortfolio(r)
    <2>1. hour \in Int /\ settled \in BOOLEAN
      BY DEF Consistent, Typed, TypeOK
    <2> QED
      BY <1>4, <2>1, CreateFields, SaveCreatedFields, OpenPromised
  <1> QED
    BY <1>1, <1>2, <1>3, <1>4, CommitPromised, RecordPromised, RunSteps

LEMMA StepPromised ==
  ASSUME Consistent, RunsOnTime, Serial, [Next]_vars PROVE Promised!Next
  <1>1. CASE Crash \/ UNCHANGED vars
    BY <1>1, Unseen DEF Crash, vars, clockVars, tables
  <1>2. settled \in BOOLEAN
    BY DEF Consistent, Typed, TypeOK
  <1> QED
    BY <1>1, <1>2, RunPromised, RequestsPromised, TickPromised DEF Next

\* While runs do not overlap, what a player sees is what HourlyAccounts
\* promises: each hour of a user at once, in turn and in the order of the trades,
\* whatever the requests, exceptions and crashes.
THEOREM AccountsAreKept == Spec /\ []OneAtATime => KeepsAccounts
  <1>1. Init => Promised!Init
    BY DEF Init, Promised!Init, LastPassedHour
  <1>2. Consistent /\ RunsOnTime /\ Serial /\ [Next]_vars => [Promised!Next]_(Promised!vars)
    BY StepPromised
  <1> QED
    BY <1>1, <1>2, AlwaysConsistent, AlwaysOnTime, AlwaysSerial, PTL
    DEF Spec, KeepsAccounts, Promised!Spec

-----------------------------------------------------------------------------
(* What follows from the promise.                                          *)

\* The hour a row has come to is passed, or the one it was inserted in, and
\* its fills are of no later one.
RowInTime(p) == /\ p.last <= LastPassedHour \/ p.last = p.born
                /\ \A f \in p.fills : f[2] <= p.last

\* A state has a row that has come to its hour, and that row's fills up to it.
StateInTime(s) == /\ portfolio[s.user] # None /\ s.hour <= portfolio[s.user].last
                  /\ s.fills = {f \in Executed(s.user) : f[2] <= s.hour}

Accounts ==
    /\ \A u \in User : Executed(u) = IF portfolio[u] = None THEN {} ELSE portfolio[u].fills
    /\ \A u \in User : portfolio[u] # None => RowInTime(portfolio[u])
    /\ \A s \in states : StateInTime(s)
    /\ OpenTradesTried
    /\ ClosedTradesTried

LEMMA AccountsTypes ==
  ASSUME Consistent
  PROVE  /\ LastPassedHour \in Int
         /\ portfolio \in [User -> Portfolios \cup {None}]
         /\ \A u \in User : portfolio[u] # None =>
                portfolio[u] \in Portfolios /\ portfolio[u].last \in Int /\ portfolio[u].born \in Int
         /\ \A s \in states : s.user \in User /\ s.hour \in Int
         /\ active \subseteq Trade /\ activeFrom \in [Trade -> Int]
         /\ \A t \in Known : t \in Trade /\ Owner[t] \in User
         /\ \A u \in User : \A f \in Executed(u) : f[1] \in Known /\ f[2] \in Int
  <1>1. TypeOK
    BY DEF Consistent, Typed
  <1>2. \A c \in historical : c.id \in Trade /\ c.hour \in Int
    BY <1>1 DEF TypeOK, HistoricalTrades, Closings
  <1>3. \A t \in Known : t \in Trade /\ Owner[t] \in User
    BY <1>1, <1>2, OwnerAssumption DEF TypeOK, Known, MovedIds
  <1>4. \A u \in User : \A f \in Executed(u) : f[1] \in Known /\ f[2] \in Int
    BY <1>2 DEF Executed, Known, MovedIds
  <1>5. LastPassedHour \in Int
    BY <1>1 DEF TypeOK, LastPassedHour
  <1>6. \A u \in User : portfolio[u] # None =>
            portfolio[u] \in Portfolios /\ portfolio[u].last \in Int /\ portfolio[u].born \in Int
    BY <1>1 DEF TypeOK, Portfolios
  <1> QED
    BY <1>1, <1>3, <1>4, <1>5, <1>6 DEF TypeOK

\* Whether a trade was left open in an hour only depends on the fills up to it.
LEMMA LeftOpenStays ==
  ASSUME Consistent, Consistent', NEW t \in Known, NEW h \in Int, LeftOpen(t, h),
         \A x \in Known : activeFrom'[x] = activeFrom[x],
         {f \in Executed(Owner[t])' : f[2] <= h} = {f \in Executed(Owner[t]) : f[2] <= h}
  PROVE  LeftOpen(t, h)'
  <1> DEFINE before == {f \in Executed(Owner[t]) : f[2] <= h}
             after == {f \in Executed(Owner[t])' : f[2] <= h}
  <1>1. after = before
    OBVIOUS
  <1>2. \A f \in before : Before(f[1], t)' <=> Before(f[1], t)
    BY AccountsTypes DEF Before
  <1>3. FillsBefore(t, h) = {f \in before : f[2] < h \/ (f[2] = h /\ Before(f[1], t))}
    BY AccountsTypes DEF FillsBefore
  <1>4. \A f \in Executed(Owner[t])' : f \in after <=> f[2] <= h
    OBVIOUS
  <1>5. FillsBefore(t, h)' = {f \in after : f[2] < h \/ (f[2] = h /\ Before(f[1], t)')}
    <2>1. \A f \in Executed(Owner[t])' : f[2] \in Int
      <3>1. \A f \in Executed(Owner[t])' : \E c \in historical' : f = <<c.id, c.hour>>
        BY DEF Executed
      <3>2. \A c \in historical' : c.hour \in Int
        BY DEF Consistent, Typed, TypeOK, HistoricalTrades, Closings
      <3> QED
        BY <3>1, <3>2
    <2> QED
      BY <2>1 DEF FillsBefore
  <1> HIDE DEF before, after
  <1>6. FillsBefore(t, h)' = FillsBefore(t, h)
    BY <1>1, <1>2, <1>3, <1>5
  <1> QED
    BY <1>6 DEF LeftOpen

\* A closed trade's hours stay tried while its owner's row only goes on.
LEMMA ClosedStays ==
  ASSUME Consistent, Consistent', ClosedTradesTried,
         NEW c \in historical, c.status # "cancelled",
         portfolio'[Owner[c.id]] # None,
         portfolio[Owner[c.id]].last <= portfolio'[Owner[c.id]].last,
         portfolio'[Owner[c.id]].born = portfolio[Owner[c.id]].born,
         \A x \in Known : activeFrom'[x] = activeFrom[x],
         \A h \in Int : h < c.hour =>
             {f \in Executed(Owner[c.id])' : f[2] <= h} = {f \in Executed(Owner[c.id]) : f[2] <= h}
  PROVE  TriedBeforeClosing(c)'
  <1> DEFINE p == portfolio[Owner[c.id]]
             q == portfolio'[Owner[c.id]]
  <1>1. c.id \in Known /\ Owner[c.id] \in User /\ c.hour \in Int
    BY AccountsTypes DEF Known, MovedIds, Consistent, Typed, TypeOK, HistoricalTrades, Closings
  <1>2. TriedBeforeClosing(c)
    BY DEF ClosedTradesTried
  <1>3. p # None /\ c.hour <= p.last /\ p.last \in Int /\ q.last \in Int
    BY <1>1, <1>2, AccountsTypes DEF TriedBeforeClosing, Consistent, Typed, TypeOK, Portfolios
  <1>4. ASSUME NEW h \in OpenHours, activeFrom'[c.id] <= h, h < c.hour, h > q.born
        PROVE  LeftOpen(c.id, h)'
    <2>1. h \in Int /\ activeFrom[c.id] <= h /\ h > p.born
      BY <1>1, <1>4, HourAssumption
    <2>2. LeftOpen(c.id, h)
      BY <1>2, <1>4, <2>1 DEF TriedBeforeClosing
    <2> QED
      BY <1>1, <1>4, <2>1, <2>2, LeftOpenStays
  <1> QED
    <2>1. c.hour <= q.last
      BY <1>1, <1>3
    <2> QED
      BY <1>4, <2>1 DEF TriedBeforeClosing

\* Hours pass, trades are placed for later ones, and trades are cancelled.
LEMMA NothingExecuted ==
  ASSUME Consistent, Consistent', Accounts, UNCHANGED <<portfolio, states>>,
         \A u \in User : Executed(u)' = Executed(u),
         \A x \in Known : activeFrom'[x] = activeFrom[x],
         LastPassedHour <= LastPassedHour',
         \A t \in active' \ active : t \in Trade /\ LastPassedHour < activeFrom'[t],
         \A c \in historical' \ historical : c.status = "cancelled"
  PROVE  Accounts'
  <1>1. \A u \in User : portfolio'[u] # None => RowInTime(portfolio[u])'
    <2>1. LastPassedHour' \in Int
      BY DEF Consistent, Typed, TypeOK, LastPassedHour
    <2> QED
      BY <2>1, AccountsTypes DEF Accounts, RowInTime
  <1>2. \A s \in states' : StateInTime(s)'
    BY AccountsTypes DEF Accounts, StateInTime
  <1>3. OpenTradesTried'
    <2> SUFFICES ASSUME NEW t \in active', NEW h \in OpenHours,
                        LET p == portfolio'[Owner[t]]
                        IN  p # None /\ activeFrom'[t] <= h /\ h <= p.last /\ h > p.born
                 PROVE  LeftOpen(t, h)'
      BY DEF OpenTradesTried
    <2> DEFINE p == portfolio[Owner[t]]
    <2>1. h \in Int /\ Owner[t] \in User /\ t \in Trade
      BY HourAssumption, OwnerAssumption, AccountsTypes
    <2>2. p # None /\ activeFrom'[t] <= h /\ h <= p.last /\ h > p.born
      OBVIOUS
    <2>3. p.last \in Int /\ p.born \in Int /\ RowInTime(p) /\ LastPassedHour \in Int
      BY <2>1, <2>2, AccountsTypes DEF Accounts
    <2>4. activeFrom'[t] \in Int
      BY <2>1, AccountsTypes DEF Consistent, Typed, TypeOK
    <2> HIDE DEF p
    <2>5. t \in active
      BY <2>1, <2>2, <2>3, <2>4 DEF RowInTime
    <2>6. LeftOpen(t, h)
      BY <2>2, <2>5 DEF p, Accounts, OpenTradesTried, Known
    <2> QED
      BY <2>1, <2>5, <2>6, LeftOpenStays DEF Known
  <1>4. ClosedTradesTried'
    <2> SUFFICES ASSUME NEW c \in historical, c.status # "cancelled" PROVE TriedBeforeClosing(c)'
      BY DEF ClosedTradesTried
    <2>1. Owner[c.id] \in User /\ portfolio[Owner[c.id]] # None
      BY AccountsTypes DEF Accounts, ClosedTradesTried, TriedBeforeClosing, Known, MovedIds
    <2>2. portfolio[Owner[c.id]].last \in Int
      BY <2>1, AccountsTypes
    <2> QED
      BY <2>1, <2>2, ClosedStays DEF Accounts
  <1> QED
    BY <1>1, <1>2, <1>3, <1>4 DEF Accounts

LEMMA OpenAccounts ==
  ASSUME Consistent, Consistent', Accounts, NEW u \in User, Promised!Open(u),
         LastPassedHour' = LastPassedHour
  PROVE  Accounts'
  <1>1. PICK h \in LastPassedHour + 1 .. LastPassedHour + 2 :
            portfolio' = [portfolio EXCEPT ![u] = [fills |-> {}, last |-> h, born |-> h]]
    BY DEF Promised!Open
  <1> DEFINE row == [fills |-> {}, last |-> h, born |-> h]
  <1>2. /\ portfolio[u] = None /\ UNCHANGED <<active, activeFrom, historical, states>>
        /\ row.fills = {} /\ row.last = row.born /\ row.last \in Int
    BY <1>1, AccountsTypes DEF Promised!Open
  <1> HIDE DEF row
  <1>3. /\ portfolio'[u] = row
        /\ \A v \in User : v # u => portfolio'[v] = portfolio[v]
        /\ \A v : Executed(v)' = Executed(v)
    BY <1>1, <1>2, AccountsTypes DEF row, Executed
  <1>4. \A v \in User : Executed(v)' = IF portfolio'[v] = None THEN {} ELSE portfolio'[v].fills
    <2>1. Executed(u) = {}
      BY <1>2 DEF Accounts
    <2> QED
      BY <1>2, <1>3, <2>1 DEF Accounts
  <1>5. \A v \in User : portfolio'[v] # None => RowInTime(portfolio[v])'
    BY <1>2, <1>3 DEF Accounts, RowInTime
  <1>6. \A s \in states' : StateInTime(s)'
    <2>1. \A s \in states : s.user \in User /\ s.user # u
      BY <1>2, AccountsTypes DEF Accounts, StateInTime
    <2> QED
      BY <1>2, <1>3, <2>1 DEF Accounts, StateInTime
  <1>7. OpenTradesTried'
    <2> SUFFICES ASSUME NEW t \in active', NEW h0 \in OpenHours,
                        LET p == portfolio'[Owner[t]]
                        IN  p # None /\ activeFrom'[t] <= h0 /\ h0 <= p.last /\ h0 > p.born
                 PROVE  LeftOpen(t, h0)'
      BY DEF OpenTradesTried
    <2>1. h0 \in Int /\ Owner[t] \in User /\ t \in active
      BY <1>2, HourAssumption, OwnerAssumption, AccountsTypes
    <2>2. Owner[t] # u
      <3> SUFFICES ASSUME Owner[t] = u PROVE FALSE
        OBVIOUS
      <3>1. h0 <= row.last /\ h0 > row.last
        BY <1>2, <1>3
      <3> QED
        BY <1>2, <2>1, <3>1
    <2>3. LeftOpen(t, h0)
      BY <1>2, <1>3, <2>1, <2>2 DEF Accounts, OpenTradesTried
    <2> QED
      BY <1>2, <1>3, <2>1, <2>3, LeftOpenStays DEF Known
  <1>8. ClosedTradesTried'
    <2> SUFFICES ASSUME NEW c \in historical, c.status # "cancelled" PROVE TriedBeforeClosing(c)'
      BY <1>2 DEF ClosedTradesTried
    <2>1. Owner[c.id] \in User /\ portfolio[Owner[c.id]] # None
      BY AccountsTypes DEF Accounts, ClosedTradesTried, TriedBeforeClosing, Known, MovedIds
    <2>2. portfolio'[Owner[c.id]] = portfolio[Owner[c.id]] /\ portfolio[Owner[c.id]].last \in Int
      BY <1>2, <1>3, <2>1, AccountsTypes
    <2> QED
      BY <1>2, <1>3, <2>1, <2>2, ClosedStays DEF Accounts
  <1> QED
    BY <1>4, <1>5, <1>6, <1>7, <1>8 DEF Accounts

LEMMA RecordAccounts ==
  ASSUME Consistent, Consistent', Accounts, NEW u \in User, NEW h, Promised!Record(u, h),
         LastPassedHour' = LastPassedHour
  PROVE  Accounts'
  <1> DEFINE state == [user |-> u, hour |-> h, fills |-> portfolio[u].fills]
  <1>1. /\ portfolio[u] # None /\ portfolio[u].last >= h /\ \A f \in portfolio[u].fills : f[2] <= h
        /\ states' = states \cup {state}
        /\ UNCHANGED <<active, activeFrom, historical, portfolio>>
    BY DEF Promised!Record
  <1>2. state.user = u /\ state.hour = h /\ state.fills = Executed(u)
    BY <1>1 DEF Accounts
  <1>3. \A v : Executed(v)' = Executed(v)
    BY <1>1 DEF Executed
  <1> HIDE DEF state
  <1>4. StateInTime(state)
    BY <1>1, <1>2 DEF StateInTime, Accounts
  <1>5. \A s \in states' : StateInTime(s)'
    BY <1>1, <1>3, <1>4 DEF StateInTime, Accounts
  <1>6. OpenTradesTried'
    BY <1>1, <1>3 DEF Accounts, OpenTradesTried, LeftOpen, FillsBefore, Before
  <1>7. ClosedTradesTried'
    BY <1>1, <1>3
    DEF Accounts, ClosedTradesTried, TriedBeforeClosing, LeftOpen, FillsBefore, Before
  <1> QED
    BY <1>1, <1>3, <1>5, <1>6, <1>7 DEF Accounts, RowInTime

\* The row of a user whose hour is executed.
LEMMA HourRow ==
  ASSUME Consistent, NEW u \in User, NEW h \in OpenHours, Promised!ExecuteHour(u, h)
  PROVE  LET p == portfolio[u]
             q == portfolio'[u]
         IN  /\ p # None /\ q # None /\ p.last < h
             /\ \A v \in User : v # u => portfolio'[v] = portfolio[v]
             /\ q.fills = p.fills \cup Promised!FillsOf(historical' \ historical)
             /\ q.last = h /\ q.born = p.born
  <1> DEFINE closings == historical' \ historical
             fills == Promised!FillsOf(closings)
             p == portfolio[u]
             q == portfolio'[u]
             row == [fills |-> p.fills \cup fills, last |-> h, born |-> p.born]
  <1>1. /\ p # None /\ p.last < h
        /\ \A c \in closings : c.id \in active /\ c.hour = h
        /\ portfolio' = [portfolio EXCEPT ![u].fills = @ \cup fills, ![u].last = h]
    BY DEF Promised!ExecuteHour, Promised!IsNextHour, Promised!AreTheClosings, Promised!Due
  <1>2. /\ p \in Portfolios /\ h \in Int /\ active \subseteq Trade
        /\ portfolio \in [User -> Portfolios \cup {None}]
    BY <1>1, HourAssumption, AccountsTypes
  <1>3. fills \subseteq Fills
    BY <1>1, <1>2 DEF Promised!FillsOf, Fills
  <1> HIDE DEF fills
  <1>4. row \in Portfolios /\ row.fills = p.fills \cup fills /\ row.last = h /\ row.born = p.born
    BY <1>2, <1>3 DEF Portfolios
  <1>5. q = row /\ \A v \in User : v # u => portfolio'[v] = portfolio[v]
    BY <1>1, <1>2 DEF Portfolios
  <1> HIDE DEF row
  <1> QED
    BY <1>1, <1>4, <1>5, NoneAssumption DEF fills

\* An hour that is executed: the trades it leaves open met the fills before them.
LEMMA HourAccounts ==
  ASSUME Consistent, Consistent', Accounts, NEW u \in User, NEW h \in OpenHours,
         Promised!ExecuteHour(u, h), LastPassedHour' = LastPassedHour
  PROVE  Accounts'
  <1> DEFINE closings == historical' \ historical
             fills == Promised!FillsOf(closings)
             p == portfolio[u]
             q == portfolio'[u]
  <1>1. /\ p # None /\ h <= LastPassedHour /\ p.last < h
        /\ \A i \in p.last + 1 .. h - 1 : i \notin OpenHours
        /\ Promised!AreTheClosings(closings, u, h)
        /\ active' = active \ {c.id : c \in closings}
        /\ historical' = historical \cup closings
        /\ UNCHANGED <<activeFrom, states>>
    BY DEF Promised!ExecuteHour, Promised!IsNextHour
  <1>2. /\ h \in Int /\ LastPassedHour \in Int /\ p \in Portfolios /\ p.last \in Int
        /\ p.born \in Int /\ active \subseteq Trade /\ activeFrom \in [Trade -> Int]
        /\ \A s \in states : s.user \in User /\ s.hour \in Int
        /\ \A v \in User : \A f \in Executed(v) : f[1] \in Known /\ f[2] \in Int
    BY <1>1, HourAssumption, AccountsTypes
  <1>3. /\ \A v \in User : v # u => portfolio'[v] = portfolio[v]
        /\ q # None /\ q.fills = p.fills \cup fills /\ q.last = h /\ q.born = p.born
    BY HourRow
  <1>4. \A c \in closings : c.id \in active /\ Owner[c.id] = u /\ c.hour = h
    BY <1>1 DEF Promised!AreTheClosings, Promised!Due
  <1>5. \A t \in active : Owner[t] = u /\ activeFrom[t] <= h =>
            LET outcome == Outcome(t, h, Promised!Meets(t, u, closings))
            IN  /\ outcome # "raises"
                /\ {c \in closings : c.id = t} =
                       IF outcome \in ClosingStatuses
                       THEN {[id |-> t, status |-> outcome, hour |-> h]} ELSE {}
    BY <1>1 DEF Promised!AreTheClosings, Promised!Due, Promised!ClosingStatuses, ClosingStatuses
  <1> HIDE DEF closings, fills
  <1>6. /\ \A v \in User : v # u => Executed(v)' = Executed(v)
        /\ Executed(u)' = Executed(u) \cup fills
        /\ \A f \in fills : f[2] = h
    BY <1>1, <1>4 DEF Executed, fills, Promised!FillsOf
  <1> HIDE DEF p, q
  <1>7. Executed(u) = p.fills /\ RowInTime(p)
    BY <1>1 DEF p, Accounts
  <1>8. \A v \in User : Executed(v)' = IF portfolio'[v] = None THEN {} ELSE portfolio'[v].fills
    BY <1>3, <1>6, <1>7 DEF Accounts, q
  <1>9. \A v \in User : portfolio'[v] # None => RowInTime(portfolio[v])'
    <2>1. \A f \in p.fills : f[2] \in Int /\ f[2] <= p.last
      BY <1>2, <1>7 DEF RowInTime
    <2>2. \A f \in q.fills : f[2] <= q.last
      BY <1>1, <1>2, <1>3, <1>6, <2>1
    <2>3. q.last <= LastPassedHour'
      BY <1>1, <1>3
    <2>4. ASSUME NEW v \in User, portfolio'[v] # None PROVE RowInTime(portfolio[v])'
      <3>1. CASE v = u
        BY <2>2, <2>3, <3>1 DEF RowInTime, q
      <3>2. CASE v # u
        BY <1>3, <2>4, <3>2 DEF RowInTime, Accounts
      <3> QED
        BY <3>1, <3>2
    <2> QED
      BY <2>4
  <1>10. \A s \in states' : StateInTime(s)'
    <2> SUFFICES ASSUME NEW s \in states PROVE StateInTime(s)'
      BY <1>1
    <2>1. StateInTime(s) /\ s.user \in User /\ s.hour \in Int
      BY <1>2 DEF Accounts
    <2>2. CASE s.user = u
      <3>1. s.hour <= p.last /\ s.fills = {f \in Executed(u) : f[2] <= s.hour}
        BY <2>1, <2>2 DEF StateInTime, p
      <3>2. {f \in Executed(u)' : f[2] <= s.hour} = {f \in Executed(u) : f[2] <= s.hour}
        BY <1>1, <1>2, <1>6, <2>1, <3>1
      <3> QED
        BY <1>1, <1>2, <1>3, <2>1, <2>2, <3>1, <3>2 DEF StateInTime, q
    <2>3. CASE s.user # u
      BY <1>3, <1>6, <2>1, <2>3 DEF StateInTime
    <2> QED
      BY <2>2, <2>3
  <1>11. OpenTradesTried'
    <2> SUFFICES ASSUME NEW t \in active', NEW i \in OpenHours,
                        LET r == portfolio'[Owner[t]]
                        IN  r # None /\ activeFrom'[t] <= i /\ i <= r.last /\ i > r.born
                 PROVE  LeftOpen(t, i)'
      BY DEF OpenTradesTried
    <2>1. i \in Int /\ Owner[t] \in User /\ t \in active /\ activeFrom[t] <= i
      BY <1>1, HourAssumption, OwnerAssumption, AccountsTypes
    <2>2. CASE Owner[t] # u
      <3>1. LeftOpen(t, i)
        BY <1>3, <2>1, <2>2 DEF Accounts, OpenTradesTried
      <3> QED
        BY <1>1, <1>6, <2>1, <2>2, <3>1, LeftOpenStays DEF Known
    <2>3. CASE Owner[t] = u /\ i <= p.last
      <3>1. i > p.born
        BY <1>3, <2>3 DEF q
      <3>2. LeftOpen(t, i)
        BY <1>1, <2>1, <2>3, <3>1 DEF Accounts, OpenTradesTried, p
      <3>3. {f \in Executed(u)' : f[2] <= i} = {f \in Executed(u) : f[2] <= i}
        BY <1>1, <1>2, <1>6, <2>1, <2>3
      <3> QED
        BY <1>1, <2>1, <2>3, <3>2, <3>3, LeftOpenStays DEF Known
    <2>4. CASE Owner[t] = u /\ ~(i <= p.last)
      <3>1. i = h
        BY <1>1, <1>2, <1>3, <2>1, <2>4 DEF q
      <3>2. FillsBefore(t, i)' = Promised!Meets(t, u, closings)
        <4>1. \A x : Before(x, t)' <=> Before(x, t)
          BY <1>1 DEF Before
        <4>2. FillsBefore(t, i)' =
                  {f \in p.fills \cup fills : f[2] < h \/ (f[2] = h /\ Before(f[1], t))}
          BY <1>6, <1>7, <2>4, <3>1, <4>1 DEF FillsBefore
        <4>3. \A f \in p.fills : f[2] < h
          BY <1>1, <1>2, <1>7 DEF RowInTime
        <4>4. FillsBefore(t, i)' = p.fills \cup {f \in fills : Before(f[1], t)}
          BY <1>2, <1>6, <4>2, <4>3
        <4>5. {f \in fills : Before(f[1], t)} =
                  Promised!FillsOf({c \in closings : Before(c.id, t)})
          BY DEF fills, Promised!FillsOf
        <4> QED
          BY <4>4, <4>5 DEF Promised!Meets, Promised!Before, Before, p
      <3>3. ~ \E c \in closings : c.id = t
        BY <1>1
      <3>4. LET outcome == Outcome(t, h, Promised!Meets(t, u, closings))
            IN  outcome \notin ClosingStatuses \cup {"raises"}
        BY <1>5, <2>1, <2>4, <3>1, <3>3
      <3> QED
        BY <3>1, <3>2, <3>4 DEF LeftOpen
    <2> QED
      BY <2>2, <2>3, <2>4
  <1>12. ClosedTradesTried'
    <2>1. ASSUME NEW c \in historical, c.status # "cancelled" PROVE TriedBeforeClosing(c)'
      <3>1. /\ Owner[c.id] \in User /\ portfolio[Owner[c.id]] # None
            /\ c.hour \in Int /\ c.hour <= portfolio[Owner[c.id]].last
        BY <2>1, AccountsTypes
        DEF Accounts, ClosedTradesTried, TriedBeforeClosing, Known, MovedIds, Consistent, Typed,
            TypeOK, HistoricalTrades, Closings
      <3>2. portfolio[Owner[c.id]].last \in Int
        BY <3>1, AccountsTypes
      <3>3. /\ portfolio'[Owner[c.id]] # None
            /\ portfolio[Owner[c.id]].last <= portfolio'[Owner[c.id]].last
            /\ portfolio'[Owner[c.id]].born = portfolio[Owner[c.id]].born
        BY <1>1, <1>2, <1>3, <3>1, <3>2 DEF p, q
      <3>4. ASSUME NEW i \in Int, i < c.hour
            PROVE  {f \in Executed(Owner[c.id])' : f[2] <= i} = {f \in Executed(Owner[c.id]) : f[2] <= i}
        <4>1. CASE Owner[c.id] # u
          BY <1>6, <3>1, <4>1
        <4>2. CASE Owner[c.id] = u
          <5>1. i < h
            BY <1>1, <1>2, <3>1, <3>4, <4>2 DEF p
          <5> QED
            BY <1>2, <1>6, <4>2, <5>1
        <4> QED
          BY <4>1, <4>2
      <3> QED
        BY <1>1, <2>1, <3>3, <3>4, ClosedStays DEF Accounts
    <2>2. ASSUME NEW c \in closings PROVE TriedBeforeClosing(c)'
      <3>1. /\ c.id \in active /\ Owner[c.id] = u /\ c.hour = h
            /\ c.id \in Known /\ activeFrom'[c.id] = activeFrom[c.id]
        BY <1>1, <1>4 DEF Known
      <3>2. ASSUME NEW i \in OpenHours, activeFrom[c.id] <= i, i < h, i > q.born
            PROVE  LeftOpen(c.id, i)'
        <4>1. i \in Int /\ i <= p.last /\ i > p.born
          <5>1. i \in Int /\ i > p.born
            <6>1. i \in Int
              BY <3>2, HourAssumption
            <6>2. q.born = p.born
              BY <1>3
            <6> QED
              BY <3>2, <6>1, <6>2
          <5>2. i \notin p.last + 1 .. h - 1
            BY <1>1
          <5> QED
            BY <1>2, <3>2, <5>1, <5>2
        <4>2. LeftOpen(c.id, i)
          BY <1>1, <3>1, <3>2, <4>1 DEF Accounts, OpenTradesTried, p
        <4>3. {f \in Executed(u)' : f[2] <= i} = {f \in Executed(u) : f[2] <= i}
          BY <1>2, <1>6, <3>2, <4>1
        <4> QED
          BY <1>1, <3>1, <4>1, <4>2, <4>3, LeftOpenStays
      <3> QED
        BY <1>2, <1>3, <3>1, <3>2 DEF TriedBeforeClosing, q
    <2> QED
      BY <1>1, <2>1, <2>2 DEF ClosedTradesTried
  <1> QED
    BY <1>8, <1>9, <1>10, <1>11, <1>12 DEF Accounts

LEMMA StepAccounts ==
  ASSUME Consistent, Consistent', Accounts, [Next]_vars, Promised!Next PROVE Accounts'
  <1>1. /\ Known \subseteq Known' /\ \A t \in Known : activeFrom'[t] = activeFrom[t]
        /\ LastPassedHour <= LastPassedHour'
    BY WorldMovesOn
  <1>2. ASSUME NEW t \in Trade, Promised!Place(t) PROVE Accounts'
    <2>1. PICK from \in LastPassedHour + 1 .. LastPassedHour + 3 :
              activeFrom' = [activeFrom EXCEPT ![t] = from]
      BY <1>2 DEF Promised!Place
    <2>2. activeFrom'[t] = from /\ LastPassedHour < from
      BY <2>1, AccountsTypes
    <2>3. /\ UNCHANGED <<historical, portfolio, states>> /\ active' \ active \subseteq {t}
          /\ \A u \in User : Executed(u)' = Executed(u)
      BY <1>2 DEF Promised!Place, Executed
    <2> QED
      BY <1>1, <2>2, <2>3, NothingExecuted
  <1>3. ASSUME NEW t \in Trade, Promised!Cancel(t) PROVE Accounts'
    <2>1. PICK h : historical' = historical \cup {[id |-> t, status |-> "cancelled", hour |-> h]}
      BY <1>3 DEF Promised!Cancel
    <2>2. /\ UNCHANGED <<portfolio, states>> /\ active' \ active = {}
      BY <1>3 DEF Promised!Cancel
    <2>3. \A u \in User : Executed(u)' = Executed(u)
      BY <2>1 DEF Executed
    <2>4. \A c \in historical' \ historical : c.status = "cancelled"
      BY <2>1
    <2> QED
      BY <1>1, <2>2, <2>3, <2>4, NothingExecuted
  <1>4. CASE Promised!HourPasses \/ UNCHANGED Promised!vars
    <2>1. UNCHANGED <<active, activeFrom, historical, portfolio, states>>
      BY <1>4 DEF Promised!HourPasses, Promised!vars
    <2>2. \A u \in User : Executed(u)' = Executed(u)
      BY <2>1 DEF Executed
    <2> QED
      BY <1>1, <2>1, <2>2, NothingExecuted
  <1>5. ASSUME NEW u \in User, Promised!Open(u) PROVE Accounts'
    BY <1>5, OpenAccounts DEF Promised!Open
  <1>6. ASSUME NEW u \in User, NEW h \in OpenHours, Promised!ExecuteHour(u, h) PROVE Accounts'
    BY <1>6, HourAccounts DEF Promised!ExecuteHour
  <1>7. ASSUME NEW u \in User, NEW h, Promised!Record(u, h) PROVE Accounts'
    BY <1>7, RecordAccounts DEF Promised!Record
  <1> QED
    BY <1>2, <1>3, <1>4, <1>5, <1>6, <1>7 DEF Promised!Next

LEMMA AlwaysAccounts == Spec /\ []OneAtATime => []Accounts
  <1>1. Init => Accounts
    BY DEF Init, Accounts, Executed, OpenTradesTried, ClosedTradesTried
  <1>2. /\ Consistent /\ Consistent' /\ RunsOnTime /\ Serial /\ Accounts /\ [Next]_vars
        => Accounts'
    BY StepPromised, StepAccounts
  <1> QED
    BY <1>1, <1>2, AlwaysConsistent, AlwaysOnTime, AlwaysSerial, PTL DEF Spec

\* While runs do not overlap, a portfolio is made of exactly the executed
\* trades of its user, after any crash, exception or cancellation.
THEOREM PortfoliosReflectTrades == Spec /\ []OneAtATime => []PortfolioReflectsTrades
  <1>1. Accounts => PortfolioReflectsTrades
    BY DEF Accounts, PortfolioReflectsTrades
  <1> QED
    BY <1>1, AlwaysAccounts, PTL

\* And the state recorded for an hour keeps saying what the portfolio was made
\* of at the end of that hour, whatever is executed later.
THEOREM StatesAreOfTheirHour == Spec /\ []OneAtATime => []StateOfItsHour
  <1>1. Accounts => StateOfItsHour
    BY DEF Accounts, StateInTime, StateOfItsHour
  <1> QED
    BY <1>1, AlwaysAccounts, PTL

\* And every trade, be it open still or closed by the job in a later hour, has
\* been tried in every open hour it was active in and its portfolio has gone
\* through since it was created, on the fills of the trades before it, and left
\* open there.
THEOREM NoHourIsMissed == Spec /\ []OneAtATime => []NoMissedHour
  <1>1. Accounts => NoMissedHour
    BY DEF Accounts, NoMissedHour
  <1> QED
    BY <1>1, AlwaysAccounts, PTL

\* And no step takes a portfolio back to an earlier hour or a fill out of it.
THEOREM PortfoliosGrow == Spec /\ []OneAtATime => PortfolioOnlyGrows
  <1> DEFINE Grows == \A u \in User : portfolio[u] # None =>
                          /\ portfolio'[u] # None
                          /\ portfolio'[u].last >= portfolio[u].last
                          /\ portfolio[u].fills \subseteq portfolio'[u].fills
  <1>1. ASSUME Consistent, Consistent', Promised!Next PROVE Grows
    <2>1. CASE portfolio' = portfolio
      BY <1>1, <2>1, AccountsTypes
    <2>2. ASSUME NEW u \in User, Promised!Open(u) PROVE Grows
      <3>1. portfolio[u] = None /\ \A v \in User : v # u => portfolio'[v] = portfolio[v]
        BY <1>1, <2>2, AccountsTypes DEF Promised!Open
      <3> QED
        BY <1>1, <3>1, AccountsTypes
    <2>3. ASSUME NEW u \in User, NEW h \in OpenHours, Promised!ExecuteHour(u, h) PROVE Grows
      <3>1. h \in Int
        BY HourAssumption
      <3> QED
        BY <1>1, <2>3, <3>1, HourRow, AccountsTypes
    <2> QED
      BY <1>1, <2>1, <2>2, <2>3
      DEF Promised!Next, Promised!vars, Promised!HourPasses, Promised!Place, Promised!Cancel,
          Promised!Record
  <1>2. Consistent /\ Consistent' /\ RunsOnTime /\ Serial /\ [Next]_vars => [Grows]_vars
    BY <1>1, StepPromised
  <1> QED
    BY <1>2, AlwaysConsistent, AlwaysOnTime, AlwaysSerial, PTL DEF Spec, PortfolioOnlyGrows

\* With a single run nothing has to be assumed: whatever requests come, hours
\* pass, exceptions and crashes occur, the job keeps its promise.
THEOREM AccountsOfOneRun == ASSUME \A r, s \in Run : r = s PROVE Spec => KeepsAccounts
  <1>1. OneAtATime
    BY DEF OneAtATime
  <1> QED
    BY <1>1, AccountsAreKept, PTL
=============================================================================
