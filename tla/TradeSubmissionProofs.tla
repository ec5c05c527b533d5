----------------------- MODULE TradeSubmissionProofs -----------------------
(* What TradeSubmission guarantees for any users, trades and requests, and  *)
(* days of any length.                                                      *)
EXTENDS TradeSubmission, TLAPS

-----------------------------------------------------------------------------
(* The rows of a trade, and what a request may count on about them.        *)

\* RowsOf, of any tables.
Rows(act, hist, t) == {a \in act \cup hist : a.id = t}

\* A trade has one row, in one of the tables.
OneRow ==
    /\ \A a, b \in active : a.id = b.id => a = b
    /\ \A c, d \in historical : c.id = d.id => c = d
    /\ \A a \in active, c \in historical : a.id # c.id

\* What a request j has left to insert has no row yet, what it has inserted
\* has the row it wrote or its closed form, and what it has cancelled is
\* closed by it.
Sound(j, act, hist) ==
    /\ j.toInsert \subseteq j.new
    /\ j.pc = "idle" => j.new = {} /\ j.cancelled = {}
    /\ j.pc # "idle" => j.user \in User
    /\ j.pc \in {"check", "conflict", "invalid"} => j.toInsert = j.new /\ j.cancelled = {}
    /\ j.pc \in {"cancel", "record", "created"} => j.toInsert = {}
    /\ \A t \in j.toInsert : Rows(act, hist, t) = {}
    /\ \A t \in j.new \ j.toInsert :
           \E a \in Rows(act, hist, t) : a.user = j.user /\ a.from = j.date + 1
    /\ \A t \in j.cancelled :
           \E c \in hist : /\ c.id = t /\ c.status = "cancelled"
                           /\ c.user = j.user /\ c.hour = j.date

\* No two requests have the same new trade, or have cancelled the same one.
NothingShared ==
    \A p, q \in Request : p # q =>
        /\ request[p].new \cap request[q].new = {}
        /\ request[p].cancelled \cap request[q].cancelled = {}

Consistent ==
    /\ TypeOK
    /\ OneRow
    /\ \A q \in Request : Sound(request[q], active, historical)
    /\ NothingShared
    /\ NoSilentCancel

\* Consistent is what the answers rest on.
LEMMA ConsistentIsTrue == ASSUME Consistent PROVE AnswerIsTrue /\ CancelledByOne
  <1>1. ASSUME NEW t, NEW a \in RowsOf(t) PROVE RowsOf(t) = {a}
    BY <1>1 DEF RowsOf, Consistent, OneRow
  <1>2. ASSUME NEW t PROVE RowsOf(t) = Rows(active, historical, t)
    BY DEF RowsOf, Rows
  <1>3. AnswerIsTrue
    <2> SUFFICES ASSUME NEW q \in Request, NEW t \in request[q].new
                 PROVE  /\ request[q].pc = "created" =>
                              \E a \in RowsOf(t) : /\ RowsOf(t) = {a}
                                                   /\ a.user = request[q].user
                                                   /\ a.from = request[q].date + 1
                        /\ request[q].pc \in {"conflict", "invalid"} => RowsOf(t) = {}
      BY DEF AnswerIsTrue
    <2>1. Sound(request[q], active, historical)
      BY DEF Consistent
    <2> QED
      BY <1>1, <1>2, <2>1 DEF Sound
  <1>4. CancelledByOne
    <2> SUFFICES ASSUME NEW q \in Request, NEW t \in request[q].cancelled
                 PROVE  /\ \E a \in historical : /\ RowsOf(t) = {a}
                                                 /\ a.status = "cancelled"
                                                 /\ a.user = request[q].user
                                                 /\ a.hour = request[q].date
                        /\ \A p \in Request \ {q} : t \notin request[p].cancelled
      BY DEF CancelledByOne
    <2>1. Sound(request[q], active, historical)
      BY DEF Consistent
    <2>2. PICK c \in historical : /\ c.id = t /\ c.status = "cancelled"
                                  /\ c.user = request[q].user /\ c.hour = request[q].date
      BY <2>1 DEF Sound
    <2>3. c \in RowsOf(t)
      BY <2>2 DEF RowsOf
    <2> QED
      BY <1>1, <2>2, <2>3 DEF Consistent, NothingShared
  <1> QED
    BY <1>3, <1>4

-----------------------------------------------------------------------------
(* Steps.                                                                  *)

\* Stage only says where a request is.
LEMMA StageMoves ==
  ASSUME NEW j \in Requests
  PROVE  /\ Stage(j) \in Requests
         /\ Stage(j).user = j.user /\ Stage(j).date = j.date /\ Stage(j).at = j.at
         /\ Stage(j).new = j.new /\ Stage(j).toInsert = j.toInsert
         /\ Stage(j).cancelled = j.cancelled
         /\ Stage(j).pc \in {"insert", "cancel", "record", "created"}
         /\ Stage(j).pc # "insert" => j.toInsert = {}
         /\ Stage(j).pc = "created" => j.new = {} /\ j.cancelled = {}
  <1> DEFINE pc == CASE j.toInsert # {} -> "insert"
                     [] j.toInsert = {} /\ j.toCancel # {} -> "cancel"
                     [] j.toInsert = {} /\ j.toCancel = {} /\ j.new \cup j.cancelled # {} -> "record"
                     [] OTHER -> "created"
  <1>1. /\ pc \in {"insert", "cancel", "record", "created"}
        /\ pc # "insert" => j.toInsert = {}
        /\ pc = "created" => j.new = {} /\ j.cancelled = {}
    OBVIOUS
  <1>2. Stage(j) = [j EXCEPT !.pc = pc]
    BY DEF Stage
  <1> HIDE DEF pc
  <1> QED
    BY <1>1, <1>2 DEF Requests, Pcs

\* A request that a step does not move stays sound if the rows it counts on
\* are kept and its own new trades are left alone.
LEMMA StaysSound ==
  ASSUME NEW j, NEW act, NEW hist, NEW act2, NEW hist2, Sound(j, act, hist),
         hist \subseteq hist2,
         \A t \in j.toInsert : Rows(act2, hist2, t) = {},
         \A t \in j.new : \A a \in Rows(act, hist, t) :
             \E b \in Rows(act2, hist2, t) : b.user = a.user /\ b.from = a.from
  PROVE  Sound(j, act2, hist2)
  <1>1. \A t \in j.new \ j.toInsert :
            \E b \in Rows(act2, hist2, t) : b.user = j.user /\ b.from = j.date + 1
    BY DEF Sound
  <1>2. \A t \in j.cancelled :
            \E c \in hist2 : /\ c.id = t /\ c.status = "cancelled"
                             /\ c.user = j.user /\ c.hour = j.date
    BY DEF Sound
  <1> QED
    BY <1>1, <1>2 DEF Sound

\* A step of request q that takes it to k and leaves the rows alone.
LEMMA LocalStep ==
  ASSUME Consistent, NEW q \in Request, NEW k \in Requests,
         request' = [request EXCEPT ![q] = k],
         UNCHANGED <<active, historical>>,
         now' \in Int, overlapped' \subseteq User,
         lastSubmitted' \in [User -> Int \cup {None}],
         Sound(k, active, historical),
         k.cancelled = request[q].cancelled,
         k.user = request[q].user \/ request[q].cancelled = {},
         \/ k.new = request[q].new
         \/ \A p \in Request : k.new \cap request[p].new = {}
  PROVE  Consistent'
  <1>1. request'[q] = k /\ \A p \in Request \ {q} : request'[p] = request[p]
    BY DEF Consistent, TypeOK
  <1>2. TypeOK'
    BY DEF Consistent, TypeOK
  <1>3. OneRow'
    BY DEF Consistent, OneRow
  <1>4. \A p \in Request : Sound(request'[p], active', historical')
    BY <1>1 DEF Consistent
  <1>5. NothingShared'
    BY <1>1 DEF Consistent, NothingShared
  <1>6. NoSilentCancel'
    BY <1>1 DEF Consistent, NoSilentCancel
  <1> QED
    BY <1>2, <1>3, <1>4, <1>5, <1>6 DEF Consistent

LEMMA ArriveConsistent ==
  ASSUME Consistent, NEW q \in Request, NEW u \in User, NEW new \in SUBSET Trade,
         NEW cancel \in SUBSET Trade, NEW valid \in BOOLEAN,
         Arrive(q, u, new, cancel, valid)
  PROVE  Consistent'
  <1> DEFINE pc == IF valid THEN "check" ELSE "invalid"
             k == [request[q] EXCEPT !.pc = pc, !.user = u, !.date = now, !.new = new,
                                     !.toInsert = new, !.toCancel = cancel]
  <1>1. /\ request[q] \in Requests /\ request[q].pc = "idle"
        /\ Sound(request[q], active, historical)
        /\ request' = [request EXCEPT ![q] = k]
        /\ \A t \in new : RowsOf(t) = {} /\ \A p \in Request : t \notin request[p].new
        /\ UNCHANGED <<now, active, historical, lastSubmitted>>
        /\ overlapped' \subseteq User
    BY DEF Arrive, Consistent, TypeOK
  <1>2. pc \in {"check", "invalid"} /\ now \in Int
    BY DEF Consistent, TypeOK
  <1> HIDE DEF pc
  <1>3. /\ k \in Requests /\ k.pc = pc /\ k.user = u /\ k.new = new /\ k.toInsert = new
        /\ k.cancelled = request[q].cancelled
    BY <1>1, <1>2 DEF Requests, Pcs
  <1> HIDE DEF k
  <1>4. k.cancelled = {}
    BY <1>1, <1>3 DEF Sound
  <1>5. Sound(k, active, historical)
    BY <1>1, <1>2, <1>3, <1>4 DEF Sound, Rows, RowsOf
  <1> QED
    BY <1>1, <1>3, <1>4, <1>5, LocalStep DEF Consistent, TypeOK

LEMMA CheckConsistent == ASSUME Consistent, NEW q \in Request, Check(q) PROVE Consistent'
  <1> DEFINE j == request[q]
             conflict == [j EXCEPT !.pc = "conflict"]
             passed == [j EXCEPT !.at = now]
  <1>1. /\ j \in Requests /\ j.pc = "check" /\ Sound(j, active, historical)
        /\ now \in Int
        /\ \/ request' = [request EXCEPT ![q] = conflict]
           \/ request' = [request EXCEPT ![q] = Stage(passed)]
        /\ UNCHANGED <<now, active, historical, lastSubmitted, overlapped>>
    BY DEF Check, Consistent, TypeOK
  <1>2. /\ conflict \in Requests /\ conflict.pc = "conflict"
        /\ conflict.user = j.user /\ conflict.date = j.date /\ conflict.new = j.new
        /\ conflict.toInsert = j.toInsert /\ conflict.cancelled = j.cancelled
    BY <1>1 DEF Requests, Pcs
  <1>3. /\ passed \in Requests
        /\ passed.user = j.user /\ passed.date = j.date /\ passed.new = j.new
        /\ passed.toInsert = j.toInsert /\ passed.cancelled = j.cancelled
    BY <1>1 DEF Requests
  <1> HIDE DEF conflict, passed
  <1>4. Sound(conflict, active, historical)
    BY <1>1, <1>2 DEF Sound
  <1>5. Sound(Stage(passed), active, historical)
    BY <1>1, <1>3, StageMoves DEF Sound
  <1>6. Stage(passed) \in Requests /\ Stage(passed).user = j.user
        /\ Stage(passed).new = j.new /\ Stage(passed).cancelled = j.cancelled
    BY <1>3, StageMoves
  <1> QED
    BY <1>1, <1>2, <1>4, <1>5, <1>6, LocalStep DEF Consistent, TypeOK

\* The ends of a request keep what it has stored.
LEMMA EndsConsistent ==
  ASSUME Consistent, NEW q \in Request, RecordSubmission(q) \/ Raises(q)
  PROVE  Consistent'
  <1> DEFINE j == request[q]
             k(pc) == [j EXCEPT !.pc = pc]
  <1>1. /\ j \in Requests /\ Sound(j, active, historical)
        /\ j.pc \in {"check", "insert", "cancel", "record"}
        /\ \/ j.pc = "record" /\ request' = [request EXCEPT ![q] = k("created")]
           \/ request' = [request EXCEPT ![q] = k("failed")]
        /\ UNCHANGED <<now, active, historical, overlapped>>
        /\ now \in Int /\ overlapped \subseteq User
    BY DEF RecordSubmission, Raises, InProgress, Consistent, TypeOK
  <1>2. lastSubmitted' \in [User -> Int \cup {None}]
    BY <1>1 DEF RecordSubmission, Raises, Consistent, TypeOK, Requests
  <1>3. ASSUME NEW pc \in {"created", "failed"}
        PROVE  /\ k(pc) \in Requests /\ k(pc).pc = pc
               /\ k(pc).user = j.user /\ k(pc).date = j.date /\ k(pc).new = j.new
               /\ k(pc).toInsert = j.toInsert /\ k(pc).cancelled = j.cancelled
    BY <1>1 DEF Requests, Pcs
  <1> HIDE DEF k
  <1>4. j.pc = "record" => Sound(k("created"), active, historical)
    BY <1>1, <1>3 DEF Sound
  <1>5. Sound(k("failed"), active, historical)
    BY <1>1, <1>3 DEF Sound
  <1> QED
    BY <1>1, <1>2, <1>3, <1>4, <1>5, LocalStep

\* The new row is the only one of its trade.
LEMMA InsertConsistent ==
  ASSUME Consistent, NEW q \in Request, NEW t \in Trade, InsertRequested(q, t)
  PROVE  Consistent'
  <1> DEFINE j == request[q]
             row == [id |-> t, user |-> j.user, from |-> j.date + 1]
             left == [j EXCEPT !.toInsert = j.toInsert \ {t}]
             k == Stage(left)
  <1>0. request' = [request EXCEPT ![q] = k]
    BY DEF InsertRequested
  <1>1. /\ j \in Requests /\ j.pc = "insert" /\ t \in j.toInsert
        /\ Sound(j, active, historical)
        /\ active' = active \cup {row}
        /\ request' = [request EXCEPT ![q] = k]
        /\ UNCHANGED <<now, historical, lastSubmitted, overlapped>>
    <2> HIDE DEF k
    <2> QED
      BY <1>0 DEF InsertRequested, Consistent, TypeOK
  <1>2. /\ left \in Requests
        /\ left.user = j.user /\ left.date = j.date /\ left.new = j.new
        /\ left.toInsert = j.toInsert \ {t} /\ left.cancelled = j.cancelled
    BY <1>1 DEF Requests
  <1>3. row \in ActiveTrades /\ row.id = t /\ row.user = j.user /\ row.from = j.date + 1
    BY <1>1 DEF Sound, ActiveTrades, Requests
  <1> HIDE DEF left, row
  <1>4. /\ k \in Requests
        /\ k.user = j.user /\ k.date = j.date /\ k.new = j.new
        /\ k.toInsert = j.toInsert \ {t} /\ k.cancelled = j.cancelled
        /\ k.pc \in {"insert", "cancel", "record", "created"}
        /\ k.pc # "insert" => k.toInsert = {}
    BY <1>2, StageMoves
  <1> HIDE DEF k
  <1>5. request'[q] = k /\ \A p \in Request \ {q} : request'[p] = request[p]
    BY <1>1 DEF Consistent, TypeOK
  <1>6. Rows(active, historical, t) = {} /\ t \in j.new
    BY <1>1 DEF Sound
  <1>7. TypeOK'
    BY <1>1, <1>3, <1>4 DEF Consistent, TypeOK
  <1>8. OneRow'
    BY <1>1, <1>3, <1>6 DEF Consistent, OneRow, Rows
  <1>9. ASSUME NEW p \in Request PROVE Sound(request'[p], active', historical')
    <2>1. \A x : Rows(active, historical, x) \subseteq Rows(active', historical', x)
      BY <1>1 DEF Rows
    <2>2. \A x : x # t => Rows(active', historical', x) = Rows(active, historical, x)
      BY <1>1, <1>3 DEF Rows
    <2>3. CASE p # q
      <3>1. t \notin request[p].new
        BY <1>6, <2>3 DEF Consistent, NothingShared
      <3>2. Sound(request[p], active, historical)
        BY DEF Consistent
      <3>3. \A x \in request[p].toInsert : Rows(active', historical', x) = {}
        BY <2>2, <3>1, <3>2 DEF Sound
      <3>4. Sound(request[p], active', historical')
        BY <1>1, <2>1, <3>2, <3>3, StaysSound
      <3> QED
        BY <1>5, <2>3, <3>4
    <2>4. CASE p = q
      <3>1. row \in Rows(active', historical', t)
        BY <1>1, <1>3 DEF Rows
      <3>2. \A x \in k.new \ k.toInsert :
                \E a \in Rows(active', historical', x) : a.user = k.user /\ a.from = k.date + 1
        <4> SUFFICES ASSUME NEW x \in k.new \ k.toInsert
                     PROVE  \E a \in Rows(active', historical', x) :
                                a.user = k.user /\ a.from = k.date + 1
          OBVIOUS
        <4>1. CASE x = t
          BY <1>3, <1>4, <3>1, <4>1
        <4>2. CASE x # t
          <5>1. x \in j.new \ j.toInsert
            BY <1>4, <4>2
          <5>2. PICK a \in Rows(active, historical, x) : a.user = j.user /\ a.from = j.date + 1
            BY <1>1, <5>1 DEF Sound
          <5> QED
            BY <1>4, <2>1, <5>2
        <4> QED
          BY <4>1, <4>2
      <3>3. \A x \in k.toInsert : Rows(active', historical', x) = {}
        BY <1>1, <1>4, <2>2 DEF Sound
      <3>4. /\ \A x \in k.cancelled :
                   \E c \in historical' : /\ c.id = x /\ c.status = "cancelled"
                                          /\ c.user = k.user /\ c.hour = k.date
            /\ k.toInsert \subseteq k.new /\ k.user \in User
        BY <1>1, <1>4 DEF Sound
      <3> HIDE DEF j
      <3>5. Sound(k, active', historical')
        BY <1>4, <3>2, <3>3, <3>4 DEF Sound
      <3> QED
        BY <1>5, <2>4, <3>5
    <2> QED
      BY <2>3, <2>4
  <1>10. NothingShared'
    BY <1>4, <1>5 DEF Consistent, NothingShared
  <1>11. NoSilentCancel'
    BY <1>1, <1>4, <1>5 DEF Consistent, NoSilentCancel
  <1> QED
    BY <1>7, <1>8, <1>9, <1>10, <1>11 DEF Consistent

\* A step that moves row a to its closed form c.
LEMMA MovedRow ==
  ASSUME Consistent, NEW a \in active, NEW c \in HistoricalTrades,
         c.id = a.id, c.user = a.user, c.from = a.from,
         active' = active \ {a}, historical' = historical \cup {c}
  PROVE  /\ OneRow'
         /\ \A q \in Request : Sound(request[q], active', historical')
  <1>1. OneRow'
    BY DEF Consistent, OneRow
  <1>2. ASSUME NEW q \in Request PROVE Sound(request[q], active', historical')
    <2>1. Sound(request[q], active, historical)
      BY DEF Consistent
    <2>2. a \in Rows(active, historical, a.id)
      BY DEF Rows
    <2>3. \A t \in request[q].toInsert : Rows(active', historical', t) = {}
      <3>1. \A t \in request[q].toInsert : t # a.id
        BY <2>1, <2>2 DEF Sound
      <3> QED
        BY <2>1, <3>1 DEF Sound, Rows
    <2>4. \A t \in request[q].new : \A b \in Rows(active, historical, t) :
              \E d \in Rows(active', historical', t) : d.user = b.user /\ d.from = b.from
      <3> SUFFICES ASSUME NEW t, NEW b \in Rows(active, historical, t)
                   PROVE  \E d \in Rows(active', historical', t) :
                              d.user = b.user /\ d.from = b.from
        OBVIOUS
      <3>1. CASE b = a
        BY <3>1 DEF Rows
      <3>2. CASE b # a
        BY <3>2 DEF Rows
      <3> QED
        BY <3>1, <3>2
    <2>5. historical \subseteq historical'
      OBVIOUS
    <2> QED
      BY ONLY <2>1, <2>3, <2>4, <2>5, StaysSound
  <1> QED
    BY <1>1, <1>2

\* cancel_if_active tells the batch exactly what it has closed.
LEMMA CancelConsistent ==
  ASSUME Consistent, NEW q \in Request, NEW t \in Trade, CancelIfActive(q, t)
  PROVE  Consistent'
  <1> DEFINE j == request[q]
             rows == Cancellable(j.user, t)
             cancelled == j.cancelled \cup (IF rows = {} THEN {} ELSE {t})
             left == [j EXCEPT !.toCancel = j.toCancel \ {t}, !.cancelled = cancelled]
             k == Stage(left)
  <1>0. request' = [request EXCEPT ![q] = k]
    BY DEF CancelIfActive
  <1>1. /\ j \in Requests /\ j.pc = "cancel" /\ Sound(j, active, historical)
        /\ active' = active \ rows
        /\ historical' = historical \cup {Cancelled(a, j.date) : a \in rows}
        /\ request' = [request EXCEPT ![q] = k]
        /\ UNCHANGED <<now, lastSubmitted, overlapped>>
    <2> HIDE DEF k
    <2> QED
      BY <1>0 DEF CancelIfActive, Consistent, TypeOK
  <1>2. /\ left \in Requests
        /\ left.user = j.user /\ left.date = j.date /\ left.new = j.new
        /\ left.toInsert = j.toInsert /\ left.cancelled = cancelled
    BY <1>1 DEF Requests
  <1>3. rows \subseteq active /\ \A a \in rows : a.id = t /\ a.user = j.user
    BY DEF Cancellable
  <1> HIDE DEF left, rows
  <1>4. /\ k \in Requests
        /\ k.user = j.user /\ k.date = j.date /\ k.new = j.new
        /\ k.toInsert = j.toInsert /\ k.cancelled = cancelled
        /\ k.pc \in {"insert", "cancel", "record", "created"}
        /\ k.pc # "insert" => k.toInsert = {}
    BY <1>2, StageMoves
  <1> HIDE DEF k
  <1>5. request'[q] = k /\ \A p \in Request \ {q} : request'[p] = request[p]
    BY <1>1 DEF Consistent, TypeOK
  <1>6. CASE rows = {}
    <2>1. /\ k.cancelled = j.cancelled
          /\ active' = active /\ historical' = historical
      BY <1>1, <1>4, <1>6
    <2>2. Sound(k, active, historical)
      BY <1>1, <1>4, <2>1 DEF Sound
    <2> QED
      BY <1>1, <1>4, <2>1, <2>2, LocalStep DEF Consistent, TypeOK
  <1>7. CASE rows # {}
    <2>1. PICK a \in rows : TRUE
      BY <1>7
    <2>2. rows = {a}
      BY <1>3, <2>1 DEF Consistent, OneRow
    <2> DEFINE c == Cancelled(a, j.date)
    <2>3. /\ a \in active /\ a \in ActiveTrades /\ a.id = t /\ a.user = j.user
          /\ active' = active \ {a} /\ historical' = historical \cup {c}
          /\ k.cancelled = j.cancelled \cup {t}
      BY <1>1, <1>3, <1>4, <1>7, <2>2 DEF Consistent, TypeOK
    <2>4. /\ c \in HistoricalTrades /\ c.id = a.id /\ c.user = a.user /\ c.from = a.from
          /\ c.status = "cancelled" /\ c.hour = j.date
      BY <1>1, <2>3 DEF Cancelled, HistoricalTrades, ActiveTrades, Requests
    <2> HIDE DEF c
    <2>5. OneRow' /\ \A p \in Request : Sound(request[p], active', historical')
      BY <2>3, <2>4, MovedRow
    <2>6. ASSUME NEW p \in Request PROVE Sound(request'[p], active', historical')
      <3>1. CASE p = q
        <4>1. Sound(j, active', historical')
          BY <2>5
        <4>2. c \in historical' /\ c.id = t /\ c.user = k.user /\ c.hour = k.date
          BY <1>4, <2>3, <2>4
        <4>3. \A x \in k.cancelled :
                  \E d \in historical' : /\ d.id = x /\ d.status = "cancelled"
                                         /\ d.user = k.user /\ d.hour = k.date
          BY <1>4, <2>3, <2>4, <4>1, <4>2 DEF Sound
        <4>4. /\ \A x \in j.toInsert : Rows(active', historical', x) = {}
              /\ \A x \in j.new \ j.toInsert :
                     \E b \in Rows(active', historical', x) :
                         b.user = j.user /\ b.from = j.date + 1
              /\ j.toInsert \subseteq j.new /\ j.user \in User
          BY <1>1, <4>1 DEF Sound
        <4> HIDE DEF j
        <4>5. Sound(k, active', historical')
          BY <1>4, <4>3, <4>4 DEF Sound
        <4> QED
          BY <1>5, <3>1, <4>5
      <3>2. CASE p # q
        BY <1>5, <2>5, <3>2
      <3> QED
        BY <3>1, <3>2
    <2>7. \A p \in Request : t \notin request[p].cancelled
      BY <2>3 DEF Consistent, Sound, OneRow
    <2>8. NothingShared'
      BY <1>4, <1>5, <2>3, <2>7 DEF Consistent, NothingShared
    <2>9. NoSilentCancel'
      <3> SUFFICES ASSUME NEW d \in historical', d.status = "cancelled"
                   PROVE  \E p \in Request : /\ request'[p].user = d.user
                                             /\ d.id \in request'[p].cancelled
        BY DEF NoSilentCancel
      <3>1. CASE d = c
        BY <1>4, <1>5, <2>3, <2>4, <3>1
      <3>2. CASE d \in historical
        <4>1. PICK p \in Request : request[p].user = d.user /\ d.id \in request[p].cancelled
          BY <3>2 DEF Consistent, NoSilentCancel
        <4> QED
          BY <1>4, <1>5, <2>3, <4>1
      <3> QED
        BY <2>3, <3>1, <3>2
    <2>10. TypeOK'
      BY <1>1, <1>4, <2>3, <2>4 DEF Consistent, TypeOK
    <2> QED
      BY <2>5, <2>6, <2>8, <2>9, <2>10 DEF Consistent
  <1> QED
    BY <1>6, <1>7

LEMMA JobClosesConsistent ==
  ASSUME Consistent, NEW a \in active, JobCloses(a)
  PROVE  Consistent'
  <1> DEFINE c(hour) == [id |-> a.id, user |-> a.user, from |-> a.from,
                         hour |-> hour, status |-> "closed"]
  <1>1. a \in ActiveTrades /\ now \in Int
    BY DEF Consistent, TypeOK
  <1>2. PICK hour \in a.from .. now - 1 : historical' = historical \cup {c(hour)}
    BY DEF JobCloses
  <1>3. /\ active' = active \ {a}
        /\ UNCHANGED <<now, lastSubmitted, request, overlapped>>
    BY DEF JobCloses
  <1>4. /\ c(hour) \in HistoricalTrades /\ c(hour).id = a.id /\ c(hour).user = a.user
        /\ c(hour).from = a.from /\ c(hour).status = "closed"
    BY <1>1, <1>2 DEF ActiveTrades, HistoricalTrades
  <1> HIDE DEF c
  <1>5. OneRow' /\ \A q \in Request : Sound(request[q], active', historical')
    BY <1>2, <1>3, <1>4, MovedRow
  <1>6. TypeOK'
    BY <1>2, <1>3, <1>4 DEF Consistent, TypeOK
  <1>7. (NothingShared /\ NoSilentCancel)'
    BY <1>2, <1>3, <1>4 DEF Consistent, NothingShared, NoSilentCancel
  <1> QED
    BY <1>3, <1>5, <1>6, <1>7 DEF Consistent

LEMMA AlwaysConsistent == Spec => []Consistent
  <1>1. Init => Consistent
    <2> SUFFICES ASSUME Init PROVE Consistent
      OBVIOUS
    <2>1. PICK S \in SUBSET Trade, owner \in [Trade -> User] :
              active = {[id |-> t, user |-> owner[t], from |-> 0] : t \in S}
      BY DEF Init
    <2>2. active \subseteq ActiveTrades
      BY <2>1 DEF ActiveTrades
    <2>3. OneRow
      BY <2>1 DEF Init, OneRow
    <2>4. IdleRequest \in Requests
      BY DEF IdleRequest, Requests, Pcs
    <2>5. TypeOK
      BY <2>2, <2>4 DEF Init, TypeOK
    <2>6. \A q \in Request : Sound(request[q], active, historical)
      BY DEF Init, Sound, IdleRequest
    <2>7. NothingShared /\ NoSilentCancel
      BY DEF Init, NothingShared, NoSilentCancel, IdleRequest
    <2> QED
      BY <2>3, <2>5, <2>6, <2>7 DEF Consistent
  <1>2. Consistent /\ [Next]_vars => Consistent'
    <2> SUFFICES ASSUME Consistent, [Next]_vars PROVE Consistent'
      OBVIOUS
    <2>1. CASE Tick \/ UNCHANGED vars
      BY <2>1
      DEF Tick, vars, Consistent, TypeOK, OneRow, NothingShared, NoSilentCancel
    <2>2. ASSUME NEW q \in Request, Submit(q) PROVE Consistent'
      BY <2>2, ArriveConsistent, CheckConsistent, InsertConsistent, CancelConsistent,
         EndsConsistent
      DEF Submit
    <2> QED
      BY <2>1, <2>2, JobClosesConsistent DEF Next
  <1> QED
    BY <1>1, <1>2, PTL DEF Spec

\* The tables and the requests' locals hold what their declarations say.
THEOREM Typing == Spec => []TypeOK
  BY AlwaysConsistent, PTL DEF Consistent

\* What submit answers is what is stored, for any overlap of requests and of
\* the job, a failure between any two of its connections, and any clock.
THEOREM AnswersAreTrue == Spec => []AnswerIsTrue
  BY ConsistentIsTrue, AlwaysConsistent, PTL

\* cancel_if_active makes one request, and one only, the trade's canceller.
THEOREM EachCancelledByOne == Spec => []CancelledByOne
  BY ConsistentIsTrue, AlwaysConsistent, PTL

\* No trade is cancelled without its owner's batch reporting it.
THEOREM NoneCancelledSilently == Spec => []NoSilentCancel
  BY AlwaysConsistent, PTL DEF Consistent

-----------------------------------------------------------------------------
(* One batch a day.                                                        *)

\* Days do not run backwards.
LEMMA DayGrows == ASSUME NEW a \in Int, NEW b \in Int, a <= b PROVE Day(a) <= Day(b)
  <1>1. DayLength \in Nat \ {0}
    BY ClockAssumption
  <1> QED
    BY <1>1 DEF Day

LEMMA SameDayBetween ==
  ASSUME NEW a \in Int, NEW b \in Int, NEW c \in Int, a <= b, b <= c, Day(a) = Day(c)
  PROVE  Day(b) = Day(c)
  <1>1. Day(a) \in Int /\ Day(b) \in Int /\ Day(c) \in Int
    BY ClockAssumption DEF Day
  <1> QED
    BY <1>1, DayGrows

\* A request's dates come in turn with the date its user last submitted.
Busy(j) == j.pc \in {"check", "insert", "cancel", "record"}
Stored(j) == j.pc = "created" /\ (j.new # {} \/ j.cancelled # {})
Dated(j, last, clock) ==
    /\ Stored(j) => last # None /\ j.date <= j.at /\ j.at <= last
    /\ Busy(j) => j.date <= clock /\ (last # None => last <= j.date)
    /\ Busy(j) /\ j.pc # "check" =>
           /\ j.date <= j.at /\ j.at <= clock
           /\ last # None => Day(last) # Day(j.date)

\* User u has one request in progress at a time, later than all it stored.
InTurn(u) ==
    /\ lastSubmitted[u] # None => lastSubmitted[u] <= now
    /\ \A p, q \in Request :
           /\ Busy(request[p]) /\ Busy(request[q])
           /\ request[p].user = u /\ request[q].user = u
           => p = q
    /\ \A q \in Request :
           request[q].user = u => Dated(request[q], lastSubmitted[u], now)

Turns == /\ \A u \in User \ overlapped : InTurn(u)
         /\ OneBatchADayInTurn

LEMMA OneBatchStored ==
  OneBatchADayInTurn <=>
      \A p, q \in Request :
          /\ Stored(request[p]) /\ Stored(request[q])
          /\ request[p].user = request[q].user /\ request[p].user \in User \ overlapped
          /\ Day(request[p].date) = Day(request[q].date)
          => p = q
  BY DEF OneBatchADayInTurn, OneBatchADay, Changed, Stored

\* A step of a request in progress that stores nothing new.
LEMMA MovesInTurn ==
  ASSUME Consistent, Turns, NEW q \in Request, NEW k,
         request' = [request EXCEPT ![q] = k], UNCHANGED <<now, lastSubmitted, overlapped>>,
         Busy(request[q]), k.user = request[q].user, ~Stored(k),
         Dated(request[q], lastSubmitted[k.user], now) => Dated(k, lastSubmitted[k.user], now)
  PROVE  Turns'
  <1>1. request'[q] = k /\ \A p \in Request \ {q} : request'[p] = request[p]
    BY DEF Consistent, TypeOK
  <1>2. ASSUME NEW u \in User \ overlapped' PROVE InTurn(u)'
    <2>1. InTurn(u)
      BY DEF Turns
    <2>2. \A p \in Request : request'[p].user = u =>
              request[p].user = u /\ (Busy(request'[p]) => Busy(request[p]))
      BY <1>1
    <2>3. \A p \in Request : request'[p].user = u =>
              Dated(request'[p], lastSubmitted[u], now)
      BY <1>1, <2>1 DEF InTurn
    <2>4. \A p, r \in Request :
              /\ Busy(request'[p]) /\ Busy(request'[r])
              /\ request'[p].user = u /\ request'[r].user = u
              => p = r
      BY <2>1, <2>2 DEF InTurn
    <2> QED
      BY <2>1, <2>3, <2>4 DEF InTurn, Busy, Dated, Stored
  <1>3. \A p \in Request : Stored(request'[p]) => p # q
    BY <1>1
  <1>4. OneBatchADayInTurn'
    BY <1>1, <1>3 DEF Turns, OneBatchADayInTurn, OneBatchADay, Changed, Stored
  <1> QED
    BY <1>2, <1>4 DEF Turns

\* A user who has another request in progress is counted as overlapping.
LEMMA ArriveInTurn ==
  ASSUME Consistent, Turns, NEW q \in Request, NEW u \in User, NEW new \in SUBSET Trade,
         NEW cancel \in SUBSET Trade, NEW valid \in BOOLEAN,
         Arrive(q, u, new, cancel, valid)
  PROVE  Turns'
  <1> DEFINE pc == IF valid THEN "check" ELSE "invalid"
             k == [request[q] EXCEPT !.pc = pc, !.user = u, !.date = now, !.new = new,
                                     !.toInsert = new, !.toCancel = cancel]
  <1>1. /\ request[q] \in Requests /\ request[q].pc = "idle"
        /\ request' = [request EXCEPT ![q] = k]
        /\ UNCHANGED <<now, lastSubmitted>>
        /\ overlapped \subseteq overlapped' /\ now \in Int
    BY DEF Arrive, Consistent, TypeOK
  <1>2. valid /\ u \notin overlapped' =>
            \A p \in Request : ~(Busy(request[p]) /\ request[p].user = u)
    BY DEF Arrive, InProgress, Busy
  <1>3. k.pc = pc /\ k.user = u /\ k.date = now
    BY <1>1 DEF Requests
  <1> HIDE DEF k
  <1>4. request'[q] = k /\ \A p \in Request \ {q} : request'[p] = request[p]
    BY <1>1 DEF Consistent, TypeOK
  <1>5. ~Stored(k) /\ (Busy(k) <=> valid) /\ (Busy(k) => k.pc = "check")
    BY <1>3 DEF Stored, Busy
  <1> HIDE DEF pc
  <1>6. ASSUME NEW w \in User \ overlapped' PROVE InTurn(w)'
    <2>1. InTurn(w)
      BY <1>1 DEF Turns
    <2>2. \A p, r \in Request :
              /\ Busy(request'[p]) /\ Busy(request'[r])
              /\ request'[p].user = w /\ request'[r].user = w
              => p = r
      BY <1>2, <1>3, <1>4, <1>5, <2>1 DEF InTurn
    <2>3. k.user = w => Dated(k, lastSubmitted[w], now)
      BY <1>1, <1>3, <1>5, <2>1 DEF InTurn, Dated
    <2>4. \A p \in Request : request'[p].user = w =>
              Dated(request'[p], lastSubmitted[w], now)
      BY <1>4, <2>1, <2>3 DEF InTurn
    <2> QED
      BY <1>1, <2>1, <2>2, <2>4 DEF InTurn, Busy, Dated, Stored
  <1>7. \A p \in Request : Stored(request'[p]) => p # q
    BY <1>4, <1>5
  <1>8. OneBatchADayInTurn'
    BY <1>1, <1>4, <1>7 DEF Turns, OneBatchADayInTurn, OneBatchADay, Changed, Stored
  <1> QED
    BY <1>6, <1>8 DEF Turns

LEMMA SubmitInTurn ==
  ASSUME Consistent, Turns, NEW q \in Request, NEW t,
         Check(q) \/ InsertRequested(q, t) \/ CancelIfActive(q, t) \/ Raises(q)
  PROVE  Turns'
  <1> DEFINE j == request[q]
             last == lastSubmitted[j.user]
  <1>0. j \in Requests /\ now \in Int
    BY DEF Consistent, TypeOK
  <1>1. ASSUME NEW i \in Requests, Busy(j), Busy(i) \/ i.pc \in {"conflict", "failed"},
               UNCHANGED <<now, lastSubmitted, overlapped>>,
               i.user = j.user, i.date = j.date,
               Busy(i) => \/ j.pc # "check" /\ i.at = j.at
                          \/ i.at = now /\ (last # None => Day(last) # Day(j.date)),
               Busy(i) => request' = [request EXCEPT ![q] = Stage(i)],
               ~Busy(i) => request' = [request EXCEPT ![q] = i]
        PROVE  Turns'
    <2>1. CASE Busy(i)
      <3>1. /\ Stage(i).user = j.user /\ Stage(i).date = j.date /\ Stage(i).at = i.at
            /\ ~Stored(Stage(i))
        BY <1>1, StageMoves DEF Stored
      <3>2. Dated(j, last, now) => Dated(Stage(i), last, now)
        BY <1>0, <1>1, <2>1, <3>1 DEF Dated, Requests
      <3> QED
        BY <1>1, <2>1, <3>1, <3>2, MovesInTurn
    <2>2. CASE ~Busy(i)
      <3>1. ~Stored(i)
        BY <1>1, <2>2 DEF Stored
      <3>2. Dated(i, last, now)
        BY <2>2, <3>1 DEF Dated
      <3> QED
        BY <1>1, <2>2, <3>1, <3>2, MovesInTurn
    <2> QED
      BY <2>1, <2>2
  <1>2. CASE Check(q) /\ SubmittedToday(j.user, j.date)
    <2> DEFINE i == [j EXCEPT !.pc = "conflict"]
    <2>1. /\ i \in Requests /\ i.pc = "conflict" /\ i.user = j.user /\ i.date = j.date
          /\ request' = [request EXCEPT ![q] = i] /\ Busy(j)
          /\ UNCHANGED <<now, lastSubmitted, overlapped>>
      BY <1>0, <1>2 DEF Check, Requests, Pcs, Busy
    <2> HIDE DEF i
    <2> QED
      BY <1>1, <2>1 DEF Busy
  <1>3. CASE Check(q) /\ ~SubmittedToday(j.user, j.date)
    <2> DEFINE i == [j EXCEPT !.at = now]
    <2>1. /\ i \in Requests /\ i.pc = "check" /\ i.user = j.user /\ i.date = j.date
          /\ i.at = now /\ j.pc = "check"
      BY <1>0, <1>3 DEF Check, Requests
    <2>2. request' = [request EXCEPT ![q] = Stage(i)]
      BY <1>3 DEF Check
    <2>3. UNCHANGED <<now, lastSubmitted, overlapped>> /\ (last # None => Day(last) # Day(j.date))
      BY <1>3 DEF Check, SubmittedToday
    <2> HIDE DEF i
    <2> QED
      BY <1>1, <2>1, <2>2, <2>3 DEF Busy
  <1>4. CASE InsertRequested(q, t)
    <2> DEFINE left == j.toInsert \ {t}
               i == [j EXCEPT !.toInsert = left]
    <2>1. /\ i \in Requests /\ i.pc = "insert" /\ i.user = j.user /\ i.date = j.date
          /\ i.at = j.at /\ j.pc = "insert"
      BY <1>0, <1>4 DEF InsertRequested, Requests
    <2>2. request' = [request EXCEPT ![q] = Stage(i)]
      BY <1>4 DEF InsertRequested
    <2>3. UNCHANGED <<now, lastSubmitted, overlapped>>
      BY <1>4 DEF InsertRequested
    <2> HIDE DEF i
    <2> QED
      BY <1>1, <2>1, <2>2, <2>3 DEF Busy
  <1>5. CASE CancelIfActive(q, t)
    <2> DEFINE rows == Cancellable(j.user, t)
               left == j.toCancel \ {t}
               cancelled == j.cancelled \cup (IF rows = {} THEN {} ELSE {t})
               i == [j EXCEPT !.toCancel = left, !.cancelled = cancelled]
    <2>1. /\ i \in Requests /\ i.pc = "cancel" /\ i.user = j.user /\ i.date = j.date
          /\ i.at = j.at /\ j.pc = "cancel"
      BY <1>0, <1>5 DEF CancelIfActive, Requests
    <2>2. request' = [request EXCEPT ![q] = Stage(i)]
      BY <1>5 DEF CancelIfActive
    <2>3. UNCHANGED <<now, lastSubmitted, overlapped>>
      BY <1>5 DEF CancelIfActive
    <2> HIDE DEF i
    <2> QED
      BY <1>1, <2>1, <2>2, <2>3 DEF Busy
  <1>6. CASE Raises(q)
    <2> DEFINE i == [j EXCEPT !.pc = "failed"]
    <2>1. /\ i \in Requests /\ i.pc = "failed" /\ i.user = j.user /\ i.date = j.date
          /\ request' = [request EXCEPT ![q] = i] /\ Busy(j)
          /\ UNCHANGED <<now, lastSubmitted, overlapped>>
      BY <1>0, <1>6 DEF Raises, InProgress, Requests, Pcs, Busy
    <2> HIDE DEF i
    <2> QED
      BY <1>1, <2>1 DEF Busy
  <1> QED
    BY <1>2, <1>3, <1>4, <1>5, <1>6

\* The batch is later than all its user stored, and of another day than the
\* last of them.
LEMMA RecordInTurn ==
  ASSUME Consistent, Turns, NEW q \in Request, RecordSubmission(q)
  PROVE  Turns'
  <1> DEFINE j == request[q]
             last == lastSubmitted[j.user]
             k == [j EXCEPT !.pc = "created"]
  <1>1. /\ j \in Requests /\ j.pc = "record" /\ j.user \in User /\ now \in Int
        /\ last \in Int \cup {None} /\ j.at # None
        /\ request' = [request EXCEPT ![q] = k]
        /\ lastSubmitted' = [lastSubmitted EXCEPT ![j.user] = j.at]
        /\ UNCHANGED <<now, overlapped>>
    BY NoneAssumption DEF RecordSubmission, Consistent, TypeOK, Sound, Requests
  <1>2. /\ k.pc = "created" /\ k.user = j.user /\ k.date = j.date /\ k.at = j.at
        /\ j.at \in Int /\ j.date \in Int
    BY <1>1 DEF Requests
  <1> HIDE DEF k
  <1>3. /\ request'[q] = k /\ \A p \in Request \ {q} : request'[p] = request[p]
        /\ lastSubmitted'[j.user] = j.at
        /\ \A u \in User : u # j.user => lastSubmitted'[u] = lastSubmitted[u]
    BY <1>1 DEF Consistent, TypeOK
  <1>4. ~Busy(k) /\ Busy(j)
    BY <1>1, <1>2 DEF Busy
  <1>5. ASSUME j.user \notin overlapped
        PROVE  /\ j.date <= j.at /\ j.at <= now
               /\ last # None => last <= j.date /\ Day(last) # Day(j.date)
    <2>1. InTurn(j.user)
      BY <1>1, <1>5 DEF Turns
    <2> QED
      BY <1>1, <1>4, <2>1 DEF InTurn, Dated
  <1>6. ASSUME NEW u \in User \ overlapped' PROVE InTurn(u)'
    <2>0. InTurn(u)
      BY <1>1 DEF Turns
    <2>1. \A p, r \in Request :
              /\ Busy(request'[p]) /\ Busy(request'[r])
              /\ request'[p].user = u /\ request'[r].user = u
              => p = r
      BY <1>3, <1>4, <2>0 DEF InTurn
    <2>2. ASSUME NEW p \in Request, request'[p].user = u
          PROVE  Dated(request'[p], lastSubmitted'[u], now)
      <3>1. CASE p = q
        BY <1>1, <1>2, <1>3, <1>4, <1>5, <2>2, <3>1 DEF Dated
      <3>2. CASE p # q /\ u = j.user
        <4>1. ~Busy(request[p]) /\ Dated(request[p], last, now) /\ request'[p] = request[p]
          BY <1>3, <1>4, <2>0, <2>2, <3>2 DEF InTurn
        <4>2. Stored(request[p]) => last \in Int /\ last <= j.at
          BY <1>1, <1>2, <1>5, <3>2, <4>1 DEF Dated
        <4>3. request[p].at \in Int /\ request[p].date \in Int
          BY DEF Consistent, TypeOK, Requests
        <4> QED
          BY <1>1, <1>2, <1>3, <3>2, <4>1, <4>2, <4>3 DEF Dated
      <3>3. CASE p # q /\ u # j.user
        BY <1>3, <2>0, <2>2, <3>3 DEF InTurn
      <3> QED
        BY <3>1, <3>2, <3>3
    <2>3. lastSubmitted'[u] # None => lastSubmitted'[u] <= now
      BY <1>1, <1>3, <1>5, <2>0 DEF InTurn
    <2> QED
      BY <1>1, <2>1, <2>2, <2>3 DEF InTurn, Busy, Dated, Stored
  <1>7. ASSUME NEW p \in Request, p # q, Stored(request[p]), request[p].user = j.user,
               j.user \notin overlapped
        PROVE  Day(request[p].date) # Day(j.date)
    <2>1. Dated(request[p], last, now)
      BY <1>1, <1>7 DEF Turns, InTurn
    <2>2. /\ last \in Int /\ request[p].date \in Int /\ request[p].at \in Int
          /\ request[p].date <= last
      BY <1>1, <1>7, <2>1 DEF Dated, Consistent, TypeOK, Requests
    <2>3. last # None
      BY <1>7, <2>1 DEF Dated
    <2> QED
      BY <1>2, <1>5, <1>7, <2>2, <2>3, SameDayBetween
  <1>8. OneBatchADayInTurn'
    <2> SUFFICES ASSUME NEW p \in Request, NEW r \in Request,
                        Stored(request'[p]), Stored(request'[r]),
                        request'[p].user = request'[r].user,
                        request'[p].user \in User \ overlapped,
                        Day(request'[p].date) = Day(request'[r].date)
                 PROVE  p = r
      BY <1>1 DEF OneBatchADayInTurn, OneBatchADay, Changed, Stored
    <2>1. CASE p # q /\ r # q
      BY <1>3, <2>1, OneBatchStored DEF Turns
    <2>2. CASE p = q
      BY <1>2, <1>3, <1>7, <2>2
    <2>3. CASE r = q
      BY <1>2, <1>3, <1>7, <2>3
    <2> QED
      BY <2>1, <2>2, <2>3
  <1> QED
    BY <1>6, <1>8 DEF Turns

LEMMA AlwaysInTurn == Spec => []Turns
  <1>1. Init => Turns
    <2> SUFFICES ASSUME Init PROVE Turns
      OBVIOUS
    <2>1. \A q \in Request : ~Busy(request[q]) /\ ~Stored(request[q])
      BY DEF Init, IdleRequest, Busy, Stored
    <2>2. \A u \in User : lastSubmitted[u] = None
      BY DEF Init
    <2> QED
      BY <2>1, <2>2, OneBatchStored DEF Turns, InTurn, Dated
  <1>2. Consistent /\ Turns /\ [Next]_vars => Turns'
    <2> SUFFICES ASSUME Consistent, Turns, [Next]_vars PROVE Turns'
      OBVIOUS
    <2>1. CASE UNCHANGED vars \/ \E a \in active : JobCloses(a)
      BY <2>1
      DEF JobCloses, vars, Turns, InTurn, Dated, Busy, Stored, OneBatchADayInTurn,
          OneBatchADay, Changed
    <2>2. CASE Tick
      <3>1. /\ now \in Int /\ now' = now + 1
            /\ UNCHANGED <<lastSubmitted, request, overlapped>>
        BY <2>2 DEF Tick, Consistent, TypeOK
      <3>2. OneBatchADayInTurn'
        BY <3>1 DEF Turns, OneBatchADayInTurn, OneBatchADay, Changed
      <3>3. ASSUME NEW u \in User \ overlapped, InTurn(u) PROVE InTurn(u)'
        <4>1. lastSubmitted[u] \in Int \cup {None}
          BY DEF Consistent, TypeOK
        <4>2. \A q \in Request : request[q].date \in Int /\ request[q].at \in Int
          BY DEF Consistent, TypeOK, Requests
        <4>3. \A q \in Request : Dated(request[q], lastSubmitted[u], now)
                                     => Dated(request[q], lastSubmitted[u], now + 1)
          BY <3>1, <4>2 DEF Dated
        <4>4. \A q \in Request :
                  request[q].user = u => Dated(request[q], lastSubmitted[u], now + 1)
          BY <3>3, <4>3 DEF InTurn
        <4>5. lastSubmitted[u] # None => lastSubmitted[u] <= now + 1
          BY <3>1, <3>3, <4>1 DEF InTurn
        <4> QED
          BY <3>1, <3>3, <4>4, <4>5 DEF InTurn, Busy, Dated, Stored
      <3> QED
        BY <3>1, <3>2, <3>3 DEF Turns
    <2>3. ASSUME NEW q \in Request, Submit(q) PROVE Turns'
      BY <2>3, ArriveInTurn, SubmitInTurn, RecordInTurn DEF Submit
    <2> QED
      BY <2>1, <2>2, <2>3 DEF Next
  <1> QED
    BY <1>1, <1>2, AlwaysConsistent, PTL DEF Spec

\* A user whose requests never overlap changes something at most once a day:
\* the date of the last batch that did was written before the next arrived.
THEOREM OneBatchInTurn == Spec => []OneBatchADayInTurn
  <1>1. Turns => OneBatchADayInTurn
    BY DEF Turns
  <1> QED
    BY <1>1, AlwaysInTurn, PTL

\* The day a user last submitted on only moves on, however long a request that
\* writes it has taken, as long as the user's requests do not overlap.
THEOREM RecordsMoveOn == Spec => RecordedDayMovesOn
  <1> DEFINE MovesOn ==
        \A u \in User \ overlapped :
            lastSubmitted[u] \notin {None, lastSubmitted'[u]} =>
                Day(lastSubmitted[u]) < Day(lastSubmitted'[u])
  <1>1. Consistent /\ Turns /\ [Next]_vars => [MovesOn]_lastSubmitted
    <2> SUFFICES ASSUME Consistent, Turns, [Next]_vars, lastSubmitted' # lastSubmitted
                 PROVE  MovesOn
      OBVIOUS
    <2>1. PICK q \in Request : RecordSubmission(q)
      BY DEF Next, vars, Tick, Submit, Arrive, Check, InsertRequested, CancelIfActive, Raises,
         JobCloses
    <2> SUFFICES ASSUME NEW u \in User \ overlapped,
                        lastSubmitted[u] \notin {None, lastSubmitted'[u]}
                 PROVE  Day(lastSubmitted[u]) < Day(lastSubmitted'[u])
      OBVIOUS
    <2> DEFINE j == request[q]
               last == lastSubmitted[u]
    <2>2. /\ j \in Requests /\ j.pc = "record" /\ last \in Int
          /\ u = j.user /\ lastSubmitted'[u] = j.at
      BY <2>1 DEF RecordSubmission, Consistent, TypeOK
    <2>3. Dated(j, last, now)
      BY <2>2 DEF Turns, InTurn
    <2>4. /\ j.date \in Int /\ j.at \in Int
          /\ last <= j.date /\ j.date <= j.at /\ Day(last) # Day(j.date)
      BY <2>2, <2>3 DEF Dated, Busy, Requests
    <2>5. Day(last) \in Int /\ Day(j.date) \in Int /\ Day(j.at) \in Int
      BY <2>2, <2>4, ClockAssumption DEF Day
    <2> HIDE DEF j, last
    <2>6. Day(last) <= Day(j.date) /\ Day(j.date) <= Day(j.at)
      BY <2>2, <2>4, DayGrows
    <2> QED
      BY <2>2, <2>4, <2>5, <2>6 DEF last
  <1> QED
    BY <1>1, AlwaysConsistent, AlwaysInTurn, PTL DEF Spec, RecordedDayMovesOn
=============================================================================
