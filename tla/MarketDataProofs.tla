-------------------------- MODULE MarketDataProofs --------------------------
(* What MarketData guarantees for any symbols, settings, markets, clocks and *)
(* any number of queries: its types, and that nothing is cached too early.   *)
EXTENDS MarketData, TLAPS

-----------------------------------------------------------------------------
(* The clock.                                                              *)

LEMMA ProductOfInts == ASSUME NEW m \in Int, NEW n \in Int PROVE m * n \in Int
  OBVIOUS

LEMMA ProductGrows ==
  ASSUME NEW m \in Int, NEW n \in Int, NEW k \in Nat, m <= n
  PROVE  m * k <= n * k
  <1>1. n - m \in Nat
    OBVIOUS
  <1>2. (n - m) * k >= 0
    BY <1>1
  <1>3. (n - m) * k = n * k - m * k
    OBVIOUS
  <1>4. m * k \in Int /\ n * k \in Int
    OBVIOUS
  <1> QED
    BY <1>2, <1>3, <1>4

LEMMA DivisionOfInts ==
  ASSUME NEW m \in Int, NEW n \in Nat \ {0}
  PROVE  m \div n \in Int /\ (m \div n) * n <= m
  <1>1. m = n * (m \div n) + (m % n)
    OBVIOUS
  <1>2. m % n \in 0 .. n - 1
    OBVIOUS
  <1>3. m \div n \in Int
    OBVIOUS
  <1> DEFINE s == (m \div n) * n
  <1>4. s \in Int /\ s = n * (m \div n)
    BY <1>3
  <1> HIDE DEF s
  <1>5. s <= m
    BY <1>1, <1>2, <1>4
  <1> QED
    BY <1>3, <1>5 DEF s

LEMMA DivisionGrows ==
  ASSUME NEW m \in Int, NEW k \in Int, NEW n \in Nat \ {0}, m <= k
  PROVE  m \div n <= k \div n
  OBVIOUS

LEMMA HoursAreInts == LastHour \in Int /\ Hour \subseteq Int
  BY ClockAssumption, DivisionOfInts DEF LastHour, Hour

LEMMA LastPassedHourType == ASSUME NEW time \in Int PROVE LastPassedHour(time) \in Int
  BY ClockAssumption, DivisionOfInts DEF LastPassedHour

\* Time does not take hours back.
LEMMA LastPassedHourGrows ==
  ASSUME NEW time \in Int
  PROVE  LastPassedHour(time) <= LastPassedHour(time + 1)
  <1> DEFINE past == time - HourLength - Margin
  <1>1. past \in Int /\ past + 1 \in Int /\ past <= past + 1
    BY ClockAssumption
  <1>2. past \div HourLength <= (past + 1) \div HourLength
    BY <1>1, ClockAssumption, DivisionGrows
  <1>3. (time + 1) - HourLength - Margin = past + 1
    BY ClockAssumption
  <1> QED
    BY <1>2, <1>3 DEF LastPassedHour

\* An hour that the program takes to have passed has all its bars.
LEMMA PassedIsElapsed ==
  ASSUME NEW hour \in Int, now \in Int, hour <= LastPassedHour(now)
  PROVE  Elapsed(hour)
  <1> DEFINE past == now - HourLength - Margin
  <1>1. past \in Int
    BY ClockAssumption
  <1>2. LastPassedHour(now) \in Int /\ LastPassedHour(now) * HourLength <= past
    BY <1>1, ClockAssumption, DivisionOfInts DEF LastPassedHour
  <1>3. hour * HourLength <= LastPassedHour(now) * HourLength
    BY <1>2, ClockAssumption, ProductGrows
  <1>4. /\ hour * HourLength \in Int
        /\ LastPassedHour(now) * HourLength \in Int
    BY <1>2, ClockAssumption, ProductOfInts
  <1>5. (hour + 1) * HourLength = hour * HourLength + HourLength
    BY ClockAssumption
  <1> DEFINE h == hour * HourLength
             l == LastPassedHour(now) * HourLength
  <1> HIDE DEF h, l
  <1>6. h + HourLength + AlpacaLatency <= now
    <2>1. h \in Int /\ l \in Int /\ h <= l /\ l <= now - HourLength - Margin
      BY <1>2, <1>3, <1>4 DEF h, l
    <2> QED
      BY <2>1, ClockAssumption, LatencyAssumption
  <1> QED
    BY <1>5, <1>6 DEF Elapsed, h

-----------------------------------------------------------------------------
(* The inductive invariant.                                                *)

Working == {"search", "fetch", "store", "combine"}

\* The range a query works on lies within the hours there are, and once it is
\* capped, within those that have passed.
Bounded(x, time) ==
    x.pc \in Working =>
        /\ FirstHour <= x.start /\ x.end <= LastHour
        /\ x.pc # "search" => x.end <= LastPassedHour(time)
        /\ x.pc \in {"fetch", "store"} => x.start <= x.first /\ x.last <= x.end

\* What the caller asked for.
Asked(x, time) ==
    x.pc # "idle" =>
        /\ x.from \in Hour /\ x.to \in Hour
        /\ x.passed <= LastPassedHour(time)
        /\ x.kind # "range" => x.passed = x.to

\* A range ends where it was asked to, or at an hour that was the last passed
\* one since.
AtBounds(x) ==
    (x.pc \in Working /\ x.kind # "latest") =>
        /\ x.start = x.from
        /\ x.end <= x.to
        /\ x.end = x.to \/ (x.pc # "search" /\ x.passed <= x.end)

\* The days looked back over, in none of which anything traded.
InDays(x, m, symbols) ==
    (x.pc \in Working /\ x.kind = "latest") =>
        /\ x.day < MaxDays
        /\ FirstHour <= DayBack(x.to, MaxDays - 1).start
        /\ x.end = DayBack(x.to, x.day).end
        /\ x.start = DayBack(x.to, x.day).start
        /\ \A hour \in x.end + 1 .. x.to : m[hour] \cap symbols = {}

IsFinal(row, m) == row.price = IF row.symbol \in m[row.hour] THEN "bar" ELSE "none"

\* What was found is final, of the symbols asked for, and together with what
\* is still asked for complete.
Found(x, m, symbols) ==
    /\ x.missing \subseteq symbols
    /\ \A row \in x.cached \cup x.fetched : IsFinal(row, m) /\ row.symbol \in symbols
    /\ x.pc \in {"fetch", "store"} =>
           \A hour \in x.start .. x.end, s \in symbols :
               IsIn(x.cached, hour, s) \/ (hour \in x.first .. x.last /\ s \in x.missing)
    /\ x.pc = "store" =>
           \A hour \in x.first .. x.last, s \in x.missing :
               s \in m[hour] => IsIn(x.fetched, hour, s)
    /\ x.pc = "combine" =>
           \A hour \in x.start .. x.end, s \in symbols :
               IsIn(x.cached, hour, s) \/ IsIn(x.fetched, hour, s)

Sound(x, time, m, symbols) ==
    /\ x \in Queries
    /\ Bounded(x, time) /\ Asked(x, time)
    /\ AtBounds(x) /\ InDays(x, m, symbols)
    /\ Found(x, m, symbols)
    /\ x.pc = "done" <=> x.answer # None

Inductive ==
    /\ now \in Int /\ market \in Markets /\ tradable \in SUBSET Symbol
    /\ cache \subseteq Rows /\ CacheIsFinal
    /\ query \in [Query -> Queries]
    /\ \A q \in Query : Sound(query[q], now, market, tradable)

-----------------------------------------------------------------------------
LEMMA IdleIsSound ==
  ASSUME NEW time, NEW m, NEW symbols
  PROVE  Sound(IdleQuery, time, m, symbols)
  <1>1. IdleQuery \in Queries
    BY DEF IdleQuery, Queries, Pcs, Kinds, Answers
  <1> QED
    BY <1>1 DEF Sound, Bounded, Asked, AtBounds, InDays, Found, IdleQuery, Working

\* Time leaves what a query has found as it is.
LEMMA SoundLater ==
  ASSUME NEW x, NEW time \in Int, NEW m, NEW symbols, Sound(x, time, m, symbols)
  PROVE  Sound(x, time + 1, m, symbols)
  <1>1. /\ LastPassedHour(time) \in Int /\ LastPassedHour(time + 1) \in Int
        /\ LastPassedHour(time) <= LastPassedHour(time + 1)
    BY LastPassedHourType, LastPassedHourGrows
  <1>2. x.end \in Int /\ x.passed \in Int
    BY DEF Sound, Queries
  <1>3. Bounded(x, time + 1) /\ Asked(x, time + 1)
    BY <1>1, <1>2 DEF Sound, Bounded, Asked
  <1> QED
    BY <1>3 DEF Sound

\* A step of one query that keeps the cache.
LEMMA QuerySteps ==
  ASSUME Inductive, NEW q \in Query, NEW x, Sound(x, now, market, tradable),
         query' = [query EXCEPT ![q] = x],
         UNCHANGED <<now, market, tradable, cache>>
  PROVE  Inductive'
  <1>1. query' \in [Query -> Queries]
    BY DEF Inductive, Sound
  <1>2. ASSUME NEW r \in Query PROVE Sound(query'[r], now, market, tradable)
    BY DEF Inductive
  <1> QED
    BY <1>1, <1>2 DEF Inductive, CacheIsFinal

-----------------------------------------------------------------------------
(* The steps.                                                              *)

LEMMA InitSound == Init => Inductive
  <1> SUFFICES ASSUME Init PROVE Inductive
    OBVIOUS
  <1>1. now \in Int /\ market \in Markets /\ tradable \in SUBSET Symbol
    BY ClockAssumption, MarketAssumption DEF Init
  <1>2. cache \subseteq Rows /\ CacheIsFinal
    BY DEF Init, CacheIsFinal
  <1>3. \A q \in Query : query[q] = IdleQuery
    BY DEF Init
  <1>4. \A q \in Query : Sound(query[q], now, market, tradable)
    BY <1>3, IdleIsSound
  <1>5. query \in [Query -> Queries]
    BY <1>3, <1>4 DEF Init, Sound
  <1> QED
    BY <1>1, <1>2, <1>4, <1>5 DEF Inductive

LEMMA TickSound == ASSUME Inductive, Tick PROVE Inductive'
  <1>1. \A q \in Query : Sound(query[q], now + 1, market, tradable)
    BY SoundLater DEF Inductive
  <1> QED
    BY <1>1 DEF Inductive, Tick, CacheIsFinal

LEMMA RestartSound == ASSUME Inductive, Restart PROVE Inductive'
  <1>1. tradable' \in SUBSET Symbol
    BY MarketAssumption DEF Restart
  <1>2. \A q \in Query : Sound(query'[q], now, market, tradable')
    BY IdleIsSound DEF Restart
  <1>3. query' \in [Query -> Queries]
    BY <1>2 DEF Restart, Sound
  <1> QED
    BY <1>1, <1>2, <1>3 DEF Inductive, Restart, CacheIsFinal

\* Any question about hours there are may be asked, a latest open hour when
\* all the days to look back over are hours there are.
LEMMA AskSound ==
  ASSUME Inductive, NEW q \in Query, NEW kind \in Kinds, NEW from \in Hour, NEW to \in Hour,
         Ask(q, kind, from, to),
         kind # "range" => to = LastPassedHour(now),
         kind = "latest" => /\ from = DayBack(to, 0).start
                            /\ DayBack(to, MaxDays - 1).start \in Hour
  PROVE  Inductive'
  <1> DEFINE x == [IdleQuery EXCEPT !.pc = "search", !.kind = kind, !.from = from, !.to = to,
                             !.passed = LastPassedHour(now), !.start = from, !.end = to]
  <1>1. LastPassedHour(now) \in Int
    BY LastPassedHourType DEF Inductive
  <1>2. /\ from \in Int /\ to \in Int
        /\ FirstHour <= from /\ to <= LastHour
    BY HoursAreInts, ClockAssumption DEF Hour
  <1>3. x \in Queries
    <2>1. IdleQuery \in Queries
      BY IdleIsSound DEF Sound
    <2> QED
      BY <1>1, <1>2, <2>1 DEF Queries, Pcs
  <1>4. Bounded(x, now) /\ Asked(x, now) /\ AtBounds(x) /\ Found(x, market, tradable)
    BY <1>1, <1>2 DEF IdleQuery, Bounded, Asked, AtBounds, Found, Working
  <1>5. InDays(x, market, tradable)
    <2> SUFFICES ASSUME kind = "latest" PROVE InDays(x, market, tradable)
      BY DEF InDays, IdleQuery
    <2>1. FirstHour <= DayBack(to, MaxDays - 1).start
      BY HoursAreInts, ClockAssumption DEF Hour
    <2>2. DayBack(to, 0).end = to
      BY <1>2, MarketAssumption DEF DayBack
    <2>3. \A hour \in to + 1 .. to : market[hour] \cap tradable = {}
      BY <1>2
    <2> QED
      BY <2>1, <2>2, <2>3, MarketAssumption DEF InDays, IdleQuery
  <1>6. x.pc # "done" /\ x.answer = None
    BY DEF IdleQuery
  <1>7. Sound(x, now, market, tradable)
    BY <1>3, <1>4, <1>5, <1>6 DEF Sound
  <1> QED
    BY <1>7, QuerySteps DEF Ask

\* The first day looked at is among the hours there are, if the last one is.
LEMMA LatestStartsInTime ==
  ASSUME NEW to \in Hour, DayBack(to, MaxDays - 1).start \in Hour
  PROVE  DayBack(to, 0).start \in Hour
  <1>1. to \in Int /\ DayHours \in Nat \ {0} /\ MaxDays \in Nat \ {0}
    BY HoursAreInts, MarketAssumption
  <1> DEFINE back == (MaxDays - 1) * DayHours
  <1>2. back \in Int /\ 0 * DayHours <= back
    BY <1>1, ProductGrows
  <1>3. 0 * DayHours = 0
    BY <1>1
  <1>4. /\ DayBack(to, 0).start = to - (DayHours - 1)
        /\ DayBack(to, MaxDays - 1).start = to - back - (DayHours - 1)
    BY <1>1, <1>3 DEF DayBack
  <1> HIDE DEF back
  <1> QED
    BY <1>1, <1>2, <1>3, <1>4, HoursAreInts, ClockAssumption DEF Hour

LEMMA AsksSound == ASSUME Inductive, NEW q \in Query, Asks(q) PROVE Inductive'
  <1>1. CASE AskRange(q)
    <2>1. PICK from \in Hour, to \in Hour : Ask(q, "range", from, to)
      BY <1>1 DEF AskRange
    <2> QED
      BY <2>1, AskSound DEF Kinds
  <1>2. CASE AskWindow(q)
    <2>1. PICK from \in Hour, to \in Hour : to = LastPassedHour(now) /\ Ask(q, "window", from, to)
      BY <1>2 DEF AskWindow
    <2> QED
      BY <2>1, AskSound DEF Kinds
  <1>3. CASE AskLatest(q)
    <2> DEFINE to == LastPassedHour(now)
               from == DayBack(to, 0).start
    <2>1. DayBack(to, MaxDays - 1).start \in Hour /\ to \in Hour /\ Ask(q, "latest", from, to)
      BY <1>3 DEF AskLatest
    <2>2. from \in Hour
      BY <2>1, LatestStartsInTime
    <2> QED
      BY <2>1, <2>2, AskSound DEF Kinds
  <1> QED
    BY <1>1, <1>2, <1>3 DEF Asks

\* What the search leaves to fetch: nothing of what was found.
LEMMA SearchSound == ASSUME Inductive, NEW q \in Query, Search(q) PROVE Inductive'
  <1> DEFINE x == query[q]
             end == MinOf(x.end, LastPassedHour(now))
             cached == CachedRange(x.start, end)
             missing == Missing(cached, x.start, end)
             hours == {cell[1] : cell \in missing}
             symbols == {cell[2] : cell \in missing}
  <1>1. /\ x \in Queries /\ Sound(x, now, market, tradable) /\ x.pc = "search"
        /\ LastPassedHour(now) \in Int
    BY LastPassedHourType DEF Inductive, Search
  <1>2. /\ x.start \in Int /\ x.end \in Int /\ x.to \in Int /\ x.passed \in Int
        /\ end \in Int /\ end <= x.end /\ end <= LastPassedHour(now)
        /\ end = x.end \/ end = LastPassedHour(now)
    BY <1>1 DEF Queries, MinOf
  <1>3. cached \subseteq Rows /\ \A row \in cached : IsFinal(row, market) /\ row.symbol \in tradable
    BY DEF CachedRange, Inductive, CacheIsFinal, IsFinal
  <1>4. /\ missing \subseteq (x.start .. end) \X tradable
        /\ \A hour \in x.start .. end, s \in tradable :
               IsIn(cached, hour, s) \/ <<hour, s>> \in missing
    BY DEF Missing
  <1>5. hours \subseteq x.start .. end /\ symbols \subseteq tradable
    BY <1>4
  <1>6. tradable \subseteq Symbol
    BY DEF Inductive
  <1>7. x.kind = "latest" => end = x.end
    <2> SUFFICES ASSUME x.kind = "latest" PROVE x.end <= LastPassedHour(now)
      BY <1>1, <1>2 DEF MinOf
    <2>1. x.end = x.to - x.day * DayHours /\ x.to <= LastPassedHour(now)
      BY <1>1 DEF Sound, InDays, Asked, DayBack, Working
    <2>2. x.day * DayHours \in Nat
      BY <1>1, MarketAssumption DEF Queries
    <2> QED
      BY <1>1, <1>2, <2>1, <2>2
  <1>8. /\ FirstHour <= x.start /\ x.end <= LastHour
        /\ x.kind # "latest" => /\ x.start = x.from /\ x.end = x.to
                                /\ x.passed <= LastPassedHour(now)
    BY <1>1 DEF Sound, Bounded, AtBounds, Asked, Working
  <1> DEFINE Searched(y) == /\ y.pc \in {"fetch", "combine"} /\ y.kind = x.kind
                            /\ y.from = x.from /\ y.to = x.to /\ y.passed = x.passed /\ y.day = x.day
                            /\ y.start = x.start /\ y.end = end /\ y.answer = x.answer
                            /\ y.cached = cached /\ y.fetched = x.fetched
  <1>9. x.fetched \subseteq Rows /\ \A row \in x.fetched : IsFinal(row, market) /\ row.symbol \in tradable
    BY <1>1 DEF Sound, Found, Queries
  <1> HIDE DEF x, end, cached, missing, hours, symbols
  <1>10. ASSUME NEW y \in Queries, Searched(y) PROVE AtBounds(y) /\ Asked(y, now) /\ InDays(y, market, tradable)
    <2>1. Asked(y, now)
      BY <1>1, <1>10 DEF Sound, Asked
    <2>2. AtBounds(y)
      BY <1>1, <1>2, <1>8, <1>10 DEF AtBounds, Working
    <2>3. InDays(y, market, tradable)
      BY <1>1, <1>7, <1>10 DEF Sound, InDays, Working
    <2> QED
      BY <2>1, <2>2, <2>3
  <1>11. CASE missing = {} /\ query' = [query EXCEPT ![q] =
                  [query[q] EXCEPT !.pc = "combine", !.end = end, !.cached = cached]]
    <2> DEFINE y == [x EXCEPT !.pc = "combine", !.end = end, !.cached = cached]
    <2>1. y \in Queries /\ Searched(y) /\ y.missing = x.missing /\ y.pc = "combine"
      BY <1>1, <1>2, <1>3 DEF Queries, Pcs
    <2>2. Bounded(y, now)
      BY <1>2, <1>8, <2>1, HoursAreInts, ClockAssumption DEF Bounded, Working
    <2>3. Found(y, market, tradable)
      BY <1>1, <1>3, <1>4, <1>9, <1>11, <2>1 DEF Found, Sound
    <2>4. Sound(y, now, market, tradable)
      BY <1>1, <1>10, <2>1, <2>2, <2>3 DEF Sound
    <2> QED
      BY <1>11, <2>4, QuerySteps DEF Search, x
  <1>12. ASSUME NEW first \in hours, NEW last \in hours, hours \subseteq first .. last,
                query' = [query EXCEPT ![q] =
                  [query[q] EXCEPT !.pc = "fetch", !.end = end, !.cached = cached,
                                   !.missing = symbols, !.first = first, !.last = last]]
         PROVE  Inductive'
    <2> DEFINE y == [x EXCEPT !.pc = "fetch", !.end = end, !.cached = cached,
                              !.missing = symbols, !.first = first, !.last = last]
    <2>1. /\ first \in x.start .. end /\ last \in x.start .. end
          /\ first \in Int /\ last \in Int
      BY <1>2, <1>5, <1>12
    <2>2. /\ y \in Queries /\ Searched(y) /\ y.missing = symbols /\ y.pc = "fetch"
          /\ y.first = first /\ y.last = last
      BY <1>1, <1>2, <1>3, <1>5, <1>6, <2>1 DEF Queries, Pcs
    <2>3. Bounded(y, now)
      BY <1>2, <1>8, <2>1, <2>2, HoursAreInts, ClockAssumption DEF Bounded, Working
    <2>4. \A hour \in x.start .. end, s \in tradable :
              IsIn(cached, hour, s) \/ (hour \in first .. last /\ s \in symbols)
      <3> SUFFICES ASSUME NEW hour \in x.start .. end, NEW s \in tradable, ~IsIn(cached, hour, s)
                   PROVE  hour \in first .. last /\ s \in symbols
        OBVIOUS
      <3>1. <<hour, s>> \in missing
        BY <1>4
      <3>2. hour \in hours /\ s \in symbols
        BY <3>1 DEF hours, symbols
      <3> QED
        BY <1>12, <3>2
    <2>5. Found(y, market, tradable)
      BY <1>3, <1>5, <1>9, <2>2, <2>4 DEF Found
    <2>6. Sound(y, now, market, tradable)
      BY <1>1, <1>10, <2>2, <2>3, <2>5 DEF Sound
    <2> QED
      BY <1>12, <2>6, QuerySteps DEF Search, x
  <1> QED
    BY <1>11, <1>12 DEF Search, x, end, cached, missing, hours, symbols

\* The bars of hours that have passed are all there, and none of an hour that
\* is still running comes with them.
LEMMA FetchSound == ASSUME Inductive, NEW q \in Query, Fetch(q) PROVE Inductive'
  <1> DEFINE x == query[q]
             hours == x.first .. x.last
             traded(price) == {row \in [hour : hours, symbol : x.missing, price : {price}] :
                                   row.symbol \in market[row.hour]}
             bars == {row \in traded("bar") : Elapsed(row.hour)}
             late == {row \in traded("running") : ~Elapsed(row.hour)}
  <1>1. PICK begun \in SUBSET late :
            query' = [query EXCEPT ![q] = [@ EXCEPT !.pc = "store", !.fetched = bars \cup begun]]
    BY DEF Fetch
  <1>2. x \in Queries /\ Sound(x, now, market, tradable) /\ x.pc = "fetch"
    BY DEF Inductive, Fetch
  <1>3. /\ x.start \in Int /\ x.end \in Int /\ x.first \in Int /\ x.last \in Int
        /\ FirstHour <= x.start /\ x.end <= LastHour /\ x.end <= LastPassedHour(now)
        /\ x.start <= x.first /\ x.last <= x.end
        /\ now \in Int /\ LastPassedHour(now) \in Int
    BY <1>2, LastPassedHourType DEF Sound, Bounded, Queries, Working, Inductive
  <1>4. \A hour \in hours : hour \in Hour /\ Elapsed(hour)
    <2> SUFFICES ASSUME NEW hour \in hours PROVE hour \in Hour /\ Elapsed(hour)
      OBVIOUS
    <2>1. hour \in Int /\ x.first <= hour /\ hour <= x.last
      BY <1>3
    <2>2. hour <= LastPassedHour(now)
      BY <1>3, <2>1
    <2>3. hour \in Hour
      BY <1>3, <2>1, HoursAreInts, ClockAssumption DEF Hour
    <2> QED
      BY <1>3, <2>1, <2>2, <2>3, PassedIsElapsed
  <1>5. begun = {}
    BY <1>4
  <1>6. bars \subseteq Rows
    <2>1. x.missing \subseteq Symbol
      BY <1>2 DEF Queries
    <2> QED
      BY <1>4, <2>1 DEF Rows
  <1>7. \A row \in bars : IsFinal(row, market) /\ row.symbol \in tradable
    BY <1>2 DEF IsFinal, Sound, Found
  <1>8. \A hour \in hours, s \in x.missing : s \in market[hour] => IsIn(bars, hour, s)
    <2> SUFFICES ASSUME NEW hour \in hours, NEW s \in x.missing, s \in market[hour]
                 PROVE  IsIn(bars, hour, s)
      OBVIOUS
    <2> DEFINE row == [hour |-> hour, symbol |-> s, price |-> "bar"]
    <2>1. row \in bars
      BY <1>4
    <2> QED
      BY <2>1 DEF IsIn
  <1> DEFINE y == [x EXCEPT !.pc = "store", !.fetched = bars]
  <1>9. x.missing \subseteq tradable /\ \A row \in x.cached : IsFinal(row, market) /\ row.symbol \in tradable
    BY <1>2 DEF Sound, Found
  <1> HIDE DEF bars, late, x
  <1>10. query' = [query EXCEPT ![q] = y]
    BY <1>1, <1>5 DEF x
  <1>11. /\ y \in Queries /\ y.pc = "store" /\ y.fetched = bars /\ y.cached = x.cached
         /\ y.kind = x.kind /\ y.from = x.from /\ y.to = x.to /\ y.passed = x.passed
         /\ y.day = x.day /\ y.start = x.start /\ y.end = x.end /\ y.answer = x.answer
         /\ y.missing = x.missing /\ y.first = x.first /\ y.last = x.last
    BY <1>2, <1>6 DEF Queries, Pcs
  <1>12. Bounded(y, now) /\ Asked(y, now) /\ AtBounds(y)
    BY <1>2, <1>11 DEF Sound, Bounded, Asked, AtBounds, Working
  <1>13. InDays(y, market, tradable)
    BY <1>2, <1>11 DEF Sound, InDays, Working
  <1>14. Found(y, market, tradable)
    BY <1>2, <1>7, <1>8, <1>9, <1>11 DEF Sound, Found
  <1>15. Sound(y, now, market, tradable)
    BY <1>2, <1>11, <1>12, <1>13, <1>14 DEF Sound
  <1> QED
    BY <1>10, <1>15, QuerySteps DEF Fetch

\* What is stored is final: a symbol without a bar has none.
LEMMA StoreSound == ASSUME Inductive, NEW q \in Query, Store(q) PROVE Inductive'
  <1> DEFINE x == query[q]
             done == Completed(q)
             closed == x.first .. MinOf(x.last, LastPassedHour(now))
             none == {row \in [hour : closed, symbol : x.missing, price : {"none"}] :
                         ~IsIn(x.fetched, row.hour, row.symbol)}
  <1>1. x \in Queries /\ Sound(x, now, market, tradable) /\ x.pc = "store"
    BY DEF Inductive, Store
  <1>2. /\ x.start \in Int /\ x.end \in Int /\ x.first \in Int /\ x.last \in Int
        /\ FirstHour <= x.start /\ x.end <= LastHour /\ x.end <= LastPassedHour(now)
        /\ x.start <= x.first /\ x.last <= x.end
        /\ LastPassedHour(now) \in Int
    BY <1>1, LastPassedHourType DEF Sound, Bounded, Queries, Working, Inductive
  <1>3. closed = x.first .. x.last
    BY <1>2 DEF MinOf
  <1>4. \A hour \in closed : hour \in Hour
    <2> SUFFICES ASSUME NEW hour \in x.first .. x.last PROVE hour \in Hour
      BY <1>3
    <2>1. hour \in Int /\ FirstHour <= hour /\ hour <= LastHour
      BY <1>2, HoursAreInts, ClockAssumption
    <2> QED
      BY <2>1 DEF Hour
  <1>5. done = x.fetched \cup none
    BY DEF Completed
  <1>6. x.missing \subseteq Symbol /\ x.missing \subseteq tradable /\ x.fetched \subseteq Rows
    BY <1>1 DEF Queries, Sound, Found
  <1>7. none \subseteq Rows
    BY <1>4, <1>6 DEF Rows
  <1>8. \A row \in none : IsFinal(row, market) /\ row.symbol \in tradable
    <2> SUFFICES ASSUME NEW row \in none PROVE IsFinal(row, market) /\ row.symbol \in tradable
      OBVIOUS
    <2>1. row.hour \in x.first .. x.last /\ row.symbol \in x.missing /\ row.price = "none"
          /\ ~IsIn(x.fetched, row.hour, row.symbol)
      BY <1>3
    <2>2. row.symbol \notin market[row.hour]
      BY <1>1, <2>1 DEF Sound, Found
    <2> QED
      BY <1>6, <2>1, <2>2 DEF IsFinal
  <1>9. \A hour \in x.first .. x.last, s \in x.missing : IsIn(done, hour, s)
    <2> SUFFICES ASSUME NEW hour \in x.first .. x.last, NEW s \in x.missing,
                        ~IsIn(x.fetched, hour, s)
                 PROVE  IsIn(done, hour, s)
      BY <1>5 DEF IsIn
    <2> DEFINE row == [hour |-> hour, symbol |-> s, price |-> "none"]
    <2>1. row \in none
      BY <1>3
    <2> QED
      BY <1>5, <2>1 DEF IsIn
  <1>10. /\ done \subseteq Rows
         /\ \A row \in done : IsFinal(row, market) /\ row.symbol \in tradable
    BY <1>1, <1>5, <1>6, <1>7, <1>8 DEF Sound, Found
  <1> DEFINE y == [x EXCEPT !.pc = "combine", !.fetched = done]
  <1>11. query' = [query EXCEPT ![q] = y]
    BY DEF Store
  <1> HIDE DEF done, none, closed, x
  <1>12. /\ y \in Queries /\ y.pc = "combine" /\ y.fetched = done /\ y.cached = x.cached
         /\ y.kind = x.kind /\ y.from = x.from /\ y.to = x.to /\ y.passed = x.passed
         /\ y.day = x.day /\ y.start = x.start /\ y.end = x.end /\ y.answer = x.answer
         /\ y.missing = x.missing
    BY <1>1, <1>10 DEF Queries, Pcs
  <1>13. Bounded(y, now) /\ Asked(y, now) /\ AtBounds(y)
    BY <1>1, <1>12 DEF Sound, Bounded, Asked, AtBounds, Working
  <1>14. InDays(y, market, tradable)
    BY <1>1, <1>12 DEF Sound, InDays, Working
  <1>15. Found(y, market, tradable)
    BY <1>1, <1>9, <1>10, <1>12 DEF Sound, Found
  <1>16. Sound(y, now, market, tradable)
    BY <1>1, <1>12, <1>13, <1>14, <1>15 DEF Sound
  <1>17. cache' \subseteq Rows /\ CacheIsFinal'
    <2>1. cache' = Over(done, cache) /\ market' = market
      BY DEF Store, done
    <2>2. cache' \subseteq done \cup cache
      BY <2>1 DEF Over
    <2> QED
      BY <1>10, <2>1, <2>2 DEF Inductive, CacheIsFinal, IsFinal
  <1>18. query' \in [Query -> Queries]
    BY <1>11, <1>12 DEF Inductive
  <1>19. \A r \in Query : Sound(query'[r], now, market, tradable)
    BY <1>11, <1>16 DEF Inductive
  <1> QED
    BY <1>17, <1>18, <1>19 DEF Store, Inductive

\* What a query combines are the final prices of its range.
LEMMA CombinedIsFinal ==
  ASSUME Inductive, NEW q \in Query, query[q].pc = "combine"
  PROVE  /\ query[q].start .. query[q].end \subseteq Hour
         /\ Combined(q) = [hour \in query[q].start .. query[q].end |-> market[hour] \cap tradable]
         /\ Combined(q) \in Prices
  <1> DEFINE x == query[q]
             table == Over(x.fetched, x.cached)
  <1>1. x \in Queries /\ Sound(x, now, market, tradable)
    BY DEF Inductive
  <1>2. /\ x.start \in Int /\ x.end \in Int
        /\ FirstHour <= x.start /\ x.end <= LastHour
    BY <1>1 DEF Sound, Bounded, Queries, Working
  <1>3. x.start .. x.end \subseteq Hour
    BY <1>2, HoursAreInts, ClockAssumption DEF Hour
  <1>4. table \subseteq x.cached \cup x.fetched
    BY DEF Over
  <1>5. \A row \in table : IsFinal(row, market) /\ row.symbol \in tradable
    BY <1>1, <1>4 DEF Sound, Found
  <1>6. \A hour \in x.start .. x.end, s \in tradable : IsIn(table, hour, s)
    <2> SUFFICES ASSUME NEW hour \in x.start .. x.end, NEW s \in tradable
                 PROVE  IsIn(table, hour, s)
      OBVIOUS
    <2>1. IsIn(x.cached, hour, s) \/ IsIn(x.fetched, hour, s)
      BY <1>1 DEF Sound, Found
    <2> QED
      BY <2>1 DEF Over, IsIn
  <1>7. \A hour \in x.start .. x.end :
            {row.symbol : row \in {r \in table : r.hour = hour /\ r.price # "none"}}
                = market[hour] \cap tradable
    <2> SUFFICES ASSUME NEW hour \in x.start .. x.end
                 PROVE  {row.symbol : row \in {r \in table : r.hour = hour /\ r.price # "none"}}
                            = market[hour] \cap tradable
      OBVIOUS
    <2>1. ASSUME NEW row \in table, row.hour = hour, row.price # "none"
          PROVE  row.symbol \in market[hour] \cap tradable
      BY <1>5, <2>1 DEF IsFinal
    <2>2. ASSUME NEW s \in market[hour] \cap tradable
          PROVE  \E row \in table : row.hour = hour /\ row.price # "none" /\ row.symbol = s
      <3>1. PICK row \in table : row.hour = hour /\ row.symbol = s
        BY <1>6 DEF IsIn
      <3> QED
        BY <1>5, <3>1 DEF IsFinal
    <2> QED
      BY <2>1, <2>2
  <1>8. Combined(q) = [hour \in x.start .. x.end |-> market[hour] \cap tradable]
    BY <1>7 DEF Combined
  <1>9. [hour \in x.start .. x.end |-> market[hour] \cap tradable]
            \in [x.start .. x.end -> SUBSET Symbol]
    BY DEF Inductive
  <1> QED
    BY <1>3, <1>8, <1>9 DEF Prices

\* An answer, once there, waits to be taken.
LEMMA DoneSound ==
  ASSUME Inductive, NEW q \in Query, NEW answer \in Answers \ {None},
         query[q].pc # "idle", Done(q, answer)
  PROVE  Inductive'
  <1> DEFINE x == query[q]
             y == [IdleQuery EXCEPT !.pc = "done", !.kind = x.kind, !.from = x.from,
                             !.to = x.to, !.passed = x.passed, !.answer = answer]
  <1>1. x \in Queries /\ Sound(x, now, market, tradable)
    BY DEF Inductive
  <1> HIDE DEF x
  <1>2. y \in Queries
    <2>1. IdleQuery \in Queries
      BY IdleIsSound DEF Sound
    <2> QED
      BY <1>1, <2>1 DEF Queries, Pcs
  <1>3. y.pc = "done" /\ y.answer = answer
    BY DEF IdleQuery
  <1>4. Asked(y, now)
    <2>1. y.from = x.from /\ y.to = x.to /\ y.passed = x.passed /\ y.kind = x.kind
      BY DEF IdleQuery
    <2> QED
      BY <1>1, <2>1 DEF Sound, Asked, x
  <1>5. y.missing = {} /\ y.cached = {} /\ y.fetched = {}
    BY DEF IdleQuery
  <1>6. /\ Bounded(y, now) /\ AtBounds(y)
        /\ InDays(y, market, tradable) /\ Found(y, market, tradable)
    BY <1>3, <1>5 DEF Bounded, AtBounds, InDays, Found, Working
  <1>7. Sound(y, now, market, tradable)
    BY <1>2, <1>3, <1>4, <1>6 DEF Sound
  <1> QED
    BY <1>7, QuerySteps DEF Done, x

LEMMA CombineSound ==
  ASSUME Inductive, NEW q \in Query, CombineRange(q) \/ CombineLatest(q)
  PROVE  Inductive'
  <1> DEFINE x == query[q]
  <1>1. x.pc = "combine"
    BY DEF CombineRange, CombineLatest
  <1>2. x.start .. x.end \subseteq Hour /\ Combined(q) \in Prices
        /\ \A hour \in x.start .. x.end : Combined(q)[hour] \in SUBSET Symbol
    <2>1. /\ x.start .. x.end \subseteq Hour /\ Combined(q) \in Prices
          /\ Combined(q) = [hour \in x.start .. x.end |-> market[hour] \cap tradable]
      BY <1>1, CombinedIsFinal
    <2>2. tradable \in SUBSET Symbol
      BY DEF Inductive
    <2> HIDE DEF x
    <2>3. \A hour \in x.start .. x.end : Combined(q)[hour] = market[hour] \cap tradable
      BY <2>1
    <2> QED
      BY <2>1, <2>2, <2>3
  <1>3. CASE CombineRange(q)
    <2>1. Combined(q) \in Answers \ {None}
      BY <1>2, NoneAssumption DEF Answers
    <2> QED
      BY <1>1, <1>3, <2>1, DoneSound DEF CombineRange
  <1>4. CASE CombineLatest(q)
    <2>1. PICK hour \in x.start .. x.end : Done(q, [h \in {hour} |-> Combined(q)[h]])
      BY <1>4 DEF CombineLatest
    <2>2. [h \in {hour} |-> Combined(q)[h]] \in [{hour} -> SUBSET Symbol]
      BY <1>2
    <2>3. {hour} \in SUBSET Hour
      BY <1>2
    <2>4. [h \in {hour} |-> Combined(q)[h]] \in Answers \ {None}
      BY <2>2, <2>3, NoneAssumption DEF Answers, Prices
    <2> QED
      BY <1>1, <2>1, <2>4, DoneSound
  <1> QED
    BY <1>3, <1>4

\* The day before lies within the days to look back over, and nothing traded
\* between its end and the hour asked for.
LEMMA LookBackSound == ASSUME Inductive, NEW q \in Query, LookBack(q) PROVE Inductive'
  <1> DEFINE x == query[q]
             before == DayBack(x.to, x.day + 1)
             y == [IdleQuery EXCEPT !.pc = "search", !.kind = "latest", !.from = x.from,
                        !.to = x.to, !.passed = x.passed, !.day = x.day + 1,
                        !.start = before.start, !.end = before.end]
  <1>1. /\ x \in Queries /\ Sound(x, now, market, tradable)
        /\ x.pc = "combine" /\ x.kind = "latest" /\ x.day + 1 < MaxDays
    BY DEF Inductive, LookBack
  <1>2. \A hour \in x.start .. x.end : market[hour] \cap tradable = {}
    BY <1>1, CombinedIsFinal DEF LookBack
  <1>3. /\ x.to \in Hour /\ x.to \in Int /\ x.passed = x.to
        /\ FirstHour <= DayBack(x.to, MaxDays - 1).start
        /\ x.end = DayBack(x.to, x.day).end /\ x.start = DayBack(x.to, x.day).start
        /\ \A hour \in x.end + 1 .. x.to : market[hour] \cap tradable = {}
    BY <1>1, HoursAreInts DEF Sound, InDays, Asked, Working
  <1>4. x.day \in Nat /\ DayHours \in Nat \ {0} /\ MaxDays \in Nat \ {0}
    BY <1>1, MarketAssumption DEF Queries
  <1> DEFINE back == x.day * DayHours
             more == (x.day + 1) * DayHours
             most == (MaxDays - 1) * DayHours
  <1>5. back \in Nat /\ more \in Int /\ most \in Int /\ more = back + DayHours /\ more <= most
    <2>1. back \in Nat
      BY <1>4
    <2>2. more = back + DayHours
      BY <1>4
    <2>3. x.day + 1 \in Int /\ MaxDays - 1 \in Int /\ x.day + 1 <= MaxDays - 1
      BY <1>1, <1>4
    <2>4. more <= most /\ most \in Int
      BY <1>4, <2>3, ProductGrows, ProductOfInts
    <2> HIDE DEF back, more, most
    <2> QED
      BY <1>4, <2>1, <2>2, <2>4
  <1>6. /\ before.end = x.to - more
        /\ before.start = x.to - more - (DayHours - 1)
        /\ x.end = x.to - back
        /\ x.start = x.to - back - (DayHours - 1)
        /\ FirstHour <= x.to - most - (DayHours - 1)
    BY <1>3 DEF DayBack
  <1> HIDE DEF back, more, most, before, x
  <1>7. /\ before.start \in Int /\ before.end \in Int
        /\ before.end + 1 = x.start /\ before.end <= x.to
        /\ x.start \in Int /\ x.end \in Int
        /\ FirstHour <= before.start /\ x.to <= LastHour
    BY <1>3, <1>4, <1>5, <1>6, HoursAreInts, ClockAssumption DEF Hour
  <1>8. y \in Queries
    <2>1. IdleQuery \in Queries
      BY IdleIsSound DEF Sound
    <2>2. x.from \in Int /\ x.to \in Int /\ x.passed \in Int /\ x.day + 1 \in Nat
      BY <1>1, <1>4 DEF Queries
    <2>3. "search" \in Pcs /\ "latest" \in Kinds
      BY DEF Pcs, Kinds
    <2> QED
      BY <1>7, <2>1, <2>2, <2>3 DEF Queries
  <1>9. /\ y.pc = "search" /\ y.kind = "latest" /\ y.from = x.from /\ y.to = x.to
        /\ y.passed = x.passed /\ y.day = x.day + 1 /\ y.start = before.start
        /\ y.end = before.end /\ y.answer = None
        /\ y.missing = {} /\ y.cached = {} /\ y.fetched = {}
    BY DEF IdleQuery
  <1> HIDE DEF y
  <1>10. Bounded(y, now)
    BY <1>3, <1>7, <1>9, HoursAreInts DEF Bounded, Working
  <1>11. Asked(y, now) /\ AtBounds(y) /\ Found(y, market, tradable)
    BY <1>1, <1>3, <1>9 DEF Sound, Asked, AtBounds, Found, Working
  <1>12. InDays(y, market, tradable)
    <2>1. \A hour \in before.end + 1 .. x.to : market[hour] \cap tradable = {}
      <3> SUFFICES ASSUME NEW hour \in before.end + 1 .. x.to
                   PROVE  market[hour] \cap tradable = {}
        OBVIOUS
      <3>1. hour \in x.start .. x.end \/ hour \in x.end + 1 .. x.to
        BY <1>3, <1>7
      <3> QED
        BY <1>2, <1>3, <3>1
    <2> QED
      BY <1>1, <1>3, <1>9, <2>1 DEF InDays, before
  <1>13. Sound(y, now, market, tradable)
    BY <1>8, <1>9, <1>10, <1>11, <1>12 DEF Sound
  <1> QED
    BY <1>13, QuerySteps DEF LookBack, x, y, before

LEMMA WorksSound == ASSUME Inductive, NEW q \in Query, Works(q) PROVE Inductive'
  <1>1. Error \in Answers \ {None}
    BY NoneAssumption DEF Answers
  <1>2. CASE GiveUp(q) \/ Raises(q)
    BY <1>1, <1>2, DoneSound DEF GiveUp, Raises
  <1> QED
    BY <1>2, SearchSound, FetchSound, StoreSound, CombineSound, LookBackSound DEF Works

LEMMA ReturnSound == ASSUME Inductive, NEW q \in Query, Return(q) PROVE Inductive'
  BY IdleIsSound, QuerySteps DEF Return

LEMMA AlwaysInductive == Spec => []Inductive
  <1>1. Inductive /\ [Next]_vars => Inductive'
    <2> SUFFICES ASSUME Inductive, [Next]_vars PROVE Inductive'
      OBVIOUS
    <2>1. CASE UNCHANGED vars
      BY <2>1 DEF vars, Inductive, CacheIsFinal
    <2>2. CASE Next
      BY <2>2, TickSound, RestartSound, AsksSound, WorksSound, ReturnSound DEF Next
    <2> QED
      BY <2>1, <2>2
  <1> QED
    BY <1>1, InitSound, PTL DEF Spec

-----------------------------------------------------------------------------
\* Table, market, clock and local variables have their types, in every
\* reachable state, for any constants: no query works outside the hours there
\* are (market_data_service.py).
THEOREM Typing == Spec => []TypeOK
  <1>1. Inductive => TypeOK
    BY DEF Inductive, TypeOK
  <1> QED
    BY <1>1, AlwaysInductive, PTL

\* No query, however many run beside it, and whatever the clock does between
\* its steps, caches an hour before all its bars are there (fetch_data's
\* comment, market_data_service.py:147).
THEOREM NothingIsCachedTooEarly == Spec => []CacheIsFinal
  <1>1. Inductive => CacheIsFinal
    BY DEF Inductive
  <1> QED
    BY <1>1, AlwaysInductive, PTL

-----------------------------------------------------------------------------
(* MarketData implements MarketOracle, for any constants: each step of a     *)
(* query answers it, fails it, or changes nothing that its caller sees.      *)

LEMMA SameHours ==
  /\ Promised!Hour = Hour
  /\ Promised!Markets = Markets
  /\ \A time : Promised!LastPassedHour(time) = LastPassedHour(time)
  /\ \A a, b : Promised!MinOf(a, b) = MinOf(a, b)
  /\ \A hour : Promised!Prices(hour) = market[hour] \cap tradable
  /\ Promised!Kinds = Kinds
  BY DEF Promised!Hour, Hour, Promised!LastHour, LastHour, Promised!Markets, Markets,
         Promised!LastPassedHour, LastPassedHour, Promised!MinOf, MinOf,
         Promised!Prices, Promised!Kinds, Kinds

\* A step that changes one query changes what is seen of that one.
LEMMA SeenAfter ==
  ASSUME Inductive, NEW q \in Query, NEW x, query' = [query EXCEPT ![q] = x]
  PROVE  /\ asked' = [asked EXCEPT ![q] = Question(x)]
         /\ told' = [told EXCEPT ![q] = x.answer]
  <1>1. query \in [Query -> Queries]
    BY DEF Inductive
  <1>2. \A r \in Query : query'[r] = IF r = q THEN x ELSE query[r]
    BY <1>1
  <1>3. asked' = [r \in Query |-> Question(query'[r])] /\ told' = [r \in Query |-> query'[r].answer]
    BY DEF asked, told, Question
  <1>4. \A r \in Query : Question(query'[r]) = IF r = q THEN Question(x) ELSE Question(query[r])
    BY <1>2
  <1>5. asked' = [r \in Query |-> IF r = q THEN Question(x) ELSE Question(query[r])]
    BY <1>3, <1>4
  <1>6. told' = [r \in Query |-> IF r = q THEN x.answer ELSE query[r].answer]
    BY <1>2, <1>3
  <1> QED
    BY <1>5, <1>6 DEF asked, told

LEMMA Silent ==
  ASSUME Inductive, NEW q \in Query, NEW x, query' = [query EXCEPT ![q] = x],
         UNCHANGED <<now, market, tradable>>,
         Question(x) = Question(query[q]), x.answer = query[q].answer
  PROVE  UNCHANGED Promised!vars
  <1>1. asked' = [asked EXCEPT ![q] = Question(x)] /\ told' = [told EXCEPT ![q] = x.answer]
    BY SeenAfter
  <1>2. asked' = asked /\ told' = told
    BY <1>1 DEF asked, told
  <1> QED
    BY <1>2 DEF Promised!vars

LEMMA InitPromised == Init => Promised!Init
  <1> SUFFICES ASSUME Init PROVE Promised!Init
    OBVIOUS
  <1>1. asked = [q \in Query |-> None] /\ told = [q \in Query |-> None]
    BY DEF Init, asked, told, Question, IdleQuery
  <1>2. now = FirstNow /\ market \in Markets /\ tradable \in TradableSets
    BY MarketAssumption DEF Init
  <1> QED
    BY <1>1, <1>2, SameHours DEF Promised!Init

LEMMA TickPromised == ASSUME Inductive, Tick PROVE Promised!Tick
  <1>1. now' \in now + 1 .. MaxNow
    BY ClockAssumption DEF Tick, Inductive
  <1>2. asked' = asked /\ told' = told
    BY DEF Tick, asked, told
  <1> QED
    BY <1>1, <1>2 DEF Tick, Promised!Tick

LEMMA RestartPromised == ASSUME Inductive, Restart PROVE Promised!Restart
  <1>1. asked' = [q \in Query |-> None] /\ told' = [q \in Query |-> None]
    BY DEF Restart, asked, told, Question, IdleQuery
  <1> QED
    BY <1>1 DEF Restart, Promised!Restart

LEMMA AskPromised ==
  ASSUME Inductive, NEW q \in Query, NEW kind \in Kinds, NEW from \in Hour, NEW to \in Hour,
         Ask(q, kind, from, to)
  PROVE  Promised!Ask(q)
  <1> DEFINE x == [IdleQuery EXCEPT !.pc = "search", !.kind = kind, !.from = from, !.to = to,
                             !.passed = LastPassedHour(now), !.start = from, !.end = to]
             question == [kind |-> kind, from |-> from, to |-> to, passed |-> LastPassedHour(now)]
  <1>1. query' = [query EXCEPT ![q] = x] /\ query[q].pc = "idle"
    BY DEF Ask
  <1>2. Question(x) = question /\ x.answer = None
    BY DEF Question, IdleQuery
  <1>3. query[q].answer = None
    BY <1>1 DEF Inductive, Sound
  <1>4. asked[q] = None /\ told[q] = None
    BY <1>1, <1>3 DEF asked, told, Question
  <1>5. asked' = [asked EXCEPT ![q] = question] /\ told' = [told EXCEPT ![q] = None]
    BY <1>1, <1>2, SeenAfter
  <1>6. asked'[q] = question /\ told' = told
    BY <1>4, <1>5 DEF asked, told
  <1>7. question \in [kind : Kinds, from : Hour, to : Hour, passed : {LastPassedHour(now)}]
    OBVIOUS
  <1> HIDE DEF x, question
  <1> QED
    BY <1>4, <1>5, <1>6, <1>7, SameHours DEF Ask, Promised!Ask

\* What is seen of a query at work: its question, and no answer yet.
LEMMA AtWork ==
  ASSUME Inductive, NEW q \in Query, query[q].pc \in Working
  PROVE  /\ asked[q] = [kind |-> query[q].kind, from |-> query[q].from,
                        to |-> query[q].to, passed |-> query[q].passed]
         /\ asked[q] # None /\ told[q] = None
  <1> DEFINE question == [kind |-> query[q].kind, from |-> query[q].from,
                          to |-> query[q].to, passed |-> query[q].passed]
  <1>1. query[q] \in Queries /\ Sound(query[q], now, market, tradable)
    BY DEF Inductive
  <1>2. asked[q] = question
    BY DEF asked, Question, Working
  <1>3. question \in Questions
    BY <1>1 DEF Queries, Questions, Sound, Asked, Working
  <1>4. question # None
    BY <1>3, NoneAssumption
  <1>5. told[q] = None
    BY <1>1 DEF told, Sound, Working
  <1> QED
    BY <1>2, <1>4, <1>5

\* A step that ends a query shows its answer, and nothing else.
LEMMA AnswerSeen ==
  ASSUME Inductive, NEW q \in Query, query[q].pc \in Working, NEW answer, Done(q, answer)
  PROVE  /\ told' = [told EXCEPT ![q] = answer] /\ asked' = asked
         /\ UNCHANGED <<now, market, tradable>>
  <1> DEFINE x == [IdleQuery EXCEPT !.pc = "done", !.kind = query[q].kind, !.from = query[q].from,
                             !.to = query[q].to, !.passed = query[q].passed, !.answer = answer]
  <1>1. query' = [query EXCEPT ![q] = x] /\ UNCHANGED <<now, market, tradable>>
    BY DEF Done
  <1>2. x.answer = answer /\ Question(x) = asked[q]
    BY AtWork DEF IdleQuery, Question
  <1> HIDE DEF x
  <1>3. asked' = [asked EXCEPT ![q] = asked[q]] /\ told' = [told EXCEPT ![q] = answer]
    BY <1>1, <1>2, SeenAfter
  <1>4. asked' = asked
    BY <1>3 DEF asked
  <1> QED
    BY <1>1, <1>3, <1>4

LEMMA RangePromised ==
  ASSUME Inductive, NEW q \in Query, CombineRange(q)
  PROVE  Promised!AnswerRange(q) \/ Promised!AnswerWindow(q)
  <1> DEFINE x == query[q]
  <1>1. /\ x \in Queries /\ Sound(x, now, market, tradable)
        /\ x.pc = "combine" /\ x.kind # "latest" /\ x.pc \in Working
    BY DEF Inductive, CombineRange, Working
  <1>2. /\ told' = [told EXCEPT ![q] = Combined(q)] /\ asked' = asked
        /\ UNCHANGED <<now, market, tradable>>
    BY <1>1, AnswerSeen DEF CombineRange
  <1>3. Combined(q) = [hour \in x.start .. x.end |-> market[hour] \cap tradable]
    BY <1>1, CombinedIsFinal
  <1>4. /\ x.start = x.from /\ x.end <= x.to
        /\ x.end = x.to \/ x.passed <= x.end
        /\ x.end <= LastPassedHour(now) /\ x.passed <= LastPassedHour(now)
        /\ x.kind # "range" => x.passed = x.to
    BY <1>1 DEF Sound, AtBounds, Bounded, Asked
  <1>5. /\ x.end \in Int /\ x.to \in Int /\ x.passed \in Int
        /\ LastPassedHour(now) \in Int
        /\ x.kind \in {"range", "window"}
    BY <1>1, LastPassedHourType DEF Queries, Kinds, Inductive
  <1>6. /\ asked[q] = [kind |-> x.kind, from |-> x.from, to |-> x.to, passed |-> x.passed]
        /\ asked[q] # None /\ told[q] = None
    BY <1>1, AtWork
  <1> HIDE DEF x
  <1>7. CASE x.kind = "range"
    <2>1. \E passed \in x.passed .. LastPassedHour(now) : x.end = MinOf(x.to, passed)
      <3>1. CASE x.end = x.to
        <4>1. x.end = MinOf(x.to, LastPassedHour(now))
          BY <1>4, <3>1 DEF MinOf
        <4> QED
          BY <1>4, <1>5, <4>1
      <3>2. CASE x.end # x.to
        <4>1. x.end = MinOf(x.to, x.end) /\ x.end \in x.passed .. LastPassedHour(now)
          BY <1>4, <1>5, <3>2 DEF MinOf
        <4> QED
          BY <4>1
      <3> QED
        BY <3>1, <3>2
    <2>2. PICK passed \in x.passed .. LastPassedHour(now) : x.end = MinOf(x.to, passed)
      BY <2>1
    <2>3. told' = [told EXCEPT ![q] =
              [hour \in x.from .. MinOf(x.to, passed) |-> market[hour] \cap tradable]]
      BY <1>2, <1>3, <1>4, <2>2
    <2>4. \E p \in asked[q].passed .. LastPassedHour(now) :
              told' = [told EXCEPT ![q] =
                  [hour \in asked[q].from .. MinOf(asked[q].to, p) |-> market[hour] \cap tradable]]
      <3>1. asked[q].from = x.from /\ asked[q].to = x.to /\ asked[q].passed = x.passed
        BY <1>6
      <3>2. told' = [told EXCEPT ![q] =
                [hour \in asked[q].from .. MinOf(asked[q].to, passed) |-> market[hour] \cap tradable]]
        BY <2>3, <3>1
      <3>3. passed \in asked[q].passed .. LastPassedHour(now)
        BY <3>1
      <3> QED
        BY <3>2, <3>3
    <2>5. asked[q].kind = "range"
      BY <1>6, <1>7
    <2> QED
      BY <1>2, <1>6, <2>4, <2>5, SameHours DEF Promised!AnswerRange
  <1>8. CASE x.kind = "window"
    <2>1. x.end = x.to
      BY <1>4, <1>5, <1>8
    <2>2. told' = [told EXCEPT ![q] =
              [hour \in asked[q].from .. asked[q].to |-> market[hour] \cap tradable]]
      BY <1>2, <1>3, <1>4, <1>6, <2>1
    <2>3. asked[q].kind = "window"
      BY <1>6, <1>8
    <2> QED
      BY <1>2, <1>6, <2>2, <2>3, SameHours DEF Promised!AnswerWindow
  <1> QED
    BY <1>5, <1>7, <1>8

LEMMA LatestPromised ==
  ASSUME Inductive, NEW q \in Query, CombineLatest(q)
  PROVE  Promised!AnswerLatest(q)
  <1> DEFINE x == query[q]
  <1>1. /\ x \in Queries /\ Sound(x, now, market, tradable)
        /\ x.pc = "combine" /\ x.kind = "latest" /\ x.pc \in Working
    BY DEF Inductive, CombineLatest, Working
  <1>2. PICK hour \in x.start .. x.end :
            /\ Combined(q)[hour] # {}
            /\ \A later \in hour + 1 .. x.end : Combined(q)[later] = {}
            /\ Done(q, [h \in {hour} |-> Combined(q)[h]])
    BY DEF CombineLatest
  <1>3. \A h \in x.start .. x.end : Combined(q)[h] = market[h] \cap tradable
    BY <1>1, CombinedIsFinal
  <1>4. /\ told' = [told EXCEPT ![q] = [h \in {hour} |-> Combined(q)[h]]] /\ asked' = asked
        /\ UNCHANGED <<now, market, tradable>>
    BY <1>1, <1>2, AnswerSeen
  <1>5. /\ asked[q].kind = "latest" /\ asked[q].to = x.to
        /\ asked[q] # None /\ told[q] = None
    <2>1. /\ asked[q] = [kind |-> x.kind, from |-> x.from, to |-> x.to, passed |-> x.passed]
          /\ asked[q] # None /\ told[q] = None
      BY <1>1, AtWork
    <2> HIDE DEF x
    <2> QED
      BY <1>1, <2>1
  <1>6. /\ FirstHour <= x.start /\ x.end <= x.to
        /\ x.start \in Int /\ x.end \in Int /\ x.to \in Int
        /\ \A h \in x.end + 1 .. x.to : market[h] \cap tradable = {}
    <2>1. /\ x.end = x.to - x.day * DayHours
          /\ x.start \in Int /\ x.end \in Int /\ x.to \in Int
      BY <1>1 DEF Sound, InDays, DayBack, Working, Queries
    <2>2. x.day * DayHours \in Nat
      BY <1>1, MarketAssumption DEF Queries
    <2>3. FirstHour <= x.start /\ \A h \in x.end + 1 .. x.to : market[h] \cap tradable = {}
      BY <1>1 DEF Sound, InDays, Bounded, Working
    <2> QED
      BY <2>1, <2>2, <2>3
  <1> HIDE DEF x
  <1>7. hour \in FirstHour .. x.to /\ hour \in Int
    BY <1>6, ClockAssumption
  <1>8. market[hour] \cap tradable # {}
    BY <1>2, <1>3
  <1>9. \A later \in hour + 1 .. x.to : market[later] \cap tradable = {}
    <2> SUFFICES ASSUME NEW later \in hour + 1 .. x.to PROVE market[later] \cap tradable = {}
      OBVIOUS
    <2>1. CASE later <= x.end
      <3>1. later \in hour + 1 .. x.end /\ later \in x.start .. x.end
        BY <1>2, <1>6, <1>7, <2>1
      <3> QED
        BY <1>2, <1>3, <3>1
    <2>2. CASE ~(later <= x.end)
      <3>1. later \in x.end + 1 .. x.to
        BY <1>6, <1>7, <2>2
      <3> QED
        BY <1>6, <3>1
    <2> QED
      BY <2>1, <2>2
  <1>10. [h \in {hour} |-> Combined(q)[h]] = [h \in {hour} |-> market[h] \cap tradable]
    BY <1>2, <1>3
  <1>11. told' = [told EXCEPT ![q] = [h \in {hour} |-> market[h] \cap tradable]]
    BY <1>4, <1>10
  <1>12. told' = [told EXCEPT ![q] = [h \in {hour} |-> Promised!Prices(h)]]
    BY <1>11, SameHours
  <1>13. /\ hour \in FirstHour .. asked[q].to
         /\ Promised!Prices(hour) # {}
         /\ \A later \in hour + 1 .. asked[q].to : Promised!Prices(later) = {}
    BY <1>5, <1>7, <1>8, <1>9, SameHours
  <1> QED
    BY <1>4, <1>5, <1>12, <1>13 DEF Promised!AnswerLatest

LEMMA FailPromised ==
  ASSUME Inductive, NEW q \in Query, GiveUp(q) \/ Raises(q)
  PROVE  Promised!Fail(q)
  <1>1. query[q].pc \in Working /\ Done(q, Error)
    BY DEF GiveUp, Raises, Working
  <1> QED
    BY <1>1, AtWork, AnswerSeen DEF Promised!Fail

\* Searching, fetching, storing and looking back are not seen.
LEMMA WorkIsSilent ==
  ASSUME Inductive, NEW q \in Query, Search(q) \/ Fetch(q) \/ Store(q) \/ LookBack(q)
  PROVE  UNCHANGED Promised!vars
  <1> DEFINE x == query[q]
             Same(y) == /\ y.pc # "idle" /\ y.kind = x.kind /\ y.from = x.from /\ y.to = x.to
                        /\ y.passed = x.passed /\ y.answer = x.answer
  <1>1. x \in Queries /\ query \in [Query -> Queries] /\ x.pc # "idle"
    BY DEF Inductive, Search, Fetch, Store, LookBack
  <1>2. UNCHANGED <<now, market, tradable>>
    BY DEF Search, Fetch, Store, LookBack
  <1>3. ASSUME NEW y, Same(y), query' = [query EXCEPT ![q] = y]
        PROVE  UNCHANGED Promised!vars
    <2>1. Question(y) = Question(x) /\ y.answer = x.answer
      BY <1>1, <1>3 DEF Question
    <2> QED
      BY <1>2, <1>3, <2>1, Silent
  <1>4. CASE Search(q)
    <2>1. \E y : Same(y) /\ query' = [query EXCEPT ![q] = y]
      BY <1>1, <1>4 DEF Search, Queries
    <2> QED
      BY <1>3, <2>1
  <1>5. CASE Fetch(q)
    <2>1. \E y : Same(y) /\ query' = [query EXCEPT ![q] = y]
      BY <1>1, <1>5 DEF Fetch, Queries
    <2> QED
      BY <1>3, <2>1
  <1>6. CASE Store(q)
    <2>1. \E y : Same(y) /\ query' = [query EXCEPT ![q] = y]
      BY <1>1, <1>6 DEF Store, Queries
    <2> QED
      BY <1>3, <2>1
  <1>7. CASE LookBack(q)
    <2>1. x.answer = None /\ x.kind = "latest"
      BY <1>7 DEF Inductive, Sound, LookBack
    <2>2. \E y : Same(y) /\ query' = [query EXCEPT ![q] = y]
      BY <1>7, <2>1 DEF LookBack, IdleQuery
    <2> QED
      BY <1>3, <2>2
  <1> QED
    BY <1>4, <1>5, <1>6, <1>7

LEMMA ReturnPromised == ASSUME Inductive, NEW q \in Query, Return(q) PROVE Promised!Take(q)
  <1>1. /\ query[q].pc = "done" /\ query' = [query EXCEPT ![q] = IdleQuery]
        /\ UNCHANGED <<now, market, tradable>>
    BY DEF Return
  <1>2. told[q] # None
    BY <1>1 DEF Inductive, Sound, told
  <1>3. Question(IdleQuery) = None /\ IdleQuery.answer = None
    BY DEF Question, IdleQuery
  <1>4. asked' = [asked EXCEPT ![q] = None] /\ told' = [told EXCEPT ![q] = None]
    <2>1. /\ asked' = [asked EXCEPT ![q] = Question(IdleQuery)]
          /\ told' = [told EXCEPT ![q] = IdleQuery.answer]
      BY <1>1, SeenAfter
    <2> QED
      BY <1>3, <2>1
  <1> QED
    BY <1>1, <1>2, <1>4 DEF Promised!Take

LEMMA AsksPromised == ASSUME Inductive, NEW q \in Query, Asks(q) PROVE Promised!Ask(q)
  <1>1. \E kind \in Kinds, from, to \in Hour : Ask(q, kind, from, to)
    <2>1. CASE AskRange(q)
      BY <2>1 DEF AskRange, Kinds
    <2>2. CASE AskWindow(q)
      BY <2>2 DEF AskWindow, Kinds
    <2>3. CASE AskLatest(q)
      BY <2>3, LatestStartsInTime DEF AskLatest, Kinds
    <2> QED
      BY <2>1, <2>2, <2>3 DEF Asks
  <1> QED
    BY <1>1, AskPromised

\* The market data service keeps its promise, for any symbols, settings,
\* clock, and any number of queries beside each other: it answers with the
\* final bars of every hour asked for that has passed, or it fails.
THEOREM ImplementsMarketOracle == Spec => KeepsPromise
  <1>1. Inductive /\ [Next]_vars => [Promised!Next]_Promised!vars
    <2> SUFFICES ASSUME Inductive, [Next]_vars PROVE [Promised!Next]_Promised!vars
      OBVIOUS
    <2>1. CASE UNCHANGED vars
      BY <2>1 DEF vars, Promised!vars, asked, told, Question
    <2>2. CASE Tick
      BY <2>2, TickPromised DEF Promised!Next
    <2>3. CASE Restart
      BY <2>3, RestartPromised DEF Promised!Next
    <2>4. ASSUME NEW q \in Query, Asks(q) PROVE Promised!Next
      BY <2>4, AsksPromised DEF Promised!Next
    <2>5. ASSUME NEW q \in Query, Works(q) PROVE [Promised!Next]_Promised!vars
      <3>1. CASE CombineRange(q)
        BY <3>1, RangePromised DEF Promised!Next
      <3>2. CASE CombineLatest(q)
        BY <3>2, LatestPromised DEF Promised!Next
      <3>3. CASE GiveUp(q) \/ Raises(q)
        BY <3>3, FailPromised DEF Promised!Next
      <3>4. CASE Search(q) \/ Fetch(q) \/ Store(q) \/ LookBack(q)
        BY <3>4, WorkIsSilent
      <3> QED
        BY <2>5, <3>1, <3>2, <3>3, <3>4 DEF Works
    <2>6. ASSUME NEW q \in Query, Return(q) PROVE Promised!Next
      BY <2>6, ReturnPromised DEF Promised!Next
    <2> QED
      BY <2>1, <2>2, <2>3, <2>4, <2>5, <2>6 DEF Next
  <1> QED
    BY <1>1, AlwaysInductive, InitPromised, PTL DEF Spec, KeepsPromise, Promised!Spec
=============================================================================
