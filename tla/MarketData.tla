----------------------------- MODULE MarketData ----------------------------
(***************************************************************************)
(* The market data service with its cache                                  *)
(* (app/services/market_data_service.py,                                   *)
(* app/repositories/market_data_repository.py) and the Alpaca client       *)
(* (app/services/alpaca_market_data_client.py).                            *)
(*                                                                         *)
(* A query is a request of GET /market/prices or a call from the job.  It  *)
(* runs in a thread of its own: it caps its range at the last passed hour, *)
(* looks into the cache, asks Alpaca for what is missing, stores the       *)
(* answer, and combines both.  The clock moves, other queries fill the     *)
(* cache, and the process may restart, between any two of these steps.     *)
(***************************************************************************)
EXTENDS MarketHours, FiniteSets

CONSTANTS
    Query,          \* threads that ask
    TradableSets,   \* what TRADELE_TRADABLE_SYMBOLS may be set to
    MarketChoices,  \* bound: the markets looked at
    DayHours,       \* hours of a day
    MaxLength,      \* bounds: how many hours a range is asked for, and
    MaxAside,       \* how far its ends are from the last passed hour
    MaxDays,        \* 366, the days get_latest_open_market_prices looks back
    None, Error

ASSUME MarketAssumption ==
    /\ MarketChoices \subseteq Markets
    /\ TradableSets \subseteq SUBSET Symbol
    /\ DayHours \in Nat \ {0}
    /\ MaxDays \in Nat \ {0}
    /\ MaxLength \in Nat /\ MaxAside \in Nat

VARIABLES
    now,
    market,     \* the bars there are, hour by hour
    tradable,   \* settings.tradable_symbols of this process
    cache,      \* table market_data_cache
    query       \* per query, its place in the code and its local variables

vars == <<now, market, tradable, cache, query>>

\* What was found of a symbol in an hour: that it has no bar, a bar of an hour
\* that was still running, or the bar.
Rows == [hour : Hour, symbol : Symbol, price : {"none", "running", "bar"}]

\* The symbols with a price, in each hour of a range.
Prices == UNION {[H -> SUBSET Symbol] : H \in SUBSET Hour}
Answers == {None, Error} \cup Prices

\* What a caller asks for, and the last passed hour then.
Kinds == {"range", "window", "latest"}
Questions == [kind : Kinds, from : Hour, to : Hour, passed : Int]

ASSUME NoneAssumption ==
    /\ None # Error
    /\ None \notin Prices /\ Error \notin Prices
    /\ None \notin Questions

Pcs == {"idle", "search", "fetch", "store", "combine", "done"}

\* from and to are the bounds asked for, passed the last passed hour then; day
\* counts the days looked back; start and end are the range in work, first and
\* last its hours with missing symbols; cached and fetched are what was found.
IdleQuery == [pc |-> "idle", kind |-> "range", from |-> 0, to |-> 0, passed |-> 0, day |-> 0,
              start |-> 0, end |-> 0, missing |-> {}, first |-> 0, last |-> 0,
              cached |-> {}, fetched |-> {}, answer |-> None]

-----------------------------------------------------------------------------
Init ==
    /\ now = FirstNow
    /\ market \in MarketChoices
    /\ tradable \in TradableSets
    /\ cache = {}
    /\ query = [q \in Query |-> IdleQuery]

Tick ==
    /\ now < MaxNow
    /\ now' = now + 1
    /\ UNCHANGED <<market, tradable, cache, query>>

\* A new process, perhaps with other tradable symbols, finds the table.
Restart ==
    /\ tradable' \in TradableSets
    /\ query' = [q \in Query |-> IdleQuery]
    /\ UNCHANGED <<now, market, cache>>

-----------------------------------------------------------------------------
(* The callers.                                                            *)

Ask(q, kind, from, to) ==
    /\ query[q].pc = "idle"
    /\ query' = [query EXCEPT ![q] =
           [IdleQuery EXCEPT !.pc = "search", !.kind = kind, !.from = from, !.to = to,
                             !.passed = LastPassedHour(now), !.start = from, !.end = to]]
    /\ UNCHANGED <<now, market, tradable, cache>>

\* GET /market/prices with any start and end, the future included;
\* get_prices_for_hour asks for one hour.
AskRange(q) ==
    LET near == Hour \cap (LastPassedHour(now) - MaxAside .. LastPassedHour(now) + MaxAside)
    IN  \E from, to \in near :
            /\ from <= to /\ to - from < MaxLength
            /\ Ask(q, "range", from, to)

\* GET /market/prices?range=...: a window of fixed length that ends at the
\* latest hour available (_range_bounds).
AskWindow(q) ==
    \E length \in {1, DayHours} :
        LET to == LastPassedHour(now)
            from == to - (length - 1)
        IN  from \in Hour /\ to \in Hour /\ Ask(q, "window", from, to)

\* The range of a day, some days back, in get_latest_open_market_prices.
DayBack(to, days) == [end |-> to - days * DayHours, start |-> to - days * DayHours - (DayHours - 1)]

\* The job asks for the latest open market as of the last passed hour.
AskLatest(q) ==
    LET to == LastPassedHour(now)
        from == DayBack(to, 0).start
    IN  /\ DayBack(to, MaxDays - 1).start \in Hour /\ to \in Hour
        /\ Ask(q, "latest", from, to)

-----------------------------------------------------------------------------
(* get_prices_for_range.                                                   *)

\* get_cached_range.
CachedRange(start, end) ==
    {row \in cache : row.hour \in start .. end /\ row.symbol \in tradable}

IsIn(table, hour, symbol) == \E row \in table : row.hour = hour /\ row.symbol = symbol

\* The hours and symbols of a range that have no row.
Missing(table, start, end) ==
    {cell \in (start .. end) \X tradable : ~IsIn(table, cell[1], cell[2])}

SearchUncapped(q) ==
    /\ query[q].pc = "search"
    /\ LET start == query[q].start
           end == query[q].end
           cached == CachedRange(start, end)
           missing == Missing(cached, start, end)
           hours == {cell[1] : cell \in missing}
       IN  \/ /\ missing = {}
              /\ query' = [query EXCEPT ![q] =
                     [@ EXCEPT !.pc = "combine", !.end = end, !.cached = cached]]
           \/ \E first, last \in hours :
                 /\ hours \subseteq first .. last
                 /\ query' = [query EXCEPT ![q] =
                        [@ EXCEPT !.pc = "fetch", !.end = end, !.cached = cached,
                                  !.missing = {cell[2] : cell \in missing},
                                  !.first = first, !.last = last]]
    /\ UNCHANGED <<now, market, tradable, cache>>

\* The range is capped, and the cache searched: _get_from_cache.
Search(q) ==
    /\ query[q].pc = "search"
    /\ LET start == query[q].start
           end == MinOf(query[q].end, LastPassedHour(now))
           cached == CachedRange(start, end)
           missing == Missing(cached, start, end)
           hours == {cell[1] : cell \in missing}
       IN  \/ /\ missing = {}
              /\ query' = [query EXCEPT ![q] =
                     [@ EXCEPT !.pc = "combine", !.end = end, !.cached = cached]]
           \/ \E first, last \in hours :
                 /\ hours \subseteq first .. last
                 /\ query' = [query EXCEPT ![q] =
                        [@ EXCEPT !.pc = "fetch", !.end = end, !.cached = cached,
                                  !.missing = {cell[2] : cell \in missing},
                                  !.first = first, !.last = last]]
    /\ UNCHANGED <<now, market, tradable, cache>>

\* Alpaca refuses (403) a range that reaches into its latency window.
Refused(end) == end * HourLength + AlpacaLatency > now

Elapsed(hour) == (hour + 1) * HourLength + AlpacaLatency <= now

\* get_hourly_bars: all its pages, for every missing symbol and every hour
\* from the first to the last with one missing.  A symbol that trades has its
\* bar once the hour and the latency are over, something of it or nothing
\* before.
Fetch(q) ==
    /\ query[q].pc = "fetch"
    /\ ~Refused(query[q].last)
    /\ LET hours == query[q].first .. query[q].last
           traded(price) == {row \in [hour : hours, symbol : query[q].missing, price : {price}] :
                                row.symbol \in market[row.hour]}
           bars == {row \in traded("bar") : Elapsed(row.hour)}
       IN  \E begun \in SUBSET {row \in traded("running") : ~Elapsed(row.hour)} :
               query' = [query EXCEPT ![q] = [@ EXCEPT !.pc = "store", !.fetched = bars \cup begun]]
    /\ UNCHANGED <<now, market, tradable, cache>>

\* Every symbol without a bar in an hour asked for, up to the last hour that
\* has passed by now, is one that has none.
Completed(q) ==
    LET closed == query[q].first .. MinOf(query[q].last, LastPassedHour(now))
    IN  query[q].fetched \cup
            {row \in [hour : closed, symbol : query[q].missing, price : {"none"}] :
                ~IsIn(query[q].fetched, row.hour, row.symbol)}

\* One table over another: the rows of cache_all over those in the table, what
\* was fetched over what was cached.
Over(upper, lower) == upper \cup {row \in lower : ~IsIn(upper, row.hour, row.symbol)}

Store(q) ==
    /\ query[q].pc = "store"
    /\ cache' = Over(Completed(q), cache)
    /\ query' = [query EXCEPT ![q] = [@ EXCEPT !.pc = "combine", !.fetched = Completed(q)]]
    /\ UNCHANGED <<now, market, tradable>>

CombinedRows(q) ==
    LET table == Over(query[q].fetched, query[q].cached)
    IN  [hour \in query[q].start .. query[q].end |-> {row \in table : row.hour = hour}]

\* _combine_results: hour by hour, the symbols with a bar.
Combined(q) ==
    LET table == Over(query[q].fetched, query[q].cached)
    IN  [hour \in query[q].start .. query[q].end |->
            {row.symbol : row \in {r \in table : r.hour = hour /\ r.price # "none"}}]

Done(q, answer) ==
    /\ query' = [query EXCEPT ![q] =
           [IdleQuery EXCEPT !.pc = "done", !.kind = query[q].kind, !.from = query[q].from,
                             !.to = query[q].to, !.passed = query[q].passed, !.answer = answer]]
    /\ UNCHANGED <<now, market, tradable, cache>>

CombineRange(q) ==
    /\ query[q].pc = "combine" /\ query[q].kind # "latest"
    /\ Done(q, Combined(q))

CombineEarliest(q) ==
    /\ query[q].pc = "combine" /\ query[q].kind = "latest"
    /\ \E hour \in query[q].start .. query[q].end :
           /\ Combined(q)[hour] # {}
           /\ \A earlier \in query[q].start .. hour - 1 : Combined(q)[earlier] = {}
           /\ Done(q, [h \in {hour} |-> Combined(q)[h]])

\* _latest_open_market: the last hour of the range with a price.
CombineLatest(q) ==
    /\ query[q].pc = "combine" /\ query[q].kind = "latest"
    /\ \E hour \in query[q].start .. query[q].end :
           /\ Combined(q)[hour] # {}
           /\ \A later \in hour + 1 .. query[q].end : Combined(q)[later] = {}
           /\ Done(q, [h \in {hour} |-> Combined(q)[h]])

\* A day on which the market never opened: the day before, if any is left.
LookBack(q) ==
    /\ query[q].pc = "combine" /\ query[q].kind = "latest"
    /\ \A hour \in query[q].start .. query[q].end : Combined(q)[hour] = {}
    /\ query[q].day + 1 < MaxDays
    /\ LET before == DayBack(query[q].to, query[q].day + 1)
       IN  query' = [query EXCEPT ![q] =
               [IdleQuery EXCEPT !.pc = "search", !.kind = "latest",
                    !.from = query[q].from, !.to = query[q].to, !.passed = query[q].passed,
                    !.day = query[q].day + 1, !.start = before.start, !.end = before.end]]
    /\ UNCHANGED <<now, market, tradable, cache>>

\* "No open market data found".
GiveUp(q) ==
    /\ query[q].pc = "combine" /\ query[q].kind = "latest"
    /\ \A hour \in query[q].start .. query[q].end : Combined(q)[hour] = {}
    /\ query[q].day + 1 >= MaxDays
    /\ Done(q, Error)

\* Alpaca answers with an error, cannot be reached or refuses the range, or a
\* connection to the database raises.
Raises(q) ==
    /\ query[q].pc \in {"search", "fetch", "store"}
    /\ Done(q, Error)

\* The caller has its answer.
Return(q) ==
    /\ query[q].pc = "done"
    /\ query' = [query EXCEPT ![q] = IdleQuery]
    /\ UNCHANGED <<now, market, tradable, cache>>

-----------------------------------------------------------------------------
Asks(q) == AskRange(q) \/ AskWindow(q) \/ AskLatest(q)

Works(q) ==
    \/ Search(q) \/ Fetch(q) \/ Store(q)
    \/ CombineRange(q) \/ CombineLatest(q) \/ LookBack(q) \/ GiveUp(q)
    \/ Raises(q)

Next ==
    \/ Tick
    \/ Restart
    \/ \E q \in Query : Asks(q) \/ Works(q) \/ Return(q)

Spec == Init /\ [][Next]_vars

-----------------------------------------------------------------------------
(* Properties.                                                             *)

Queries ==
    [pc : Pcs, kind : Kinds, from : Int, to : Int, passed : Int, day : Nat,
     start : Int, end : Int, missing : SUBSET Symbol, first : Int, last : Int,
     cached : SUBSET Rows, fetched : SUBSET Rows, answer : Answers]

\* Every table and local variable holds what its column or annotation says.
TypeOK ==
    /\ now \in Int
    /\ market \in Markets
    /\ tradable \in SUBSET Symbol
    /\ cache \subseteq Rows
    /\ query \in [Query -> Queries]

\* "An hour's bars never change once that hour has elapsed, results are cached
\* indefinitely": no row was ever written too early.  One that says none
\* stands for a symbol that does not trade in that hour, one with a bar for
\* one that does, and no bar is of an hour still running.
CacheIsFinal ==
    \A row \in cache :
        row.price = IF row.symbol \in market[row.hour] THEN "bar" ELSE "none"

\* What a caller sees of its query.
Question(x) ==
    IF x.pc = "idle" THEN None
    ELSE [kind |-> x.kind, from |-> x.from, to |-> x.to, passed |-> x.passed]

asked == [q \in Query |-> Question(query[q])]
told == [q \in Query |-> query[q].answer]

\* What the callers are promised, whatever the cache holds: see MarketOracle.
Promised == INSTANCE MarketOracle

KeepsPromise == Promised!Spec
=============================================================================
