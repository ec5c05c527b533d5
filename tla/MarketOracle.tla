---------------------------- MODULE MarketOracle ---------------------------
(***************************************************************************)
(* What the market data service promises its callers, without a cache and  *)
(* without Alpaca: a question is answered in one step, with the final bars  *)
(* of every hour asked for that had passed, or it fails.                   *)
(***************************************************************************)
EXTENDS MarketHours

CONSTANTS Query, TradableSets, None, Error

VARIABLES
    now,
    market,     \* the bars there are, hour by hour
    tradable,   \* settings.tradable_symbols of this process
    asked,      \* per query, the question in progress, or None
    told        \* per query, the answer, Error, or None

vars == <<now, market, tradable, asked, told>>

Kinds == {"range", "window", "latest"}

\* The tradable symbols that have a bar, and so a price, in an hour.
Prices(hour) == market[hour] \cap tradable

Init ==
    /\ now = FirstNow
    /\ market \in Markets
    /\ tradable \in TradableSets
    /\ asked = [q \in Query |-> None]
    /\ told = [q \in Query |-> None]

Tick ==
    /\ now' \in now + 1 .. MaxNow
    /\ UNCHANGED <<market, tradable, asked, told>>

Ask(q) ==
    /\ asked[q] = None
    /\ asked'[q] \in [kind : Kinds, from : Hour, to : Hour, passed : {LastPassedHour(now)}]
    /\ asked' = [asked EXCEPT ![q] = asked'[q]]
    /\ UNCHANGED <<now, market, tradable, told>>

\* Every hour from the first to the last one asked for that has passed: when
\* the question arrives at the earliest, when it is answered at the latest.
AnswerRange(q) ==
    /\ asked[q] # None /\ told[q] = None
    /\ asked[q].kind = "range"
    /\ \E passed \in asked[q].passed .. LastPassedHour(now) :
           told' = [told EXCEPT ![q] =
               [hour \in asked[q].from .. MinOf(asked[q].to, passed) |-> Prices(hour)]]
    /\ UNCHANGED <<now, market, tradable, asked>>

\* A trailing window "always spans exactly this many hourly states".
AnswerWindow(q) ==
    /\ asked[q] # None /\ told[q] = None
    /\ asked[q].kind = "window"
    /\ told' = [told EXCEPT ![q] = [hour \in asked[q].from .. asked[q].to |-> Prices(hour)]]
    /\ UNCHANGED <<now, market, tradable, asked>>

\* The latest hour in which anything traded.
AnswerLatest(q) ==
    /\ asked[q] # None /\ told[q] = None
    /\ asked[q].kind = "latest"
    /\ \E hour \in FirstHour .. asked[q].to :
           /\ Prices(hour) # {}
           /\ \A later \in hour + 1 .. asked[q].to : Prices(later) = {}
           /\ told' = [told EXCEPT ![q] = [h \in {hour} |-> Prices(h)]]
    /\ UNCHANGED <<now, market, tradable, asked>>

Fail(q) ==
    /\ asked[q] # None /\ told[q] = None
    /\ told' = [told EXCEPT ![q] = Error]
    /\ UNCHANGED <<now, market, tradable, asked>>

Take(q) ==
    /\ told[q] # None
    /\ asked' = [asked EXCEPT ![q] = None]
    /\ told' = [told EXCEPT ![q] = None]
    /\ UNCHANGED <<now, market, tradable>>

\* A new process, perhaps with other tradable symbols, answers nobody.
Restart ==
    /\ tradable' \in TradableSets
    /\ asked' = [q \in Query |-> None]
    /\ told' = [q \in Query |-> None]
    /\ UNCHANGED <<now, market>>

\* Most steps of a query only look at the cache, and do not show.
Next ==
    \/ UNCHANGED vars
    \/ Tick
    \/ \E q \in Query :
           \/ Ask(q)
           \/ AnswerRange(q) \/ AnswerWindow(q) \/ AnswerLatest(q) \/ Fail(q)
           \/ Take(q)
    \/ Restart

Spec == Init /\ [][Next]_vars
=============================================================================
