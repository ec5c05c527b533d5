--------------------------- MODULE HourlyAccounts --------------------------
(***************************************************************************)
(* What the trade execution job promises a player, without threads,        *)
(* connections or exceptions: an hour of a user is one step, in which      *)
(* every order that was active in it is settled, in order, or left open.   *)
(***************************************************************************)
EXTENDS Integers, FiniteSets

CONSTANTS
    User, Trade,
    None,
    Owner,             \* the user each trade belongs to
    Rank,              \* order of (requested_at, id) among the trades
    OpenHours,         \* hours the market is open
    Outcome(_, _, _),  \* what becomes of a trade in an hour, after some fills
    FirstHour,         \* current hour at the start
    MaxHour            \* bound: the clock stops here

VARIABLES
    passed,              \* the last hour whose prices are complete
    active, activeFrom,  \* the open trades, and the hour each is active from
    historical,          \* the closed ones
    portfolio,           \* per user, its fills and the hour it has reached, or None
    states               \* what was recorded of the portfolios

vars == <<passed, active, activeFrom, historical, portfolio, states>>

ClosingStatuses == {"executed", "insufficient_funds", "symbol_unavailable",
                    "malformed_request"}

Init ==
    /\ passed = FirstHour - 2
    /\ active = {} /\ activeFrom = [t \in Trade |-> 0]
    /\ historical = {}
    /\ portfolio = [u \in User |-> None]
    /\ states = {}

HourPasses ==
    /\ passed < MaxHour
    /\ passed' = passed + 1
    /\ UNCHANGED <<active, activeFrom, historical, portfolio, states>>

\* An order is never for an hour whose prices are known already.
Place(t) ==
    /\ t \notin active /\ \A c \in historical : c.id # t
    /\ active' = active \cup {t}
    /\ \E from \in passed + 1 .. passed + 3 : activeFrom' = [activeFrom EXCEPT ![t] = from]
    /\ UNCHANGED <<passed, historical, portfolio, states>>

Cancel(t) ==
    /\ t \in active
    /\ active' = active \ {t}
    /\ \E hour \in passed + 1 .. passed + 2 :
           historical' = historical \cup {[id |-> t, status |-> "cancelled", hour |-> hour]}
    /\ UNCHANGED <<passed, activeFrom, portfolio, states>>

\* A new portfolio counts as updated up to the hour it is opened in.
Open(u) ==
    /\ portfolio[u] = None
    /\ \E hour \in passed + 1 .. passed + 2 :
           portfolio' = [portfolio EXCEPT ![u] = [fills |-> {}, last |-> hour, born |-> hour]]
    /\ UNCHANGED <<passed, active, activeFrom, historical, states>>

-----------------------------------------------------------------------------
Due(u, hour) == {t \in active : Owner[t] = u /\ activeFrom[t] <= hour}

Before(s, t) == \/ activeFrom[s] < activeFrom[t]
                \/ activeFrom[s] = activeFrom[t] /\ Rank[s] < Rank[t]

FillsOf(closings) == {<<c.id, c.hour>> : c \in {d \in closings : d.status = "executed"}}

\* A trade meets the portfolio its predecessors of the hour have left.
Meets(t, u, closings) ==
    portfolio[u].fills \cup FillsOf({c \in closings : Before(c.id, t)})

\* The closings of an hour: each due trade's outcome, if it closes the trade.
AreTheClosings(closings, u, hour) ==
    /\ \A c \in closings : c.id \in Due(u, hour) /\ c.hour = hour /\ c.status \in ClosingStatuses
    /\ \A t \in Due(u, hour) :
           LET outcome == Outcome(t, hour, Meets(t, u, closings))
           IN  /\ outcome # "raises"
               /\ {c \in closings : c.id = t} =
                      IF outcome \in ClosingStatuses
                      THEN {[id |-> t, status |-> outcome, hour |-> hour]}
                      ELSE {}

\* Hours come in turn, and none the market is open in is left out.
IsNextHour(u, hour) ==
    /\ portfolio[u] # None
    /\ hour \in OpenHours /\ hour <= passed
    /\ portfolio[u].last < hour
    /\ \A h \in portfolio[u].last + 1 .. hour - 1 : h \notin OpenHours

ExecuteHour(u, hour) ==
    /\ IsNextHour(u, hour)
    /\ LET closings == historical' \ historical
       IN  /\ portfolio' = [portfolio EXCEPT ![u].fills = @ \cup FillsOf(closings),
                                             ![u].last = hour]
           /\ active' = active \ {c.id : c \in closings}
           /\ AreTheClosings(closings, u, hour)
    /\ historical \subseteq historical'
    /\ UNCHANGED <<passed, activeFrom, states>>

\* A state is recorded once, in turn, of a portfolio that has reached its hour
\* and has no fill of a later one.
Record(u, hour) ==
    /\ portfolio[u] # None
    /\ hour <= passed /\ portfolio[u].last >= hour
    /\ \A f \in portfolio[u].fills : f[2] <= hour
    /\ \A s \in states : s.user = u => s.hour < hour
    /\ states' = states \cup {[user |-> u, hour |-> hour,
                               fills |-> portfolio[u].fills]}
    /\ UNCHANGED <<passed, active, activeFrom, historical, portfolio>>

-----------------------------------------------------------------------------
\* Most steps of a run are between its commits, and do not show.
Next ==
    \/ UNCHANGED vars
    \/ HourPasses
    \/ \E t \in Trade : Place(t) \/ Cancel(t)
    \/ \E u \in User : Open(u) \/ \E hour \in OpenHours : ExecuteHour(u, hour)
    \/ \E u \in User, hour \in FirstHour - 2 .. MaxHour : Record(u, hour)

Spec == Init /\ [][Next]_vars
=============================================================================
