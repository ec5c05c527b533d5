----------------------------- MODULE Migrations ----------------------------
(***************************************************************************)
(* The migration runner (app/services/database_service.py) and its scripts *)
(* (app/migrations), against a process that may die between any two steps. *)
(*                                                                         *)
(* executescript commits what was pending and then every statement by      *)
(* itself.  The version written after a script stays uncommitted until the *)
(* next script, or the end of the block.  A script that was not counted is *)
(* applied again, from its first statement.                                *)
(***************************************************************************)
EXTENDS Naturals, SequencesExt

CONSTANTS
    Row,            \* the trades there are when a new release is started
    FirstVersions   \* the versions a database may come from

\* A table's columns and constraints are those of the script that created it.
Create(table) == [op |-> "create", table |-> table, to |-> table]
Drop(table) == [op |-> "drop", table |-> table, to |-> table]
Copy(table, to) == [op |-> "copy", table |-> table, to |-> to]
Rename(table, to) == [op |-> "rename", table |-> table, to |-> to]

RebuildDroppingFirst(table, new) ==
    <<Create(new), Drop(table), Copy(table, new), Rename(new, table)>>

\* SQLite cannot change a constraint: the table is built again.
Rebuild(table, new) ==
    <<Create(new), Copy(table, new), Drop(table), Rename(new, table)>>

\* The tables that are built again, and what replaces them.
Replacement == [active_trades |-> "active_trades_new",
                historical_trades |-> "historical_trades_new"]
Trades == DOMAIN Replacement
TradeTables == Trades \cup {Replacement[t] : t \in Trades}

RebuildTrades ==
    Rebuild("active_trades", "active_trades_new")
        \o Rebuild("historical_trades", "historical_trades_new")

\* The scripts, by their files.  A column or an index counts as a table of its
\* own.
m0001 == <<Create("users")>>

m0002 == <<Create("portfolios"), Create("requested_trades"), Create("executed_trades")>>

m0003 == <<Drop("requested_trades"), Drop("executed_trades"),
           Create("active_trades"), Create("historical_trades")>>

m0004 == <<Drop("active_trades"), Drop("historical_trades"),
           Create("active_trades"), Create("historical_trades")>>

m0005 == <<Create("market_data_cache")>>

m0006 == <<Create("users.is_service_account"), Create("users.allowed_auth_methods"),
           Create("api_keys"), Create("idx_api_keys_user_id")>>

m0007 == RebuildTrades

m0008 == RebuildTrades

m0009 == <<Create("trade_submissions")>>

m0010 == <<Create("portfolio_states")>>

m0011 == <<Create("tutorial_completions")>>

\* _load_migrations and sorted.
Scripts == <<m0001, m0002, m0003, m0004, m0005, m0006, m0007, m0008, m0009, m0010, m0011>>

Latest == Len(Scripts)

\* Every table there ever is.
Tables == UNION {{s.table, s.to} : s \in UNION {ToSet(Scripts[v]) : v \in DOMAIN Scripts}}

\* The script that created a table, or none.
Absent == 0

-----------------------------------------------------------------------------
\* The statement does not raise.
Applies(statement, schema) ==
    CASE statement.op = "create" -> schema[statement.table] = Absent
      [] statement.op = "drop" -> schema[statement.table] # Absent
      [] statement.op = "copy" -> Absent \notin {schema[statement.table], schema[statement.to]}
      [] statement.op = "rename" -> /\ schema[statement.table] # Absent
                                    /\ schema[statement.to] = Absent

\* The tables, each with the version of the script that created it.
SchemaAfter(statement, schema, version) ==
    CASE statement.op = "create" -> [schema EXCEPT ![statement.table] = version]
      [] statement.op = "drop" -> [schema EXCEPT ![statement.table] = Absent]
      [] statement.op = "copy" -> schema
      [] statement.op = "rename" -> [schema EXCEPT ![statement.to] = schema[statement.table],
                                                   ![statement.table] = Absent]

\* The trades in each table.
RowsAfter(statement, rows) ==
    IF statement.table \notin TradeTables THEN rows
    ELSE CASE statement.op = "create" -> rows
           [] statement.op = "drop" -> [rows EXCEPT ![statement.table] = {}]
           [] statement.op = "copy" ->
                [rows EXCEPT ![statement.to] = @ \cup rows[statement.table]]
           [] statement.op = "rename" ->
                [rows EXCEPT ![statement.to] = rows[statement.table],
                             ![statement.table] = {}]

\* The statements of a script that make a table or take it away.
Changes(script, table) ==
    {i \in DOMAIN script : /\ script[i].op # "copy"
                           /\ table \in {script[i].table, script[i].to}}

Makes(statement, table) == statement.op \in {"create", "rename"} /\ statement.to = table

\* The schema of a database that has every script up to a version, once: of
\* each table, what the last script that changed it left.
Left(v, table) ==
    LET script == Scripts[v]
    IN  IF Makes(script[Max(Changes(script, table))], table) THEN v ELSE Absent

Changed(v, table) ==
    LET scripts == Scripts
    IN  {w \in 1 .. v : Changes(scripts[w], table) # {}}

SchemaOf == [v \in 0 .. Latest |->
                [table \in Tables |->
                    LET by == Changed(v, table)
                    IN  IF by = {} THEN Absent ELSE Left(Max(by), table)]]

-----------------------------------------------------------------------------
VARIABLES
    schema,     \* the tables of the database file, by the script that created them
    rows,       \* the trades in them
    version,    \* schema_version as committed
    runner      \* run_migrations: its place, the version in work, the statement

migrationVars == <<schema, rows, version, runner>>

Down == [pc |-> "down", version |-> 0, at |-> 0]

Init ==
    /\ version \in FirstVersions
    /\ schema = SchemaOf[version]
    /\ rows = [t \in TradeTables |->
                  IF t \in Trades /\ schema[t] # Absent THEN Row ELSE {}]
    /\ runner = Down

\* connect() and _get_schema_version.
Begin ==
    /\ runner.pc = "down"
    /\ runner' = [pc |-> "next", version |-> version, at |-> 0]
    /\ UNCHANGED <<schema, rows, version>>

NextScriptCountedFirst ==
    /\ runner.pc = "next" /\ runner.version < Latest
    /\ version' = runner.version + 1
    /\ runner' = [pc |-> "script", version |-> runner.version + 1, at |-> 1]
    /\ UNCHANGED <<schema, rows>>

\* executescript commits the version of the script before.
NextScript ==
    /\ runner.pc = "next" /\ runner.version < Latest
    /\ version' = runner.version
    /\ runner' = [pc |-> "script", version |-> runner.version + 1, at |-> 1]
    /\ UNCHANGED <<schema, rows>>

Statement == Scripts[runner.version][runner.at]

\* One statement of the script; after the last, the version is written.
Execute ==
    /\ runner.pc = "script"
    /\ Applies(Statement, schema)
    /\ schema' = SchemaAfter(Statement, schema, runner.version)
    /\ rows' = RowsAfter(Statement, rows)
    /\ runner' = IF runner.at < Len(Scripts[runner.version])
                 THEN [runner EXCEPT !.at = @ + 1]
                 ELSE [runner EXCEPT !.pc = "next", !.at = 0]
    /\ UNCHANGED version

\* "table already exists" or "no such table": the process does not start.
ExecuteRaises ==
    /\ runner.pc = "script"
    /\ ~Applies(Statement, schema)
    /\ runner' = [runner EXCEPT !.pc = "failed"]
    /\ UNCHANGED <<schema, rows, version>>

\* The block's own commit.
Finish ==
    /\ runner.pc = "next" /\ runner.version = Latest
    /\ version' = runner.version
    /\ runner' = [runner EXCEPT !.pc = "done"]
    /\ UNCHANGED <<schema, rows>>

\* The process ends, by itself or not.
End ==
    /\ runner' = Down
    /\ UNCHANGED <<schema, rows, version>>

Migrate == NextScript \/ Execute \/ ExecuteRaises \/ Finish

-----------------------------------------------------------------------------
(* Properties.                                                             *)

TypeOK ==
    /\ version \in 0 .. Latest
    /\ schema \in [Tables -> 0 .. Latest]
    /\ rows \in [TradeTables -> SUBSET Row]
    /\ runner \in [pc : {"down", "next", "script", "failed", "done"},
                   version : 0 .. Latest, at : 0 .. 8]

\* "the tables are rebuilt": from version 4 on no step loses a trade, be it a
\* statement of a script, one of a script applied again, or a crash.
Kept(t) == rows[t] \cup rows[Replacement[t]]
NoTradeLost == [][version >= 4 => \A t \in Trades : Kept(t) \subseteq Kept(t)']_rows
=============================================================================
