------------------------------- MODULE Server -------------------------------
(***************************************************************************)
(* The life of the server's process (the lifespan handler of app/main.py): *)
(* the migrations, the service account, the scheduler, the requests it     *)
(* serves, and stop; or a crash at any point, and the next start.          *)
(*                                                                         *)
(* What outlives the process is the database file, the key files, and the  *)
(* tokens and secrets that clients hold.  The parts share no other state.  *)
(***************************************************************************)
EXTENDS Naturals, Sequences

CONSTANTS
    Row, FirstVersions,                     \* of Migrations
    Key, Predefined, Configurations, Request,   \* of ApiKeys
    Pair, Thread, Torn,                     \* of SigningKeys
    Periodic, Triggered,                    \* of JobScheduler
    None

ASSUME KeyAssumption == Predefined \in Key /\ None \notin Key
ASSUME ConfigurationsAssumption == Configurations \subseteq BOOLEAN
ASSUME TornAssumption == None \notin Pair /\ Torn \notin Pair \cup {None}
ASSUME PeriodicAssumption == Periodic \notin Triggered /\ None \notin Triggered \cup {Periodic}

VARIABLES schema, rows, version, runner
VARIABLES account, keys, shown, configured, startup, requests, overlap, unseen
VARIABLES privateFile, publicFile, privateKey, publicKey, tokens, thread, raced
VARIABLES enabled, task, cancelled, table, ready, running, stop

Migration == INSTANCE Migrations
ServiceKeys == INSTANCE ApiKeys
Signing == INSTANCE SigningKeys
Scheduler == INSTANCE JobScheduler

\* A database comes from a release of the program.
ASSUME VersionsAssumption == FirstVersions \subseteq 0 .. Migration!Latest

migration == <<schema, rows, version, runner>>
service == <<account, keys, shown, configured, startup, requests, overlap, unseen>>
signing == <<privateFile, publicFile, privateKey, publicKey, tokens, thread, raced>>
scheduler == <<enabled, task, cancelled, table, ready, running, stop>>

serverVars == <<migration, service, signing, scheduler>>

-----------------------------------------------------------------------------
Init ==
    /\ Migration!Init
    /\ ServiceKeys!Init
    /\ Signing!Init
    /\ Scheduler!Init

\* lifespan: run_migrations, then ensure_exists, then start; the first that
\* raises ends the process.
RunMigrations ==
    /\ Migration!Begin \/ Migration!Migrate
    /\ UNCHANGED <<service, signing, scheduler>>

EnsureExists ==
    /\ runner.pc = "done"
    /\ ServiceKeys!Begin \/ ServiceKeys!StartUp
    /\ UNCHANGED <<migration, signing, scheduler>>

StartScheduler ==
    /\ startup.pc = "up"
    /\ Scheduler!Start
    /\ UNCHANGED <<migration, service, signing>>

Serving == stop.pc = "no"

Answered == \A t \in Thread : thread[t].pc = "idle"

\* Bound: token requests and runs of the job, which share nothing, do not take
\* place at the same time.
NoJobs == ready = <<>> /\ running = {} /\ \A k \in Triggered \cup {Periodic} : task[k] = "none"

ServeTokens ==
    /\ Serving /\ NoJobs
    /\ \E t \in Thread : Signing!Arrives(t) \/ Signing!Handle(t)
    /\ UNCHANGED <<migration, service, scheduler>>

\* A day without requests, the process up or down.
TokensExpire ==
    /\ Answered /\ NoJobs
    /\ \E pair \in Pair : Signing!Expire(pair)
    /\ UNCHANGED <<migration, service, scheduler>>

TriggerJob ==
    /\ Serving /\ Answered
    /\ \E k \in Triggered : Scheduler!Trigger(k)
    /\ UNCHANGED <<migration, service, signing>>

Jobs ==
    /\ Scheduler!Callback \/ Scheduler!Outside
    /\ UNCHANGED <<migration, service, signing>>

\* The process stops listening, answers its requests, and then leaves lifespan.
AskToStop ==
    /\ Serving /\ Answered
    /\ Scheduler!RequestStop
    /\ UNCHANGED <<migration, service, signing>>

Ends ==
    /\ Migration!End
    /\ ServiceKeys!End
    /\ Signing!End
    /\ Scheduler!End

Exit ==
    /\ runner.pc = "failed" \/ startup.pc = "failed" \/ Scheduler!Over
    /\ Ends

Crash ==
    /\ runner.pc # "down"
    /\ Ends

Next ==
    \/ RunMigrations \/ EnsureExists \/ StartScheduler
    \/ ServeTokens \/ TokensExpire
    \/ TriggerJob \/ Jobs
    \/ AskToStop \/ Exit \/ Crash

\* The loop takes its next callback, and threads and timers end.  Nobody has
\* to send a request or to start a process.
Fairness ==
    /\ WF_serverVars(Jobs)
    /\ \A k \in Triggered \cup {Periodic} :
           WF_serverVars(/\ \/ Scheduler!ThreadEnds(k, "ran") \/ Scheduler!ThreadEnds(k, "failed")
                            \/ Scheduler!TimerExpires(k)
                         /\ UNCHANGED <<migration, service, signing>>)
    /\ WF_serverVars(Exit)

Spec == Init /\ [][Next]_serverVars /\ Fairness

-----------------------------------------------------------------------------
(* Properties.                                                             *)

\* The parts' variables hold what their declarations say.
TypeOK ==
    /\ Migration!TypeOK
    /\ ServiceKeys!TypeOK
    /\ Signing!TypeOK
    /\ Scheduler!TypeOK

\* Whatever crashes interrupted the migrations before, a process serves
\* requests and runs jobs only on the schema of the latest version: a script
\* applied twice leaves what it leaves once, or keeps the process from starting.
ServesLatestSchema ==
    (Serving \/ running # {}) =>
        version = Migration!Latest /\ schema = Migration!SchemaOf[Migration!Latest]

\* "the tables are rebuilt": from version 4 on no step loses a trade, be it a
\* statement of a script, one of a script applied again, or a crash.
NoTradeLost == Migration!NoTradeLost

\* A token that has not expired is accepted, by the process that issued it and
\* by every later one, if no two requests made key pairs side by side and no
\* crash cut the writing of a key file.
TokensAreAccepted == ~raced => \A t \in Thread : thread[t].pc # "refused"

\* Once stop has cancelled the tasks no run of the job begins, be it one whose
\* task had been made ready before.
NothingStartsAfterStop ==
    [][stop.pc \in {"waits", "over", "raised"} => running' \subseteq running]_scheduler

\* "repeatedly runs the job": as long as the process serves, the job is run
\* again, whatever its runs raised.
KeepsRunning == (Serving /\ enabled) ~> (Periodic \in running \/ ~Serving)

\* A process asked to stop is over some time later, though stop may raise.
StopEnds == (stop.pc = "requested") ~> (stop.pc = "down")
=============================================================================
