----------------------------- MODULE LedgerDatabase -----------------------------
(***************************************************************************)
(* The PostgreSQL ledger as a whole: the transactions of forecasts and     *)
(* visitors (VisitorLedger) and those of jobs (JobAttemptLog), which have  *)
(* no table in common.                                                     *)
(***************************************************************************)
EXTENDS VisitorLedger, JobAttemptLog

CONSTANT Days  \* bound: the traffic and the duties that meet in a behaviour

ASSUME DaysAssumption == Days \subseteq Traffics \X Duties

DatabaseInit == VisitorInit /\ JobsInit /\ <<traffic, duty>> \in Days

DatabaseNext ==
    \/ VisitorNext /\ UNCHANGED jobVars
    \/ JobsNext /\ UNCHANGED allVars

databaseVars == <<allVars, jobVars>>

DatabaseSpec == DatabaseInit /\ [][DatabaseNext]_databaseVars

\* As in ForecastLedger: who is not waiting goes on, and locks are granted in turn.
FairDatabaseSpec ==
    /\ DatabaseSpec
    /\ \A s \in Sessions : SF_databaseVars(StepBesideVisits(s) /\ UNCHANGED jobVars)
    /\ \A v \in Visitors : SF_databaseVars(VisitStep(v) /\ UNCHANGED jobVars)
    /\ \A c \in Clerks : SF_databaseVars(TaskStep(c) /\ UNCHANGED allVars)

-----------------------------------------------------------------------------

\* Visitors, results and purges beside the forecasts' transactions, and the tries of
\* jobs: repetitions agree, what is shown is whole, and no try follows a success.
RecordsAgree == VisitsAgree /\ AttemptsAgree

\* No transaction of any kind waits for ever, though they wait for each other's
\* rows and locks, in both directions.
EveryTransactionEnds ==
    /\ EveryCallEnds
    /\ \A v \in Visitors : []<>~InVisit(v)
    /\ \A c \in Clerks : []<>~AtWork(c)
=============================================================================
