--------------------------- MODULE ForecastHistory ---------------------------
(***************************************************************************)
(* What the ledger promises about a forecast: it is published once, then   *)
(* resolved or voided once, and from its resolution on exactly one outcome *)
(* is in force; a correction puts a new outcome in the place of the one in *)
(* force and nothing ever brings an old one back.                          *)
(***************************************************************************)
CONSTANTS Forecasts, OutcomeIds

VARIABLES
    status,   \* of each forecast
    inForce,  \* the outcome of each forecast that counts, as a set
    retired   \* outcomes that were corrected

historyVars == <<status, inForce, retired>>

HistoryInit ==
    /\ status = [f \in Forecasts |-> "absent"]
    /\ inForce = [f \in Forecasts |-> {}]
    /\ retired = {}

Fresh(o) == o \notin retired /\ \A f \in Forecasts : o \notin inForce[f]

Published(f) ==
    /\ status[f] = "absent"
    /\ status' = [status EXCEPT ![f] = "published"]
    /\ UNCHANGED <<inForce, retired>>

Resolved(f, o) ==
    /\ status[f] = "published"
    /\ Fresh(o)
    /\ status' = [status EXCEPT ![f] = "resolved"]
    /\ inForce' = [inForce EXCEPT ![f] = {o}]
    /\ UNCHANGED retired

Voided(f) ==
    /\ status[f] = "published"
    /\ status' = [status EXCEPT ![f] = "void"]
    /\ UNCHANGED <<inForce, retired>>

Corrected(f, o) ==
    /\ status[f] = "resolved"
    /\ Fresh(o)
    /\ inForce' = [inForce EXCEPT ![f] = {o}]
    /\ retired' = retired \cup inForce[f]
    /\ UNCHANGED status

HistoryNext ==
    \E f \in Forecasts :
        \/ Published(f)
        \/ Voided(f)
        \/ \E o \in OutcomeIds : Resolved(f, o) \/ Corrected(f, o)

HistorySpec == HistoryInit /\ [][HistoryNext]_historyVars
=============================================================================
