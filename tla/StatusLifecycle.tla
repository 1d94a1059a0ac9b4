--------------------------- MODULE StatusLifecycle ---------------------------
(***************************************************************************)
(* What a table promises about the status of its rows: a row starts in the *)
(* first status and moves only to a successor, whoever moves it.  Several  *)
(* rows may move in one step (a restart expires all stale jobs with one    *)
(* statement).                                                             *)
(***************************************************************************)
CONSTANTS
    Items,     \* the keys of the rows
    Statuses,
    First,     \* the status of a row that is not there yet
    After      \* status -> the statuses that may follow it
VARIABLE status

Init == status = [r \in Items |-> First]

Step ==
    /\ status' \in [Items -> Statuses]
    /\ \A r \in Items : status'[r] = status[r] \/ status'[r] \in After[status[r]]

Spec == Init /\ [][Step]_status
=============================================================================
