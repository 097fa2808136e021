--------------------------- MODULE RunLifecycle ---------------------------
(***************************************************************************)
(* What the orchestrator promises about a run, whatever its threads, its   *)
(* pool and its runner subprocesses do: the `runs` and `run_results`       *)
(* tables of src/orchestrator/app/store.py seen from the API.  A run is    *)
(* opened once, collects result rows while it is open, and is closed at    *)
(* most once, with a status that agrees with its rows.  A run that closed, *)
(* or that its collector or the process gave up, never changes again.      *)
(*                                                                         *)
(* RunExecution.tla, the detailed model of main.py and                     *)
(* runner_dispatcher.py, is shown to implement this module.                *)
(***************************************************************************)
CONSTANTS Runs,      \* run ids
          Rows       \* primary keys of run_results within one run

VARIABLES db,        \* db[r]: the status column of the runs table
          rows,      \* rows[r][k]: the status stored in row k, or "none"
          cancelled, \* cancelled[r]: the cancel flag of the run is set
          open       \* the runs somebody still collects results for

avars == <<db, rows, cancelled, open>>

RunStatus == {"none", "running", "completed", "cancelled"}
RowStatus == {"none", "skip", "ok", "error", "cancelled"}
Terminal  == {"completed", "cancelled"}

\* The rows the sweep of run r has to fill.
CONSTANT RowsOf(_)
-----------------------------------------------------------------------------
Init == /\ db        = [r \in Runs |-> "none"]
        /\ rows      = [r \in Runs |-> [k \in Rows |-> "none"]]
        /\ cancelled = [r \in Runs |-> FALSE]
        /\ open      = {}

Open(r) ==
    /\ db[r] = "none"
    /\ db' = [db EXCEPT ![r] = "running"]
    /\ open' = open \cup {r}
    /\ UNCHANGED <<rows, cancelled>>

\* A result is stored; only a run whose flag is set stores "cancelled".
Record(r, k, s) ==
    /\ r \in open
    /\ s = "cancelled" => cancelled[r]
    /\ rows' = [rows EXCEPT ![r][k] = s]
    /\ UNCHANGED <<db, cancelled, open>>

\* The flag may still be raised between the last row and the final status,
\* and even after it (a cancel that looked the run up before it closed).
RequestCancel(r) ==
    /\ db[r] # "none"
    /\ cancelled' = [cancelled EXCEPT ![r] = TRUE]
    /\ UNCHANGED <<db, rows, open>>

\* Closing needs every row; "completed" needs that no row says cancelled.
Close(r, v) ==
    /\ r \in open
    /\ \A k \in RowsOf(r) : rows[r][k] # "none"
    /\ v = "completed" => \A k \in RowsOf(r) : rows[r][k] # "cancelled"
    /\ v = "cancelled" => cancelled[r]
    /\ db' = [db EXCEPT ![r] = v]
    /\ open' = open \ {r}
    /\ UNCHANGED <<rows, cancelled>>

\* An exception ends the collection without a final status.
Abandon(r) ==
    /\ open' = open \ {r}
    /\ UNCHANGED <<db, rows, cancelled>>

\* The process dies: flags and collectors are gone, the tables are not.
Restart ==
    /\ open' = {}
    /\ cancelled' = [r \in Runs |-> FALSE]
    /\ UNCHANGED <<db, rows>>

Next == \/ \E r \in Runs :
              \/ Open(r)
              \/ \E k \in RowsOf(r), s \in RowStatus \ {"none"} : Record(r, k, s)
              \/ RequestCancel(r)
              \/ \E v \in Terminal : Close(r, v)
              \/ Abandon(r)
        \/ Restart

Spec == Init /\ [][Next]_avars
=============================================================================
