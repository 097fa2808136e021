------------------------------ MODULE RunView ------------------------------
(***************************************************************************)
(* What GET /api/runs/{id} can tell of the runs, and how it may change: the *)
(* row of a run and its saved cells, in the store, and the cells its        *)
(* RunControl shows as queued or running, if it has one.  "running" stands  *)
(* for queued and running, "ended" for completed and cancelled, which the   *)
(* dashboard treats alike.                                                 *)
(*                                                                         *)
(* RunExecution implements this module; Dashboard is a page over it.       *)
(***************************************************************************)
CONSTANTS
    Runs,      \* run ids
    Cells      \* scenario|sdk pairs of the grid

VARIABLE srv   \* srv[r]: what there is to tell of r, for the runs created

Created == DOMAIN srv

\* A run: its row, its saved cells, its RunControl with the cells that this
\* shows as queued or running, and its cancel flag.
NewRun(cells) == [cells |-> cells, status |-> "running", saved |-> {},
                  control |-> "none", live |-> cells, cancelled |-> FALSE]

Init == srv = << >>

\* create_run stores the row.
Open(r, cells) ==
    /\ r \in Runs \ Created
    /\ srv' = [x \in Created \cup {r} |-> IF x = r THEN NewRun(cells) ELSE srv[x]]

\* _execute_run stores the rows of gated pairs, one by one ...
SaveGated(r, c) ==
    /\ srv[r].control = "none" /\ c \in srv[r].cells \ srv[r].saved
    /\ srv' = [srv EXCEPT ![r].saved = @ \cup {c}]

\* ... and publishes a control over the others.
PublishControl(r) ==
    /\ srv[r].control = "none"
    /\ srv' = [srv EXCEPT ![r].control = "published",
                          ![r].live = srv[r].cells \ srv[r].saved]

\* _run_job marks the cell done ...
MarkDone(r, c) ==
    /\ srv[r].control = "published" /\ c \in srv[r].live
    /\ srv' = [srv EXCEPT ![r].live = @ \ {c}]

\* ... and only later the collector saves its result.  A job that the cancel
\* flag keeps from starting is saved while it is still shown as queued.
SaveResult(r, c) ==
    /\ srv[r].control = "published" /\ c \in srv[r].cells \ srv[r].saved
    /\ c \in srv[r].live => srv[r].cancelled
    /\ srv' = [srv EXCEPT ![r].saved = @ \cup {c}]

FinishRun(r) ==
    /\ srv[r].control = "published" /\ srv[r].status = "running"
    /\ srv[r].saved = srv[r].cells
    /\ srv' = [srv EXCEPT ![r].status = "ended"]

\* cancel_run: a run without a control is not active.
CancelRun(r) ==
    /\ srv[r].control = "published" /\ ~srv[r].cancelled
    /\ srv' = [srv EXCEPT ![r].cancelled = TRUE]

\* The RunControl is gone, with its flag and its states.
Dropped(run) == [run EXCEPT !.control = "dropped", !.live = {}, !.cancelled = FALSE]

\* The finally; a result that cannot be saved takes it there before the end.
DropControl(r) ==
    /\ srv[r].control = "published"
    /\ srv[r].status = "ended" \/ srv[r].live \cup srv[r].saved # srv[r].cells
    /\ srv' = [srv EXCEPT ![r] = Dropped(@)]

\* The orchestrator dies and starts again: no run has a control any more and
\* none is taken up again.
EngineRestarts == srv' = [r \in Created |-> Dropped(srv[r])]

Next ==
    \/ \E r \in Runs, cells \in SUBSET Cells : Open(r, cells)
    \/ \E r \in Created :
        \/ PublishControl(r) \/ FinishRun(r) \/ CancelRun(r) \/ DropControl(r)
        \/ \E c \in Cells : SaveGated(r, c) \/ MarkDone(r, c) \/ SaveResult(r, c)
    \/ EngineRestarts

Spec == Init /\ [][Next]_srv
=============================================================================
