----------------------------- MODULE Dashboard -----------------------------
(***************************************************************************)
(* One dashboard page, orchestrator/app/static/index.html, against the API *)
(* of main.py.  The page keeps one grid of cells, ONE poll timer and one    *)
(* current run; its requests overlap (the timer does not wait for the       *)
(* answer to its last request) and their answers come back in any order, or *)
(* not at all.  The run engine is RunView, which RunExecution implements;   *)
(* get_run reads its rows in one transaction and afterwards, apart, a       *)
(* snapshot of the live states.  Runs are numbered as they are made.       *)
(***************************************************************************)
EXTENDS RunView, Integers, FiniteSets

CONSTANTS
    Picks,     \* what a run button asks for: a cell, a column, all cells
    Budget,    \* bound: cells asked for in the course of a behaviour
    Calls,     \* bound: requests of GET handlers under way at a time
    Cancellable, \* bound: the runs that may be cancelled, by their cells
    NoRun

ASSUME DashboardAssumption ==
    Picks \subseteq SUBSET Cells /\ Runs = 1..Budget /\ NoRun \notin Nat

VARIABLES
    budget,    \* cells that may still be asked for
    posts,     \* POST /api/runs under way: the cells asked for, the run made
    shown,     \* shown[c]: `results[c]`: its status and who wrote it
    timer,     \* pollTimer: the run it polls, or NoRun
    current,   \* currentRunId
    stored,    \* localStorage: the last run, it survives a reload
    info,      \* runinfo: the run it names and whether it says it ended
    calls      \* calls[i]: GET request i and its answer

pageVars == <<shown, timer, current, stored, info>>
vars == <<srv, budget, posts, pageVars, calls>>

NoInfo   == [run |-> NoRun, ended |-> FALSE]
Free     == [kind |-> "free"]
Blank    == [status |-> "none", by |-> NoRun]

PageInit ==
    /\ Init /\ posts = {} /\ budget = Budget
    /\ shown = [c \in Cells |-> Blank]
    /\ timer = NoRun /\ current = NoRun /\ stored = NoRun /\ info = NoInfo
    /\ calls = [i \in Calls |-> Free]
-----------------------------------------------------------------------------
(* The run engine and the requests it answers.                             *)

\* create_run answers after the row is stored.
CreateRun(p) ==
    /\ p.run = NoRun
    /\ LET r == Cardinality(Created) + 1 IN
        /\ Open(r, p.cells)
        /\ posts' = (posts \ {p}) \cup {[cells |-> {}, run |-> r]}
    /\ UNCHANGED <<budget, pageVars, calls>>

Advance(r) ==
    /\ \/ PublishControl(r) \/ FinishRun(r) \/ DropControl(r)
       \/ CancelRun(r) /\ srv[r].cells \in Cancellable
       \/ \E c \in Cells : SaveGated(r, c) \/ MarkDone(r, c) \/ SaveResult(r, c)
    /\ UNCHANGED <<budget, posts, pageVars, calls>>

\* Requests the orchestrator has not answered when it dies fail.
Restart ==
    /\ EngineRestarts
    /\ calls' = [i \in Calls |-> IF calls[i] # Free /\ calls[i].at = "served"
                                 THEN calls[i] ELSE Free]
    /\ UNCHANGED <<budget, posts, pageVars>>
-----------------------------------------------------------------------------
(* GET /api/runs and /api/runs/{id}.                                       *)

Answer(i, fields) == calls' = [calls EXCEPT ![i] = fields]

\* list_runs: the newest run first.
ServeList(i) ==
    /\ calls[i].kind = "list"
    /\ Answer(i, IF Created = {} THEN Free
                 ELSE [kind |-> "refresh", run |-> Cardinality(Created), at |-> "sent"])
    /\ UNCHANGED <<srv, budget, posts, pageVars>>

\* get_run: store.get_run reads status and results under one lock.
ServeRow(i) ==
    /\ calls[i].kind \in {"poll", "refresh", "init"} /\ calls[i].at = "sent"
    /\ LET run == srv[calls[i].run] IN
        Answer(i, [kind |-> calls[i].kind, run |-> calls[i].run, at |-> "read",
                   status |-> run.status, saved |-> run.saved])
    /\ UNCHANGED <<srv, budget, posts, pageVars>>

\* Then the control is looked up, and its states are copied if it is there.
ServeStates(i) ==
    /\ calls[i].kind \in {"poll", "refresh", "init"} /\ calls[i].at = "read"
    /\ LET call == calls[i]
           run  == srv[call.run]
       IN  Answer(i, [kind |-> call.kind, run |-> call.run, at |-> "served",
                      status |-> call.status, saved |-> call.saved,
                      live |-> IF run.control = "published" THEN run.live ELSE {}])
    /\ UNCHANGED <<srv, budget, posts, pageVars>>

\* A network error or an error status: every caller ignores it.
LoseCall(i) ==
    /\ calls[i].kind # "free"
    /\ Answer(i, Free)
    /\ UNCHANGED <<srv, budget, posts, pageVars>>
-----------------------------------------------------------------------------
(* The page: startRun.                                                     *)

\* The cells show "running" before the POST is sent.
StartRun(cells) ==
    /\ Cardinality(cells) <= budget /\ budget' = budget - Cardinality(cells)
    /\ \A p \in posts : p.run = NoRun => p.cells # cells
    /\ shown' = [c \in Cells |-> IF c \in cells
                                 THEN [status |-> "running", by |-> NoRun]
                                 ELSE shown[c]]
    /\ posts' = posts \cup {[cells |-> cells, run |-> NoRun]}
    /\ UNCHANGED <<srv, timer, current, stored, info, calls>>

\* An error status: every cell asked for shows an error.
StartRefused(p) ==
    /\ p.run = NoRun
    /\ shown' = [c \in Cells |-> IF c \in p.cells
                                 THEN [status |-> "error", by |-> NoRun]
                                 ELSE shown[c]]
    /\ posts' = posts \ {p}
    /\ UNCHANGED <<srv, budget, timer, current, stored, info, calls>>

\* fetch or json() throws and nobody catches: the cells stay "running".
StartLost(p) ==
    /\ posts' = posts \ {p}
    /\ UNCHANGED <<srv, budget, pageVars, calls>>

\* pollRun: the only timer now polls r.
Polling(r) == /\ current' = r /\ stored' = r /\ timer' = r
              /\ info' = [run |-> r, ended |-> FALSE]

Started(p) ==
    /\ p.run # NoRun
    /\ Polling(p.run)
    /\ posts' = posts \ {p}
    /\ UNCHANGED <<srv, budget, shown, calls>>
-----------------------------------------------------------------------------
(* The page: polls, refreshes, reloads.                                    *)

Send(i, kind, r) ==
    /\ calls[i] = Free
    /\ Answer(i, [kind |-> kind, run |-> r, at |-> "sent"])

\* The interval fires, whether or not its last request was answered.
Tick(i) ==
    /\ timer # NoRun
    /\ Send(i, "poll", timer)
    /\ UNCHANGED <<srv, budget, posts, pageVars>>

\* refreshState: the current run, else the stored one, else the newest.
Refresh(i) ==
    /\ IF current # NoRun THEN Send(i, "refresh", current)
       ELSE IF stored # NoRun THEN Send(i, "refresh", stored)
       ELSE calls[i] = Free /\ Answer(i, [kind |-> "list", at |-> "sent"])
    /\ UNCHANGED <<srv, budget, posts, pageVars>>

\* A reload drops all but the store; init() asks for the stored run.
Reload(i) ==
    /\ calls' = [j \in Calls |->
                    IF j = i /\ stored # NoRun
                    THEN [kind |-> "init", run |-> stored, at |-> "sent"] ELSE Free]
    /\ posts' = {p \in posts : p.run = NoRun}
    /\ shown' = [c \in Cells |-> Blank]
    /\ timer' = NoRun /\ current' = NoRun /\ info' = NoInfo
    /\ UNCHANGED <<srv, budget, stored>>

\* Mutant: the live states overlay saved results too.
OverlaidAlways(answer, c) ==
    IF c \in answer.live THEN [status |-> "running", by |-> answer.run]
    ELSE IF c \in answer.saved THEN [status |-> "saved", by |-> answer.run]
    ELSE shown[c]

\* applyRun, one cell: a saved result is shown; else the live state, unless
\* the cell shows a result already.
Overlaid(answer, c) ==
    IF c \in answer.saved THEN [status |-> "saved", by |-> answer.run]
    ELSE IF c \in answer.live /\ shown[c].status \in {"running", "none"}
    THEN [status |-> "running", by |-> answer.run]
    ELSE shown[c]

\* Mutant: a run without live states is taken for ended.
StillRunningLive(answer) == answer.live # {}

StillRunning(answer) == answer.status # "ended"

Apply(answer) == shown' = [c \in Cells |-> Overlaid(answer, c)]

\* The answer to any poll ends the timer, whichever run that polls by now.
ReceivePoll(i) ==
    /\ calls[i].kind = "poll" /\ calls[i].at = "served"
    /\ Apply(calls[i])
    /\ current' = calls[i].run
    /\ info' = [run |-> calls[i].run, ended |-> ~StillRunning(calls[i])]
    /\ timer' = IF StillRunning(calls[i]) THEN timer ELSE NoRun
    /\ Answer(i, Free)
    /\ UNCHANGED <<srv, budget, posts, stored>>

ReceiveRefresh(i) ==
    /\ calls[i].kind = "refresh" /\ calls[i].at = "served"
    /\ Apply(calls[i])
    /\ IF StillRunning(calls[i]) THEN Polling(calls[i].run)
       ELSE /\ current' = calls[i].run /\ stored' = calls[i].run /\ timer' = NoRun
            /\ info' = [run |-> calls[i].run, ended |-> TRUE]
    /\ Answer(i, Free)
    /\ UNCHANGED <<srv, budget, posts>>

ReceiveInit(i) ==
    /\ calls[i].kind = "init" /\ calls[i].at = "served"
    /\ Apply(calls[i])
    /\ IF StillRunning(calls[i]) THEN Polling(calls[i].run)
       ELSE /\ current' = calls[i].run
            /\ info' = [run |-> calls[i].run, ended |-> TRUE]
            /\ UNCHANGED <<stored, timer>>
    /\ Answer(i, Free)
    /\ UNCHANGED <<srv, budget, posts>>
-----------------------------------------------------------------------------
Engine ==
    \/ \E p \in posts : CreateRun(p) \/ StartRefused(p)
    \/ \E r \in Created : Advance(r)
    \/ \E i \in Calls : ServeList(i) \/ ServeRow(i) \/ ServeStates(i)
    \/ Restart

Page ==
    \/ \E cells \in Picks : StartRun(cells)
    \/ \E p \in posts : Started(p) \/ StartLost(p)
    \/ \E i \in Calls :
        \/ Tick(i) \/ Refresh(i) \/ Reload(i) \/ LoseCall(i)
        \/ ReceivePoll(i) \/ ReceiveRefresh(i) \/ ReceiveInit(i)

PageSpec == PageInit /\ [][Engine \/ Page]_vars
-----------------------------------------------------------------------------
\* When the page says that a run ended, none of its cells is left showing a
\* state of it that is still in flight, although status, rows and live states
\* of an answer are of different moments and answers overtake each other
\* (index.html 304-322).
EndedIsComplete ==
    info.ended => \A c \in srv[info.run].cells :
        /\ shown[c].status # "none"
        /\ shown[c].status = "running" => shown[c].by = NoRun

\* A cell that shows a result shows a state in flight again only because the
\* user started it again: "saved result wins" against answers that are out of
\* date (index.html 309-318).
ResultsStay ==
    [][\A c \in Cells :
        shown[c].status = "saved" /\ shown'[c].status = "running"
            => \E p \in posts' \ posts : c \in p.cells]_vars
=============================================================================
