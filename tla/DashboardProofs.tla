-------------------------- MODULE DashboardProofs --------------------------
(***************************************************************************)
(* What the dashboard page says of runs, for any cells, buttons, budget and *)
(* number of requests under way.                                           *)
(***************************************************************************)
EXTENDS Dashboard, FiniteSetTheorems, TLAPS

RunRecords == [cells : SUBSET Cells, status : {"running", "ended"}, saved : SUBSET Cells,
               control : {"none", "published", "dropped"}, live : SUBSET Cells,
               cancelled : BOOLEAN]

AskKinds == {"poll", "refresh", "init"}

CallRecords ==
    {Free} \cup [kind : {"list"}, at : {"sent"}] \cup
    [kind : AskKinds, run : Runs, at : {"sent"}] \cup
    [kind : AskKinds, run : Runs, at : {"read"}, status : {"running", "ended"},
     saved : SUBSET Cells] \cup
    [kind : AskKinds, run : Runs, at : {"served"}, status : {"running", "ended"},
     saved : SUBSET Cells, live : SUBSET Cells]

\* The runs are numbered as they are made, and one that ended is saved.
RunsInv ==
    /\ srv \in [Created -> RunRecords]
    /\ Created \subseteq Runs
    /\ Created = {} \/ \E n \in Runs : Created = 1..n
    /\ \A r \in Created : srv[r].status = "ended" => srv[r].saved = srv[r].cells

Known(r) == r \in Created \cup {NoRun}

\* Whatever run the page or its requests name was made.
NamesInv ==
    /\ Known(timer) /\ Known(current) /\ Known(stored) /\ Known(info.run)
    /\ \A p \in posts : Known(p.run) /\ p.cells \in SUBSET Cells

\* An answer under way that tells of the end of a run brings all its cells,
\* whenever it was read and however the run went on.
AnswerOk(call) ==
    /\ call.kind \in AskKinds => call.run \in Created
    /\ call.kind \in AskKinds /\ call.at \in {"read", "served"} /\ call.status = "ended"
           => call.saved = srv[call.run].cells

CallsInv ==
    /\ calls \in [Calls -> CallRecords]
    /\ \A i \in Calls : AnswerOk(calls[i])

\* What runinfo says ended is a run whose cells show no state in flight of it.
InfoInv == (info.ended => info.run \in Created) /\ EndedIsComplete

IInv == RunsInv /\ NamesInv /\ CallsInv /\ InfoInv
-----------------------------------------------------------------------------
\* Runs are added and keep their cells.
Keeps == /\ Created \subseteq Created'
         /\ \A r \in Created : srv'[r].cells = srv[r].cells

LEMMA InitIInv == PageInit => IInv
<1> SUFFICES ASSUME PageInit PROVE IInv
  OBVIOUS
<1>1. DOMAIN srv = {} /\ srv \in [{} -> RunRecords]
  BY DEF PageInit, Init
<1>2. RunsInv
  <2>1. {} = 1..0
    OBVIOUS
  <2> QED
    BY <1>1, <2>1 DEF RunsInv, Created
<1>3. NamesInv /\ CallsInv /\ InfoInv
  BY DEF PageInit, NamesInv, Known, CallsInv, CallRecords, AnswerOk, AskKinds, Free, InfoInv,
     EndedIsComplete, NoInfo
<1> QED
  BY <1>2, <1>3 DEF IInv

\* Runs that keep their cells leave what the page and its requests know true.
LEMMA KeepsNames ==
    ASSUME IInv, RunsInv', Keeps, UNCHANGED pageVars
    PROVE  /\ UNCHANGED posts => NamesInv'
           /\ UNCHANGED calls => CallsInv'
           /\ InfoInv'
           /\ \A call \in CallRecords : AnswerOk(call) => AnswerOk(call)'
<1>1. ASSUME UNCHANGED posts PROVE NamesInv'
  BY <1>1 DEF IInv, NamesInv, Known, Keeps, pageVars
<1>2. ASSUME NEW call \in CallRecords, AnswerOk(call) PROVE AnswerOk(call)'
  BY <1>2 DEF AnswerOk, Keeps
<1>3. ASSUME UNCHANGED calls PROVE CallsInv'
  <2>1. \A i \in Calls : calls[i] \in CallRecords /\ AnswerOk(calls[i])
    BY DEF IInv, CallsInv
  <2>2. ASSUME NEW i \in Calls PROVE AnswerOk(calls[i])'
    <3>1. PICK call \in CallRecords : call = calls[i]
      BY <2>1
    <3>2. AnswerOk(call)'
      BY <1>2, <2>1, <3>1
    <3> QED
      BY <1>3, <3>1, <3>2
  <2> QED
    BY <1>3, <2>2 DEF IInv, CallsInv
<1>4. InfoInv'
  BY DEF IInv, InfoInv, EndedIsComplete, Keeps, pageVars
<1> QED
  BY <1>1, <1>2, <1>3, <1>4

LEMMA NumberOfRuns ==
    ASSUME RunsInv
    PROVE  /\ Cardinality(Created) \in Nat /\ Created = 1..Cardinality(Created)
           /\ Created # {} => Cardinality(Created) \in Created
<1>1. PICK n \in Nat : Created = 1..n
  <2>1. CASE Created = {}
    <3>1. Created = 1..0
      BY <2>1
    <3> QED
      BY <3>1
  <2>2. CASE Created # {}
    <3>1. PICK n \in Runs : Created = 1..n
      BY <2>2 DEF RunsInv
    <3>2. PICK r \in Created : TRUE
      BY <2>2
    <3>3. Runs = 1..Budget
      BY DashboardAssumption
    <3>4. n \in Int /\ n >= 1
      BY <3>1, <3>2, <3>3
    <3> QED
      BY <3>1, <3>4
  <2> QED
    BY <2>1, <2>2
<1>2. Cardinality(1..n) = IF 1 > n THEN 0 ELSE n - 1 + 1
  BY FS_Interval
<1>3. Cardinality(Created) = n
  BY <1>1, <1>2
<1> QED
  BY <1>1, <1>3

\* A step of one run that keeps its cells and ends it only when all is saved.
LEMMA RunMoves ==
    ASSUME RunsInv, NEW r \in Created, NEW run \in RunRecords,
           srv' = [srv EXCEPT ![r] = run],
           run.cells = srv[r].cells, run.status = "ended" => run.saved = run.cells
    PROVE  RunsInv' /\ Keeps
<1>1. srv \in [Created -> RunRecords]
  BY DEF RunsInv
<1>2. /\ srv' \in [Created -> RunRecords] /\ Created' = Created
      /\ \A x \in Created : srv'[x] = IF x = r THEN run ELSE srv[x]
  BY <1>1 DEF Created
<1> QED
  BY <1>2 DEF RunsInv, Keeps

LEMMA AdvanceKeeps ==
    ASSUME RunsInv, NEW r \in Created, Advance(r)
    PROVE  RunsInv' /\ Keeps
<1> DEFINE old == srv[r]
<1>1. /\ old \in RunRecords /\ old.cells \in SUBSET Cells /\ old.saved \in SUBSET Cells
      /\ old.status = "ended" => old.saved = old.cells
  BY DEF RunsInv, RunRecords
<1>2. ASSUME NEW run, run \in RunRecords, srv' = [srv EXCEPT ![r] = run],
             run.cells = old.cells, run.status = "ended" => run.saved = run.cells
      PROVE  RunsInv' /\ Keeps
  BY <1>2, RunMoves
<1>3. CASE PublishControl(r)
  <2> DEFINE run == [old EXCEPT !.control = "published", !.live = old.cells \ old.saved]
  <2>1. srv' = [srv EXCEPT ![r] = run]
    BY <1>3 DEF PublishControl
  <2>2. run \in RunRecords /\ run.cells = old.cells /\ run.status = old.status
        /\ run.saved = old.saved
    BY <1>1 DEF RunRecords
  <2> HIDE DEF run
  <2> QED
    BY <1>1, <1>2, <2>1, <2>2
<1>4. CASE FinishRun(r)
  <2> DEFINE run == [old EXCEPT !.status = "ended"]
  <2>1. srv' = [srv EXCEPT ![r] = run] /\ old.saved = old.cells
    BY <1>4 DEF FinishRun
  <2>2. run \in RunRecords /\ run.cells = old.cells /\ run.saved = old.saved
    BY <1>1 DEF RunRecords
  <2> HIDE DEF run
  <2> QED
    BY <1>2, <2>1, <2>2
<1>5. CASE DropControl(r)
  <2> DEFINE run == Dropped(old)
  <2>1. srv' = [srv EXCEPT ![r] = run]
    BY <1>5 DEF DropControl
  <2>2. run \in RunRecords /\ run.cells = old.cells /\ run.status = old.status
        /\ run.saved = old.saved
    BY <1>1 DEF RunRecords, Dropped
  <2> HIDE DEF run
  <2> QED
    BY <1>1, <1>2, <2>1, <2>2
<1>6. CASE CancelRun(r)
  <2> DEFINE run == [old EXCEPT !.cancelled = TRUE]
  <2>1. srv' = [srv EXCEPT ![r] = run]
    BY <1>6 DEF CancelRun
  <2>2. run \in RunRecords /\ run.cells = old.cells /\ run.status = old.status
        /\ run.saved = old.saved
    BY <1>1 DEF RunRecords
  <2> HIDE DEF run
  <2> QED
    BY <1>1, <1>2, <2>1, <2>2
<1>7. ASSUME NEW c \in Cells, SaveGated(r, c) \/ SaveResult(r, c) PROVE RunsInv' /\ Keeps
  <2> DEFINE run == [old EXCEPT !.saved = old.saved \cup {c}]
  <2>1. srv' = [srv EXCEPT ![r] = run] /\ c \in old.cells \ old.saved
    BY <1>7 DEF SaveGated, SaveResult
  <2>2. run \in RunRecords /\ run.cells = old.cells /\ run.status = old.status
    BY <1>1, <1>7 DEF RunRecords
  <2>3. run.status # "ended"
    BY <1>1, <2>1, <2>2
  <2> HIDE DEF run
  <2> QED
    BY <1>2, <2>1, <2>2, <2>3
<1>8. ASSUME NEW c \in Cells, MarkDone(r, c) PROVE RunsInv' /\ Keeps
  <2> DEFINE run == [old EXCEPT !.live = old.live \ {c}]
  <2>1. srv' = [srv EXCEPT ![r] = run]
    BY <1>8 DEF MarkDone
  <2>2. run \in RunRecords /\ run.cells = old.cells /\ run.status = old.status
        /\ run.saved = old.saved
    BY <1>1 DEF RunRecords
  <2> HIDE DEF run
  <2> QED
    BY <1>1, <1>2, <2>1, <2>2
<1> QED
  BY <1>3, <1>4, <1>5, <1>6, <1>7, <1>8 DEF Advance

LEMMA RestartKeeps ==
    ASSUME RunsInv, EngineRestarts PROVE RunsInv' /\ Keeps
<1>1. /\ srv' = [r \in Created |-> Dropped(srv[r])] /\ Created' = Created
  BY DEF EngineRestarts, Created
<1>2. ASSUME NEW r \in Created
      PROVE  /\ Dropped(srv[r]) \in RunRecords /\ Dropped(srv[r]).cells = srv[r].cells
             /\ Dropped(srv[r]).status = srv[r].status /\ Dropped(srv[r]).saved = srv[r].saved
  <2>1. srv[r] \in RunRecords
    BY DEF RunsInv
  <2> QED
    BY <2>1 DEF RunRecords, Dropped
<1> QED
  BY <1>1, <1>2 DEF RunsInv, Keeps

LEMMA CreateKeeps ==
    ASSUME IInv, NEW p \in posts, CreateRun(p) PROVE IInv'
<1> DEFINE r == Cardinality(Created) + 1
<1>1. /\ r \in Runs \ Created
      /\ srv' = [x \in Created \cup {r} |-> IF x = r THEN NewRun(p.cells) ELSE srv[x]]
      /\ posts' = (posts \ {p}) \cup {[cells |-> {}, run |-> r]}
      /\ UNCHANGED <<pageVars, calls>>
  BY DEF CreateRun, Open
<1>2. Cardinality(Created) \in Nat /\ Created = 1..Cardinality(Created)
  BY NumberOfRuns DEF IInv
<1>3. Created' = Created \cup {r}
  BY <1>1 DEF Created
<1>4. Created' = 1..r
  BY <1>2, <1>3
<1>5. NewRun(p.cells) \in RunRecords /\ NewRun(p.cells).status = "running"
  BY DEF NewRun, RunRecords, IInv, NamesInv
<1>6. \A x \in Created' : srv'[x] = IF x = r THEN NewRun(p.cells) ELSE srv[x]
  BY <1>1, <1>3
<1> HIDE DEF r
<1>7. RunsInv'
  <2>1. srv' \in [Created' -> RunRecords]
    BY <1>1, <1>3, <1>5 DEF IInv, RunsInv
  <2>2. Created' \subseteq Runs
    BY <1>1, <1>3 DEF IInv, RunsInv
  <2>3. \A x \in Created' : srv'[x].status = "ended" => srv'[x].saved = srv'[x].cells
    BY <1>3, <1>5, <1>6 DEF IInv, RunsInv
  <2> QED
    BY <1>1, <1>4, <2>1, <2>2, <2>3 DEF RunsInv
<1>8. Keeps
  BY <1>1, <1>3, <1>6 DEF Keeps
<1>9. CallsInv' /\ InfoInv'
  BY <1>1, <1>7, <1>8, KeepsNames
<1>10. NamesInv'
  BY <1>1, <1>3 DEF IInv, NamesInv, Known, pageVars
<1> QED
  BY <1>7, <1>9, <1>10 DEF IInv

LEMMA FreeIs == Free \in CallRecords /\ Free.kind = "free" /\ AnswerOk(Free)
BY DEF Free, CallRecords, AnswerOk, AskKinds

\* One request is sent, served, answered or lost.
LEMMA CallMoves ==
    ASSUME IInv, NEW i \in Calls, NEW call \in CallRecords, Answer(i, call),
           AnswerOk(call), UNCHANGED srv
    PROVE  CallsInv'
<1>1. \A j \in Calls : calls'[j] = IF j = i THEN call ELSE calls[j]
  BY DEF Answer, IInv, CallsInv
<1>2. calls' \in [Calls -> CallRecords]
  BY DEF Answer, IInv, CallsInv
<1>3. ASSUME NEW j \in Calls PROVE AnswerOk(calls[j])'
  <2>1. PICK other : other = calls'[j]
    OBVIOUS
  <2>2. AnswerOk(other)
    BY <1>1, <2>1 DEF IInv, CallsInv
  <2>3. AnswerOk(other)'
    BY <2>2 DEF AnswerOk, Created
  <2> QED
    BY <2>1, <2>3
<1> QED
  BY <1>2, <1>3 DEF CallsInv

\* While the runs and what the page says of them stay, so does the rest.
LEMMA RestStays ==
    ASSUME IInv, UNCHANGED srv
    PROVE  /\ RunsInv'
           /\ UNCHANGED <<posts, timer, current, stored, info>> => NamesInv'
           /\ UNCHANGED <<shown, info>> => InfoInv'
           /\ UNCHANGED calls => CallsInv'
<1>1. RunsInv'
  BY DEF IInv, RunsInv, Created
<1>2. ASSUME UNCHANGED <<posts, timer, current, stored, info>> PROVE NamesInv'
  BY <1>2 DEF IInv, NamesInv, Known, Created
<1>3. ASSUME UNCHANGED <<shown, info>> PROVE InfoInv'
  BY <1>3 DEF IInv, InfoInv, EndedIsComplete, Created
<1>4. ASSUME UNCHANGED calls PROVE CallsInv'
  BY <1>4 DEF IInv, CallsInv, AnswerOk, Created
<1> QED
  BY <1>1, <1>2, <1>3, <1>4

\* A request about run r, sent and then read from its row.
LEMMA SentIs ==
    ASSUME IInv, NEW kind \in AskKinds, NEW r, r \in Created
    PROVE  /\ [kind |-> kind, run |-> r, at |-> "sent"] \in CallRecords
           /\ AnswerOk([kind |-> kind, run |-> r, at |-> "sent"])
BY DEF IInv, RunsInv, CallRecords, AnswerOk

LEMMA AskedIs ==
    ASSUME IInv, NEW i \in Calls, calls[i].kind \in AskKinds
    PROVE  /\ calls[i].run \in Created /\ srv[calls[i].run] \in RunRecords
           /\ calls[i].at \in {"read", "served"} =>
                 /\ calls[i].saved \in SUBSET Cells
                 /\ calls[i].status \in {"running", "ended"}
                 /\ calls[i].status = "ended" => calls[i].saved = srv[calls[i].run].cells
<1>1. AnswerOk(calls[i]) /\ calls[i] \in CallRecords
  BY DEF IInv, CallsInv
<1>2. calls[i].run \in Created /\ srv[calls[i].run] \in RunRecords
  BY <1>1 DEF AnswerOk, IInv, RunsInv
<1>3. ASSUME calls[i].at \in {"read", "served"}
      PROVE  calls[i].saved \in SUBSET Cells /\ calls[i].status \in {"running", "ended"}
  BY <1>1, <1>3 DEF CallRecords, AskKinds, Free
<1> QED
  BY <1>1, <1>2, <1>3 DEF AnswerOk

LEMMA ServeKeeps ==
    ASSUME IInv, NEW i \in Calls, ServeList(i) \/ ServeRow(i) \/ ServeStates(i)
    PROVE  IInv'
<1>1. UNCHANGED <<srv, posts, shown, timer, current, stored, info>>
  BY DEF ServeList, ServeRow, ServeStates, pageVars
<1>2. RunsInv' /\ NamesInv' /\ InfoInv'
  BY <1>1, RestStays
<1>3. \E call \in CallRecords : AnswerOk(call) /\ Answer(i, call)
  <2>1. CASE ServeList(i)
    <3>1. CASE Created = {}
      BY <2>1, <3>1, FreeIs DEF ServeList
    <3>2. CASE Created # {}
      <4>1. Answer(i, [kind |-> "refresh", run |-> Cardinality(Created), at |-> "sent"])
        BY <2>1, <3>2 DEF ServeList
      <4>2. Cardinality(Created) \in Created /\ "refresh" \in AskKinds
        BY <3>2, NumberOfRuns DEF IInv, AskKinds
      <4> QED
        BY <4>1, <4>2, SentIs
    <3> QED
      BY <3>1, <3>2
  <2>2. CASE ServeRow(i)
    <3> DEFINE run  == srv[calls[i].run]
               call == [kind |-> calls[i].kind, run |-> calls[i].run, at |-> "read",
                        status |-> run.status, saved |-> run.saved]
    <3>1. calls[i].kind \in AskKinds /\ Answer(i, call)
      BY <2>2 DEF ServeRow, AskKinds
    <3>2. /\ calls[i].run \in Created /\ calls[i].run \in Runs /\ run \in RunRecords
          /\ run.status = "ended" => run.saved = run.cells
      BY <3>1, AskedIs DEF IInv, RunsInv
    <3>3. run.status \in {"running", "ended"} /\ run.saved \in SUBSET Cells
      BY <3>2 DEF RunRecords
    <3>4. call \in CallRecords
      BY <3>1, <3>2, <3>3 DEF CallRecords
    <3>5. AnswerOk(call)
      BY <3>2 DEF AnswerOk
    <3> QED
      BY <3>1, <3>4, <3>5
  <2>3. CASE ServeStates(i)
    <3> DEFINE run  == srv[calls[i].run]
               live == IF run.control = "published" THEN run.live ELSE {}
               call == [kind |-> calls[i].kind, run |-> calls[i].run, at |-> "served",
                        status |-> calls[i].status, saved |-> calls[i].saved,
                        live |-> live]
    <3>1. calls[i].kind \in AskKinds /\ calls[i].at = "read" /\ Answer(i, call)
      BY <2>3 DEF ServeStates, AskKinds
    <3>2. /\ calls[i].run \in Created /\ calls[i].run \in Runs /\ run \in RunRecords
          /\ calls[i].saved \in SUBSET Cells /\ calls[i].status \in {"running", "ended"}
          /\ calls[i].status = "ended" => calls[i].saved = run.cells
      BY <3>1, AskedIs DEF IInv, RunsInv
    <3>3. live \in SUBSET Cells
      BY <3>2 DEF RunRecords
    <3>4. call \in CallRecords
      <4> HIDE DEF live
      <4> QED
        BY <3>1, <3>2, <3>3 DEF CallRecords
    <3>5. AnswerOk(call)
      BY <3>2 DEF AnswerOk
    <3> QED
      BY <3>1, <3>4, <3>5
  <2> QED
    BY <2>1, <2>2, <2>3
<1>4. CallsInv'
  BY <1>1, <1>3, CallMoves
<1> QED
  BY <1>2, <1>4 DEF IInv

LEMMA EngineKeeps ==
    ASSUME IInv, Engine PROVE IInv'
<1>1. ASSUME NEW p \in posts, CreateRun(p) PROVE IInv'
  BY <1>1, CreateKeeps
<1>2. ASSUME NEW p \in posts, StartRefused(p) PROVE IInv'
  <2>1. /\ UNCHANGED <<srv, timer, current, stored, info, calls>> /\ posts' = posts \ {p}
        /\ shown' = [c \in Cells |-> IF c \in p.cells
                                     THEN [status |-> "error", by |-> NoRun]
                                     ELSE shown[c]]
    BY <1>2 DEF StartRefused
  <2>2. NamesInv'
    BY <2>1 DEF IInv, NamesInv, Known, Created
  <2>3. InfoInv'
    <3>1. ASSUME info.ended PROVE srv[info.run].cells \subseteq Cells
      BY <3>1 DEF IInv, InfoInv, RunsInv, RunRecords
    <3> QED
      BY <2>1, <3>1 DEF IInv, InfoInv, EndedIsComplete, Created
  <2> QED
    BY <2>1, <2>2, <2>3, RestStays DEF IInv
<1>3. ASSUME NEW r \in Created, Advance(r) PROVE IInv'
  <2>1. RunsInv' /\ Keeps
    BY <1>3, AdvanceKeeps DEF IInv
  <2>2. UNCHANGED <<posts, pageVars, calls>>
    BY <1>3 DEF Advance
  <2> QED
    BY <2>1, <2>2, KeepsNames DEF IInv
<1>4. CASE Restart
  <2>1. RunsInv' /\ Keeps
    BY <1>4, RestartKeeps DEF IInv, Restart
  <2>2. UNCHANGED <<posts, pageVars>>
    BY <1>4 DEF Restart
  <2>3. /\ calls' \in [Calls -> CallRecords]
        /\ \A i \in Calls : calls'[i] = calls[i] \/ calls'[i] = Free
    BY <1>4, FreeIs DEF Restart, IInv, CallsInv
  <2>4. ASSUME NEW i \in Calls PROVE AnswerOk(calls[i])'
    <3>1. PICK call \in CallRecords : call = calls'[i]
      BY <2>3
    <3>2. AnswerOk(call)
      BY <2>3, <3>1, FreeIs DEF IInv, CallsInv
    <3>3. AnswerOk(call)'
      BY <2>1, <2>2, <3>2, KeepsNames
    <3> QED
      BY <3>1, <3>3
  <2>5. CallsInv'
    BY <2>3, <2>4 DEF CallsInv
  <2> QED
    BY <2>1, <2>2, <2>5, KeepsNames DEF IInv
<1> QED
  BY <1>1, <1>2, <1>3, <1>4, ServeKeeps DEF Engine

\* What the page knows of the end of a run is in the answer it applies.
LEMMA ApplyKeeps ==
    ASSUME IInv, NEW i \in Calls, calls[i].kind \in AskKinds, calls[i].at = "served",
           Apply(calls[i]), UNCHANGED srv,
           info' = [run |-> calls[i].run, ended |-> ~StillRunning(calls[i])]
    PROVE  InfoInv'
<1> DEFINE call == calls[i]
<1>1. /\ call.run \in Created /\ srv[call.run] \in RunRecords
      /\ call.status = "ended" => call.saved = srv[call.run].cells
  BY AskedIs
<1>2. info'.ended => call.status = "ended"
  BY DEF StillRunning
<1>3. shown' = [c \in Cells |-> Overlaid(call, c)]
  BY DEF Apply
<1>4. ASSUME info'.ended, NEW c \in srv[call.run].cells
      PROVE  shown'[c].status = "saved"
  <2>1. c \in Cells /\ c \in call.saved
    BY <1>1, <1>2, <1>4 DEF RunRecords
  <2> QED
    BY <1>3, <2>1 DEF Overlaid
<1>5. info'.run = call.run
  OBVIOUS
<1> HIDE DEF call
<1> QED
  BY <1>1, <1>4, <1>5 DEF InfoInv, EndedIsComplete, Created

LEMMA ReceiveKeeps ==
    ASSUME IInv, NEW i \in Calls, ReceivePoll(i) \/ ReceiveRefresh(i) \/ ReceiveInit(i)
    PROVE  IInv'
<1>1. /\ calls[i].kind \in AskKinds /\ calls[i].at = "served"
      /\ Apply(calls[i]) /\ Answer(i, Free) /\ UNCHANGED <<srv, posts>>
      /\ info' = [run |-> calls[i].run, ended |-> ~StillRunning(calls[i])]
      /\ {timer', stored', current'} \subseteq {timer, stored, NoRun, calls[i].run}
  BY DEF ReceivePoll, ReceiveRefresh, ReceiveInit, AskKinds, Polling
<1>2. RunsInv' /\ CallsInv'
  BY <1>1, RestStays, CallMoves, FreeIs
<1>3. InfoInv'
  BY <1>1, ApplyKeeps
<1>4. NamesInv'
  <2>1. calls[i].run \in Created
    BY <1>1, AskedIs
  <2>2. Created' = Created
    BY <1>1 DEF Created
  <2> QED
    BY <1>1, <2>1, <2>2 DEF IInv, NamesInv, Known
<1> QED
  BY <1>2, <1>3, <1>4 DEF IInv

LEMMA PageKeeps ==
    ASSUME IInv, Page PROVE IInv'
<1>1. ASSUME NEW cells \in Picks, StartRun(cells) PROVE IInv'
  <2>1. /\ UNCHANGED <<srv, timer, current, stored, info, calls>>
        /\ posts' = posts \cup {[cells |-> cells, run |-> NoRun]}
        /\ shown' = [c \in Cells |-> IF c \in cells
                                     THEN [status |-> "running", by |-> NoRun]
                                     ELSE shown[c]]
    BY <1>1 DEF StartRun
  <2>2. NamesInv'
    BY <2>1, DashboardAssumption DEF IInv, NamesInv, Known, Created
  <2>3. InfoInv'
    <3>1. ASSUME info.ended PROVE srv[info.run].cells \subseteq Cells
      BY <3>1 DEF IInv, InfoInv, RunsInv, RunRecords
    <3> QED
      BY <2>1, <3>1 DEF IInv, InfoInv, EndedIsComplete, Created
  <2> QED
    BY <2>1, <2>2, <2>3, RestStays DEF IInv
<1>2. ASSUME NEW p \in posts, Started(p) PROVE IInv'
  <2>1. /\ p.run \in Created /\ posts' = posts \ {p} /\ UNCHANGED <<srv, shown, calls>>
        /\ current' = p.run /\ stored' = p.run /\ timer' = p.run
        /\ info' = [run |-> p.run, ended |-> FALSE]
    BY <1>2 DEF Started, Polling, IInv, NamesInv, Known
  <2>2. Created' = Created
    BY <2>1 DEF Created
  <2>3. NamesInv' /\ InfoInv'
    BY <2>1, <2>2 DEF IInv, NamesInv, Known, InfoInv, EndedIsComplete
  <2> QED
    BY <2>1, <2>3, RestStays DEF IInv
<1>3. ASSUME NEW p \in posts, StartLost(p) PROVE IInv'
  <2>1. posts' = posts \ {p} /\ UNCHANGED <<srv, shown, timer, current, stored, info, calls>>
    BY <1>3 DEF StartLost, pageVars
  <2>2. NamesInv'
    BY <2>1 DEF IInv, NamesInv, Known, Created
  <2> QED
    BY <2>1, <2>2, RestStays DEF IInv
<1>4. ASSUME NEW i \in Calls, Tick(i) \/ Refresh(i) \/ LoseCall(i) PROVE IInv'
  <2>1. UNCHANGED <<srv, posts, shown, timer, current, stored, info>>
    BY <1>4 DEF Tick, Refresh, LoseCall, pageVars
  <2>2. \E call \in CallRecords : AnswerOk(call) /\ Answer(i, call)
    <3>1. ASSUME NEW kind \in AskKinds, NEW r \in {timer, current, stored}, r # NoRun,
                 Send(i, kind, r)
          PROVE  \E call \in CallRecords : AnswerOk(call) /\ Answer(i, call)
      <4>1. r \in Created
        BY <3>1 DEF IInv, NamesInv, Known
      <4> QED
        BY <3>1, <4>1, SentIs DEF Send
    <3>2. ASSUME Answer(i, [kind |-> "list", at |-> "sent"])
          PROVE  \E call \in CallRecords : AnswerOk(call) /\ Answer(i, call)
      <4> DEFINE call == [kind |-> "list", at |-> "sent"]
      <4>1. call \in CallRecords
        BY DEF CallRecords
      <4>2. AnswerOk(call)
        BY DEF AnswerOk, AskKinds
      <4> QED
        BY <3>2, <4>1, <4>2
    <3>3. CASE Tick(i)
      BY <3>1, <3>3 DEF Tick, AskKinds
    <3>4. CASE Refresh(i)
      BY <3>1, <3>2, <3>4 DEF Refresh, AskKinds
    <3>5. CASE LoseCall(i)
      BY <3>5, FreeIs DEF LoseCall
    <3> QED
      BY <1>4, <3>3, <3>4, <3>5
  <2>3. CallsInv'
    BY <2>1, <2>2, CallMoves
  <2> QED
    BY <2>1, <2>3, RestStays DEF IInv
<1>5. ASSUME NEW i \in Calls, Reload(i) PROVE IInv'
  <2>1. /\ posts' \subseteq posts /\ timer' = NoRun /\ current' = NoRun /\ info' = NoInfo
        /\ UNCHANGED <<srv, stored>>
    BY <1>5 DEF Reload
  <2>2. NamesInv' /\ InfoInv'
    BY <2>1 DEF IInv, NamesInv, Known, InfoInv, EndedIsComplete, NoInfo, Created
  <2>3. PICK call \in CallRecords :
           /\ AnswerOk(call)
           /\ calls' = [j \in Calls |-> IF j = i /\ stored # NoRun THEN call ELSE Free]
    <3>1. CASE stored = NoRun
      BY <1>5, <3>1, FreeIs DEF Reload
    <3>2. CASE stored # NoRun
      <4>1. stored \in Created
        BY <3>2 DEF IInv, NamesInv, Known
      <4> QED
        BY <1>5, <4>1, SentIs DEF Reload, AskKinds
    <3> QED
      BY <3>1, <3>2
  <2>4. ASSUME NEW j \in Calls PROVE AnswerOk(calls[j])'
    <3>1. PICK other : other = calls'[j]
      OBVIOUS
    <3>2. AnswerOk(other)
      BY <2>3, <3>1, FreeIs
    <3>3. AnswerOk(other)'
      BY <2>1, <3>2 DEF AnswerOk, Created
    <3> QED
      BY <3>1, <3>3
  <2>5. CallsInv'
    BY <2>3, <2>4, FreeIs DEF CallsInv
  <2> QED
    BY <2>1, <2>2, <2>5, RestStays DEF IInv
<1>6. ASSUME NEW i \in Calls, ReceivePoll(i) \/ ReceiveRefresh(i) \/ ReceiveInit(i)
      PROVE  IInv'
  BY <1>6, ReceiveKeeps
<1> QED
  BY <1>1, <1>2, <1>3, <1>4, <1>5, <1>6 DEF Page

LEMMA StutterKeeps == IInv /\ UNCHANGED vars => IInv'
<1> SUFFICES ASSUME IInv, UNCHANGED vars PROVE IInv'
  OBVIOUS
<1>1. UNCHANGED <<srv, posts, shown, timer, current, stored, info, calls>>
  BY DEF vars, pageVars
<1> QED
  BY <1>1, RestStays DEF IInv

\* The runs, the names, the answers under way and what the page says of them:
\* one that tells of the end of a run brings all its cells, because the row and
\* the results are read under one lock and an ended run is saved (store.py
\* 77-89, main.py 233-249, index.html 284-355).
THEOREM PageInv == PageSpec => []IInv
<1>1. PageInit => IInv
  BY InitIInv
<1>2. IInv /\ [Engine \/ Page]_vars => IInv'
  BY EngineKeeps, PageKeeps, StutterKeeps
<1> QED
  BY <1>1, <1>2, PTL DEF PageSpec

\* When the page says that a run ended, none of its cells shows a state of it
\* in flight, for any number of overlapping requests, runs and cells
\* (index.html 304-322).
THEOREM EndedComplete == PageSpec => []EndedIsComplete
<1>1. IInv => EndedIsComplete
  BY DEF IInv, InfoInv
<1> QED
  BY <1>1, PageInv, PTL

\* No answer, however late, makes a cell that shows a result show a state in
\* flight again: only the user does, by asking for it (index.html 309-318).
THEOREM ResultsKept == PageSpec => ResultsStay
<1> DEFINE Kept == \A c \in Cells :
                      shown[c].status = "saved" /\ shown'[c].status = "running"
                          => \E p \in posts' \ posts : c \in p.cells
<1>1. ASSUME Engine \/ Page PROVE Kept
  <2> SUFFICES ASSUME NEW c \in Cells, shown[c].status = "saved",
                      shown'[c].status = "running"
               PROVE  \E p \in posts' \ posts : c \in p.cells
    OBVIOUS
  <2>1. shown' # shown
    OBVIOUS
  <2>2. ASSUME NEW i \in Calls, Apply(calls[i]) PROVE FALSE
    BY <2>2 DEF Apply, Overlaid
  <2>3. ASSUME NEW p \in posts, StartRefused(p) PROVE FALSE
    BY <2>3 DEF StartRefused
  <2>4. ASSUME NEW i \in Calls, Reload(i) PROVE FALSE
    BY <2>4 DEF Reload, Blank
  <2>5. PICK cells \in Picks : StartRun(cells)
    BY <1>1, <2>1, <2>2, <2>3, <2>4 DEF Engine, Page, CreateRun, Advance, Restart, ServeList,
       ServeRow, ServeStates, LoseCall, StartLost, Started, Tick, Refresh, ReceivePoll,
       ReceiveRefresh, ReceiveInit, pageVars
  <2>6. c \in cells
    BY <2>5 DEF StartRun
  <2>7. [cells |-> cells, run |-> NoRun] \in posts' \ posts
    BY <2>5 DEF StartRun
  <2> QED
    BY <2>6, <2>7
<1>2. ASSUME UNCHANGED vars PROVE Kept
  BY <1>2 DEF vars, pageVars
<1>3. [Engine \/ Page]_vars => [Kept]_vars
  BY <1>1
<1> QED
  BY <1>3, PTL DEF PageSpec, ResultsStay
=============================================================================
