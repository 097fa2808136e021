------------------------- MODULE RunExecutionProofs -------------------------
(***************************************************************************)
(* The run engine's guarantees for any number of runs, jobs, proxies and   *)
(* workers: the invariants, that it keeps the promise of RunLifecycle, and *)
(* last that what its API tells is RunView.                                *)
(***************************************************************************)
EXTENDS RunExecutionProps, TLAPS

\* One name for the groups of variables an action leaves alone.
LEMMA VarsUnfold ==
    ASSUME UNCHANGED vars
    PROVE  /\ UNCHANGED <<db, rows, control, cancelled, states, procs, col>>
           /\ UNCHANGED <<verdict, queue, jpc, result, lock, proc, armed>>
           /\ UNCHANGED <<canceller, targets, answer, env, url, cleared, site>>
BY DEF vars, storeVars, ctlVars, colVars, jobVars, procVars, cancelVars, urlVars,
       sideVars

\* The initial states and every step keep the types of the variables.
LEMMA InitTypeOK == Init => TypeOK
BY JobAssumption, EnvAssumption, UrlAssumption
   DEF Init, TypeOK, RunStatus, RowStatus, StateNames, ColPCs, JobPCs, Results, ProcStates

LEMMA StepTypeOK == TypeOK /\ [Next]_vars => TypeOK'
<1> USE JobAssumption, EnvAssumption, UrlAssumption
<1> SUFFICES ASSUME TypeOK, [Next]_vars PROVE TypeOK'
  OBVIOUS
<1> USE DEF TypeOK, RunStatus, RowStatus, StateNames, ColPCs, JobPCs, Results,
            ProcStates, WorkerPCs, LockedPCs, storeVars, ctlVars, colVars,
            jobVars, procVars, cancelVars, urlVars, sideVars, Goto, Yield, SetState, JobsOf, PlannedOf
<1>1. ASSUME NEW r \in Runs, CreateRun(r) PROVE TypeOK'
  BY <1>1 DEF CreateRun, Resolved, OrElse
<1>2. ASSUME NEW r \in Runs, Collector(r) PROVE TypeOK'
  <2>1. ASSUME NEW j \in Jobs, SaveSkipped(r, j) PROVE TypeOK'
    BY <2>1 DEF SaveSkipped
  <2>2. ASSUME NEW j \in Jobs, Submit(r, j) PROVE TypeOK'
    BY <2>2 DEF Submit
  <2>3. ASSUME NEW j \in Jobs, Collect(r, j) PROVE TypeOK'
    BY <2>3 DEF Collect
  <2>4. ASSUME NEW j \in Jobs, CollectRaises(r, j) PROVE TypeOK'
    BY <2>4 DEF CollectRaises
  <2>5. CASE PublishControl(r)
    BY <2>5 DEF PublishControl
  <2>6. CASE ReadVerdict(r)
    BY <2>6 DEF ReadVerdict
  <2>7. CASE FinishRun(r)
    BY <2>7 DEF FinishRun
  <2>8. CASE DropControl(r)
    BY <2>8 DEF DropControl
  <2>9. QED
    BY <1>2, <2>1, <2>2, <2>3, <2>4, <2>5, <2>6, <2>7, <2>8 DEF Collector
<1>3. ASSUME NEW r \in Runs, Canceller(r) PROVE TypeOK'
  <2>1. CASE CancelInactive(r) BY <2>1 DEF CancelInactive
  <2>2. CASE CancelFound(r)    BY <2>2 DEF CancelFound
  <2>3. CASE CancelFlag(r)     BY <2>3 DEF CancelFlag
  <2>4. CASE CancelSnapshot(r) BY <2>4 DEF CancelSnapshot
  <2>5. ASSUME NEW j \in Jobs, CancelKill(r, j) PROVE TypeOK'
    BY <2>5 DEF CancelKill
  <2>6. CASE CancelReturns(r)  BY <2>6 DEF CancelReturns
  <2>7. QED
    BY <1>3, <2>1, <2>2, <2>3, <2>4, <2>5, <2>6 DEF Canceller
<1>4. ASSUME NEW j \in Jobs, Worker(j) PROVE TypeOK'
  <2>1.  CASE Pick(j)             BY <2>1 DEF Pick
  <2>2.  CASE StartCancelled(j)   BY <2>2 DEF StartCancelled
  <2>3.  CASE StartFault(j)       BY <2>3 DEF StartFault
  <2>4.  CASE StartPlain(j)       BY <2>4 DEF StartPlain
  <2>5.  CASE AcquireLock(j)      BY <2>5 DEF AcquireLock
  <2>6.  CASE RecheckCancelled(j) BY <2>6 DEF RecheckCancelled
  <2>7.  CASE RecheckGo(j)        BY <2>7 DEF RecheckGo
  <2>8.  CASE ResetProxies(j)     BY <2>8 DEF ResetProxies, Cleared, PointEnv, AdminUrl, OrElse
  <2>9.  CASE ResetRaises(j)      BY <2>9 DEF ResetRaises, Cleared, PointEnv, AdminUrl, OrElse
  <2>10. CASE Leave(j)            BY <2>10 DEF Leave
  <2>11. CASE MarkDone(j)         BY <2>11 DEF MarkDone
  <2>12. CASE ResolveFails(j)     BY <2>12 DEF ResolveFails
  <2>13. CASE Launch(j)           BY <2>13 DEF Launch, AdminUrl, OrElse
  <2>14. CASE LaunchRaises(j)     BY <2>14 DEF LaunchRaises
  <2>15. CASE Register(j)         BY <2>15 DEF Register
  <2>16. CASE RunnerGone(j)       BY <2>16 DEF RunnerGone
  <2>17. CASE KillTimedOut(j)     BY <2>17 DEF KillTimedOut
  <2>18. CASE Unregister(j)       BY <2>18 DEF Unregister
  <2>19. CASE JudgeCancelled(j)   BY <2>19 DEF JudgeCancelled
  <2>20. CASE JudgeOutput(j)      BY <2>20 DEF JudgeOutput, Verdicts
  <2>21. QED
    BY <1>4, <2>1, <2>2, <2>3, <2>4, <2>5, <2>6, <2>7, <2>8, <2>9, <2>10, <2>11,
       <2>12, <2>13, <2>14, <2>15, <2>16, <2>17, <2>18, <2>19, <2>20 DEF Worker
<1>5. ASSUME NEW j \in Jobs, RunnerTimesOut(j) PROVE TypeOK'
  BY <1>5 DEF RunnerTimesOut
<1>6. ASSUME NEW j \in Jobs, Runner(j) PROVE TypeOK'
  <2>1. ASSUME NEW p \in Proxies, RunnerArms(j, p) PROVE TypeOK'
    BY <2>1 DEF RunnerArms
  <2>2. CASE RunnerExits(j)   BY <2>2 DEF RunnerExits
  <2>3. CASE RunnerCrashes(j) BY <2>3 DEF RunnerCrashes
  <2>4. QED BY <1>6, <2>1, <2>2, <2>3 DEF Runner
<1>7. CASE Die
  BY <1>7 DEF Die
<1>8. CASE UNCHANGED vars
  BY <1>8, VarsUnfold
<1>9. QED
  BY <1>1, <1>2, <1>3, <1>4, <1>5, <1>6, <1>7, <1>8 DEF Next

\* Type correctness: every variable keeps its type in every reachable state.
THEOREM TypeCorrect == Spec => []TypeOK
<1>1. QED
  BY InitTypeOK, StepTypeOK, PTL DEF Spec

\* Before any run was made the parts of the invariant hold of idle jobs.
LEMMA InitIInv == Init => IInv
BY JobAssumption, InitTypeOK DEF Init, IInv, LockInv, DispatchInv, CancelInv, UrlInv, CleanInv,
   CollectorInv, SkippedInv, FinalStatusAgrees, LockedPCs, EndPCs, RunnerPCs, Live, Terminal, PlannedOf, JobsOf

\* What a worker's step leaves alone, and where its job goes.
LEMMA WorkerFrame ==
    ASSUME TypeOK, NEW j \in Jobs, Worker(j)
    PROVE  /\ UNCHANGED <<db, rows, control, cancelled, col, verdict, url>>
           /\ UNCHANGED <<canceller, targets, answer>>
           /\ jpc[j] \in {"queued"} \cup WorkerPCs
           /\ \E pc \in WorkerPCs \cup {"finished"} : jpc' = [jpc EXCEPT ![j] = pc]
           /\ \A k \in Jobs \ {j} : proc'[k] = proc[k] /\ result'[k] = result[k]
<1> USE DEF TypeOK, storeVars, ctlVars, colVars, jobVars, procVars, cancelVars, urlVars, sideVars,
           Goto, Yield, WorkerPCs, LockedPCs
<1>1. CASE Pick(j)
  BY <1>1 DEF Pick
<1>2. CASE StartCancelled(j)
  BY <1>2 DEF StartCancelled
<1>3. CASE StartFault(j)
  BY <1>3 DEF StartFault
<1>4. CASE StartPlain(j)
  BY <1>4 DEF StartPlain
<1>5. CASE AcquireLock(j)
  BY <1>5 DEF AcquireLock
<1>6. CASE RecheckCancelled(j)
  BY <1>6 DEF RecheckCancelled
<1>7. CASE RecheckGo(j)
  BY <1>7 DEF RecheckGo
<1>8. CASE ResetProxies(j)
  BY <1>8 DEF ResetProxies
<1>9. CASE ResetRaises(j)
  BY <1>9 DEF ResetRaises
<1>10. CASE Leave(j)
  BY <1>10 DEF Leave
<1>11. CASE MarkDone(j)
  BY <1>11 DEF MarkDone
<1>12. CASE ResolveFails(j)
  BY <1>12 DEF ResolveFails
<1>13. CASE Launch(j)
  BY <1>13 DEF Launch
<1>14. CASE LaunchRaises(j)
  BY <1>14 DEF LaunchRaises
<1>15. CASE Register(j)
  BY <1>15 DEF Register
<1>16. CASE RunnerGone(j)
  BY <1>16 DEF RunnerGone
<1>17. CASE KillTimedOut(j)
  BY <1>17 DEF KillTimedOut
<1>18. CASE Unregister(j)
  BY <1>18 DEF Unregister
<1>19. CASE JudgeCancelled(j)
  BY <1>19 DEF JudgeCancelled
<1>20. CASE JudgeOutput(j)
  BY <1>20 DEF JudgeOutput
<1>21. QED
  BY <1>1, <1>2, <1>3, <1>4, <1>5, <1>6, <1>7, <1>8, <1>9, <1>10, <1>11,
     <1>12, <1>13, <1>14, <1>15, <1>16, <1>17, <1>18, <1>19, <1>20
     DEF Worker

\* What a step of a runner, or its timeout, leaves alone.
LEMMA RunnerFrame ==
    ASSUME TypeOK, NEW j \in Jobs, Runner(j) \/ RunnerTimesOut(j)
    PROVE  /\ UNCHANGED <<db, rows, control, cancelled, col, verdict, env, url>>
           /\ UNCHANGED <<canceller, targets, answer, procs, lock, result>>
           /\ UNCHANGED <<cleared, site>>
           /\ \/ jpc' = jpc
              \/ /\ jpc[j] = "communicating" /\ jpc' = [jpc EXCEPT ![j] = "timedout"]
                 /\ UNCHANGED <<proc, armed>>
           /\ Live(j) /\ \A k \in Jobs \ {j} : proc'[k] = proc[k]
           /\ proc'[j] \in {"live", "exited", "crashed"}
BY DEF TypeOK, Runner, RunnerArms, RunnerExits, RunnerCrashes, RunnerTimesOut, AtWork,
       Live, Goto, storeVars, ctlVars, colVars, jobVars, procVars, cancelVars, urlVars, sideVars

\* What a step of a collector leaves alone, and where it moves a pair.
PairMoves == {<<"new", "skipped">>, <<"new", "queued">>, <<"finished", "collected">>}

LEMMA CollectorFrame ==
    ASSUME TypeOK, NEW r \in Runs, CreateRun(r) \/ Collector(r)
    PROVE  /\ UNCHANGED <<cancelled, procs, lock, proc, armed, result>>
           /\ UNCHANGED <<canceller, targets, answer, env, cleared, site>>
           /\ \A j \in Jobs : \/ jpc'[j] = jpc[j]
                             \/ <<jpc[j], jpc'[j]>> \in PairMoves
           /\ \A j \in SkippedJobs \cap Jobs : jpc[j] = "new" => jpc'[j] # "queued"
<1> USE DEF TypeOK, Goto, JobsOf, PlannedOf, PairMoves,
           storeVars, ctlVars, colVars, jobVars, procVars, cancelVars, urlVars, sideVars
<1>1. CASE CreateRun(r)
  BY <1>1 DEF CreateRun
<1>2. ASSUME NEW j \in JobsOf(r), SaveSkipped(r, j)
      PROVE  /\ UNCHANGED <<cancelled, procs, lock, proc, armed, result>>
             /\ UNCHANGED <<canceller, targets, answer, env, cleared, site>>
             /\ <<jpc[j], jpc'[j]>> \in PairMoves /\ j \in Jobs
             /\ \A k \in Jobs \ {j} : jpc'[k] = jpc[k]
             /\ jpc'[j] = "queued" => j \notin SkippedJobs
  BY <1>2 DEF SaveSkipped
<1>3. ASSUME NEW j \in JobsOf(r), Submit(r, j)
      PROVE  /\ UNCHANGED <<cancelled, procs, lock, proc, armed, result>>
             /\ UNCHANGED <<canceller, targets, answer, env, cleared, site>>
             /\ <<jpc[j], jpc'[j]>> \in PairMoves /\ j \in Jobs
             /\ \A k \in Jobs \ {j} : jpc'[k] = jpc[k]
             /\ jpc'[j] = "queued" => j \notin SkippedJobs
  BY <1>3 DEF Submit
<1>4. ASSUME NEW j \in JobsOf(r), Collect(r, j)
      PROVE  /\ UNCHANGED <<cancelled, procs, lock, proc, armed, result>>
             /\ UNCHANGED <<canceller, targets, answer, env, cleared, site>>
             /\ <<jpc[j], jpc'[j]>> \in PairMoves /\ j \in Jobs
             /\ \A k \in Jobs \ {j} : jpc'[k] = jpc[k]
             /\ jpc'[j] = "queued" => j \notin SkippedJobs
  BY <1>4 DEF Collect
<1>5. ASSUME NEW j \in JobsOf(r), CollectRaises(r, j)
      PROVE  /\ UNCHANGED <<cancelled, procs, lock, proc, armed, result>>
             /\ UNCHANGED <<canceller, targets, answer, env, cleared, site>>
             /\ <<jpc[j], jpc'[j]>> \in PairMoves /\ j \in Jobs
             /\ \A k \in Jobs \ {j} : jpc'[k] = jpc[k]
             /\ jpc'[j] = "queued" => j \notin SkippedJobs
  BY <1>5 DEF CollectRaises
<1>6. CASE PublishControl(r)
  BY <1>6 DEF PublishControl
<1>7. CASE ReadVerdict(r)
  BY <1>7 DEF ReadVerdict
<1>8. CASE FinishRun(r)
  BY <1>8 DEF FinishRun
<1>9. CASE DropControl(r)
  BY <1>9 DEF DropControl
<1>10. QED
  BY <1>1, <1>2, <1>3, <1>4, <1>5, <1>6, <1>7, <1>8, <1>9 DEF Collector

\* A cancel touches its own bookkeeping, its run's flag and live runners.
LEMMA CancellerFrame ==
    ASSUME TypeOK, NEW r \in Runs, Canceller(r)
    PROVE  /\ UNCHANGED <<db, rows, control, states, procs, col, verdict, queue>>
           /\ UNCHANGED <<jpc, result, lock, armed, env, url, cleared, site>>
           /\ \A q \in Runs : cancelled[q] => cancelled'[q]
           /\ \A j \in Jobs : proc'[j] = proc[j] \/ (Live(j) /\ proc'[j] = "killed")
BY DEF TypeOK, Canceller, CancelInactive, CancelFound, CancelFlag, CancelSnapshot,
       CancelKill, CancelReturns, JobsOf, Live,
       storeVars, ctlVars, colVars, jobVars, procVars, cancelVars, urlVars, sideVars

\* Mutual exclusion is kept: only AcquireLock and Leave move the lock, and they
\* move their job in and out of the with-block with it.
LEMMA LockStep == ASSUME IInv, [Next]_vars PROVE LockInv'
<1> USE JobAssumption DEF IInv, LockInv, LockedPCs
<1>1. ASSUME NEW j \in Jobs, Worker(j) PROVE LockInv'
  <2> USE DEF TypeOK, storeVars, ctlVars, colVars, jobVars, procVars, cancelVars, urlVars, sideVars,
              Goto, Yield
  <2>1. CASE Pick(j)
    BY <2>1 DEF Pick
  <2>2. CASE StartCancelled(j)
    BY <2>2 DEF StartCancelled
  <2>3. CASE StartFault(j)
    BY <2>3 DEF StartFault
  <2>4. CASE StartPlain(j)
    BY <2>4 DEF StartPlain
  <2>5. CASE AcquireLock(j)
    BY <2>5 DEF AcquireLock, LockFree
  <2>6. CASE RecheckCancelled(j)
    BY <2>6 DEF RecheckCancelled
  <2>7. CASE RecheckGo(j)
    BY <2>7 DEF RecheckGo
  <2>8. CASE ResetProxies(j)
    BY <2>8 DEF ResetProxies
  <2>9. CASE ResetRaises(j)
    BY <2>9 DEF ResetRaises
  <2>10. CASE Leave(j)
    BY <2>10 DEF Leave
  <2>11. CASE MarkDone(j)
    BY <2>11 DEF MarkDone
  <2>12. CASE ResolveFails(j)
    BY <2>12 DEF ResolveFails
  <2>13. CASE Launch(j)
    BY <2>13 DEF Launch
  <2>14. CASE LaunchRaises(j)
    BY <2>14 DEF LaunchRaises
  <2>15. CASE Register(j)
    BY <2>15 DEF Register
  <2>16. CASE RunnerGone(j)
    BY <2>16 DEF RunnerGone
  <2>17. CASE KillTimedOut(j)
    BY <2>17 DEF KillTimedOut
  <2>18. CASE Unregister(j)
    BY <2>18 DEF Unregister
  <2>19. CASE JudgeCancelled(j)
    BY <2>19 DEF JudgeCancelled
  <2>20. CASE JudgeOutput(j)
    BY <2>20 DEF JudgeOutput
  <2>21. QED
    BY <1>1, <2>1, <2>2, <2>3, <2>4, <2>5, <2>6, <2>7, <2>8, <2>9, <2>10, <2>11,
       <2>12, <2>13, <2>14, <2>15, <2>16, <2>17, <2>18, <2>19, <2>20 DEF Worker
<1>2. ASSUME NEW j \in Jobs, RunnerTimesOut(j) \/ Runner(j) PROVE LockInv'
  BY <1>2, RunnerFrame DEF TypeOK
<1>3. ASSUME NEW r \in Runs, CreateRun(r) \/ Collector(r) PROVE LockInv'
  BY <1>3, CollectorFrame DEF PairMoves
<1>4. ASSUME NEW r \in Runs, Canceller(r) PROVE LockInv'
  BY <1>4, CancellerFrame
<1>5. CASE Die
  <2>1. \A j \in Jobs : jpc'[j] \in {"new", "skipped", "collected", "lost"}
    BY <1>5 DEF Die, CollectorInv, JobsOf
  <2>2. QED
    BY <1>5, <2>1 DEF Die
<1>6. CASE UNCHANGED vars
  BY <1>6, VarsUnfold
<1>7. QED
  BY <1>1, <1>2, <1>3, <1>4, <1>5, <1>6 DEF Next

\* A runner lives only while a worker minds it or the orchestrator is dead.
LEMMA DispatchStep == ASSUME IInv, [Next]_vars PROVE DispatchInv'
<1> USE JobAssumption DEF IInv, DispatchInv, EndPCs, RunnerPCs, Live, Flagged
<1>1. ASSUME NEW j \in Jobs, Worker(j) PROVE DispatchInv'
  <2> USE DEF TypeOK, Goto, Yield, storeVars, ctlVars, colVars, jobVars, procVars, cancelVars, urlVars, sideVars
  <2>1. CASE Pick(j)
    BY <2>1 DEF Pick
  <2>2. CASE StartCancelled(j)
    BY <2>2 DEF StartCancelled
  <2>3. CASE StartFault(j)
    BY <2>3 DEF StartFault
  <2>4. CASE StartPlain(j)
    BY <2>4 DEF StartPlain
  <2>5. CASE AcquireLock(j)
    BY <2>5 DEF AcquireLock
  <2>6. CASE RecheckCancelled(j)
    BY <2>6 DEF RecheckCancelled
  <2>7. CASE RecheckGo(j)
    BY <2>7 DEF RecheckGo
  <2>8. CASE ResetProxies(j)
    BY <2>8 DEF ResetProxies, Cleared
  <2>9. CASE ResetRaises(j)
    BY <2>9 DEF ResetRaises, Cleared
  <2>10. CASE Leave(j)
    BY <2>10 DEF Leave
  <2>11. CASE MarkDone(j)
    BY <2>11 DEF MarkDone
  <2>12. CASE ResolveFails(j)
    BY <2>12 DEF ResolveFails
  <2>13. CASE Launch(j)
    BY <2>13 DEF Launch
  <2>14. CASE LaunchRaises(j)
    BY <2>14 DEF LaunchRaises
  <2>15. CASE Register(j)
    BY <2>15 DEF Register
  <2>16. CASE RunnerGone(j)
    BY <2>16 DEF RunnerGone
  <2>17. CASE KillTimedOut(j)
    BY <2>17 DEF KillTimedOut
  <2>18. CASE Unregister(j)
    BY <2>18 DEF Unregister
  <2>19. CASE JudgeCancelled(j)
    BY <2>19 DEF JudgeCancelled
  <2>20. CASE JudgeOutput(j)
    BY <2>20 DEF JudgeOutput, Verdicts
  <2>21. QED
    BY <1>1, <2>1, <2>2, <2>3, <2>4, <2>5, <2>6, <2>7, <2>8, <2>9, <2>10, <2>11,
       <2>12, <2>13, <2>14, <2>15, <2>16, <2>17, <2>18, <2>19, <2>20 DEF Worker
<1>2. ASSUME NEW j \in Jobs, RunnerTimesOut(j) \/ Runner(j) PROVE DispatchInv'
  <2>1. \A k \in Jobs : armed'[k] # {} => armed[k] # {} \/ k \in FaultJobs
    <3>1. ASSUME NEW p \in Proxies, RunnerArms(j, p)
          PROVE  \A k \in Jobs : armed'[k] # {} => armed[k] # {} \/ k \in FaultJobs
      BY <3>1 DEF RunnerArms, TypeOK
    <3>2. CASE RunnerExits(j)
      BY <3>2 DEF RunnerExits
    <3>3. CASE RunnerCrashes(j) \/ RunnerTimesOut(j)
      BY <3>3 DEF RunnerCrashes, RunnerTimesOut, procVars
    <3>4. QED
      BY <1>2, <3>1, <3>2, <3>3 DEF Runner
  <2>2. /\ UNCHANGED <<cancelled, procs, result>>
        /\ proc[j] = "live" /\ proc'[j] \in {"live", "exited", "crashed"}
        /\ \A k \in Jobs \ {j} : proc'[k] = proc[k] /\ jpc'[k] = jpc[k]
        /\ \/ jpc'[j] = jpc[j]
           \/ jpc[j] = "communicating" /\ jpc'[j] = "timedout"
    BY <1>2, RunnerFrame DEF TypeOK
  <2>3. QED
    BY <2>1, <2>2
<1>3. ASSUME NEW r \in Runs, CreateRun(r) \/ Collector(r) PROVE DispatchInv'
  BY <1>3, CollectorFrame DEF PairMoves
<1>4. ASSUME NEW r \in Runs, Canceller(r) PROVE DispatchInv'
  BY <1>4, CancellerFrame DEF TypeOK
<1>5. CASE Die
  <2>1. ASSUME NEW j \in Jobs, AtWork(j) PROVE jpc'[j] = "lost"
    BY <1>5, <2>1 DEF Die, AtWork, CollectorInv, JobsOf
  <2>2. \A j \in Jobs : proc'[j] = IF AtWork(j) THEN "live" ELSE "none"
    BY <1>5 DEF Die
  <2>3. \A j \in Jobs : /\ jpc'[j] \in {"new", "skipped", "collected", "lost"}
                         /\ armed'[j] = armed[j] /\ result'[j] = "none"
    BY <1>5 DEF Die, CollectorInv, JobsOf
  <2>4. procs' = {}
    BY <1>5 DEF Die
  <2>5. QED
    BY <2>1, <2>2, <2>3, <2>4
<1>6. CASE UNCHANGED vars
  BY <1>6, VarsUnfold
<1>7. QED
  BY <1>1, <1>2, <1>3, <1>4, <1>5, <1>6 DEF Next

\* A killed runner's run is flagged and its result can only be "cancelled".
LEMMA CancelStep == ASSUME IInv, [Next]_vars PROVE CancelInv'
<1> USE JobAssumption DEF IInv, CancelInv, Flagged
<1>1. ASSUME NEW j \in Jobs, Worker(j) PROVE CancelInv'
  <2> DEFINE Settles == proc'[j] = "killed" =>
                 /\ proc[j] = "killed"
                 /\ result'[j] = result[j] \/ result'[j] = "cancelled"
  <2> USE DEF TypeOK, Goto, Yield, storeVars, ctlVars, colVars, jobVars, procVars, cancelVars, urlVars, sideVars,
              DispatchInv, EndPCs, RunnerPCs
  <2>1. ASSUME Pick(j) PROVE Settles
    BY <2>1 DEF Pick
  <2>2. ASSUME StartCancelled(j) PROVE Settles
    BY <2>2 DEF StartCancelled
  <2>3. ASSUME StartFault(j) PROVE Settles
    BY <2>3 DEF StartFault
  <2>4. ASSUME StartPlain(j) PROVE Settles
    BY <2>4 DEF StartPlain
  <2>5. ASSUME AcquireLock(j) PROVE Settles
    BY <2>5 DEF AcquireLock
  <2>6. ASSUME RecheckCancelled(j) PROVE Settles
    BY <2>6 DEF RecheckCancelled
  <2>7. ASSUME RecheckGo(j) PROVE Settles
    BY <2>7 DEF RecheckGo
  <2>8. ASSUME ResetProxies(j) PROVE Settles
    BY <2>8 DEF ResetProxies
  <2>9. ASSUME ResetRaises(j) PROVE Settles
    BY <2>9 DEF ResetRaises
  <2>10. ASSUME Leave(j) PROVE Settles
    BY <2>10 DEF Leave
  <2>11. ASSUME MarkDone(j) PROVE Settles
    BY <2>11 DEF MarkDone
  <2>12. ASSUME ResolveFails(j) PROVE Settles
    BY <2>12 DEF ResolveFails
  <2>13. ASSUME Launch(j) PROVE Settles
    BY <2>13 DEF Launch
  <2>14. ASSUME LaunchRaises(j) PROVE Settles
    BY <2>14 DEF LaunchRaises
  <2>15. ASSUME Register(j) PROVE Settles
    BY <2>15 DEF Register
  <2>16. ASSUME RunnerGone(j) PROVE Settles
    BY <2>16 DEF RunnerGone
  <2>17. ASSUME KillTimedOut(j) PROVE Settles
    BY <2>17 DEF KillTimedOut
  <2>18. ASSUME Unregister(j) PROVE Settles
    BY <2>18 DEF Unregister
  <2>19. ASSUME JudgeCancelled(j) PROVE Settles
    BY <2>19 DEF JudgeCancelled
  <2>20. ASSUME JudgeOutput(j) PROVE Settles
    BY <2>20 DEF JudgeOutput, Verdicts
  <2>21. Settles
    BY <1>1, <2>1, <2>2, <2>3, <2>4, <2>5, <2>6, <2>7, <2>8, <2>9, <2>10, <2>11,
       <2>12, <2>13, <2>14, <2>15, <2>16, <2>17, <2>18, <2>19, <2>20 DEF Worker
  <2>22. QED
    BY <1>1, <2>21, WorkerFrame
<1>2. ASSUME NEW j \in Jobs, RunnerTimesOut(j) \/ Runner(j) PROVE CancelInv'
  BY <1>2, RunnerFrame
<1>3. ASSUME NEW r \in Runs, CreateRun(r) \/ Collector(r) PROVE CancelInv'
  <2>1. \A q \in Runs : db[q] # "none" => db'[q] # "none"
    BY <1>3 DEF TypeOK, CreateRun, Collector, SaveSkipped, Submit, Collect,
       CollectRaises, PublishControl, ReadVerdict, FinishRun, DropControl, storeVars,
       CollectorInv, Terminal
  <2>2. QED
    BY <1>3, <2>1, CollectorFrame
<1>4. ASSUME NEW r \in Runs, Canceller(r) PROVE CancelInv'
  <2> USE DEF TypeOK, storeVars, ctlVars, colVars, jobVars, procVars, cancelVars, urlVars, sideVars
  <2>1. CASE CancelInactive(r)
    BY <2>1 DEF CancelInactive
  <2>2. CASE CancelFound(r)
    BY <2>2 DEF CancelFound
  <2>3. CASE CancelFlag(r)
    BY <2>3 DEF CancelFlag
  <2>4. CASE CancelSnapshot(r)
    BY <2>4 DEF CancelSnapshot, JobsOf
  <2>5. ASSUME NEW j \in JobsOf(r), CancelKill(r, j) PROVE CancelInv'
    <3>1. UNCHANGED <<db, cancelled, canceller, result>>
      BY <2>5 DEF CancelKill
    <3>2. \A q \in Runs : targets'[q] \subseteq targets[q]
      BY <2>5 DEF CancelKill
    <3>3. \A k \in Jobs : proc'[k] = proc[k] \/ (k = j /\ Live(j))
      BY <2>5 DEF CancelKill, Live, JobsOf
    <3>4. Flagged(j)
      BY <2>5 DEF CancelKill, JobsOf
    <3>5. Live(j) => result[j] = "none"
      BY DEF DispatchInv, RunnerPCs, EndPCs, JobsOf, Live
    <3>6. QED
      BY <3>1, <3>2, <3>3, <3>4, <3>5
  <2>6. CASE CancelReturns(r)
    BY <2>6 DEF CancelReturns
  <2>7. QED
    BY <1>4, <2>1, <2>2, <2>3, <2>4, <2>5, <2>6 DEF Canceller
<1>5. CASE Die
  BY <1>5 DEF Die
<1>6. CASE UNCHANGED vars
  BY <1>6, VarsUnfold
<1>7. QED
  BY <1>1, <1>2, <1>3, <1>4, <1>5, <1>6 DEF Next

\* The environment is written under the lock only, so that from its reset to
\* its runner's end a fault job's URL names one Toxiproxy.
LEMMA UrlStep == ASSUME IInv, [Next]_vars PROVE UrlInv'
<1> USE JobAssumption DEF IInv, UrlInv, RunnerPCs
<1>1. ASSUME NEW j \in Jobs, Worker(j) PROVE UrlInv'
  <2> USE DEF TypeOK, storeVars, ctlVars, colVars, jobVars, procVars, cancelVars, urlVars, sideVars,
              Goto, Yield, LockInv, LockedPCs, AdminUrl, OrElse
  <2>1. CASE Pick(j)
    BY <2>1 DEF Pick
  <2>2. CASE StartCancelled(j)
    BY <2>2 DEF StartCancelled
  <2>3. CASE StartFault(j)
    BY <2>3 DEF StartFault
  <2>4. CASE StartPlain(j)
    BY <2>4 DEF StartPlain
  <2>5. CASE AcquireLock(j)
    BY <2>5 DEF AcquireLock
  <2>6. CASE RecheckCancelled(j)
    BY <2>6 DEF RecheckCancelled
  <2>7. CASE RecheckGo(j)
    BY <2>7 DEF RecheckGo
  <2>8. CASE ResetProxies(j)
    BY <2>8 DEF ResetProxies, PointEnv
  <2>9. CASE ResetRaises(j)
    BY <2>9 DEF ResetRaises, PointEnv
  <2>10. CASE Leave(j)
    BY <2>10 DEF Leave
  <2>11. CASE MarkDone(j)
    BY <2>11 DEF MarkDone
  <2>12. CASE ResolveFails(j)
    BY <2>12 DEF ResolveFails
  <2>13. CASE Launch(j)
    BY <2>13 DEF Launch
  <2>14. CASE LaunchRaises(j)
    BY <2>14 DEF LaunchRaises
  <2>15. CASE Register(j)
    BY <2>15 DEF Register
  <2>16. CASE RunnerGone(j)
    BY <2>16 DEF RunnerGone
  <2>17. CASE KillTimedOut(j)
    BY <2>17 DEF KillTimedOut
  <2>18. CASE Unregister(j)
    BY <2>18 DEF Unregister
  <2>19. CASE JudgeCancelled(j)
    BY <2>19 DEF JudgeCancelled
  <2>20. CASE JudgeOutput(j)
    BY <2>20 DEF JudgeOutput
  <2>21. QED
    BY <1>1, <2>1, <2>2, <2>3, <2>4, <2>5, <2>6, <2>7, <2>8, <2>9, <2>10, <2>11,
       <2>12, <2>13, <2>14, <2>15, <2>16, <2>17, <2>18, <2>19, <2>20 DEF Worker
<1>2. ASSUME NEW j \in Jobs, RunnerTimesOut(j) \/ Runner(j) PROVE UrlInv'
  <2>1. /\ UNCHANGED <<env, url, cleared, site>>
        /\ \/ jpc' = jpc
           \/ jpc[j] = "communicating" /\ jpc' = [jpc EXCEPT ![j] = "timedout"]
    BY <1>2, RunnerFrame
  <2>2. QED
    BY <2>1 DEF TypeOK, AdminUrl
<1>3. ASSUME NEW r \in Runs, CreateRun(r) \/ Collector(r) PROVE UrlInv'
  <2>1. \A j \in FaultJobs : jpc'[j] \in {"dispatching"} \cup RunnerPCs
                             => /\ jpc'[j] = jpc[j]
                                /\ url'[RunOf[j]] = url[RunOf[j]]
    <3>1. CASE CreateRun(r)
      BY <3>1 DEF CreateRun, TypeOK, jobVars, CollectorInv, JobsOf
    <3>2. CASE Collector(r)
      <4>1. UNCHANGED url
        BY <3>2 DEF Collector, SaveSkipped, Submit, Collect, CollectRaises,
           PublishControl, ReadVerdict, FinishRun, DropControl, sideVars, urlVars
      <4>2. QED
        BY <1>3, <4>1, CollectorFrame DEF PairMoves
    <3>3. QED
      BY <1>3, <3>1, <3>2
  <2>2. QED
    BY <1>3, <2>1, CollectorFrame DEF AdminUrl
<1>4. ASSUME NEW r \in Runs, Canceller(r) PROVE UrlInv'
  BY <1>4, CancellerFrame DEF AdminUrl
<1>5. CASE Die
  <2>1. \A j \in Jobs : jpc'[j] \in {"new", "skipped", "collected", "lost"}
    BY <1>5 DEF Die, CollectorInv, JobsOf
  <2>2. QED
    BY <2>1
<1>6. CASE UNCHANGED vars
  BY <1>6, VarsUnfold DEF AdminUrl
<1>7. QED
  BY <1>1, <1>2, <1>3, <1>4, <1>5, <1>6 DEF Next

\* A reset that reaches every proxy leaves nothing for its runner to meet, and
\* nobody else attended can arm a fault while the lock is held.
LEMMA CleanStep == ASSUME IInv, [Next]_vars PROVE CleanInv'
<1> USE JobAssumption DEF IInv, CleanInv, RunnerPCs
<1>1. ASSUME NEW j \in Jobs, Worker(j) PROVE CleanInv'
  <2> DEFINE Quiet ==
        /\ UNCHANGED <<armed, site, cleared>>
        /\ j \in FaultJobs /\ jpc'[j] \in {"dispatching"} \cup RunnerPCs
             => jpc[j] \in {"dispatching"} \cup RunnerPCs
        /\ ~Lost(j)
        /\ \A k \in Jobs \ {j} : jpc'[k] = jpc[k] /\ proc'[k] = proc[k]
  <2> USE DEF TypeOK, storeVars, ctlVars, colVars, jobVars, procVars, cancelVars, urlVars, sideVars,
              Goto, Yield, LockInv, LockedPCs, Lost
  <2>1. ASSUME Pick(j) PROVE Quiet
    BY <2>1 DEF Pick
  <2>2. ASSUME StartCancelled(j) PROVE Quiet
    BY <2>2 DEF StartCancelled
  <2>3. ASSUME StartFault(j) PROVE Quiet
    BY <2>3 DEF StartFault
  <2>4. ASSUME StartPlain(j) PROVE Quiet
    BY <2>4 DEF StartPlain
  <2>5. ASSUME AcquireLock(j) PROVE Quiet
    BY <2>5 DEF AcquireLock
  <2>6. ASSUME RecheckCancelled(j) PROVE Quiet
    BY <2>6 DEF RecheckCancelled
  <2>7. ASSUME RecheckGo(j) PROVE Quiet
    BY <2>7 DEF RecheckGo
  <2>8. ASSUME Leave(j) PROVE Quiet
    BY <2>8 DEF Leave
  <2>9. ASSUME MarkDone(j) PROVE Quiet
    BY <2>9 DEF MarkDone
  <2>10. ASSUME ResolveFails(j) PROVE Quiet
    BY <2>10 DEF ResolveFails
  <2>11. ASSUME LaunchRaises(j) PROVE Quiet
    BY <2>11 DEF LaunchRaises
  <2>12. ASSUME Register(j) PROVE Quiet
    BY <2>12 DEF Register
  <2>13. ASSUME RunnerGone(j) PROVE Quiet
    BY <2>13 DEF RunnerGone
  <2>14. ASSUME KillTimedOut(j) PROVE Quiet
    BY <2>14 DEF KillTimedOut
  <2>15. ASSUME Unregister(j) PROVE Quiet
    BY <2>15 DEF Unregister
  <2>16. ASSUME JudgeCancelled(j) PROVE Quiet
    BY <2>16 DEF JudgeCancelled
  <2>17. ASSUME JudgeOutput(j) PROVE Quiet
    BY <2>17 DEF JudgeOutput
  <2>18. ASSUME Quiet PROVE CleanInv'
    <3>1. \A k \in Jobs : LeftBehind(k) => LeftBehind(k)'
      BY <2>18 DEF LeftBehind
    <3>2. \A k \in FaultJobs : jpc'[k] \in {"dispatching"} \cup RunnerPCs
                           => jpc[k] \in {"dispatching"} \cup RunnerPCs
      BY <2>18
    <3>3. UNCHANGED <<armed, site, cleared>>
      BY <2>18
    <3>4. QED
      BY <3>1, <3>2, <3>3 DEF FoundAt
  <2>19. \A k \in FaultJobs \ {j} : j \in FaultJobs /\ jpc[j] \in LockedPCs
                => jpc[k] \notin {"dispatching"} \cup RunnerPCs
    OBVIOUS
  <2>20. CASE ResetProxies(j)
    <3>1. /\ cleared'[j] = AdminUrl(j) /\ site' = site
          /\ \A k \in Jobs : armed'[k] = {p \in armed[k] :
                                ~(p \in Reachable /\ FoundAt(k, p, AdminUrl(j)))}
      BY <2>20 DEF ResetProxies, PointEnv, Cleared
    <3>2. j \in FaultJobs /\ jpc[j] = "resetting" /\ jpc' = [jpc EXCEPT ![j] = "dispatching"]
      BY <2>20 DEF ResetProxies
    <3>3. \A k \in Jobs : armed[k] \subseteq Proxies
      OBVIOUS
    <3>4. QED
      BY <3>1, <3>2, <3>3, <2>19 DEF FoundAt
  <2>21. CASE ResetRaises(j)
    <3>1. \A k \in FaultJobs : jpc'[k] \notin {"dispatching"} \cup RunnerPCs
      BY <2>21, <2>19 DEF ResetRaises
    <3>2. QED
      BY <3>1
  <2>22. CASE Launch(j)
    <3>1. /\ UNCHANGED <<armed, cleared>>
          /\ jpc[j] = "dispatching" /\ jpc' = [jpc EXCEPT ![j] = "spawned"]
          /\ \A k \in Jobs \ {j} : site'[k] = site[k] /\ proc'[k] = proc[k]
      BY <2>22 DEF Launch
    <3>2. j \notin FaultJobs => armed[j] = {}
      BY DEF DispatchInv
    <3>3. QED
      BY <3>1, <3>2, <2>19 DEF FoundAt, LeftBehind
  <2>23. QED
    BY <1>1, <2>1, <2>2, <2>3, <2>4, <2>5, <2>6, <2>7, <2>8, <2>9, <2>10, <2>11,
       <2>12, <2>13, <2>14, <2>15, <2>16, <2>17, <2>18, <2>19, <2>20, <2>21,
       <2>22 DEF Worker
<1>2. ASSUME NEW j \in Jobs, RunnerTimesOut(j) \/ Runner(j) PROVE CleanInv'
  <2>1. \A k \in Jobs : LeftBehind(k) => LeftBehind(k)'
    BY <1>2, RunnerFrame DEF LeftBehind, Lost, TypeOK
  <2>2. \A k \in FaultJobs : jpc'[k] \in {"dispatching"} \cup RunnerPCs
                         => jpc[k] \in {"dispatching"} \cup RunnerPCs
    BY <1>2, RunnerFrame DEF TypeOK
  <2>3. ASSUME NEW p \in Proxies, RunnerArms(j, p) PROVE CleanInv'
    <3>1. \A k \in Jobs \ {j} : armed'[k] = armed[k]
      BY <2>3 DEF RunnerArms, TypeOK
    <3>2. Live(j) /\ j \in FaultJobs /\ jpc[j] \in {"communicating", "timedout", "lost"}
      BY <2>3 DEF RunnerArms, AtWork
    <3>3. \A k \in FaultJobs \ {j} : jpc[k] \in {"dispatching"} \cup RunnerPCs
                                    => LeftBehind(j)
      BY <3>2 DEF LockInv, LockedPCs, LeftBehind, Lost, Live
    <3>4. UNCHANGED <<site, cleared>>
      BY <1>2, RunnerFrame
    <3>5. QED
      BY <2>1, <2>2, <3>1, <3>3, <3>4 DEF FoundAt
  <2>4. CASE RunnerExits(j) \/ RunnerCrashes(j) \/ RunnerTimesOut(j)
    <3>1. \A k \in Jobs : armed'[k] \subseteq armed[k]
      BY <2>4 DEF RunnerExits, RunnerCrashes, RunnerTimesOut, procVars
    <3>2. UNCHANGED <<site, cleared>>
      BY <1>2, RunnerFrame
    <3>3. QED
      BY <2>1, <2>2, <3>1, <3>2 DEF FoundAt
  <2>5. QED
    BY <1>2, <2>3, <2>4 DEF Runner
<1>3. ASSUME NEW r \in Runs, CreateRun(r) \/ Collector(r) PROVE CleanInv'
  BY <1>3, CollectorFrame DEF PairMoves, LeftBehind, Lost, FoundAt
<1>4. ASSUME NEW r \in Runs, Canceller(r) PROVE CleanInv'
  BY <1>4, CancellerFrame DEF LeftBehind, Lost, FoundAt, Live
<1>5. CASE Die
  <2>1. \A j \in Jobs : jpc'[j] \in {"new", "skipped", "collected", "lost"}
    BY <1>5 DEF Die, CollectorInv, JobsOf
  <2>2. QED
    BY <2>1
<1>6. CASE UNCHANGED vars
  BY <1>6, VarsUnfold DEF LeftBehind, Lost, FoundAt
<1>7. QED
  BY <1>1, <1>2, <1>3, <1>4, <1>5, <1>6 DEF Next

\* The collector's phases, the rows and the final status stay in step with the
\* jobs.
LEMMA CollectorStep ==
    ASSUME IInv, [Next]_vars
    PROVE  CollectorInv' /\ SkippedInv' /\ FinalStatusAgrees'
<1> USE JobAssumption
    DEF IInv, CollectorInv, SkippedInv, FinalStatusAgrees, Terminal, JobsOf,
        PlannedOf, RowsOf
<1>1. ASSUME NEW j \in Jobs, Worker(j)
      PROVE  CollectorInv' /\ SkippedInv' /\ FinalStatusAgrees'
  <2>1. /\ UNCHANGED <<db, rows, cancelled, col, verdict>>
        /\ jpc[j] \notin {"new", "skipped", "collected", "lost"}
        /\ jpc'[j] \notin {"new", "skipped", "collected"}
        /\ \A k \in Jobs \ {j} : jpc'[k] = jpc[k]
    <3>1. PICK pc \in WorkerPCs \cup {"finished"} : jpc' = [jpc EXCEPT ![j] = pc]
      BY <1>1, WorkerFrame
    <3>2. jpc[j] \in {"queued"} \cup WorkerPCs
      BY <1>1, WorkerFrame
    <3>3. UNCHANGED <<db, rows, cancelled, col, verdict>>
      BY <1>1, WorkerFrame
    <3>4. QED
      BY <3>1, <3>2, <3>3 DEF WorkerPCs, LockedPCs, TypeOK
  <2>2. QED
    BY <2>1
<1>2. ASSUME NEW j \in Jobs, RunnerTimesOut(j) \/ Runner(j)
      PROVE  CollectorInv' /\ SkippedInv' /\ FinalStatusAgrees'
  <2>1. /\ UNCHANGED <<db, rows, cancelled, col, verdict>>
        /\ \A k \in Jobs : \/ jpc'[k] = jpc[k]
                           \/ jpc[k] = "communicating" /\ jpc'[k] = "timedout"
    BY <1>2, RunnerFrame DEF TypeOK
  <2>2. QED
    BY <2>1
<1>3. ASSUME NEW r \in Runs, CreateRun(r)
      PROVE  CollectorInv' /\ SkippedInv' /\ FinalStatusAgrees'
  <2>1. /\ UNCHANGED <<rows, cancelled, verdict, jpc>>
        /\ db[r] = "none" /\ db'[r] = "running" /\ col'[r] = "expand"
        /\ \A q \in Runs \ {r} : db'[q] = db[q] /\ col'[q] = col[q]
    BY <1>3 DEF CreateRun, TypeOK, storeVars, ctlVars, colVars, jobVars, procVars, cancelVars, urlVars, sideVars
  <2>2. QED
    BY <2>1
<1>4. ASSUME NEW r \in Runs, Collector(r)
      PROVE  CollectorInv' /\ SkippedInv' /\ FinalStatusAgrees'
  <2> USE DEF TypeOK, Goto, storeVars, ctlVars, colVars, jobVars, procVars, cancelVars, urlVars, sideVars
  <2>1. ASSUME NEW j \in JobsOf(r), SaveSkipped(r, j)
        PROVE  CollectorInv' /\ SkippedInv' /\ FinalStatusAgrees'
    BY <2>1 DEF SaveSkipped
  <2>2. ASSUME NEW j \in JobsOf(r), Submit(r, j)
        PROVE  CollectorInv' /\ SkippedInv' /\ FinalStatusAgrees'
    BY <2>2 DEF Submit
  <2>3. ASSUME NEW j \in JobsOf(r), Collect(r, j)
        PROVE  CollectorInv' /\ SkippedInv' /\ FinalStatusAgrees'
    <3>1. result[j] = "cancelled" => cancelled[r]
      BY <2>3 DEF DispatchInv, Flagged
    <3>2. CollectorInv'
      BY <2>3, <3>1 DEF Collect
    <3>3. SkippedInv'
      BY <2>3 DEF Collect
    <3>4. FinalStatusAgrees'
      BY <2>3 DEF Collect
    <3>5. QED
      BY <3>2, <3>3, <3>4
  <2>4. ASSUME NEW j \in JobsOf(r), CollectRaises(r, j)
        PROVE  CollectorInv' /\ SkippedInv' /\ FinalStatusAgrees'
    BY <2>4 DEF CollectRaises
  <2>5. CASE PublishControl(r)
    BY <2>5 DEF PublishControl
  <2>6. CASE ReadVerdict(r)
    BY <2>6 DEF ReadVerdict
  <2>7. CASE FinishRun(r)
    BY <2>7 DEF FinishRun
  <2>8. CASE DropControl(r)
    BY <2>8 DEF DropControl
  <2>9. QED
    BY <1>4, <2>1, <2>2, <2>3, <2>4, <2>5, <2>6, <2>7, <2>8 DEF Collector
<1>5. ASSUME NEW r \in Runs, Canceller(r)
      PROVE  CollectorInv' /\ SkippedInv' /\ FinalStatusAgrees'
  <2>1. UNCHANGED <<db, rows, col, verdict, jpc>>
    BY <1>5, CancellerFrame
  <2>2. \A q \in Runs : cancelled[q] => cancelled'[q]
    BY <1>5, CancellerFrame
  <2>3. QED
    BY <2>1, <2>2
<1>6. CASE Die
  <2>1. /\ UNCHANGED <<db, rows>>
        /\ \A r \in Runs : col'[r] = IF col[r] = "idle" THEN "idle" ELSE "closed"
        /\ \A j \in Jobs : \/ jpc'[j] = jpc[j]
                           \/ /\ col[RunOf[j]] # "idle" /\ jpc'[j] = "lost"
                              /\ jpc[j] \notin {"skipped", "collected"}
    BY <1>6 DEF Die, storeVars, TypeOK
  <2>2. SkippedInv' /\ FinalStatusAgrees'
    BY <2>1
  <2>3. ASSUME NEW r \in Runs, col[r] = "idle", NEW j \in JobsOf(r)
        PROVE  jpc'[j] = "new"
    BY <2>1, <2>3
  <2>4. ASSUME NEW r \in Runs, db[r] \in Terminal, NEW j \in JobsOf(r)
        PROVE  jpc'[j] \in {"skipped", "collected"}
    BY <2>1, <2>4
  <2>5. CollectorInv'
    BY <2>1, <2>3, <2>4
  <2>6. QED
    BY <2>2, <2>5
<1>7. CASE UNCHANGED vars
  BY <1>7, VarsUnfold
<1>8. QED
  BY <1>1, <1>2, <1>3, <1>4, <1>5, <1>6, <1>7 DEF Next

\* Every step of a collector, a worker, a runner or a cancel, and the death of
\* the process, keeps the invariant.
LEMMA StepIInv == IInv /\ [Next]_vars => IInv'
BY StepTypeOK, LockStep, DispatchStep, CancelStep, UrlStep, CleanStep, CollectorStep
   DEF IInv

\* The inductive invariant holds of every reachable state.
THEOREM InductiveInvariant == Spec => []IInv
<1>1. Init => IInv
  BY InitIInv
<1>2. QED
  BY <1>1, StepIInv, PTL DEF Spec

\* An attended runner's job is in dispatch; a fault job there holds the lock.
LEMMA AttendedInside ==
    ASSUME IInv, NEW j \in Jobs, Attended(j)
    PROVE  jpc[j] \in RunnerPCs /\ (j \in FaultJobs => lock = j)
BY DEF IInv, LockInv, DispatchInv, Attended, Live, Lost, LockedPCs, RunnerPCs

\* Mutual exclusion: never two attended fault runners, for any pool and any
\* number of runs (main.py 43-50).
THEOREM FaultExclusion == Spec => []OneFaultRunner
<1>1. IInv => OneFaultRunner
  BY JobAssumption, AttendedInside DEF OneFaultRunner
<1>2. QED
  BY <1>1, InductiveInvariant, PTL

\* Where the reset reaches every proxy, a live fault scenario never shares the
\* proxies with another's armed faults (main.py 111-133).
THEOREM NoBleed ==
    ASSUME Reachable = Proxies
    PROVE  Spec => []NoFaultBleed
<1>1. IInv => NoFaultBleed
  <2> SUFFICES ASSUME IInv, NEW j \in FaultJobs, NEW k \in Jobs,
                      Attended(j), k # j, ~LeftBehind(k), NEW p \in armed[k]
               PROVE  ~FoundAt(k, p, site[j])
    BY DEF NoFaultBleed
  <2>1. jpc[j] \in RunnerPCs
    BY AttendedInside, JobAssumption
  <2>2. ~FoundAt(k, p, cleared[j])
    BY <2>1 DEF IInv, CleanInv
  <2>3. QED
    BY <2>1, <2>2 DEF IInv, UrlInv
<1>2. QED
  BY <1>1, InductiveInvariant, PTL

\* The Toxiproxy a fault job's reset cleared is the one its runner arms, through
\* whatever other runs write into the environment (main.py 122-126).
THEOREM ResetMeetsRunner == Spec => []ResetReachesOwnProxy
<1>1. IInv => ResetReachesOwnProxy
  BY JobAssumption, AttendedInside DEF IInv, UrlInv, ResetReachesOwnProxy
<1>2. QED
  BY <1>1, InductiveInvariant, PTL

\* A runner killed by a cancel is reported as cancelled, never as an error.
THEOREM CancelNotError == Spec => []NoSpuriousError
<1>1. IInv => NoSpuriousError
  BY DEF IInv, CancelInv, NoSpuriousError
<1>2. QED
  BY <1>1, InductiveInvariant, PTL

\* The final status of a run agrees with a complete set of rows.
THEOREM StatusAgrees == Spec => []FinalStatusAgrees
<1>1. IInv => FinalStatusAgrees
  BY DEF IInv
<1>2. QED
  BY <1>1, InductiveInvariant, PTL

\* No runner outlives the final status of its run.
THEOREM QuietAfterFinish == Spec => []NothingLiveAfterFinish
<1>1. IInv => NothingLiveAfterFinish
  <2> SUFFICES ASSUME IInv, NEW r \in Runs, db[r] \in Terminal,
                      NEW j \in JobsOf(r)
               PROVE  ~Live(j) /\ j \notin procs
    BY DEF NothingLiveAfterFinish
  <2>1. jpc[j] \in {"collected", "skipped"}
    BY DEF IInv, CollectorInv
  <2>2. QED
    BY <2>1 DEF IInv, DispatchInv, JobsOf, Live, RunnerPCs
<1>2. QED
  BY <1>1, InductiveInvariant, PTL

\* No reset removes the faults of a live fault runner.
THEOREM Undisturbed == Spec => FaultsUndisturbed
<1> DEFINE Kept == \A j \in FaultJobs :
                      /\ Attended(j) /\ Attended(j)'
                      /\ \A k \in FaultJobs : Lost(k) => ~Live(k)
                      => armed[j] \subseteq armed'[j]
<1>1. IInv /\ [Next]_vars => [Kept]_vars
  <2> SUFFICES ASSUME IInv, Next, NEW j \in FaultJobs, Attended(j),
                      Attended(j)', \A k \in FaultJobs : Lost(k) => ~Live(k)
               PROVE  armed[j] \subseteq armed'[j]
    OBVIOUS
  <2>0. TypeOK
    BY DEF IInv
  <2>1. j \in Jobs /\ lock = j /\ jpc[j] \in RunnerPCs
    BY JobAssumption, AttendedInside
  <2>2. \A k \in Jobs : jpc[k] # "resetting"
    BY <2>1, JobAssumption DEF IInv, LockInv, LockedPCs, RunnerPCs
  <2>3. \A k \in FaultJobs : Live(k) => k = j
    BY <2>1, AttendedInside, JobAssumption DEF Attended
  <2> USE DEF procVars
  <2>4. ASSUME NEW r \in Runs, CreateRun(r) \/ Collector(r) PROVE armed' = armed
    BY <2>0, <2>4, CollectorFrame
  <2>5. ASSUME NEW r \in Runs, Canceller(r) PROVE armed' = armed
    BY <2>0, <2>5, CancellerFrame
  <2>6. ASSUME NEW k \in Jobs, Worker(k) PROVE armed' = armed
    BY <2>2, <2>6 DEF Worker, Pick, StartCancelled, StartFault, StartPlain, AcquireLock,
       RecheckCancelled, RecheckGo, ResetProxies, ResetRaises, Leave,
       MarkDone, ResolveFails, Launch, LaunchRaises, Register, RunnerGone,
       KillTimedOut, Unregister, JudgeCancelled, JudgeOutput
  <2>7. ASSUME NEW k \in Jobs, Runner(k) PROVE armed[j] \subseteq armed'[j]
    <3>1. ASSUME NEW p \in Proxies, RunnerArms(k, p) PROVE armed[j] \subseteq armed'[j]
      BY <2>0, <2>1, <3>1 DEF RunnerArms, TypeOK
    <3>2. CASE RunnerExits(k)
      <4>1. k # j
        BY <2>0, <2>1, <3>2 DEF RunnerExits, TypeOK, Attended, Live
      <4>2. k \notin FaultJobs
        BY <4>1, <2>3, <3>2 DEF RunnerExits, AtWork
      <4>3. QED
        BY <2>1, <3>2, <4>1, <4>2 DEF RunnerExits
    <3>3. CASE RunnerCrashes(k)
      BY <3>3 DEF RunnerCrashes
    <3>4. QED
      BY <2>7, <3>1, <3>2, <3>3 DEF Runner
  <2>8. ASSUME NEW k \in Jobs, RunnerTimesOut(k) PROVE armed' = armed
    BY <2>8 DEF RunnerTimesOut
  <2>9. CASE Die
    BY <2>9 DEF Die
  <2>10. QED
    BY <2>4, <2>5, <2>6, <2>7, <2>8, <2>9 DEF Next
<1>2. QED
  BY <1>1, InductiveInvariant, PTL DEF Spec, FaultsUndisturbed

\* Refinement: every step of the threads is a step of the run lifecycle the
\* API promises, or leaves the two tables and the flags alone.
LEMMA StepImplements ==
    IInv /\ [Next]_vars => [Lifecycle!Next]_(Lifecycle!avars)
<1> SUFFICES ASSUME IInv, [Next]_vars
             PROVE  [Lifecycle!Next]_(Lifecycle!avars)
  OBVIOUS
<1>0. TypeOK
  BY DEF IInv
<1> DEFINE Open == {r \in Runs : col[r] \in {"expand", "active", "verdict"}}
<1> USE DEF storeVars, ctlVars, colVars, Lifecycle!avars
<1>1. ASSUME NEW r \in Runs, CreateRun(r) PROVE Lifecycle!Open(r)
  <2>1. Open' = Open \cup {r}
    BY <1>0, <1>1 DEF CreateRun, TypeOK
  <2>2. QED
    BY <1>1, <2>1 DEF CreateRun, Lifecycle!Open
<1>2. ASSUME NEW r \in Runs, NEW j \in JobsOf(r), SaveSkipped(r, j)
      PROVE  Lifecycle!Record(r, RowOf[j], "skip")
  BY <1>2 DEF SaveSkipped, Lifecycle!Record
<1>3. ASSUME NEW r \in Runs, NEW j \in JobsOf(r), Collect(r, j)
      PROVE  Lifecycle!Record(r, RowOf[j], result[j])
  <2>1. result[j] = "cancelled" => cancelled[r]
    BY DEF IInv, DispatchInv, Flagged, JobsOf
  <2>2. QED
    BY <1>3, <2>1 DEF Collect, Lifecycle!Record
<1>4. ASSUME NEW r \in Runs, FinishRun(r) PROVE Lifecycle!Close(r, verdict[r])
  <2>1. /\ verdict[r] = "cancelled" => cancelled[r]
        /\ verdict[r] = "completed" => \A k \in RowsOf(r) : rows[r][k] # "cancelled"
    BY <1>4 DEF FinishRun, IInv, CollectorInv
  <2>2. ASSUME NEW j \in JobsOf(r) PROVE rows[r][RowOf[j]] # "none"
    BY <1>4 DEF FinishRun, IInv, CollectorInv, PlannedOf, JobsOf
  <2>3. r \in Open /\ Open' = Open \ {r}
    BY <1>0, <1>4 DEF FinishRun, TypeOK
  <2>4. QED
    BY <1>4, <2>1, <2>2, <2>3 DEF FinishRun, Lifecycle!Close, RowsOf
<1>5. ASSUME NEW r \in Runs, CancelFlag(r) PROVE Lifecycle!RequestCancel(r)
  BY <1>5 DEF CancelFlag, Lifecycle!RequestCancel, IInv, CancelInv
<1>6. ASSUME NEW r \in Runs, NEW j \in JobsOf(r), CollectRaises(r, j)
      PROVE  Lifecycle!Abandon(r)
  <2>1. Open' = Open \ {r}
    BY <1>0, <1>6 DEF CollectRaises, TypeOK
  <2>2. QED
    BY <1>6, <2>1 DEF CollectRaises, Lifecycle!Abandon
<1>7. ASSUME Die PROVE Lifecycle!Restart
  <2>1. Open' = {}
    BY <1>7 DEF Die
  <2>2. QED
    BY <1>7, <2>1 DEF Die, Lifecycle!Restart
<1>8. ASSUME NEW r \in Runs, NEW j \in JobsOf(r), Submit(r, j)
      PROVE  UNCHANGED Lifecycle!avars
  BY <1>8 DEF Submit
<1>9. ASSUME NEW r \in Runs, PublishControl(r) \/ ReadVerdict(r) \/ DropControl(r)
      PROVE  UNCHANGED Lifecycle!avars
  <2>1. Open' = Open
    BY <1>0, <1>9 DEF PublishControl, ReadVerdict, DropControl, TypeOK
  <2>2. QED
    BY <1>9, <2>1 DEF PublishControl, ReadVerdict, DropControl
<1>10. ASSUME NEW r \in Runs,
              \/ CancelInactive(r) \/ CancelFound(r) \/ CancelSnapshot(r)
              \/ CancelReturns(r) \/ \E j \in JobsOf(r) : CancelKill(r, j)
       PROVE  UNCHANGED Lifecycle!avars
  BY <1>10 DEF CancelInactive, CancelFound, CancelSnapshot, CancelReturns, CancelKill
<1>11. ASSUME NEW j \in Jobs, Worker(j) \/ RunnerTimesOut(j) \/ Runner(j)
       PROVE  UNCHANGED Lifecycle!avars
  BY <1>0, <1>11, WorkerFrame, RunnerFrame
<1>12. ASSUME NEW r \in Runs, CreateRun(r) \/ Collector(r) \/ Canceller(r)
       PROVE  [Lifecycle!Next]_(Lifecycle!avars)
  <2>1. CASE CreateRun(r)
    BY <2>1, <1>1 DEF Lifecycle!Next
  <2>2. ASSUME NEW j \in JobsOf(r), SaveSkipped(r, j) PROVE Lifecycle!Next
    BY <1>2, <2>2 DEF Lifecycle!Next, RowsOf, Lifecycle!RowStatus
  <2>3. ASSUME NEW j \in JobsOf(r), Collect(r, j) PROVE Lifecycle!Next
    <3>1. result[j] \in Lifecycle!RowStatus \ {"none"} /\ RowOf[j] \in RowsOf(r)
      BY <2>3 DEF Collect, Lifecycle!RowStatus, RowsOf
    <3>2. QED
      BY <1>3, <2>3, <3>1 DEF Lifecycle!Next
  <2>4. ASSUME FinishRun(r) PROVE Lifecycle!Next
    <3>1. verdict[r] \in Lifecycle!Terminal
      BY <2>4 DEF FinishRun, IInv, CollectorInv, Terminal, Lifecycle!Terminal
    <3>2. Lifecycle!Close(r, verdict[r])
      BY <1>4, <2>4
    <3>3. \E v \in Lifecycle!Terminal : Lifecycle!Close(r, v)
      BY <3>1, <3>2 DEF Lifecycle!Close
    <3>4. QED
      BY <3>3 DEF Lifecycle!Next
  <2>5. CASE CancelFlag(r)
    BY <2>5, <1>5 DEF Lifecycle!Next
  <2>6. ASSUME NEW j \in JobsOf(r), CollectRaises(r, j) PROVE Lifecycle!Next
    BY <2>6, <1>6 DEF Lifecycle!Next
  <2>7. QED
    BY <1>12, <1>8, <1>9, <1>10, <2>1, <2>2, <2>3, <2>4, <2>5, <2>6
       DEF Collector, Canceller
<1>13. CASE Die
  BY <1>13, <1>7 DEF Lifecycle!Next
<1>14. CASE UNCHANGED vars
  BY <1>14, VarsUnfold
<1>15. QED
  BY <1>11, <1>12, <1>13, <1>14 DEF Next

\* The run engine keeps the promise of RunLifecycle: every step of main.py and
\* the dispatcher is a step of the run's life or changes nothing of it.
THEOREM Implements == Spec => LifecycleSpec
<1>1. Init => Lifecycle!Init
  BY DEF Init, Lifecycle!Init
<1>2. QED
  BY <1>1, StepImplements, InductiveInvariant, PTL
     DEF Spec, LifecycleSpec, Lifecycle!Spec
-----------------------------------------------------------------------------
(* What the API tells of a run against what its threads do: the display    *)
(* states of the RunControl, the saved rows, and the refinement of RunView, *)
(* on which the dashboard rests.                                           *)

\* A pair with a display key, or a row, of its own in its sweep.
OwnKey(j) == \A k \in PlannedOf(RunOf[j]) : KeyOf[k] = KeyOf[j] => k = j
OwnRow(j) == \A k \in JobsOf(RunOf[j]) : RowOf[k] = RowOf[j] => k = j

Shown(j) == states[RunOf[j]][KeyOf[j]]

InHandPCs == {"resetting", "dispatching", "leaving", "judging"} \cup RunnerPCs

\* The display state of a pair against the program counter of its job, from the
\* time the RunControl is published.
StateInv == \A j \in Jobs \ SkippedJobs : OwnKey(j) =>
    /\ jpc[j] = "new" /\ col[RunOf[j]] = "active" => Shown(j) = "queued"
    /\ jpc[j] \in {"queued", "picked", "lockwait", "locked"} => Shown(j) = "queued"
    /\ jpc[j] \in InHandPCs => Shown(j) = "running"
    /\ jpc[j] \in {"returned", "left"} => Shown(j) \in {"queued", "running"}
    /\ jpc[j] \in {"finished", "collected"} /\ RunOf[j] \in control =>
           \/ Shown(j) = "done"
           \/ Shown(j) = "queued" /\ result[j] = "cancelled"

\* A run has its RunControl from its publication to the finally; its flag is
\* not set before, and only the keys of planned pairs are shown.
ControlInv == \A r \in Runs :
    /\ r \in control <=> col[r] \in {"active", "verdict", "closing"}
    /\ col[r] \in {"idle", "expand"} => ~cancelled[r] /\ canceller[r] = "idle"
    /\ r \in control => \A c \in Keys \ KeysOf(r) : states[r][c] = "absent"

\* No row is there of a pair that is not yet collected ...
RowInv == \A j \in Jobs :
    OwnRow(j) /\ jpc[j] \notin {"skipped", "collected", "lost"}
        => rows[RunOf[j]][RowOf[j]] = "none"

\* ... and none of the pair whose exception took the collector to the finally.
RaisedInv == \A r \in Runs :
    col[r] = "closing" /\ db[r] \notin Terminal =>
        \E j \in PlannedOf(r) :
            /\ jpc[j] = "collected" /\ result[j] \in {"malformed", "raised"}
            /\ OwnRow(j) => rows[r][RowOf[j]] = "none"

ViewInv == IInv /\ StateInv /\ ControlInv /\ RowInv /\ RaisedInv
-----------------------------------------------------------------------------
LEMMA InitViewInv == Init => ViewInv
BY InitIInv, JobAssumption
   DEF Init, ViewInv, StateInv, ControlInv, RowInv, RaisedInv, InHandPCs, RunnerPCs

\* Where a worker's step moves its job, and what it shows and yields.
LEMMA WorkerShows ==
    ASSUME TypeOK, NEW j \in Jobs, Worker(j)
    PROVE  \/ /\ UNCHANGED states
              /\ <<jpc[j], jpc'[j]>> \in
                   {<<"queued", "picked">>, <<"picked", "lockwait">>, <<"lockwait", "locked">>,
                    <<"resetting", "dispatching">>, <<"resetting", "returned">>,
                    <<"dispatching", "returned">>, <<"dispatching", "spawned">>,
                    <<"spawned", "communicating">>, <<"communicating", "leaving">>,
                    <<"timedout", "leaving">>, <<"leaving", "judging">>,
                    <<"leaving", "returned">>, <<"judging", "returned">>,
                    <<"locked", "returned">>, <<"returned", "left">>}
           \/ /\ UNCHANGED states /\ jpc[j] = "picked" /\ jpc'[j] = "finished"
              /\ result'[j] = "cancelled"
           \/ /\ SetState(j, "running")
              /\ <<jpc[j], jpc'[j]>> \in {<<"picked", "dispatching">>, <<"locked", "resetting">>}
           \/ SetState(j, "done") /\ jpc[j] = "left" /\ jpc'[j] = "finished"
<1> USE DEF TypeOK, Goto, Yield, ctlVars
<1>1. CASE Pick(j)
  BY <1>1 DEF Pick
<1>2. CASE StartCancelled(j)
  BY <1>2 DEF StartCancelled
<1>3. CASE StartFault(j)
  BY <1>3 DEF StartFault
<1>4. CASE StartPlain(j)
  BY <1>4 DEF StartPlain
<1>5. CASE AcquireLock(j)
  BY <1>5 DEF AcquireLock
<1>6. CASE RecheckCancelled(j)
  BY <1>6 DEF RecheckCancelled
<1>7. CASE RecheckGo(j)
  BY <1>7 DEF RecheckGo
<1>8. CASE ResetProxies(j)
  BY <1>8 DEF ResetProxies
<1>9. CASE ResetRaises(j)
  BY <1>9 DEF ResetRaises
<1>10. CASE Leave(j)
  BY <1>10 DEF Leave
<1>11. CASE MarkDone(j)
  BY <1>11 DEF MarkDone
<1>12. CASE ResolveFails(j)
  BY <1>12 DEF ResolveFails
<1>13. CASE Launch(j)
  BY <1>13 DEF Launch
<1>14. CASE LaunchRaises(j)
  BY <1>14 DEF LaunchRaises
<1>15. CASE Register(j)
  BY <1>15 DEF Register
<1>16. CASE RunnerGone(j)
  BY <1>16 DEF RunnerGone
<1>17. CASE KillTimedOut(j)
  BY <1>17 DEF KillTimedOut
<1>18. CASE Unregister(j)
  BY <1>18 DEF Unregister
<1>19. CASE JudgeCancelled(j)
  BY <1>19 DEF JudgeCancelled
<1>20. CASE JudgeOutput(j)
  BY <1>20 DEF JudgeOutput
<1> QED
  BY <1>1, <1>2, <1>3, <1>4, <1>5, <1>6, <1>7, <1>8, <1>9, <1>10,
     <1>11, <1>12, <1>13, <1>14, <1>15, <1>16, <1>17, <1>18, <1>19, <1>20 DEF Worker

\* The store gets one row of a pair that is done with.
LEMMA RowSaved ==
    ASSUME TypeOK, RowInv, RaisedInv, NEW r \in Runs, NEW j \in JobsOf(r), NEW v, NEW pc,
           rows' = [rows EXCEPT ![r][RowOf[j]] = v],
           jpc' = [jpc EXCEPT ![j] = pc], pc \in {"skipped", "collected"},
           jpc[j] # "collected", col[r] # "closing", UNCHANGED <<col, db, result>>
    PROVE  RowInv' /\ RaisedInv'
<1> USE JobAssumption DEF TypeOK, JobsOf
<1>1. j \in Jobs /\ RunOf[j] = r /\ RowOf[j] \in Rows
  OBVIOUS
<1>2. ASSUME NEW k \in Jobs, OwnRow(k), k # j PROVE rows'[RunOf[k]][RowOf[k]] = rows[RunOf[k]][RowOf[k]]
  <2>1. RunOf[k] # r \/ RowOf[k] # RowOf[j]
    BY <1>1, <1>2 DEF OwnRow
  <2>2. RunOf[k] \in Runs /\ RowOf[k] \in Rows
    OBVIOUS
  <2> QED
    BY <1>1, <2>1, <2>2
<1>3. RowInv'
  BY <1>1, <1>2 DEF RowInv, OwnRow
<1>4. ASSUME NEW q \in Runs, col[q] = "closing", db[q] \notin Terminal
      PROVE  \E k \in PlannedOf(q) :
               /\ jpc'[k] = "collected" /\ result'[k] \in {"malformed", "raised"}
               /\ OwnRow(k) => rows'[q][RowOf[k]] = "none"
  <2>1. PICK k \in PlannedOf(q) :
           /\ jpc[k] = "collected" /\ result[k] \in {"malformed", "raised"}
           /\ OwnRow(k) => rows[q][RowOf[k]] = "none"
    BY <1>4 DEF RaisedInv
  <2>2. k \in Jobs /\ RunOf[k] = q /\ k # j
    BY <1>1, <1>4, <2>1 DEF PlannedOf
  <2>3. jpc'[k] = "collected" /\ OwnRow(k) => rows'[q][RowOf[k]] = "none"
    BY <1>2, <2>1, <2>2
  <2>4. jpc'[k] = "collected"
    BY <1>1, <2>1, <2>2
  <2> QED
    BY <2>1, <2>3, <2>4
<1>5. RaisedInv'
  BY <1>4 DEF RaisedInv, OwnRow
<1> QED
  BY <1>3, <1>5

LEMMA StatesStep == ASSUME ViewInv, [Next]_vars PROVE StateInv' /\ ControlInv' /\ RowInv' /\ RaisedInv'
<1> USE JobAssumption DEF ViewInv, IInv
<1>1. ASSUME NEW j \in Jobs, Worker(j) PROVE StateInv' /\ ControlInv' /\ RowInv' /\ RaisedInv'
  <2>1. /\ UNCHANGED <<db, rows, control, cancelled, col, canceller>>
        /\ jpc[j] \in {"queued"} \cup WorkerPCs /\ jpc'[j] \in WorkerPCs \cup {"finished"}
        /\ \A k \in Jobs \ {j} : jpc'[k] = jpc[k] /\ result'[k] = result[k]
    BY <1>1, WorkerFrame DEF TypeOK
  <2>2. jpc[j] \notin {"new", "skipped", "lost", "collected", "finished"} /\ j \notin SkippedJobs
    BY <2>1 DEF WorkerPCs, LockedPCs, SkippedInv
  <2>3. /\ j \in PlannedOf(RunOf[j]) /\ states' \in [Runs -> [Keys -> StateNames]]
        /\ \A k \in Jobs \ {j} : OwnKey(k) /\ RunOf[k] = RunOf[j] => KeyOf[k] # KeyOf[j]
    BY <1>1, <2>2, StepTypeOK DEF PlannedOf, JobsOf, OwnKey, Next, TypeOK
  <2>4. ASSUME NEW s, SetState(j, s)
        PROVE  /\ Shown(j)' = s
               /\ \A k \in Jobs \ {j} : OwnKey(k) => Shown(k)' = Shown(k)
    BY <2>3, <2>4 DEF SetState, Shown, TypeOK
  <2>5. ASSUME UNCHANGED states PROVE \A k \in Jobs : Shown(k)' = Shown(k)
    BY <2>5 DEF Shown
  <2>6. \A k \in Jobs \ {j} : OwnKey(k) => Shown(k)' = Shown(k)
    BY <1>1, <2>4, <2>5, WorkerShows
  <2>7. StateInv'
    <3> SUFFICES ASSUME NEW k \in Jobs \ SkippedJobs, OwnKey(k)
                 PROVE  /\ jpc'[k] = "new" /\ col'[RunOf[k]] = "active" => Shown(k)' = "queued"
                        /\ jpc'[k] \in {"queued", "picked", "lockwait", "locked"}
                              => Shown(k)' = "queued"
                        /\ jpc'[k] \in InHandPCs => Shown(k)' = "running"
                        /\ jpc'[k] \in {"returned", "left"} => Shown(k)' \in {"queued", "running"}
                        /\ jpc'[k] \in {"finished", "collected"} /\ RunOf[k] \in control' =>
                               \/ Shown(k)' = "done"
                               \/ Shown(k)' = "queued" /\ result'[k] = "cancelled"
      BY DEF StateInv, OwnKey, Shown
    <3>1. CASE k # j
      BY <2>1, <2>6, <3>1 DEF StateInv
    <3>2. CASE k = j
      BY <1>1, <2>4, <2>5, <3>2, WorkerShows DEF StateInv, InHandPCs, RunnerPCs
    <3> QED
      BY <3>1, <3>2
  <2>8. ControlInv'
    <3>1. ASSUME NEW r \in control, NEW c \in Keys \ KeysOf(r) PROVE states'[r][c] = "absent"
      <4>1. states[r][c] = "absent"
        BY <3>1 DEF ControlInv, TypeOK
      <4>2. KeyOf[j] \in KeysOf(RunOf[j])
        BY <2>3 DEF KeysOf
      <4>3. ASSUME NEW s, SetState(j, s) PROVE states'[r][c] = states[r][c]
        BY <3>1, <4>2, <4>3 DEF SetState, TypeOK
      <4> QED
        BY <1>1, <4>1, <4>3, WorkerShows
    <3> QED
      BY <2>1, <3>1 DEF ControlInv
  <2>9. RowInv' /\ RaisedInv'
    BY <2>1, <2>2 DEF RowInv, RaisedInv, OwnRow, PlannedOf, JobsOf
  <2> QED
    BY <2>7, <2>8, <2>9
<1>2. ASSUME NEW j \in Jobs, RunnerTimesOut(j) \/ Runner(j)
      PROVE  StateInv' /\ ControlInv' /\ RowInv' /\ RaisedInv'
  <2>1. /\ UNCHANGED <<db, rows, control, cancelled, col, canceller, result, states>>
        /\ \A k \in Jobs : \/ jpc'[k] = jpc[k]
                           \/ jpc[k] = "communicating" /\ jpc'[k] = "timedout"
    <3>1. UNCHANGED states
      BY <1>2 DEF Runner, RunnerArms, RunnerExits, RunnerCrashes, RunnerTimesOut, ctlVars
    <3> QED
      BY <1>2, <3>1, RunnerFrame DEF TypeOK
  <2>2. StateInv'
    BY <2>1 DEF StateInv, Shown, OwnKey, InHandPCs, RunnerPCs
  <2> QED
    BY <2>1, <2>2 DEF ControlInv, RowInv, RaisedInv, OwnRow, PlannedOf, JobsOf
<1>3. ASSUME NEW r \in Runs, Canceller(r) PROVE StateInv' /\ ControlInv' /\ RowInv' /\ RaisedInv'
  <2>1. UNCHANGED <<db, rows, control, states, col, jpc, result>>
    BY <1>3, CancellerFrame
  <2>2. StateInv' /\ RowInv' /\ RaisedInv'
    BY <2>1 DEF StateInv, Shown, OwnKey, RowInv, RaisedInv, OwnRow
  <2>3. \A q \in Runs \ {r} : cancelled'[q] = cancelled[q] /\ canceller'[q] = canceller[q]
    BY <1>3 DEF Canceller, CancelInactive, CancelFound, CancelFlag, CancelSnapshot, CancelKill,
       CancelReturns, TypeOK, ctlVars
  <2>4. col[r] \in {"idle", "expand"} => cancelled'[r] = cancelled[r] /\ canceller'[r] = "idle"
    <3> SUFFICES ASSUME col[r] \in {"idle", "expand"}
                 PROVE  cancelled'[r] = cancelled[r] /\ canceller'[r] = "idle"
      OBVIOUS
    <3>1. r \notin control /\ canceller[r] = "idle"
      BY DEF ControlInv
    <3>2. CancelInactive(r)
      <4>1. ASSUME NEW j \in JobsOf(r), CancelKill(r, j) PROVE FALSE
        BY <3>1, <4>1 DEF CancelKill
      <4> QED
        BY <1>3, <3>1, <4>1 DEF Canceller, CancelFound, CancelFlag, CancelSnapshot, CancelReturns
    <3> QED
      BY <3>1, <3>2 DEF CancelInactive, ctlVars
  <2> QED
    BY <2>1, <2>2, <2>3, <2>4 DEF ControlInv
<1>4. ASSUME NEW r \in Runs, CreateRun(r) PROVE StateInv' /\ ControlInv' /\ RowInv' /\ RaisedInv'
  <2>1. /\ UNCHANGED <<rows, control, cancelled, states, canceller, jpc, result>>
        /\ db[r] = "none" /\ db'[r] = "running" /\ col'[r] = "expand"
        /\ \A q \in Runs \ {r} : db'[q] = db[q] /\ col'[q] = col[q]
    BY <1>4 DEF CreateRun, TypeOK, ctlVars, jobVars, cancelVars
  <2>2. col[r] = "idle"
    BY <2>1 DEF CollectorInv
  <2> QED
    BY <2>1, <2>2 DEF StateInv, Shown, OwnKey, ControlInv, RowInv, RaisedInv, OwnRow
<1>5. ASSUME NEW r \in Runs, Collector(r) PROVE StateInv' /\ ControlInv' /\ RowInv' /\ RaisedInv'
  <2> USE DEF TypeOK, Goto, storeVars, ctlVars, colVars, jobVars, cancelVars, sideVars
  <2>1. ASSUME NEW j \in JobsOf(r), SaveSkipped(r, j)
        PROVE  StateInv' /\ ControlInv' /\ RowInv' /\ RaisedInv'
    <3>1. StateInv' /\ ControlInv'
      BY <2>1 DEF SaveSkipped, StateInv, Shown, OwnKey, ControlInv, InHandPCs
    <3>2. RowInv' /\ RaisedInv'
      BY <2>1, RowSaved DEF SaveSkipped
    <3> QED
      BY <3>1, <3>2
  <2>2. ASSUME NEW j \in JobsOf(r), Submit(r, j)
        PROVE  StateInv' /\ ControlInv' /\ RowInv' /\ RaisedInv'
    <3>1. StateInv' /\ ControlInv'
      BY <2>2 DEF Submit, StateInv, Shown, OwnKey, ControlInv, InHandPCs, RunnerPCs, JobsOf,
         PlannedOf
    <3>2. RowInv' /\ RaisedInv'
      <4>1. /\ UNCHANGED <<db, rows, col, result>>
            /\ \A k \in Jobs : \/ jpc'[k] = jpc[k]
                               \/ jpc[k] = "new" /\ jpc'[k] = "queued"
        BY <2>2 DEF Submit, PlannedOf, JobsOf
      <4>2. RowInv'
        BY <4>1 DEF RowInv, OwnRow
      <4>3. ASSUME NEW q \in Runs, col[q] = "closing", db[q] \notin Terminal
            PROVE  \E k \in PlannedOf(q) :
                     /\ jpc'[k] = "collected" /\ result[k] \in {"malformed", "raised"}
                     /\ OwnRow(k) => rows[q][RowOf[k]] = "none"
        <5>1. PICK k \in PlannedOf(q) :
                 /\ jpc[k] = "collected" /\ result[k] \in {"malformed", "raised"}
                 /\ OwnRow(k) => rows[q][RowOf[k]] = "none"
          BY <4>3 DEF RaisedInv
        <5>2. jpc'[k] = "collected"
          BY <4>1, <5>1 DEF PlannedOf, JobsOf
        <5> QED
          BY <5>1, <5>2
      <4>4. RaisedInv'
        BY <4>1, <4>3 DEF RaisedInv, OwnRow
      <4> QED
        BY <4>2, <4>4
    <3> QED
      BY <3>1, <3>2
  <2>3. ASSUME NEW j \in JobsOf(r), Collect(r, j)
        PROVE  StateInv' /\ ControlInv' /\ RowInv' /\ RaisedInv'
    <3>1. StateInv' /\ ControlInv'
      BY <2>3 DEF Collect, StateInv, Shown, OwnKey, ControlInv, InHandPCs, RunnerPCs
    <3>2. RowInv' /\ RaisedInv'
      BY <2>3, RowSaved DEF Collect
    <3> QED
      BY <3>1, <3>2
  <2>4. ASSUME NEW j \in JobsOf(r), CollectRaises(r, j)
        PROVE  StateInv' /\ ControlInv' /\ RowInv' /\ RaisedInv'
    <3>1. StateInv' /\ ControlInv'
      BY <2>4 DEF CollectRaises, StateInv, Shown, OwnKey, ControlInv, InHandPCs, RunnerPCs
    <3>2. RowInv' /\ RaisedInv'
      <4>1. /\ UNCHANGED <<db, rows, result>> /\ j \in PlannedOf(r) /\ j \in Jobs
            /\ RunOf[j] = r /\ jpc[j] = "finished" /\ jpc'[j] = "collected"
            /\ result[j] \in {"malformed", "raised"}
            /\ \A q \in Runs \ {r} : col'[q] = col[q]
            /\ \A k \in Jobs \ {j} : jpc'[k] = jpc[k]
        BY <2>4 DEF CollectRaises, JobsOf
      <4>2. RowInv'
        BY <4>1 DEF RowInv, OwnRow
      <4>3. OwnRow(j) => rows[r][RowOf[j]] = "none"
        BY <4>1 DEF RowInv
      <4>4. ASSUME NEW q \in Runs, col'[q] = "closing", db[q] \notin Terminal
            PROVE  \E k \in PlannedOf(q) :
                     /\ jpc'[k] = "collected" /\ result[k] \in {"malformed", "raised"}
                     /\ OwnRow(k) => rows[q][RowOf[k]] = "none"
        <5>1. CASE q = r
          BY <4>1, <4>3, <5>1
        <5>2. CASE q # r
          <6>1. PICK k \in PlannedOf(q) :
                   /\ jpc[k] = "collected" /\ result[k] \in {"malformed", "raised"}
                   /\ OwnRow(k) => rows[q][RowOf[k]] = "none"
            BY <4>1, <4>4, <5>2 DEF RaisedInv
          <6>2. jpc'[k] = "collected"
            BY <4>1, <6>1 DEF PlannedOf, JobsOf
          <6> QED
            BY <6>1, <6>2
        <5> QED
          BY <5>1, <5>2
      <4>5. RaisedInv'
        BY <4>1, <4>4 DEF RaisedInv, OwnRow
      <4> QED
        BY <4>2, <4>5
    <3> QED
      BY <3>1, <3>2
  <2>5. CASE PublishControl(r)
    <3>1. /\ UNCHANGED <<db, rows, cancelled, canceller, jpc, result>>
          /\ states' = [states EXCEPT ![r] =
                           [k \in Keys |-> IF k \in KeysOf(r) THEN "queued" ELSE "absent"]]
          /\ control' = control \cup {r} /\ col' = [col EXCEPT ![r] = "active"]
          /\ col[r] = "expand"
      BY <2>5 DEF PublishControl
    <3>2. \A j \in PlannedOf(r) : jpc[j] = "new" /\ KeyOf[j] \in KeysOf(r)
      BY <3>1 DEF CollectorInv, KeysOf
    <3>3. StateInv'
      <4> SUFFICES ASSUME NEW k \in Jobs \ SkippedJobs, OwnKey(k)
                 PROVE  /\ jpc'[k] = "new" /\ col'[RunOf[k]] = "active" => Shown(k)' = "queued"
                        /\ jpc'[k] \in {"queued", "picked", "lockwait", "locked"}
                              => Shown(k)' = "queued"
                        /\ jpc'[k] \in InHandPCs => Shown(k)' = "running"
                        /\ jpc'[k] \in {"returned", "left"} => Shown(k)' \in {"queued", "running"}
                        /\ jpc'[k] \in {"finished", "collected"} /\ RunOf[k] \in control' =>
                               \/ Shown(k)' = "done"
                               \/ Shown(k)' = "queued" /\ result'[k] = "cancelled"
        BY DEF StateInv, OwnKey, Shown
      <4>1. CASE RunOf[k] # r
        BY <3>1, <4>1 DEF StateInv, Shown
      <4>2. CASE RunOf[k] = r
        <5>1. k \in PlannedOf(r)
          BY <4>2 DEF PlannedOf, JobsOf
        <5>2. jpc'[k] = "new" /\ Shown(k)' = "queued"
          BY <3>1, <3>2, <4>2, <5>1 DEF Shown
        <5> QED
          BY <5>2 DEF InHandPCs, RunnerPCs
      <4> QED
        BY <4>1, <4>2
    <3>4. ControlInv'
      BY <3>1 DEF ControlInv
    <3>5. RowInv' /\ RaisedInv'
      BY <3>1 DEF RowInv, RaisedInv, OwnRow
    <3> QED
      BY <3>3, <3>4, <3>5
  <2>6. ASSUME ReadVerdict(r) \/ FinishRun(r) \/ DropControl(r)
        PROVE  StateInv' /\ ControlInv' /\ RowInv' /\ RaisedInv'
    <3>1. /\ UNCHANGED <<rows, cancelled, states, canceller, jpc, result>>
          /\ \A q \in Runs \ {r} : col'[q] = col[q] /\ db'[q] = db[q]
                                   /\ (q \in control' <=> q \in control)
          /\ r \in control' => r \in control
          /\ col'[r] \in {"verdict", "closing", "closed"}
          /\ r \in control' <=> col'[r] # "closed"
      BY <2>6 DEF ReadVerdict, FinishRun, DropControl, ControlInv
    <3>2. col'[r] = "closing" => db'[r] \in Terminal
      BY <2>6 DEF ReadVerdict, FinishRun, DropControl, CollectorInv
    <3>3. StateInv'
      BY <3>1 DEF StateInv, Shown, OwnKey
    <3>4. ControlInv'
      <4>1. ASSUME NEW q \in Runs, q # r
            PROVE  /\ q \in control' <=> col'[q] \in {"active", "verdict", "closing"}
                   /\ col'[q] \in {"idle", "expand"} => ~cancelled[q] /\ canceller[q] = "idle"
        BY <3>1, <4>1 DEF ControlInv
      <4>2. \A q \in Runs : q \in control' => q \in control
        BY <3>1
      <4> QED
        BY <3>1, <4>1, <4>2 DEF ControlInv
    <3>5. RowInv'
      BY <3>1 DEF RowInv, OwnRow
    <3>6. RaisedInv'
      <4>1. ASSUME NEW q \in Runs, col'[q] = "closing", db'[q] \notin Terminal
            PROVE  col[q] = "closing" /\ db[q] \notin Terminal
        BY <3>1, <3>2, <4>1
      <4> QED
        BY <3>1, <4>1 DEF RaisedInv, OwnRow
    <3> QED
      BY <3>3, <3>4, <3>5, <3>6
  <2> QED
    BY <1>5, <2>1, <2>2, <2>3, <2>4, <2>5, <2>6 DEF Collector
<1>6. CASE Die
  <2>1. /\ UNCHANGED rows /\ control' = {}
        /\ \A r \in Runs : /\ col'[r] = IF col[r] = "idle" THEN "idle" ELSE "closed"
                           /\ ~cancelled'[r] /\ canceller'[r] = "idle"
        /\ \A j \in Jobs : jpc'[j] = IF \/ col[RunOf[j]] = "idle"
                                        \/ jpc[j] \in {"skipped", "collected"}
                                     THEN jpc[j] ELSE "lost"
    BY <1>6 DEF Die, storeVars
  <2>2. \A j \in Jobs : jpc'[j] \in {"new", "skipped", "collected", "lost"}
    BY <2>1 DEF CollectorInv, JobsOf
  <2>3. \A j \in Jobs : jpc'[j] = "new" => jpc[j] = "new" /\ col'[RunOf[j]] = "idle"
    BY <2>1
  <2>4. StateInv'
    BY <2>1, <2>2, <2>3 DEF StateInv, InHandPCs, RunnerPCs
  <2> QED
    BY <2>1, <2>2, <2>3, <2>4 DEF ControlInv, RowInv, RaisedInv, OwnRow
<1>7. CASE UNCHANGED vars
  <2>1. UNCHANGED <<db, rows, control, cancelled, states, col, canceller, jpc, result>>
    BY <1>7, VarsUnfold
  <2> QED
    BY <2>1 DEF StateInv, Shown, OwnKey, ControlInv, RowInv, RaisedInv, OwnRow
<1> QED
  BY <1>1, <1>2, <1>3, <1>4, <1>5, <1>6, <1>7 DEF Next

\* The display states, the registry of controls and the rows keep step with the
\* threads (main.py 54-63, 300-347, 375-383).
THEOREM ViewInvariant == Spec => []ViewInv
<1>1. Init => ViewInv
  BY InitViewInv
<1>2. ViewInv /\ [Next]_vars => ViewInv'
  BY StepIInv, StatesStep DEF ViewInv
<1> QED
  BY <1>1, <1>2, PTL DEF Spec

\* While the runner of a pair with its own display key is attended, the pair is
\* shown as running, for any runs, pool and interleaving (main.py 54-63, 375,
\* 380, 383).
THEOREM ShownRunning == Spec => []LiveIsShownRunning
<1>1. ViewInv => LiveIsShownRunning
  <2> SUFFICES ASSUME ViewInv, NEW j \in Jobs, Attended(j), OwnKey(j)
               PROVE  Shown(j) = "running"
    BY DEF LiveIsShownRunning, OwnKey, Shown
  <2>1. jpc[j] \in RunnerPCs
    BY AttendedInside DEF ViewInv
  <2>2. j \notin SkippedJobs
    BY <2>1 DEF ViewInv, IInv, SkippedInv, RunnerPCs
  <2> QED
    BY <2>1, <2>2 DEF ViewInv, StateInv, InHandPCs
<1> QED
  BY <1>1, ViewInvariant, PTL
-----------------------------------------------------------------------------
(* The refinement of RunView.                                              *)

\* Every pair of a sweep has a display key and a row of its own.
PairsApart == \A j, k \in Jobs :
    RunOf[j] = RunOf[k] /\ j # k => KeyOf[j] # KeyOf[k] /\ RowOf[j] # RowOf[k]

\* What the srv of RunView stands for.
Srv == [r \in {q \in Runs : db[q] # "none"} |-> Told(r)]

CellsOf(r) == {KeyOf[j] : j \in JobsOf(r)}
SavedOf(r) == {KeyOf[j] : j \in {k \in JobsOf(r) : rows[r][RowOf[k]] # "none"}}
ShownOf(r) == {c \in Keys : states[r][c] \in {"queued", "running"}}

\* A run whose row, control and expansion stay tells the same.
LEMMA ToldSame ==
    ASSUME NEW r \in Runs, db'[r] = db[r], rows'[r] = rows[r],
           r \in control' <=> r \in control, col'[r] = "expand" <=> col[r] = "expand",
           r \in control => states'[r] = states[r] /\ cancelled'[r] = cancelled[r]
    PROVE  Told(r)' = Told(r)
BY DEF Told

\* A step in which one run has something new to tell, or none has.
LEMMA SrvStep ==
    ASSUME NEW r \in Runs, db[r] # "none", db'[r] # "none",
           \A q \in Runs \ {r} : /\ db'[q] = "none" <=> db[q] = "none"
                                 /\ Told(q)' = Told(q),
           NEW v, Told(r)' = v
    PROVE  Srv' = [Srv EXCEPT ![r] = v]
BY DEF Srv

LEMMA SrvStays ==
    ASSUME \A q \in Runs : (db'[q] = "none" <=> db[q] = "none") /\ Told(q)' = Told(q)
    PROVE  Srv' = Srv
BY DEF Srv

StatusOf(r) == IF db[r] \in Terminal THEN "ended" ELSE "running"
ControlOf(r) == IF r \in control THEN "published"
                ELSE IF col[r] = "expand" THEN "none" ELSE "dropped"
LiveOf(r) == IF r \in control THEN ShownOf(r)
             ELSE IF col[r] = "expand" THEN CellsOf(r) ELSE {}
FlagOf(r) == r \in control /\ cancelled[r]

\* The record RunView keeps of a run, from its fields.
Fields(ce, st, sa, co, li, fl) ==
    [cells |-> ce, status |-> st, saved |-> sa, control |-> co, live |-> li, cancelled |-> fl]

\* What a run tells, field by field, before and after a step.
LEMMA ToldFields ==
    ASSUME NEW r \in Runs
    PROVE  /\ Told(r) = Fields(CellsOf(r), StatusOf(r), SavedOf(r), ControlOf(r), LiveOf(r),
                               FlagOf(r))
           /\ Told(r)' = Fields(CellsOf(r), StatusOf(r)', SavedOf(r)', ControlOf(r)', LiveOf(r)',
                                FlagOf(r)')
BY DEF Told, CellsOf, SavedOf, ShownOf, StatusOf, ControlOf, LiveOf, FlagOf, Fields

\* Reading and setting the fields.
LEMMA FieldsRead ==
    ASSUME NEW ce, NEW st, NEW sa, NEW co, NEW li, NEW fl, NEW v, NEW w
    PROVE  LET t == Fields(ce, st, sa, co, li, fl) IN
           /\ t.cells = ce /\ t.status = st /\ t.saved = sa /\ t.control = co /\ t.live = li
           /\ t.cancelled = fl
           /\ [t EXCEPT !.saved = v] = Fields(ce, st, v, co, li, fl)
           /\ [t EXCEPT !.status = v] = Fields(ce, v, sa, co, li, fl)
           /\ [t EXCEPT !.live = v] = Fields(ce, st, sa, co, v, fl)
           /\ [t EXCEPT !.control = v] = Fields(ce, st, sa, v, li, fl)
           /\ [t EXCEPT !.cancelled = v] = Fields(ce, st, sa, co, li, v)
BY DEF Fields

SetTwo(t, e, f) == [t EXCEPT !.control = e, !.live = f]

LEMMA TwoSet ==
    ASSUME NEW ce, NEW st, NEW sa, NEW co, NEW li, NEW fl, NEW e, NEW f
    PROVE  SetTwo(Fields(ce, st, sa, co, li, fl), e, f) = Fields(ce, st, sa, e, f, fl)
<1> DEFINE t == Fields(ce, st, sa, co, li, fl)
           u == [t EXCEPT !.control = e]
<1>1. u = Fields(ce, st, sa, e, li, fl)
  BY FieldsRead
<1>2. SetTwo(t, e, f) = [u EXCEPT !.live = f]
  BY DEF SetTwo
<1> HIDE DEF u
<1>3. [u EXCEPT !.live = f] = Fields(ce, st, sa, e, f, fl)
  BY <1>1 DEF Fields
<1> QED
  BY <1>2, <1>3

LEMMA DroppedIs ==
    ASSUME NEW ce, NEW st, NEW sa, NEW co, NEW li, NEW fl
    PROVE  View!Dropped(Fields(ce, st, sa, co, li, fl)) = Fields(ce, st, sa, "dropped", {}, FALSE)
<1> DEFINE t == Fields(ce, st, sa, co, li, fl)
           u == SetTwo(t, "dropped", {})
<1>1. u = Fields(ce, st, sa, "dropped", {}, fl)
  BY TwoSet
<1>2. PICK g : g = FALSE
  OBVIOUS
<1>3. View!Dropped(t) = [u EXCEPT !.cancelled = FALSE]
  BY DEF View!Dropped, SetTwo
<1>4. [u EXCEPT !.cancelled = FALSE] = [u EXCEPT !.cancelled = g]
  BY <1>2, Zenon
<1> HIDE DEF u
<1>5. [u EXCEPT !.cancelled = g] = Fields(ce, st, sa, "dropped", {}, g)
  BY <1>1 DEF Fields
<1> QED
  BY <1>2, <1>3, <1>4, <1>5, Zenon

\* With the pairs apart, a cell is saved when its pair has its row.
LEMMA SavedExactly ==
    ASSUME PairsApart, NEW j \in Jobs
    PROVE  KeyOf[j] \in SavedOf(RunOf[j]) <=> rows[RunOf[j]][RowOf[j]] # "none"
BY DEF PairsApart, SavedOf, JobsOf

\* Saving one more row adds one cell.
LEMMA SavedMore ==
    ASSUME PairsApart, TypeOK, NEW r \in Runs, NEW j \in JobsOf(r), NEW v, v # "none",
           rows' = [rows EXCEPT ![r][RowOf[j]] = v]
    PROVE  SavedOf(r)' = SavedOf(r) \cup {KeyOf[j]}
<1> USE JobAssumption DEF TypeOK, JobsOf
<1>1. \A k \in JobsOf(r) \ {j} : rows'[r][RowOf[k]] = rows[r][RowOf[k]]
  BY DEF PairsApart
<1>2. rows'[r][RowOf[j]] = v
  OBVIOUS
<1>3. SavedOf(r) = {KeyOf[k] : k \in {i \in JobsOf(r) : rows[r][RowOf[i]] # "none"}}
  BY DEF SavedOf
<1>4. SavedOf(r)' = {KeyOf[k] : k \in {i \in JobsOf(r) : rows'[r][RowOf[i]] # "none"}}
  BY DEF SavedOf
<1>5. ASSUME NEW k \in JobsOf(r)
      PROVE  rows'[r][RowOf[k]] # "none" <=> k = j \/ rows[r][RowOf[k]] # "none"
  BY <1>1, <1>2, <1>5
<1> HIDE DEF JobsOf, TypeOK
<1> QED
  BY <1>3, <1>4, <1>5

LEMMA InitView == Init => View!Init
BY DEF Init, View!Init

\* The collector's steps.
LEMMA ViewSaveSkipped ==
    ASSUME PairsApart, ViewInv, NEW r \in Runs, NEW j \in JobsOf(r), SaveSkipped(r, j)
    PROVE  View!Next
<1> USE JobAssumption
<1> DEFINE c == KeyOf[j]
<1>1. /\ j \in Jobs /\ RunOf[j] = r /\ jpc[j] = "new" /\ col[r] = "expand"
      /\ rows' = [rows EXCEPT ![r][RowOf[j]] = "skip"]
      /\ UNCHANGED <<db, control, cancelled, states, col>>
  BY DEF SaveSkipped, JobsOf, ctlVars, colVars
<1>2. db[r] # "none" /\ r \notin control /\ c \in Keys
  BY <1>1 DEF ViewInv, IInv, CollectorInv, ControlInv
<1>3. c \in CellsOf(r) /\ c \notin SavedOf(r)
  <2>1. rows[r][RowOf[j]] = "none"
    BY <1>1 DEF ViewInv, RowInv, OwnRow, PairsApart, JobsOf
  <2> QED
    BY <1>1, <2>1, SavedExactly DEF CellsOf
<1>4. SavedOf(r)' = SavedOf(r) \cup {c}
  BY <1>1, SavedMore DEF ViewInv, IInv
<1>5. Told(r)' = [Told(r) EXCEPT !.saved = Told(r).saved \cup {c}]
  BY <1>1, <1>2, <1>4, ToldFields, FieldsRead DEF StatusOf, ControlOf, LiveOf, FlagOf
<1>6. Srv' = [Srv EXCEPT ![r] = [Told(r) EXCEPT !.saved = Told(r).saved \cup {c}]]
  <2>1. \A q \in Runs \ {r} : rows'[q] = rows[q]
    BY <1>1 DEF ViewInv, IInv, TypeOK
  <2>2. \A q \in Runs \ {r} : Told(q)' = Told(q)
    BY <1>1, <2>1, ToldSame
  <2> QED
    BY <1>1, <1>2, <1>5, <2>2, SrvStep
<1>7. View!SaveGated(r, c)
  <2>1. Srv[r] = Told(r) /\ Told(r).control = "none" /\ c \in Told(r).cells \ Told(r).saved
    BY <1>1, <1>2, <1>3, ToldFields, FieldsRead DEF Srv, ControlOf
  <2> QED
    BY <1>6, <2>1 DEF View!SaveGated, Srv
<1>8. r \in View!Created
  BY <1>2 DEF View!Created
<1> QED
  BY <1>2, <1>7, <1>8 DEF View!Next

LEMMA ViewCollect ==
    ASSUME PairsApart, ViewInv, NEW r \in Runs, NEW j \in JobsOf(r), Collect(r, j)
    PROVE  View!Next
<1> USE JobAssumption
<1> DEFINE c == KeyOf[j]
<1>1. /\ j \in Jobs \ SkippedJobs /\ RunOf[j] = r /\ jpc[j] = "finished" /\ col[r] = "active"
      /\ rows' = [rows EXCEPT ![r][RowOf[j]] = result[j]] /\ result[j] # "none"
      /\ UNCHANGED <<db, control, cancelled, states, col>>
  BY DEF Collect, JobsOf, PlannedOf, ctlVars, colVars
<1>2. db[r] # "none" /\ r \in control /\ c \in Keys
  BY <1>1 DEF ViewInv, IInv, CollectorInv, ControlInv
<1>3. c \in CellsOf(r) /\ c \notin SavedOf(r)
  <2>1. rows[r][RowOf[j]] = "none"
    BY <1>1 DEF ViewInv, RowInv, OwnRow, PairsApart, JobsOf
  <2> QED
    BY <1>1, <2>1, SavedExactly DEF CellsOf
<1>4. c \in ShownOf(r) => cancelled[r]
  <2>1. OwnKey(j)
    BY <1>1 DEF OwnKey, PairsApart, PlannedOf, JobsOf
  <2>2. c \in ShownOf(r) => result[j] = "cancelled"
    BY <1>1, <1>2, <2>1 DEF ViewInv, StateInv, Shown, ShownOf
  <2> QED
    BY <1>1, <2>2 DEF ViewInv, IInv, DispatchInv, Flagged
<1>5. SavedOf(r)' = SavedOf(r) \cup {c}
  BY <1>1, SavedMore DEF ViewInv, IInv
<1>6. Told(r)' = [Told(r) EXCEPT !.saved = Told(r).saved \cup {c}]
  <2>1. /\ StatusOf(r)' = StatusOf(r) /\ ControlOf(r)' = ControlOf(r)
        /\ LiveOf(r)' = LiveOf(r) /\ FlagOf(r)' = FlagOf(r)
    BY <1>1 DEF StatusOf, ControlOf, LiveOf, FlagOf, ShownOf
  <2> QED
    BY <1>5, <2>1, ToldFields, FieldsRead
<1>7. Srv' = [Srv EXCEPT ![r] = [Told(r) EXCEPT !.saved = Told(r).saved \cup {c}]]
  <2>1. \A q \in Runs \ {r} : rows'[q] = rows[q]
    BY <1>1 DEF ViewInv, IInv, TypeOK
  <2>2. \A q \in Runs \ {r} : Told(q)' = Told(q)
    BY <1>1, <2>1, ToldSame
  <2> QED
    BY <1>1, <1>2, <1>6, <2>2, SrvStep
<1>8. View!SaveResult(r, c)
  <2>1. /\ Srv[r] = Told(r) /\ Told(r).control = "published"
        /\ c \in Told(r).cells \ Told(r).saved
        /\ c \in Told(r).live => Told(r).cancelled
    <3>1. ControlOf(r) = "published" /\ LiveOf(r) = ShownOf(r) /\ (c \in ShownOf(r) => FlagOf(r))
      BY <1>2, <1>4 DEF ControlOf, LiveOf, FlagOf
    <3> QED
      BY <1>2, <1>3, <3>1, ToldFields, FieldsRead DEF Srv
  <2> QED
    BY <1>7, <2>1 DEF View!SaveResult, Srv
<1>9. r \in View!Created
  BY <1>2 DEF View!Created
<1> QED
  BY <1>2, <1>8, <1>9 DEF View!Next

LEMMA ViewPublish ==
    ASSUME PairsApart, ViewInv, NEW r \in Runs, PublishControl(r)
    PROVE  View!Next
<1> USE JobAssumption
<1>1. /\ col[r] = "expand" /\ col' = [col EXCEPT ![r] = "active"]
      /\ \A j \in JobsOf(r) \cap SkippedJobs : jpc[j] = "skipped"
      /\ states' = [states EXCEPT ![r] =
                      [k \in Keys |-> IF k \in KeysOf(r) THEN "queued" ELSE "absent"]]
      /\ control' = control \cup {r} /\ UNCHANGED <<db, rows, cancelled>>
  BY DEF PublishControl, storeVars
<1>2. db[r] # "none" /\ r \notin control /\ ~cancelled[r]
  BY <1>1 DEF ViewInv, IInv, CollectorInv, ControlInv
<1>3. ShownOf(r)' = CellsOf(r) \ SavedOf(r)
  <2>1. ShownOf(r)' = KeysOf(r)
    BY <1>1 DEF ViewInv, IInv, TypeOK, ShownOf, KeysOf, PlannedOf, JobsOf
  <2>2. ASSUME NEW j \in JobsOf(r)
        PROVE  KeyOf[j] \in SavedOf(r) <=> j \in SkippedJobs
    <3>1. j \in Jobs /\ RunOf[j] = r /\ OwnRow(j)
      BY <2>2 DEF JobsOf, PairsApart, OwnRow
    <3>2. jpc[j] = IF j \in SkippedJobs THEN "skipped" ELSE "new"
      BY <1>1, <2>2 DEF ViewInv, IInv, CollectorInv, PlannedOf
    <3>3. rows[r][RowOf[j]] # "none" <=> j \in SkippedJobs
      BY <1>1, <2>2, <3>1, <3>2 DEF ViewInv, IInv, CollectorInv, RowInv
    <3> QED
      BY <3>1, <3>3, SavedExactly
  <2> QED
    BY <2>1, <2>2 DEF CellsOf, KeysOf, PlannedOf
<1>4. Told(r)' = SetTwo(Told(r), "published", Told(r).cells \ Told(r).saved)
  <2>1. SavedOf(r)' = SavedOf(r) /\ r \in control' /\ ~cancelled'[r]
    BY <1>1, <1>2 DEF SavedOf
  <2> QED
    <3>1. /\ StatusOf(r)' = StatusOf(r) /\ ControlOf(r)' = "published"
          /\ LiveOf(r)' = CellsOf(r) \ SavedOf(r) /\ FlagOf(r)' = FlagOf(r)
      BY <1>1, <1>2, <1>3, <2>1 DEF StatusOf, ControlOf, LiveOf, FlagOf
    <3>2. Told(r)' = Fields(CellsOf(r), StatusOf(r), SavedOf(r), "published",
                            CellsOf(r) \ SavedOf(r), FlagOf(r))
      BY <2>1, <3>1, ToldFields
    <3>3. Told(r).cells = CellsOf(r) /\ Told(r).saved = SavedOf(r)
      BY ToldFields, FieldsRead
    <3> QED
      BY <3>2, <3>3, ToldFields, TwoSet
<1>5. Srv' = [Srv EXCEPT ![r] =
                SetTwo(Told(r), "published", Told(r).cells \ Told(r).saved)]
  <2>1. \A q \in Runs \ {r} : /\ states'[q] = states[q] /\ col'[q] = col[q]
                              /\ q \in control' <=> q \in control
    BY <1>1 DEF ViewInv, IInv, TypeOK
  <2>2. \A q \in Runs \ {r} : Told(q)' = Told(q)
    BY <1>1, <2>1, ToldSame
  <2> QED
    BY <1>1, <1>2, <1>4, <2>2, SrvStep
<1>6. View!PublishControl(r)
  <2>1. Srv[r] = Told(r) /\ Told(r).control = "none"
    BY <1>1, <1>2, ToldFields, FieldsRead DEF Srv, ControlOf
  <2> QED
    BY <1>5, <2>1 DEF View!PublishControl, SetTwo, Srv
<1>7. r \in View!Created
  BY <1>2 DEF View!Created
<1> QED
  BY <1>6, <1>7 DEF View!Next

LEMMA ViewFinish ==
    ASSUME PairsApart, ViewInv, NEW r \in Runs, FinishRun(r)
    PROVE  View!Next
<1> USE JobAssumption
<1>1. /\ col[r] = "verdict" /\ col' = [col EXCEPT ![r] = "closing"]
      /\ db' = [db EXCEPT ![r] = verdict[r]] /\ UNCHANGED <<rows, control, cancelled, states>>
  BY DEF FinishRun, ctlVars
<1>2. db[r] = "running" /\ r \in control /\ db'[r] \in Terminal /\ db'[r] # "none"
  BY <1>1 DEF ViewInv, IInv, TypeOK, CollectorInv, ControlInv, Terminal
<1>3. SavedOf(r) = CellsOf(r)
  <2>1. \A j \in JobsOf(r) : rows[r][RowOf[j]] # "none"
    BY <1>1 DEF ViewInv, IInv, CollectorInv, PlannedOf, JobsOf
  <2> QED
    BY <2>1 DEF SavedOf, CellsOf
<1>4. Told(r)' = [Told(r) EXCEPT !.status = "ended"]
  <2>1. /\ StatusOf(r)' = "ended" /\ SavedOf(r)' = SavedOf(r) /\ ControlOf(r)' = ControlOf(r)
        /\ LiveOf(r)' = LiveOf(r) /\ FlagOf(r)' = FlagOf(r)
    BY <1>1, <1>2 DEF StatusOf, SavedOf, ShownOf, ControlOf, LiveOf, FlagOf
  <2> QED
    BY <2>1, ToldFields, FieldsRead
<1>5. Srv' = [Srv EXCEPT ![r] = [Told(r) EXCEPT !.status = "ended"]]
  <2>1. \A q \in Runs \ {r} : db'[q] = db[q] /\ col'[q] = col[q]
    BY <1>1 DEF ViewInv, IInv, TypeOK
  <2>2. \A q \in Runs \ {r} : Told(q)' = Told(q)
    BY <1>1, <2>1, ToldSame
  <2> QED
    BY <1>2, <1>4, <2>1, <2>2, SrvStep
<1>6. View!FinishRun(r)
  <2>1. /\ Srv[r] = Told(r) /\ Told(r).control = "published" /\ Told(r).status = "running"
        /\ Told(r).saved = Told(r).cells
    <3>1. ControlOf(r) = "published" /\ StatusOf(r) = "running"
      BY <1>2 DEF ControlOf, StatusOf, Terminal
    <3> QED
      BY <1>2, <1>3, <3>1, ToldFields, FieldsRead DEF Srv
  <2> QED
    BY <1>5, <2>1 DEF View!FinishRun, Srv
<1>7. r \in View!Created
  BY <1>2 DEF View!Created
<1> QED
  BY <1>6, <1>7 DEF View!Next

LEMMA ViewDrop ==
    ASSUME PairsApart, ViewInv, NEW r \in Runs, DropControl(r)
    PROVE  View!Next
<1> USE JobAssumption
<1>1. /\ col[r] = "closing" /\ col' = [col EXCEPT ![r] = "closed"]
      /\ control' = control \ {r} /\ UNCHANGED <<db, rows, cancelled, states>>
  BY DEF DropControl, storeVars
<1>2. db[r] # "none" /\ r \in control /\ r \notin control' /\ col'[r] = "closed"
  BY <1>1 DEF ViewInv, IInv, TypeOK, CollectorInv, ControlInv
<1>3. db[r] \in Terminal \/ ShownOf(r) \cup SavedOf(r) # CellsOf(r)
  <2>1. SUFFICES ASSUME db[r] \notin Terminal
                 PROVE  \E c \in CellsOf(r) : c \notin ShownOf(r) /\ c \notin SavedOf(r)
    OBVIOUS
  <2>2. PICK j \in PlannedOf(r) :
           /\ jpc[j] = "collected" /\ result[j] \in {"malformed", "raised"}
           /\ OwnRow(j) => rows[r][RowOf[j]] = "none"
    BY <1>1, <2>1 DEF ViewInv, RaisedInv
  <2>3. j \in Jobs \ SkippedJobs /\ RunOf[j] = r /\ OwnRow(j) /\ OwnKey(j)
    BY DEF PlannedOf, JobsOf, PairsApart, OwnRow, OwnKey
  <2>4. KeyOf[j] \notin ShownOf(r)
    BY <1>2, <2>2, <2>3 DEF ViewInv, StateInv, Shown, ShownOf
  <2>5. KeyOf[j] \notin SavedOf(r)
    BY <2>2, <2>3, SavedExactly
  <2> QED
    BY <2>3, <2>4, <2>5 DEF CellsOf, JobsOf
<1>4. Told(r)' = View!Dropped(Told(r))
  <2>1. /\ StatusOf(r)' = StatusOf(r) /\ SavedOf(r)' = SavedOf(r) /\ ControlOf(r)' = "dropped"
        /\ LiveOf(r)' = {} /\ FlagOf(r)' = FALSE
    BY <1>1, <1>2 DEF StatusOf, SavedOf, ControlOf, LiveOf, FlagOf
  <2>2. Told(r)' = Fields(CellsOf(r), StatusOf(r), SavedOf(r), "dropped", {}, FALSE)
    BY <2>1, ToldFields
  <2>3. View!Dropped(Told(r)) = Fields(CellsOf(r), StatusOf(r), SavedOf(r), "dropped", {}, FALSE)
    <3>1. Told(r) = Fields(CellsOf(r), StatusOf(r), SavedOf(r), ControlOf(r), LiveOf(r), FlagOf(r))
      BY ToldFields
    <3>2. View!Dropped(Fields(CellsOf(r), StatusOf(r), SavedOf(r), ControlOf(r), LiveOf(r),
                              FlagOf(r)))
            = Fields(CellsOf(r), StatusOf(r), SavedOf(r), "dropped", {}, FALSE)
      BY DroppedIs, Zenon
    <3> QED
      BY <3>1, <3>2, Zenon
  <2> QED
    BY <2>2, <2>3, Zenon
<1>5. Srv' = [Srv EXCEPT ![r] =
                View!Dropped(Told(r))]
  <2>1. \A q \in Runs \ {r} : col'[q] = col[q] /\ (q \in control' <=> q \in control)
    BY <1>1 DEF ViewInv, IInv, TypeOK
  <2>2. \A q \in Runs \ {r} : Told(q)' = Told(q)
    BY <1>1, <2>1, ToldSame
  <2> QED
    BY <1>1, <1>2, <1>4, <2>2, SrvStep
<1>6. View!DropControl(r)
  <2>1. /\ Srv[r] = Told(r) /\ Told(r).control = "published"
        /\ Told(r).status = "ended" \/ Told(r).live \cup Told(r).saved # Told(r).cells
    BY <1>2, <1>3, ToldFields, FieldsRead DEF Srv, ControlOf, StatusOf, LiveOf
  <2> QED
    BY <1>5, <2>1 DEF View!DropControl, View!Dropped, Srv
<1>7. r \in View!Created
  BY <1>2 DEF View!Created
<1> QED
  BY <1>6, <1>7 DEF View!Next

LEMMA ViewCreate ==
    ASSUME ViewInv, NEW r \in Runs, CreateRun(r)
    PROVE  View!Next
<1> USE JobAssumption
<1>1. /\ db[r] = "none" /\ db' = [db EXCEPT ![r] = "running"] /\ col' = [col EXCEPT ![r] = "expand"]
      /\ UNCHANGED <<rows, control, cancelled, states>>
  BY DEF CreateRun, ctlVars
<1>2. col[r] = "idle" /\ r \notin control /\ db'[r] = "running" /\ col'[r] = "expand"
  <2>1. col[r] = "idle"
    BY <1>1 DEF ViewInv, IInv, CollectorInv
  <2>2. r \notin control
    BY <2>1 DEF ViewInv, ControlInv
  <2> QED
    BY <1>1, <2>1, <2>2 DEF ViewInv, IInv, TypeOK
<1>3. SavedOf(r)' = {}
  BY <1>1, <1>2 DEF ViewInv, IInv, CollectorInv, SavedOf, JobsOf
<1>4. Told(r)' = View!NewRun(CellsOf(r))
  <2>1. /\ StatusOf(r)' = "running" /\ ControlOf(r)' = "none" /\ LiveOf(r)' = CellsOf(r)
        /\ FlagOf(r)' = FALSE
    BY <1>1, <1>2 DEF StatusOf, ControlOf, LiveOf, FlagOf, Terminal
  <2>2. Told(r)' = Fields(CellsOf(r), "running", {}, "none", CellsOf(r), FALSE)
    BY <1>3, <2>1, ToldFields
  <2> QED
    BY <2>2, Zenon DEF View!NewRun, Fields
<1>5. \A q \in Runs \ {r} : db'[q] = db[q] /\ Told(q)' = Told(q)
  <2>1. \A q \in Runs \ {r} : db'[q] = db[q] /\ col'[q] = col[q]
    BY <1>1 DEF ViewInv, IInv, TypeOK
  <2> QED
    BY <1>1, <2>1, ToldSame
<1>6. Srv' = [x \in DOMAIN Srv \cup {r} |->
                 IF x = r THEN View!NewRun(CellsOf(r)) ELSE Srv[x]]
  BY <1>2, <1>4, <1>5 DEF Srv
<1>7. View!Open(r, CellsOf(r))
  BY <1>1, <1>6 DEF View!Open, View!Created, Srv
<1>8. CellsOf(r) \in SUBSET Keys
  BY DEF CellsOf, JobsOf
<1> QED
  BY <1>7, <1>8 DEF View!Next

\* The cancel flag; the other steps of a cancel tell nothing.
LEMMA ViewCancel ==
    ASSUME ViewInv, NEW r \in Runs, Canceller(r)
    PROVE  View!Next \/ Srv' = Srv
<1>1. UNCHANGED <<db, rows, control, states, col>>
  BY CancellerFrame DEF ViewInv, IInv
<1>2. CASE cancelled' = cancelled
  BY <1>1, <1>2, ToldSame, SrvStays
<1>3. CASE CancelFlag(r)
  <2>1. cancelled' = [cancelled EXCEPT ![r] = TRUE] /\ db[r] # "none"
    BY <1>3 DEF CancelFlag, ViewInv, IInv, CancelInv
  <2>2. cancelled'[r] /\ \A q \in Runs \ {r} : cancelled'[q] = cancelled[q]
    BY <2>1 DEF ViewInv, IInv, TypeOK
  <2>3. \A q \in Runs \ {r} : Told(q)' = Told(q)
    BY <1>1, <2>2, ToldSame
  <2>4. CASE r \notin control \/ cancelled[r]
    <3>1. Told(r)' = Told(r)
      BY <1>1, <2>2, <2>4, ToldSame
    <3> QED
      BY <1>1, <2>3, <3>1, SrvStays
  <2>5. CASE r \in control /\ ~cancelled[r]
    <3>1. /\ StatusOf(r)' = StatusOf(r) /\ SavedOf(r)' = SavedOf(r)
          /\ ControlOf(r)' = ControlOf(r) /\ LiveOf(r)' = LiveOf(r) /\ FlagOf(r)' = TRUE
      BY <1>1, <2>2, <2>5 DEF StatusOf, SavedOf, ControlOf, LiveOf, ShownOf, FlagOf
    <3>2. Told(r)' = [Told(r) EXCEPT !.cancelled = TRUE]
      BY <3>1, ToldFields, FieldsRead
    <3>3. Srv' = [Srv EXCEPT ![r] = [Told(r) EXCEPT !.cancelled = TRUE]]
      BY <1>1, <2>1, <2>3, <3>2, SrvStep
    <3>4. View!CancelRun(r)
      <4>1. ControlOf(r) = "published" /\ ~FlagOf(r)
        BY <2>5 DEF ControlOf, FlagOf
      <4>2. Srv[r] = Told(r) /\ Told(r).control = "published" /\ ~Told(r).cancelled
        BY <2>1, <4>1, ToldFields, FieldsRead DEF Srv
      <4> QED
        BY <3>3, <4>2 DEF View!CancelRun, Srv
    <3>5. r \in View!Created
      BY <2>1 DEF View!Created
    <3> QED
      BY <3>4, <3>5 DEF View!Next
  <2> QED
    BY <2>4, <2>5
<1> QED
  BY <1>2, <1>3 DEF Canceller, CancelInactive, CancelFound, CancelSnapshot, CancelKill,
     CancelReturns, ctlVars

\* A worker's steps: only MarkDone, while the run has its control, tells.
LEMMA ViewWorker ==
    ASSUME PairsApart, ViewInv, NEW j \in Jobs, Worker(j)
    PROVE  View!Next \/ Srv' = Srv
<1> USE JobAssumption
<1> DEFINE r == RunOf[j]
           c == KeyOf[j]
<1>1. /\ UNCHANGED <<db, rows, control, cancelled, col>>
      /\ jpc[j] \in {"queued"} \cup WorkerPCs
  BY WorkerFrame DEF ViewInv, IInv
<1>2. /\ r \in Runs /\ c \in Keys /\ j \in Jobs \ SkippedJobs /\ OwnKey(j) /\ db[r] # "none"
      /\ states \in [Runs -> [Keys -> StateNames]]
  <2>1. jpc[j] \notin {"new", "skipped", "lost"}
    BY <1>1 DEF WorkerPCs, LockedPCs
  <2>2. j \notin SkippedJobs
    BY <2>1 DEF ViewInv, IInv, SkippedInv
  <2>3. db[r] # "none"
    BY <2>1 DEF ViewInv, IInv, CollectorInv, JobsOf
  <2>4. OwnKey(j)
    BY DEF OwnKey, PairsApart, PlannedOf, JobsOf
  <2> QED
    BY <2>2, <2>3, <2>4 DEF ViewInv, IInv, TypeOK
<1>3. CASE UNCHANGED states
  BY <1>1, <1>3, ToldSame, SrvStays
<1>4. ASSUME NEW s, SetState(j, s), \A q \in Runs \ {r} : states'[q] = states[q]
      PROVE  \A q \in Runs \ {r} : Told(q)' = Told(q)
  BY <1>1, <1>4, ToldSame
<1>5. ASSUME NEW s, SetState(j, s)
      PROVE  \A q \in Runs \ {r} : states'[q] = states[q]
  BY <1>2, <1>5 DEF SetState
<1>6. CASE SetState(j, "running") /\ jpc[j] \in {"picked", "locked"}
  <2>1. states[r][c] = "queued"
    BY <1>2, <1>6 DEF ViewInv, StateInv, Shown
  <2>2. ShownOf(r)' = ShownOf(r)
    BY <1>2, <1>6, <2>1 DEF SetState, ShownOf
  <2>3. Told(r)' = Told(r)
    BY <1>1, <1>2, <2>2, ToldFields DEF StatusOf, SavedOf, ControlOf, LiveOf, FlagOf
  <2> QED
    BY <1>1, <1>4, <1>5, <1>6, <2>3, SrvStays
<1>7. CASE SetState(j, "done") /\ jpc[j] = "left"
  <2>1. c \in ShownOf(r) /\ ShownOf(r)' = ShownOf(r) \ {c}
    BY <1>2, <1>7 DEF ViewInv, StateInv, Shown, SetState, ShownOf
  <2>2. CASE r \notin control
    <3>1. Told(r)' = Told(r)
      BY <1>1, <1>2, <2>2, ToldSame
    <3> QED
      BY <1>1, <1>4, <1>5, <1>7, <3>1, SrvStays
  <2>3. CASE r \in control
    <3>1. /\ StatusOf(r)' = StatusOf(r) /\ SavedOf(r)' = SavedOf(r)
          /\ ControlOf(r)' = ControlOf(r) /\ LiveOf(r)' = LiveOf(r) \ {c}
          /\ FlagOf(r)' = FlagOf(r)
      BY <1>1, <2>1, <2>3 DEF StatusOf, SavedOf, ControlOf, LiveOf, FlagOf
    <3>2. Told(r)' = [Told(r) EXCEPT !.live = Told(r).live \ {c}]
      BY <1>2, <3>1, ToldFields, FieldsRead
    <3>3. Srv' = [Srv EXCEPT ![r] = [Told(r) EXCEPT !.live = Told(r).live \ {c}]]
      BY <1>1, <1>2, <1>4, <1>5, <1>7, <3>2, SrvStep
    <3>4. View!MarkDone(r, c)
      <4>1. ControlOf(r) = "published" /\ c \in LiveOf(r)
        BY <2>1, <2>3 DEF ControlOf, LiveOf
      <4>2. Srv[r] = Told(r) /\ Told(r).control = "published" /\ c \in Told(r).live
        BY <1>2, <4>1, ToldFields, FieldsRead DEF Srv
      <4> QED
        BY <3>3, <4>2 DEF View!MarkDone, Srv
    <3>5. r \in View!Created
      BY <1>2 DEF View!Created
    <3> QED
      BY <1>2, <3>4, <3>5 DEF View!Next
  <2> QED
    BY <2>2, <2>3
<1> QED
  BY <1>3, <1>6, <1>7, WorkerShows DEF ViewInv, IInv

LEMMA ViewDie ==
    ASSUME ViewInv, Die
    PROVE  View!Next
<1>1. /\ UNCHANGED <<db, rows>> /\ control' = {}
      /\ \A q \in Runs : col'[q] = IF col[q] = "idle" THEN "idle" ELSE "closed"
  BY DEF Die, storeVars
<1>2. ASSUME NEW q \in Runs, db[q] # "none"
      PROVE  Told(q)' = View!Dropped(Told(q))
  <2>1. col'[q] = "closed"
    BY <1>1, <1>2 DEF ViewInv, IInv, CollectorInv
  <2>2. /\ StatusOf(q)' = StatusOf(q) /\ SavedOf(q)' = SavedOf(q) /\ ControlOf(q)' = "dropped"
        /\ LiveOf(q)' = {} /\ FlagOf(q)' = FALSE
    BY <1>1, <2>1 DEF StatusOf, SavedOf, ControlOf, LiveOf, FlagOf
  <2>3. Told(q)' = Fields(CellsOf(q), StatusOf(q), SavedOf(q), "dropped", {}, FALSE)
    BY <2>2, ToldFields
  <2>4. Told(q) = Fields(CellsOf(q), StatusOf(q), SavedOf(q), ControlOf(q), LiveOf(q), FlagOf(q))
    BY ToldFields
  <2>5. View!Dropped(Fields(CellsOf(q), StatusOf(q), SavedOf(q), ControlOf(q), LiveOf(q),
                            FlagOf(q)))
          = Fields(CellsOf(q), StatusOf(q), SavedOf(q), "dropped", {}, FALSE)
    BY DroppedIs, Zenon
  <2> QED
    BY <2>3, <2>4, <2>5, Zenon
<1>3. Srv' = [q \in DOMAIN Srv |-> View!Dropped(Srv[q])]
  BY <1>1, <1>2 DEF Srv
<1>4. View!EngineRestarts
  BY <1>3 DEF View!EngineRestarts, View!Created, Srv
<1> QED
  BY <1>4 DEF View!Next

\* Every step of the engine tells what RunView allows.
LEMMA ViewStep == ASSUME PairsApart, ViewInv, [Next]_vars PROVE [View!Next]_Srv
<1>1. ASSUME NEW j \in Jobs, RunnerTimesOut(j) \/ Runner(j) PROVE Srv' = Srv
  <2>1. UNCHANGED <<db, rows, control, cancelled, col, states>>
    BY <1>1 DEF Runner, RunnerArms, RunnerExits, RunnerCrashes, RunnerTimesOut, storeVars,
       ctlVars, colVars
  <2> QED
    BY <2>1, ToldSame, SrvStays
<1>2. ASSUME NEW r \in Runs, Collector(r) PROVE View!Next \/ Srv' = Srv
  <2>1. ASSUME NEW j \in JobsOf(r), Submit(r, j) PROVE Srv' = Srv
    <3>1. UNCHANGED <<db, rows, control, cancelled, col, states>>
      BY <2>1 DEF Submit, storeVars, ctlVars, colVars
    <3> QED
      BY <3>1, ToldSame, SrvStays
  <2>2. CASE ReadVerdict(r) \/ \E j \in JobsOf(r) : CollectRaises(r, j)
    <3>1. /\ UNCHANGED <<db, rows, control, cancelled, states>> /\ col[r] = "active"
          /\ col' = [col EXCEPT ![r] = "verdict"] \/ col' = [col EXCEPT ![r] = "closing"]
      BY <2>2 DEF ReadVerdict, CollectRaises, storeVars, ctlVars
    <3>2. \A q \in Runs : col'[q] = "expand" <=> col[q] = "expand"
      BY <3>1 DEF ViewInv, IInv, TypeOK
    <3> QED
      BY <3>1, <3>2, ToldSame, SrvStays
  <2> QED
    BY <1>2, <2>1, <2>2, ViewSaveSkipped, ViewCollect, ViewPublish, ViewFinish, ViewDrop
       DEF Collector
<1>3. CASE UNCHANGED vars
  <2>1. UNCHANGED <<db, rows, control, cancelled, states, col>>
    BY <1>3, VarsUnfold
  <2> QED
    BY <2>1, ToldSame, SrvStays
<1> QED
  BY <1>1, <1>2, <1>3, ViewCreate, ViewCancel, ViewWorker, ViewDie DEF Next

\* Read through the API, the run engine is RunView, for any runs, pool and
\* breakdowns, where every pair of a sweep has its own display key and row: no
\* result is saved of a job still shown as running, a run ends with every cell
\* saved, and a control that goes earlier leaves a cell that is neither saved
\* nor shown (main.py 233-249, 338-347, 383).
THEOREM ViewRefined == ASSUME PairsApart PROVE Spec => ViewSpec
<1>1. ViewInv /\ [Next]_vars => [View!Next]_Srv
  BY ViewStep
<1> QED
  BY <1>1, InitView, ViewInvariant, PTL DEF Spec, ViewSpec, View!Spec, Srv
=============================================================================
