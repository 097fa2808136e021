------------------------ MODULE SharedProxiesProofs ------------------------
(***************************************************************************)
(* Every fault job starts from clean proxies, for any number of jobs, of   *)
(* toxics, of lost calls and of operator requests.                         *)
(***************************************************************************)
EXTENDS SharedProxies, TLAPS

\* What a DELETE or a clearing POST does, however it ends.
LEMMA DropFrame ==
    ASSUME TypeOK, NEW k \in Clients, NEW t \in Names \cup L7,
           Succeeds(Drop(k, t)) \/ Refused \/ Loses(Drop(k, t))
    PROVE  /\ \A u \in Names \cup L7 : holds'[u] \in {holds[u], NoOne}
           /\ \A q \in stray' : q \in stray \/ q.by = k
           /\ Succeeds(Drop(k, t)) => holds'[t] = NoOne
           /\ holds' \in [Names \cup L7 -> Clients \cup {NoOne}]
           /\ stray' \subseteq Calls /\ lost' \in 0..MaxLost
BY ProxyAssumption DEF TypeOK, Calls, Succeeds, Refused, Loses, GivenUp, Carried, Works,
   Set, proxies, Drop

\* What a POST of a toxic or of an L7 feature does.
LEMMA PutFrame ==
    ASSUME TypeOK, NEW k \in Clients, NEW t \in Names \cup L7,
           Succeeds(Put(k, t)) \/ Refused \/ Loses(Put(k, t))
    PROVE  /\ \A u \in Names \cup L7 : holds'[u] \in {holds[u], k}
           /\ \A q \in stray' : q \in stray \/ q.by = k
           /\ holds' \in [Names \cup L7 -> Clients \cup {NoOne}]
           /\ stray' \subseteq Calls /\ lost' \in 0..MaxLost
BY ProxyAssumption DEF TypeOK, Calls, Succeeds, Refused, Loses, GivenUp, Carried, Works,
   Set, proxies, Put

\* A step of the job that holds the lock, or of its runner.
Move(r) ==
    /\ pc[r] \notin {"waiting", "gone"} /\ pc'[r] \notin {"waiting", "gone"}
    /\ \A k \in Clients \ {r} : pc'[k] = pc[k]
    /\ \A k \in Runners \ {r} : trouble'[k] = trouble[k]
    /\ lock' = lock /\ late' = late
    /\ \A t \in Names \cup L7 : holds'[t] \in {holds[t], NoOne, r}
    /\ \A q \in stray' : q \in stray \/ q.by = r

\* A step of the operator, or a stray call that is carried out.
Aside ==
    /\ \A r \in Runners : pc'[r] = pc[r] /\ todo'[r] = todo[r]
    /\ lock' = lock /\ history' = history
    /\ \A q \in stray' : q \in stray \/ q.by = Operator
    /\ \A t \in Names \cup L7 :
           \/ holds'[t] \in {holds[t], NoOne, Operator}
           \/ \E q \in stray : holds'[t] = q.by

\* Nobody else is busy, so a move keeps the invariant if it keeps the mover's
\* own progress; what was free of earlier runners stays so.
LEMMA MoveKeeps ==
    ASSUME IInv, NEW r \in Runners, Move(r), TypeOK', trouble'[r] \/ Progress(r)'
    PROVE  IInv'
<1>1. lock = r /\ \A k \in Runners \ {r} : pc[k] \in {"waiting", "gone"}
  BY ProxyAssumption DEF IInv, LockInv, Move
<1>2. LockInv'
  BY <1>1 DEF IInv, LockInv, Move, Clients
<1>3. StrayInv'
  BY <1>1 DEF IInv, StrayInv, Move
<1>4. ASSUME NEW k \in Runners \ {r} PROVE Progress(k)'
  BY <1>1 DEF Progress, RunnerPCs, Move, Clients
<1>5. ResetInv'
  BY <1>4 DEF ResetInv
<1> QED
  BY <1>2, <1>3, <1>5 DEF IInv

LEMMA FreeKept ==
    ASSUME TypeOK, NEW r \in Runners, Move(r), NEW T \in SUBSET (Names \cup L7), FreeOf(r, T)
    PROVE  FreeOf(r, T)'
BY ProxyAssumption DEF FreeOf, Earlier, Move

\* Who steps aside leaves no earlier runner's fault: the calls still under way
\* are of latecomers.
LEMMA AsideKeeps ==
    ASSUME IInv, Aside, TypeOK'
    PROVE  IInv'
<1>1. LockInv'
  BY DEF IInv, LockInv, Aside
<1>2. StrayInv'
  BY DEF IInv, StrayInv, Aside, history
<1>3. ASSUME NEW r \in Runners, Progress(r) PROVE Progress(r)'
  <2>1. CASE lock = r
    <3>1. \A t \in Names \cup L7 :
              holds[t] \notin Earlier(r) => holds'[t] \notin Earlier(r)'
      BY <2>1, ProxyAssumption DEF IInv, StrayInv, Aside, Earlier, history
    <3> QED
      BY <1>3, <3>1 DEF Progress, FreeOf, Aside, L7
  <2>2. CASE lock # r
    BY <2>2 DEF IInv, LockInv, Progress, RunnerPCs, Aside
  <2> QED
    BY <2>1, <2>2
<1>4. ResetInv'
  BY <1>3 DEF IInv, ResetInv, Aside, history
<1> QED
  BY <1>1, <1>2, <1>4 DEF IInv

LEMMA InitIInv == Init => IInv
BY ProxyAssumption DEF Init, IInv, TypeOK, LockInv, StrayInv, ResetInv, Progress, PCs,
   RunnerPCs, Clients, Calls
-----------------------------------------------------------------------------
\* The lock changes hands: whoever takes it has everything still to do.
LEMMA BeginKeeps ==
    ASSUME IInv, NEW r \in Runners, Begin(r)
    PROVE  IInv'
<1>1. TypeOK'
  BY ZenonT(60) DEF IInv, TypeOK, Begin, Goto, Set, PCs, ResetPCs, proxies, Calls, Clients
<1>2. \A k \in Runners : pc[k] \in {"waiting", "gone"}
  BY ProxyAssumption DEF IInv, LockInv, Begin
<1>3. pc' = [pc EXCEPT ![r] = "list"] /\ lock' = r /\ trouble' = trouble
  BY DEF Begin, Goto, Set
<1>4. LockInv'
  BY <1>2, <1>3, ProxyAssumption DEF IInv, TypeOK, LockInv, Clients
<1>5. StrayInv'
  BY <1>3 DEF StrayInv, Begin, proxies
<1>6. ResetInv'
  BY <1>2, <1>3 DEF ResetInv, Progress, RunnerPCs, IInv, TypeOK, Clients
<1> QED
  BY <1>1, <1>4, <1>5, <1>6 DEF IInv

LEMMA LeaveKeeps ==
    ASSUME IInv, NEW r \in Runners, Leave(r)
    PROVE  IInv'
<1>1. TypeOK'
  BY DEF IInv, TypeOK, Leave, Goto, Set, PCs, proxies, history, Clients
<1>2. /\ pc' = [pc EXCEPT ![r] = "gone"] /\ pc[r] = "ended" /\ lock' = NoOne
      /\ trouble' = trouble
  BY DEF Leave, Goto, Set, history
<1>3. lock = r /\ \A k \in Runners \ {r} : pc[k] \in {"waiting", "gone"}
  BY <1>2, ProxyAssumption DEF IInv, LockInv
<1>4. LockInv' /\ StrayInv'
  BY <1>2, <1>3, ProxyAssumption DEF LockInv, StrayInv, IInv, TypeOK, Clients
<1>5. ResetInv'
  BY <1>2, <1>3 DEF ResetInv, Progress, RunnerPCs, IInv, TypeOK, Clients
<1> QED
  BY <1>1, <1>4, <1>5 DEF IInv
-----------------------------------------------------------------------------
\* Each call of clear() and clear_mitm() adds its part to what is free of
\* earlier runners, or leaves its mark in trouble, or ends the job.
LEMMA ResetKeeps ==
    ASSUME IInv, NEW r \in Runners, Reset(r)
    PROVE  IInv'
<1> USE DEF IInv
<1>0. r \in Clients /\ r # Operator /\ (pc[r] \in ResetPCs => lock = r)
  BY ProxyAssumption DEF Clients, LockInv, ResetPCs
<1>1. CASE List(r)
  <2>1. TypeOK'
    <3>1. /\ \E w \in {"delete", "mitm fault", "ended"} : pc' = [pc EXCEPT ![r] = w]
          /\ \E T \in SUBSET Names : todo' = [todo EXCEPT ![r] = T]
          /\ trouble' = trouble \/ trouble' = [trouble EXCEPT ![r] = TRUE]
          /\ UNCHANGED <<holds, stray, lock, added, operated, late>>
      BY <1>1 DEF List, Ignored, Raised, Refused, GivenUp, proxies, Goto, Set
    <3>2. lost' \in 0..MaxLost
      BY <1>1, ProxyAssumption DEF List, Refused, GivenUp, proxies, TypeOK
    <3>3. pc' \in [Clients -> PCs] /\ todo' \in [Clients -> SUBSET Names]
      BY <1>0, <3>1 DEF TypeOK, PCs, ResetPCs
    <3>4. trouble' \in [Runners -> BOOLEAN]
      BY <3>1 DEF TypeOK
    <3> QED
      BY <3>1, <3>2, <3>3, <3>4 DEF TypeOK
  <2>2. Move(r)
    <3>1. pc[r] = "list" /\ pc' \in {Set(pc, r, w) : w \in {"delete", "mitm fault", "ended"}}
      BY <1>1 DEF List, Ignored, Raised, Goto
    <3>2. trouble' \in {trouble, Set(trouble, r, TRUE)} /\ holds' = holds /\ stray' = stray
      BY <1>1 DEF List, Ignored, Raised, Refused, GivenUp, proxies
    <3> QED
      BY <1>0, <1>1, <3>1, <3>2 DEF Move, List, TypeOK, Set
  <2>3. trouble'[r] \/ Progress(r)'
    <3>1. CASE Goto(r, "delete") /\ todo' = Set(todo, r, {n \in Names : holds[n] # NoOne})
               /\ holds' = holds
      <4>1. pc'[r] = "delete" /\ todo'[r] = {n \in Names : holds[n] # NoOne}
        BY <1>0, <3>1 DEF Goto, Set, TypeOK
      <4>2. \A t \in Names \ todo'[r] : holds'[t] \notin Earlier(r)'
        BY <3>1, <4>1, ProxyAssumption DEF Earlier
      <4> QED
        BY <4>1, <4>2 DEF Progress, FreeOf, RunnerPCs
    <3>2. CASE trouble' = Set(trouble, r, TRUE)
      BY <3>2 DEF Set, TypeOK
    <3>3. CASE Goto(r, "ended")
      BY <1>0, <3>3 DEF Goto, Set, TypeOK, Progress, RunnerPCs
    <3> QED
      BY <1>1, <3>1, <3>2, <3>3 DEF List, Refused, GivenUp, Ignored, Raised, proxies
  <2> QED
    BY <2>1, <2>2, <2>3, MoveKeeps
<1>2. ASSUME NEW n \in Names, Delete(r, n) PROVE IInv'
  <2>1. Succeeds(Drop(r, n)) \/ Refused \/ Loses(Drop(r, n))
    BY <1>2 DEF Delete
  <2>2. /\ pc[r] = "delete" /\ pc' \in {pc, Set(pc, r, "mitm fault"), Set(pc, r, "ended")}
        /\ todo' \in {Set(todo, r, todo[r] \ {n}), Set(todo, r, {})}
        /\ trouble' \in {trouble, Set(trouble, r, TRUE)}
    BY <1>2 DEF Delete, Ignored, Raised, Goto
  <2>3. TypeOK'
    BY <1>0, <1>2, <2>1, <2>2, DropFrame DEF TypeOK, Delete, Set, PCs, ResetPCs
  <2>4. Move(r)
    BY <1>0, <1>2, <2>1, <2>2, DropFrame DEF TypeOK, Delete, Set, Move
  <2>5. CASE Succeeds(Drop(r, n)) /\ pc' = pc /\ todo' = Set(todo, r, todo[r] \ {n})
             /\ trouble' = trouble
    <3>1. holds'[n] = NoOne /\ todo'[r] = todo[r] \ {n}
      BY <1>0, <2>5, DropFrame DEF Set, TypeOK
    <3>2. trouble[r] \/ FreeOf(r, Names \ todo[r])
      BY <2>2 DEF ResetInv, Progress
    <3>3. ASSUME FreeOf(r, Names \ todo[r]), NEW t \in Names \ todo'[r]
          PROVE  holds'[t] \notin Earlier(r)'
      BY <2>4, <3>1, <3>3, ProxyAssumption DEF FreeOf, Earlier, Move
    <3>4. trouble'[r] \/ Progress(r)'
      BY <2>2, <2>5, <3>2, <3>3 DEF Progress, FreeOf, RunnerPCs
    <3> QED
      BY <2>3, <2>4, <3>4, MoveKeeps
  <2>6. CASE trouble' = Set(trouble, r, TRUE) \/ pc' = Set(pc, r, "ended")
    <3>1. trouble'[r] \/ pc'[r] = "ended"
      BY <1>0, <2>6 DEF Set, TypeOK
    <3> QED
      BY <2>3, <2>4, <3>1, MoveKeeps DEF Progress, RunnerPCs
  <2> QED
    BY <1>2, <2>5, <2>6 DEF Delete, Ignored, Raised, Goto
<1>3. CASE Deleted(r)
  <2>1. TypeOK' /\ Move(r)
    BY <1>0, <1>3 DEF TypeOK, Deleted, Goto, Set, PCs, ResetPCs, proxies, history, Move, Clients
  <2>2. trouble' = trouble /\ (Progress(r) => Progress(r)')
    <3>1. /\ trouble' = trouble /\ holds' = holds /\ Earlier(r)' = Earlier(r)
          /\ pc[r] = "delete" /\ todo[r] = {} /\ pc'[r] = "mitm fault"
      BY <1>0, <1>3 DEF TypeOK, Deleted, Goto, Set, proxies, history, Earlier
    <3> QED
      BY <3>1 DEF Progress, FreeOf, RunnerPCs
  <2>3. trouble'[r] \/ Progress(r)'
    BY <2>2 DEF ResetInv
  <2> QED
    BY <2>1, <2>3, MoveKeeps
<1>4. CASE ClearFault(r)
  <2>1. Succeeds(Drop(r, "fault")) \/ Refused \/ Loses(Drop(r, "fault"))
    BY <1>4 DEF ClearFault, ClearMitm
  <2>2. /\ pc[r] = "mitm fault" /\ pc' = Set(pc, r, "mitm topology")
        /\ trouble' \in {trouble, Set(trouble, r, TRUE)}
        /\ trouble' = Set(trouble, r, TRUE) \/ Succeeds(Drop(r, "fault"))
        /\ UNCHANGED <<lock, todo, added, operated, late>>
    BY <1>4 DEF ClearFault, ClearMitm, Goto
  <2>3. TypeOK'
    BY <1>0, <2>1, <2>2, DropFrame DEF TypeOK, Set, PCs, ResetPCs, L7
  <2>4. Move(r) /\ (Succeeds(Drop(r, "fault")) => holds'["fault"] = NoOne)
    BY <1>0, <2>1, <2>2, DropFrame DEF TypeOK, Set, ResetPCs, Move, L7
  <2>5. FreeOf(r, Names) => FreeOf(r, Names)'
    BY <2>4, FreeKept
  <2>6. CASE trouble' = Set(trouble, r, TRUE)
    <3>1. trouble'[r]
      BY <2>6 DEF Set, TypeOK
    <3> QED
      BY <2>3, <2>4, <3>1, MoveKeeps
  <2>7. CASE trouble' = trouble /\ Succeeds(Drop(r, "fault"))
    <3>1. pc'[r] = "mitm topology"
      BY <1>0, <2>2 DEF Set, TypeOK
    <3>2. trouble[r] \/ FreeOf(r, Names)
      BY <2>2 DEF ResetInv, Progress
    <3>3. holds'["fault"] \notin Earlier(r)'
      BY <2>4, <2>7, ProxyAssumption DEF Earlier
    <3>4. FreeOf(r, Names) => Progress(r)'
      BY <2>5, <3>1, <3>3 DEF Progress, FreeOf, RunnerPCs, L7
    <3> QED
      BY <2>3, <2>4, <2>7, <3>2, <3>4, MoveKeeps
  <2> QED
    BY <2>2, <2>6, <2>7
<1>5. CASE ClearTopology(r)
  <2>1. Succeeds(Drop(r, "topology")) \/ Refused \/ Loses(Drop(r, "topology"))
    BY <1>5 DEF ClearTopology, ClearMitm
  <2>2. /\ pc[r] = "mitm topology" /\ pc' = Set(pc, r, "live")
        /\ trouble' \in {trouble, Set(trouble, r, TRUE)}
        /\ trouble' = Set(trouble, r, TRUE) \/ Succeeds(Drop(r, "topology"))
        /\ UNCHANGED <<lock, todo, added, operated, late>>
    BY <1>5 DEF ClearTopology, ClearMitm, Goto
  <2>3. TypeOK'
    BY <1>0, <2>1, <2>2, DropFrame DEF TypeOK, Set, PCs, RunnerPCs, L7
  <2>4. Move(r) /\ (Succeeds(Drop(r, "topology")) => holds'["topology"] = NoOne)
    BY <1>0, <2>1, <2>2, DropFrame DEF TypeOK, Set, ResetPCs, Move, L7
  <2>5. FreeOf(r, Names \cup {"fault"}) => FreeOf(r, Names \cup {"fault"})'
    BY <2>4, FreeKept DEF L7
  <2>6. CASE trouble' = Set(trouble, r, TRUE)
    <3>1. trouble'[r]
      BY <2>6 DEF Set, TypeOK
    <3> QED
      BY <2>3, <2>4, <3>1, MoveKeeps
  <2>7. CASE trouble' = trouble /\ Succeeds(Drop(r, "topology"))
    <3>1. pc'[r] = "live"
      BY <1>0, <2>2 DEF Set, TypeOK
    <3>2. trouble[r] \/ FreeOf(r, Names \cup {"fault"})
      BY <2>2 DEF ResetInv, Progress
    <3>3. holds'["topology"] \notin Earlier(r)'
      BY <2>4, <2>7, ProxyAssumption DEF Earlier
    <3>4. FreeOf(r, Names \cup {"fault"}) => Progress(r)'
      BY <2>5, <3>1, <3>3 DEF Progress, FreeOf, RunnerPCs, L7
    <3> QED
      BY <2>3, <2>4, <2>7, <3>2, <3>4, MoveKeeps
  <2> QED
    BY <2>2, <2>6, <2>7
<1> QED
  BY <1>1, <1>2, <1>3, <1>4, <1>5, BeginKeeps DEF Reset
-----------------------------------------------------------------------------
\* What any step of a runner leaves as it was: the runner adds only what is its
\* own, and it goes on or ends.
RunnerStep(r) ==
    /\ pc[r] \in RunnerPCs
    /\ \E w \in RunnerPCs \cup {"ended"} : pc' = [pc EXCEPT ![r] = w]
    /\ added' \in [Runners -> SUBSET Names]
    /\ \A u \in Names \cup L7 : holds'[u] \in {holds[u], NoOne, r}
    /\ \A q \in stray' : q \in stray \/ q.by = r
    /\ holds' \in [Names \cup L7 -> Clients \cup {NoOne}]
    /\ stray' \subseteq Calls /\ lost' \in 0..MaxLost
    /\ Unlogged

LEMMA RunnerStepKeeps ==
    ASSUME IInv, NEW r \in Runners, RunnerStep(r)
    PROVE  IInv'
<1> USE DEF IInv
<1>1. PICK w \in RunnerPCs \cup {"ended"} : pc' = [pc EXCEPT ![r] = w]
  BY DEF RunnerStep
<1>2. r \in Clients /\ pc'[r] = w /\ trouble' = trouble
  BY <1>1 DEF Clients, TypeOK, RunnerStep, Unlogged, history
<1>3. TypeOK'
  BY <1>1, <1>2 DEF TypeOK, RunnerStep, Unlogged, history, PCs
<1>4. Move(r)
  BY <1>1, <1>2 DEF TypeOK, RunnerStep, Unlogged, history, Move, RunnerPCs
<1>5. FreeOf(r, Names \cup L7) => FreeOf(r, Names \cup L7)'
  BY <1>4, FreeKept
<1>6. Progress(r) => Progress(r)'
  BY <1>2, <1>5 DEF Progress, RunnerStep, RunnerPCs
<1>7. trouble'[r] \/ Progress(r)'
  BY <1>2, <1>6 DEF ResetInv
<1> QED
  BY <1>3, <1>4, <1>7, MoveKeeps

LEMMA RunnerKeeps ==
    ASSUME IInv, NEW r \in Runners, Runner(r) \/ Dies(r)
    PROVE  RunnerStep(r)
<1> USE DEF IInv
<1>0. /\ r \in Clients /\ ToxicNames \subseteq Names
      /\ pc' = pc => pc' = [pc EXCEPT ![r] = pc[r]]
  BY DEF Clients, Names, TypeOK
<1>1. ASSUME Refused
      PROVE  /\ \A u \in Names \cup L7 : holds'[u] = holds[u]
             /\ \A q \in stray' : q \in stray
             /\ holds' \in [Names \cup L7 -> Clients \cup {NoOne}]
             /\ stray' \subseteq Calls /\ lost' \in 0..MaxLost
  BY <1>1 DEF Refused, proxies, TypeOK
<1>2. ASSUME NEW t \in ToxicNames \cup L7, Arm(r, t) PROVE RunnerStep(r)
  <2>1. Succeeds(Put(r, t)) \/ Refused \/ Loses(Put(r, t))
    BY <1>2 DEF Arm
  <2>2. added' \in [Runners -> SUBSET Names]
    BY <1>2 DEF Arm, Set, TypeOK
  <2>3. pc[r] \in RunnerPCs /\ pc' \in {pc, Set(pc, r, "toxics")} /\ Unlogged
    BY <1>2 DEF Arm, Goto, RunnerPCs
  <2> QED
    BY <1>0, <2>1, <2>2, <2>3, PutFrame DEF RunnerStep, Set, RunnerPCs
<1>3. ASSUME NEW x \in L7, Disarm(r, x) PROVE RunnerStep(r)
  <2>1. Succeeds(Drop(r, x)) \/ Refused \/ Loses(Drop(r, x))
    BY <1>3 DEF Disarm
  <2>2. /\ pc[r] \in RunnerPCs /\ pc' \in {pc, Set(pc, r, "toxics")}
        /\ added' \in [Runners -> SUBSET Names] /\ Unlogged
    BY <1>3 DEF Disarm, Goto, RunnerPCs, TypeOK
  <2> QED
    BY <1>0, <2>1, <2>2, DropFrame DEF RunnerStep, Set, RunnerPCs
<1>4. ASSUME NEW n \in ToxicNames, Withdraw(r, n) \/ ResetToxic(r, n) PROVE RunnerStep(r)
  <2>1. Succeeds(Drop(r, n)) \/ Refused \/ Loses(Drop(r, n))
    BY <1>4 DEF Withdraw, ResetToxic, Remove
  <2>2. /\ pc[r] \in RunnerPCs /\ Unlogged
        /\ pc' \in {pc, Set(pc, r, "toxics"), Set(pc, r, "fault")}
        /\ added' \in {added, Set(added, r, added[r] \ {n})}
    BY <1>4 DEF Withdraw, ResetToxic, Remove, Goto, RunnerPCs
  <2>3. added' \in [Runners -> SUBSET Names]
    BY <2>2 DEF Set, TypeOK
  <2> QED
    BY <1>0, <2>1, <2>2, <2>3, DropFrame DEF RunnerStep, Set, RunnerPCs
<1>5. CASE EndScenario(r) \/ EndResetToxics(r) \/ Dies(r)
  <2>1. /\ pc[r] \in RunnerPCs /\ Unlogged /\ Refused /\ added' = added
        /\ \E w \in RunnerPCs \cup {"ended"} : pc' = [pc EXCEPT ![r] = w]
    BY <1>5 DEF EndScenario, EndResetToxics, Dies, Goto, Set, RunnerPCs, Refused
  <2> QED
    BY <1>1, <2>1 DEF RunnerStep, TypeOK
<1>6. CASE ResetProtocol(r)
  <2>1. pc[r] \in L7
    BY <1>6 DEF ResetProtocol
  <2>2. Succeeds(Drop(r, pc[r])) \/ Refused \/ Loses(Drop(r, pc[r]))
    BY <1>6 DEF ResetProtocol
  <2>3. /\ pc[r] \in RunnerPCs /\ Unlogged /\ added' \in [Runners -> SUBSET Names]
        /\ \E w \in RunnerPCs \cup {"ended"} : pc' = [pc EXCEPT ![r] = w]
    BY <1>6, <2>1 DEF ResetProtocol, Goto, Set, RunnerPCs, L7, TypeOK
  <2> QED
    BY <1>0, <2>1, <2>2, <2>3, DropFrame DEF RunnerStep
<1> QED
  BY <1>2, <1>3, <1>4, <1>5, <1>6 DEF Runner
-----------------------------------------------------------------------------
LEMMA PanelKeeps ==
    ASSUME IInv, Panel
    PROVE  IInv'
<1> USE DEF IInv
<1>0. Operator \in Clients /\ Operator \notin Runners /\ ProfileNames \subseteq Names
  BY ProxyAssumption DEF Clients, Names
<1>1. /\ \E w \in {"waiting", "delete"} : pc' = [pc EXCEPT ![Operator] = w]
      /\ \E T \in SUBSET Names : todo' = [todo EXCEPT ![Operator] = T]
      /\ UNCHANGED <<lock, added, history>>
      /\ operated' \in 0..MaxOperator
  <2>1. CASE OperatorLists
    <3>1. operated' \in 0..MaxOperator
      BY <2>1, ProxyAssumption DEF OperatorLists, TypeOK
    <3>2. {n \in Names : holds[n] # NoOne} \in SUBSET Names
      OBVIOUS
    <3> QED
      BY <2>1, <3>1, <3>2 DEF OperatorLists, Goto, Set
  <2>2. ASSUME NEW n \in Names, OperatorDeletes(n)
        PROVE  /\ pc' \in {pc, Set(pc, Operator, "waiting")} /\ pc[Operator] = "delete"
               /\ \E T \in SUBSET Names : todo' = [todo EXCEPT ![Operator] = T]
               /\ UNCHANGED <<lock, added, operated, history>>
    BY <1>0, <2>2 DEF OperatorDeletes, Goto, Set, TypeOK
  <2>3. CASE OperatorEnds
    BY <1>0, <2>3 DEF OperatorEnds, Goto, Set, TypeOK
  <2> QED
    BY <1>0, <2>1, <2>2, <2>3 DEF Panel, Set, TypeOK
<1>2. /\ \A u \in Names \cup L7 : holds'[u] \in {holds[u], NoOne, Operator}
      /\ \A q \in stray' : q \in stray \/ q.by = Operator
      /\ holds' \in [Names \cup L7 -> Clients \cup {NoOne}]
      /\ stray' \subseteq Calls /\ lost' \in 0..MaxLost
  <2>1. CASE Refused
    BY <2>1 DEF Refused, proxies, TypeOK
  <2>2. ASSUME NEW n \in Names, Succeeds(Drop(Operator, n)) \/ Loses(Drop(Operator, n))
        PROVE  <1>2!1 /\ <1>2!2 /\ <1>2!3 /\ <1>2!4
    BY <1>0, <2>2, DropFrame
  <2>3. ASSUME NEW n \in Names, Succeeds(Put(Operator, n)) \/ Loses(Put(Operator, n))
        PROVE  <1>2!1 /\ <1>2!2 /\ <1>2!3 /\ <1>2!4
    BY <1>0, <2>3, PutFrame
  <2> QED
    BY <1>0, <2>1, <2>2, <2>3 DEF Panel, OperatorLists, OperatorDeletes, OperatorEnds, Refused
<1>3. TypeOK'
  <2>1. pc' \in [Clients -> PCs]
    BY <1>0, <1>1 DEF TypeOK, PCs, ResetPCs
  <2>2. todo' \in [Clients -> SUBSET Names]
    BY <1>0, <1>1 DEF TypeOK
  <2> QED
    BY <1>1, <1>2, <2>1, <2>2 DEF TypeOK, history
<1>4. Aside
  BY <1>0, <1>1, <1>2 DEF Aside, TypeOK, Clients
<1> QED
  BY <1>3, <1>4, AsideKeeps

LEMMA StrayKeeps ==
    ASSUME IInv, NEW q \in stray, ServeStray(q)
    PROVE  IInv'
<1> USE DEF IInv
<1>1. q \in Calls /\ holds' = Carried(q) /\ stray' \subseteq stray
      /\ UNCHANGED <<local, lost, operated, history>>
  BY DEF ServeStray, TypeOK
<1>2. \A t \in Names \cup L7 : holds'[t] \in {holds[t], NoOne, q.by}
  BY <1>1 DEF Carried, Set, TypeOK
<1>3. holds' \in [Names \cup L7 -> Clients \cup {NoOne}]
  BY <1>1 DEF Carried, Set, TypeOK, Calls
<1>4. TypeOK' /\ Aside
  BY <1>1, <1>2, <1>3 DEF TypeOK, Aside, local, history
<1> QED
  BY <1>4, AsideKeeps
-----------------------------------------------------------------------------
\* The invariant of the shared proxies: who holds the lock, whose calls are
\* still under way, and how far the reset got (main.py 111-133, 370-378).
THEOREM ProxiesInv == Spec => []IInv
<1>1. ASSUME IInv, Next PROVE IInv'
  BY <1>1, ResetKeeps, RunnerKeeps, RunnerStepKeeps, LeaveKeeps, PanelKeeps, StrayKeeps
  DEF Next
<1>2. ASSUME IInv, UNCHANGED vars PROVE IInv'
  BY <1>2 DEF vars, local, proxies, history, IInv, TypeOK, LockInv, StrayInv, ResetInv,
     Progress, FreeOf, Earlier
<1> QED
  BY <1>1, <1>2, InitIInv, PTL DEF Spec

\* A runner launched after a reset whose calls all succeeded meets no fault of
\* an earlier runner, however that one ended (main.py 115-120).
THEOREM StartsClean == Spec => []CleanStart
<1>1. IInv => CleanStart
  BY DEF IInv, ResetInv, Progress, FreeOf, CleanStart, Owned
<1> QED
  BY <1>1, ProxiesInv, PTL
=============================================================================
