-------------------------- MODULE FaultProxyProofs --------------------------
(***************************************************************************)
(* The windows of the fault engine and the drains of the topology engine,  *)
(* for any numbers in the arm requests, any clients and any clock.         *)
(***************************************************************************)
EXTENDS FaultProxy, TLAPS

\* What is left of a count window and what was injected make what it was set to.
WindowInv ==
    mode = "count" => /\ injected + remaining = asked
                      /\ asked >= 0 => remaining >= 0

\* Numbers that would make a window active, in whichever mode a failing arm
\* leaves the engine, come from an arm that was answered.
GrantInv == now < until \/ remaining > 0 => granted

\* The ranges below an offset, of the topology with m ranges.
Below(m, n) == {m} \X (0..(n - 1))

\* A client that met one topology only has read it up to its offset, or to its
\* end when there was no continuation.
DrainInv ==
    \A d \in Drainers :
        /\ drain[d] = "idle" => tags[d] = {}
        /\ tags[d] = {} => offset[d] = 0 /\ held[d] = {}
        /\ \A m \in tags[d] : tags[d] = {m} =>
              /\ drain[d] = "drain" => offset[d] <= m /\ held[d] = Below(m, offset[d])
              /\ drain[d] \in {"confirm", "settled"} => held[d] = Below(m, m)

IInv == TypeOK /\ WindowInv /\ GrantInv /\ DrainInv
-----------------------------------------------------------------------------
LEMMA InitIInv == Init => IInv
<1> SUFFICES ASSUME Init PROVE IInv
  OBVIOUS
<1>1. TypeOK
  <2>1. granted \in BOOLEAN /\ armed \in BOOLEAN
    BY Zenon DEF Init
  <2> QED
    BY <2>1 DEF Init, TypeOK, Modes, Replies, DrainPCs
<1>2. WindowInv /\ GrantInv /\ DrainInv
  BY DEF Init, WindowInv, GrantInv, DrainInv
<1> QED
  BY <1>1, <1>2 DEF IInv

\* A page begins at the offset, or at the end when the offset is beyond it, and
\* takes at least one range when there is one left.
LEMMA PageIs ==
    ASSUME ranges \in Nat \ {0}, pageSize \in Int, NEW off \in Nat
    PROVE  /\ PageEnd(off) \in Nat /\ PageEnd(off) <= ranges
           /\ PageRanges(off) \in SUBSET (Nat \X Nat)
           /\ HasNext(off) => PageEnd(off) < ranges
           /\ ~HasNext(off) => PageEnd(off) = ranges
           /\ off <= ranges =>
                  Below(ranges, off) \cup PageRanges(off) = Below(ranges, PageEnd(off))
<1> DEFINE start == PageStart(off)
<1>1. /\ start \in Nat /\ start <= ranges /\ start <= off
      /\ off <= ranges => start = off
  BY DEF PageStart, AtLeast, AtMost
<1>2. PerPage \in Nat \ {0}
  BY DEF PerPage
<1>3. PageEnd(off) \in Nat /\ PageEnd(off) <= ranges /\ start <= PageEnd(off)
  BY <1>1, <1>2 DEF PageEnd, AtMost
<1>4. PageRanges(off) = {ranges} \X (start..(PageEnd(off) - 1))
  BY DEF PageRanges
<1>5. PageRanges(off) \in SUBSET (Nat \X Nat)
  BY <1>1, <1>3, <1>4
<1>6. ASSUME off <= ranges
      PROVE  Below(ranges, off) \cup PageRanges(off) = Below(ranges, PageEnd(off))
  <2>1. (0..(off - 1)) \cup (start..(PageEnd(off) - 1)) = 0..(PageEnd(off) - 1)
    BY <1>1, <1>3, <1>6
  <2> QED
    BY <1>4, <2>1 DEF Below
<1> QED
  BY <1>3, <1>5, <1>6 DEF HasNext

\* The engine's own numbers: nothing of a drain is touched.
LEMMA EngineKeeps ==
    ASSUME DrainInv, UNCHANGED drainVars PROVE DrainInv'
BY DEF DrainInv, drainVars

LEMMA ControlKeeps ==
    ASSUME IInv, FaultControl PROVE IInv'
<1> USE ProxyAssumption DEF IInv, TypeOK
<1>1. UNCHANGED <<now, topoVars, sending, reply, drainVars>> /\ arms' \in Nat
  BY DEF FaultControl
<1>2. CASE \E f \in Faults, n \in Counts : ArmCount(f, n)
  <2>1. PICK f \in Faults, n \in Counts : ArmCount(f, n)
    BY <1>2
  <2> QED
    BY <1>1, <2>1, EngineKeeps DEF ArmCount, Modes, WindowInv, GrantInv, topoVars, drainVars
<1>3. CASE \E f \in Faults, s \in Seconds : ArmTime(f, s)
  <2>1. PICK f \in Faults, s \in Seconds : ArmTime(f, s)
    BY <1>3
  <2> QED
    BY <1>1, <2>1, EngineKeeps DEF ArmTime, Modes, WindowInv, GrantInv, topoVars, drainVars
<1>4. CASE \E f \in Faults, m \in {"count", "time"} : ArmFails(f, m)
  <2>1. PICK f \in Faults, m \in {"count", "time"} : ArmFails(f, m)
    BY <1>4
  <2> QED
    BY <1>1, <2>1, EngineKeeps DEF ArmFails, Modes, WindowInv, GrantInv, topoVars, drainVars
<1>5. CASE Clear
  <2>1. /\ mode' = "off" /\ until' = 0 /\ remaining' = 0 /\ granted' = FALSE
        /\ UNCHANGED <<fault, injected, asked>>
    BY <1>5 DEF Clear
  <2>2. WindowInv' /\ GrantInv' /\ DrainInv'
    BY <1>1, <2>1, EngineKeeps DEF WindowInv, GrantInv
  <2>3. TypeOK'
    <3>1. granted' \in BOOLEAN
      BY <2>1, Zenon
    <3> QED
      BY <1>1, <2>1, <3>1 DEF Modes, topoVars, drainVars
  <2> QED
    BY <2>2, <2>3
<1> QED
  BY <1>2, <1>3, <1>4, <1>5 DEF FaultControl

\* A request that is faulted takes one of the window; one that is not leaves it.
LEMMA AnswerKeeps ==
    ASSUME IInv, NEW out \in Replies, Answer(out), UNCHANGED now
    PROVE  /\ WindowInv' /\ GrantInv' /\ reply' \in Replies
           /\ mode' \in Modes /\ until' \in Nat /\ remaining' \in Int
           /\ fault' \in Faults /\ injected' \in Nat /\ asked' \in Int
           /\ granted' \in BOOLEAN
<1> USE DEF IInv, TypeOK
<1>1. CASE Inject(out)
  BY <1>1 DEF Answer, Inject, Active, WindowInv, GrantInv
<1>2. CASE Forward(out)
  BY <1>2 DEF Answer, Forward, WindowInv, GrantInv, engineVars
<1> QED
  BY <1>1, <1>2 DEF Answer

\* One page more, of the topology the client is reading or of another.
LEMMA PageKeeps ==
    ASSUME IInv, NEW d \in Drainers, NEW off \in Nat,
           NEW have \in SUBSET (Nat \X Nat), NEW seen \in SUBSET Nat,
           seen = {} => off = 0 /\ have = {},
           \A m \in seen : seen = {m} => off <= m /\ have = Below(m, off),
           Page(d, off, have, seen),
           UNCHANGED <<now, arms, engineVars, topoVars, sending, reply>>
    PROVE  IInv'
<1> USE DEF IInv, TypeOK
<1>1. /\ PageEnd(off) \in Nat /\ PageEnd(off) <= ranges
      /\ PageRanges(off) \in SUBSET (Nat \X Nat)
      /\ HasNext(off) => PageEnd(off) < ranges
      /\ ~HasNext(off) => PageEnd(off) = ranges
      /\ off <= ranges =>
             Below(ranges, off) \cup PageRanges(off) = Below(ranges, PageEnd(off))
  BY PageIs
<1>2. /\ held'   = [held EXCEPT ![d] = have \cup PageRanges(off)]
      /\ tags'   = [tags EXCEPT ![d] = seen \cup {ranges}]
      /\ last'   = [last EXCEPT ![d] = ranges]
      /\ offset' = [offset EXCEPT ![d] = IF HasNext(off) THEN PageEnd(off) ELSE 0]
      /\ drain'  = [drain EXCEPT ![d] = IF HasNext(off) THEN "drain" ELSE "confirm"]
  BY DEF Page, Etag
<1>3. TypeOK'
  BY <1>1, <1>2 DEF engineVars, topoVars, DrainPCs
<1>4. WindowInv' /\ GrantInv'
  BY DEF WindowInv, GrantInv, engineVars
<1>5. ASSUME NEW m \in Nat, seen \cup {ranges} = {m}
      PROVE  m = ranges /\ have \cup PageRanges(off) = Below(m, PageEnd(off))
  <2>1. m = ranges
    BY <1>5
  <2>2. CASE seen = {}
    <3>1. off <= ranges /\ Below(ranges, off) = {} /\ have = {}
      BY <2>2 DEF Below
    <3> QED
      BY <1>1, <2>1, <3>1
  <2>3. CASE seen # {}
    <3>1. seen = {m}
      BY <1>5, <2>3
    <3> QED
      BY <1>1, <2>1, <3>1
  <2> QED
    BY <2>1, <2>2, <2>3
<1>6. DrainInv'
  <2> SUFFICES ASSUME NEW e \in Drainers
      PROVE  /\ drain'[e] = "idle" => tags'[e] = {}
             /\ tags'[e] = {} => offset'[e] = 0 /\ held'[e] = {}
             /\ \A m \in tags'[e] : tags'[e] = {m} =>
                  /\ drain'[e] = "drain" => offset'[e] <= m /\ held'[e] = Below(m, offset'[e])
                  /\ drain'[e] \in {"confirm", "settled"} => held'[e] = Below(m, m)
    BY DEF DrainInv
  <2>1. CASE e # d
    BY <1>2, <2>1 DEF DrainInv
  <2>2. CASE e = d
    <3>1. /\ held'[e] = have \cup PageRanges(off) /\ tags'[e] = seen \cup {ranges}
          /\ offset'[e] = IF HasNext(off) THEN PageEnd(off) ELSE 0
          /\ drain'[e] = IF HasNext(off) THEN "drain" ELSE "confirm"
      BY <1>2, <2>2
    <3> QED
      BY <1>1, <1>5, <3>1
  <2> QED
    BY <2>1, <2>2
<1> QED
  BY <1>3, <1>4, <1>6

LEMMA ReadKeeps ==
    ASSUME IInv, NEW d \in Drainers, ReadPage(d) \/ ConfirmChanged(d)
    PROVE  IInv'
<1>1. CASE ReadPage(d)
  <2>1. /\ offset[d] \in Nat /\ held[d] \in SUBSET (Nat \X Nat) /\ tags[d] \in SUBSET Nat
        /\ drain[d] = "drain"
    BY <1>1 DEF ReadPage, IInv, TypeOK
  <2>2. /\ tags[d] = {} => offset[d] = 0 /\ held[d] = {}
        /\ \A m \in tags[d] : tags[d] = {m} => offset[d] <= m /\ held[d] = Below(m, offset[d])
    BY <2>1 DEF IInv, DrainInv
  <2>3. /\ Page(d, offset[d], held[d], tags[d])
        /\ UNCHANGED <<now, arms, engineVars, topoVars, sending, reply>>
    BY <1>1 DEF ReadPage
  <2> QED
    BY <2>1, <2>2, <2>3, PageKeeps
<1>2. CASE ConfirmChanged(d)
  <2>1. /\ Page(d, 0, {}, {})
        /\ UNCHANGED <<now, arms, engineVars, topoVars, sending, reply>>
    BY <1>2 DEF ConfirmChanged
  <2>2. 0 \in Nat /\ {} \in SUBSET (Nat \X Nat) /\ {} \in SUBSET Nat
    OBVIOUS
  <2> QED
    BY <2>1, <2>2, PageKeeps
<1> QED
  BY <1>1, <1>2

LEMMA StepKeeps == IInv /\ [Next]_vars => IInv'
<1> SUFFICES ASSUME IInv, [Next]_vars PROVE IInv'
  OBVIOUS
<1> USE DEF IInv, TypeOK
<1>1. CASE Tick
  BY <1>1, EngineKeeps DEF Tick, WindowInv, GrantInv, engineVars, topoVars, drainVars
<1>2. CASE FaultControl
  BY <1>2, ControlKeeps
<1>3. ASSUME NEW m \in RangeCounts, NEW p \in PageSizes, TopologyArm(m, p)
      PROVE  IInv'
  BY <1>3, EngineKeeps, ProxyAssumption
     DEF TopologyArm, AtLeast, WindowInv, GrantInv, engineVars, drainVars
<1>4. ASSUME NEW m \in RangeCounts, TopologyArmFails(m) PROVE IInv'
  BY <1>4, EngineKeeps, ProxyAssumption
     DEF TopologyArmFails, AtLeast, WindowInv, GrantInv, engineVars, drainVars
<1>5. CASE TopologyClear
  <2>1. /\ arms' = arms + 1 /\ armed' = FALSE
        /\ UNCHANGED <<now, engineVars, ranges, pageSize, sending, reply, drainVars>>
    BY <1>5 DEF TopologyClear
  <2>2. WindowInv' /\ GrantInv' /\ DrainInv'
    BY <2>1, EngineKeeps DEF WindowInv, GrantInv, engineVars
  <2>3. armed' \in BOOLEAN
    BY <2>1, Zenon
  <2> QED
    BY <2>1, <2>2, <2>3 DEF engineVars, drainVars
<1>6. ASSUME NEW s \in Senders, StartSending(s) PROVE IInv'
  BY <1>6, EngineKeeps
     DEF StartSending, WindowInv, GrantInv, engineVars, topoVars, drainVars
<1>7. ASSUME NEW s \in Senders, DataRequest(s) PROVE IInv'
  <2>1. PICK out \in Replies :
           Answer(out) /\ sending' = [sending EXCEPT ![s] = out # "forward"]
    BY <1>7 DEF DataRequest
  <2>2. UNCHANGED <<now, arms, topoVars, drainVars>>
    BY <1>7 DEF DataRequest
  <2> QED
    BY <2>1, <2>2, AnswerKeeps, EngineKeeps DEF topoVars, drainVars
<1>8. ASSUME NEW d \in Drainers, StartDrain(d) PROVE IInv'
  <2>1. /\ drain[d] = "idle" /\ drain' = [drain EXCEPT ![d] = "drain"]
        /\ UNCHANGED <<now, arms, engineVars, topoVars, sending, reply,
                       offset, held, tags, last>>
    BY <1>8 DEF StartDrain
  <2> QED
    BY <2>1 DEF DrainPCs, WindowInv, GrantInv, DrainInv, engineVars, topoVars
<1>9. ASSUME NEW d \in Drainers, ReadPage(d) PROVE IInv'
  BY <1>9, ReadKeeps
<1>10. ASSUME NEW d \in Drainers, ConfirmCurrent(d) PROVE IInv'
  <2>1. /\ drain[d] = "confirm" /\ drain' = [drain EXCEPT ![d] = "settled"]
        /\ UNCHANGED <<now, arms, engineVars, topoVars, sending, reply,
                       offset, held, tags, last>>
    BY <1>10 DEF ConfirmCurrent
  <2> QED
    BY <2>1 DEF DrainPCs, WindowInv, GrantInv, DrainInv, engineVars, topoVars
<1>11. ASSUME NEW d \in Drainers, ConfirmChanged(d) PROVE IInv'
  BY <1>11, ReadKeeps
<1>12. ASSUME NEW d \in Drainers, ReadUpstream(d) PROVE IInv'
  <2>1. PICK out \in Replies :
           /\ Answer(out)
           /\ drain' = [drain EXCEPT ![d] = IF out = "forward" THEN "upstream" ELSE @]
    BY <1>12 DEF ReadUpstream
  <2>2. /\ drain[d] \in {"drain", "confirm"}
        /\ UNCHANGED <<now, arms, topoVars, sending, offset, held, tags, last>>
    BY <1>12 DEF ReadUpstream
  <2>3. DrainInv' /\ drain' \in [Drainers -> DrainPCs]
    BY <2>1, <2>2 DEF DrainInv, DrainPCs
  <2> QED
    BY <2>1, <2>2, <2>3, AnswerKeeps DEF topoVars
<1>13. CASE UNCHANGED vars
  BY <1>13 DEF vars, engineVars, topoVars, drainVars, WindowInv, GrantInv, DrainInv
<1> QED
  BY <1>1, <1>2, <1>3, <1>4, <1>5, <1>6, <1>7, <1>8, <1>9, <1>10, <1>11, <1>12, <1>13
     DEF Next

\* The types, the sums of a count window, the provenance of every open window
\* and how far each client has read (fault_engine.py 89-155, topology_engine.py 62-141).
THEOREM FaultProxyInv == Spec => []IInv
<1>1. Init => IInv
  BY InitIInv
<1>2. IInv /\ [Next]_vars => IInv'
  BY StepKeeps
<1> QED
  BY <1>1, <1>2, PTL DEF Spec

\* A count window gives exactly the faults it was set to, negative and zero
\* counts included, and no request is faulted by a window that no answered arm
\* opened since the last clear, although an arm whose number does not parse
\* changes the mode and leaves the old numbers (fault_engine.py 89-126).
THEOREM WindowsExact == Spec => []CountWindowExact
<1>1. IInv => CountWindowExact
  BY DEF IInv, TypeOK, WindowInv, GrantInv, CountWindowExact, Active
<1> QED
  BY <1>1, FaultProxyInv, PTL

\* A client that saw one ETag only and read the feed to its end holds every
\* range of that topology, whatever the number of ranges, the page sizes and
\* the topologies armed meanwhile (topology_engine.py 98-168).
THEOREM DrainsConsistent == Spec => []DrainConsistent
<1>1. IInv => DrainConsistent
  BY DEF IInv, TypeOK, DrainInv, DrainConsistent, Below
<1> QED
  BY <1>1, FaultProxyInv, PTL
=============================================================================
