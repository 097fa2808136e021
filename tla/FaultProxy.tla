----------------------------- MODULE FaultProxy -----------------------------
(***************************************************************************)
(* The shared layer-7 proxy: the mitmproxy addon of src/proxy/mitm with    *)
(* its fault engine and its topology engine.  mitmproxy runs the hook      *)
(* `request` for one request at a time, so each request is one action.     *)
(*                                                                         *)
(* Around it: the control clients that arm and clear it, clients that send *)
(* a data request until it is forwarded, and SDK clients that drain the    *)
(* partition-key ranges page by page and then confirm with If-None-Match.  *)
(***************************************************************************)
EXTENDS Integers

CONSTANTS
    Senders,    \* clients with data requests
    Drainers,   \* clients that read the pkranges feed
    Faults,     \* names in the FAULTS registry
    Counts,     \* values of count= in arm requests
    Seconds,    \* values of seconds= in arm requests
    RangeCounts,\* values of ranges= in topology arm requests
    PageSizes,  \* values of page_size=, 0 when absent
    MaxNow,     \* bound of the clock
    MaxArms,    \* bound: control requests sent
    MaxInjected \* bound: requests faulted in one window

ASSUME ProxyAssumption ==
    /\ Counts \subseteq Int /\ Seconds \subseteq Nat
    /\ RangeCounts \subseteq Int /\ PageSizes \subseteq Int
    /\ MaxNow \in Nat /\ MaxArms \in Nat /\ MaxInjected \in Nat

VARIABLES
    now, arms,
    \* FaultEngine; of its window, how many faults it was to give when it was
    \* last set, and whether an arm that was answered opened it (history)
    mode, until, remaining, fault, injected, asked, granted,
    \* TopologyEngine
    armed, ranges, pageSize,
    \* sending[s]: s has a request under way; reply: what the last data
    \* request was answered with
    sending, reply,
    \* an SDK client's drain: program counter, next offset, ranges collected
    \* (as <<topology, index>>), the ETags seen and the last of them
    drain, offset, held, tags, last

engineVars == <<mode, until, remaining, fault, injected, asked, granted>>
topoVars   == <<armed, ranges, pageSize>>
drainVars  == <<drain, offset, held, tags, last>>
vars == <<now, arms, engineVars, topoVars, sending, reply, drainVars>>

Modes   == {"off", "time", "count"}
Replies == {"none", "forward"} \cup Faults
DrainPCs == {"idle", "drain", "confirm", "settled", "upstream"}

AtLeast(a, b) == IF a > b THEN a ELSE b
AtMost(a, b)  == IF a < b THEN a ELSE b
-----------------------------------------------------------------------------
(* FaultEngine.                                                            *)

\* Mutant: a time window never ends.
ActiveForEver ==
    \/ mode = "time"
    \/ mode = "count" /\ remaining > 0

Active == \/ mode = "time" /\ now < until
          \/ mode = "count" /\ remaining > 0

ArmCount(f, n) ==
    /\ fault' = f /\ injected' = 0
    /\ mode' = "count" /\ remaining' = n /\ until' = 0
    /\ asked' = n /\ granted' = TRUE

ArmTime(f, s) ==
    /\ now + s <= MaxNow
    /\ fault' = f /\ injected' = 0
    /\ mode' = "time" /\ until' = now + s /\ remaining' = 0
    /\ asked' = 0 /\ granted' = TRUE

\* A count= or seconds= that is no number raises when all but the number is
\* set, and the hook ends without an answer: an old window may go on under
\* another fault.
ArmFails(f, m) ==
    /\ fault' = f /\ injected' = 0 /\ mode' = m
    /\ asked' = remaining
    /\ UNCHANGED <<until, remaining, granted>>

\* Mutant: only the mode is reset.
ClearMode ==
    /\ mode' = "off" /\ granted' = FALSE
    /\ UNCHANGED <<until, remaining, fault, injected, asked>>

\* Clearing closes the window; the template and the counter of what was
\* injected stay for status().
Clear ==
    /\ mode' = "off" /\ until' = 0 /\ remaining' = 0
    /\ granted' = FALSE
    /\ UNCHANGED <<fault, injected, asked>>

\* next_response(): the request consumes one of a count window.
Inject(out) ==
    /\ Active /\ injected < MaxInjected
    /\ out = fault
    /\ injected' = injected + 1
    /\ remaining' = IF mode = "count" THEN remaining - 1 ELSE remaining
    /\ UNCHANGED <<mode, until, fault, asked, granted>>

Forward(out) == ~Active /\ out = "forward" /\ UNCHANGED engineVars
-----------------------------------------------------------------------------
(* TopologyEngine.                                                         *)

\* Mutant: no If-None-Match handling.
NeverMatches(inm) == FALSE

\* '"topo-N"': the number of ranges identifies the topology.
Etag == ranges
EtagMatches(inm) == inm = Etag

PerPage == IF pageSize > 0 THEN pageSize ELSE ranges
PageStart(off) == AtLeast(0, AtMost(off, ranges))

PageEnd(off) == AtMost(PageStart(off) + PerPage, ranges)
PageRanges(off) == {<<ranges, i>> : i \in PageStart(off)..(PageEnd(off) - 1)}
\* Mutant: no continuation when a single range is left.
HasNextShort(off) == PageEnd(off) < ranges - 1

HasNext(off) == PageEnd(off) < ranges
-----------------------------------------------------------------------------
Init ==
    /\ now = 0 /\ arms = 0
    /\ mode = "off" /\ until = 0 /\ remaining = 0
    /\ fault \in Faults /\ injected = 0 /\ asked = 0 /\ granted = FALSE
    /\ armed = FALSE /\ ranges = 1 /\ pageSize = 0
    /\ sending = [s \in Senders |-> FALSE] /\ reply = "none"
    /\ drain  = [d \in Drainers |-> "idle"]
    /\ offset = [d \in Drainers |-> 0]
    /\ held   = [d \in Drainers |-> {}]
    /\ tags   = [d \in Drainers |-> {}]
    /\ last   = [d \in Drainers |-> 0]

Tick == /\ now < MaxNow
        /\ now' = now + 1
        /\ UNCHANGED <<arms, engineVars, topoVars, sending, reply, drainVars>>

\* /__fault/arm, /__fault/clear, /__topology/arm, /__topology/clear: handled
\* locally before anything else.
FaultControl ==
    /\ arms < MaxArms /\ arms' = arms + 1
    /\ \/ \E f \in Faults, n \in Counts : ArmCount(f, n)
       \/ \E f \in Faults, s \in Seconds : ArmTime(f, s)
       \/ \E f \in Faults, m \in {"count", "time"} : ArmFails(f, m)
       \/ Clear
    /\ UNCHANGED <<now, topoVars, sending, reply, drainVars>>

TopologyArm(m, p) ==
    /\ arms < MaxArms /\ arms' = arms + 1
    /\ armed' = TRUE /\ ranges' = AtLeast(1, m) /\ pageSize' = p
    /\ UNCHANGED <<now, engineVars, sending, reply, drainVars>>

\* A page_size= that is no number raises when the ranges are set already.
TopologyArmFails(m) ==
    /\ arms < MaxArms /\ arms' = arms + 1
    /\ ranges' = AtLeast(1, m)
    /\ UNCHANGED <<now, engineVars, armed, pageSize, sending, reply, drainVars>>

TopologyClear ==
    /\ arms < MaxArms /\ arms' = arms + 1
    /\ armed' = FALSE
    /\ UNCHANGED <<now, engineVars, ranges, pageSize, sending, reply, drainVars>>

\* The end of the hook: the fault, or no response set and mitmproxy forwards.
Answer(out) == /\ Inject(out) \/ Forward(out)
               /\ reply' = out

StartSending(s) ==
    /\ ~sending[s]
    /\ sending' = [sending EXCEPT ![s] = TRUE]
    /\ UNCHANGED <<now, arms, engineVars, topoVars, reply, drainVars>>

\* A data request: faulted ones are retried by the client.
DataRequest(s) ==
    /\ sending[s]
    /\ \E out \in Replies :
        /\ Answer(out)
        /\ sending' = [sending EXCEPT ![s] = out # "forward"]
    /\ UNCHANGED <<now, arms, topoVars, drainVars>>

\* A pkranges read while a topology is armed is served before the fault
\* engine is asked.  The first read of a drain and the reads that follow a
\* continuation get a page.
Page(d, off, have, seen) ==
    /\ held' = [held EXCEPT ![d] = have \cup PageRanges(off)]
    /\ tags' = [tags EXCEPT ![d] = seen \cup {Etag}]
    /\ last' = [last EXCEPT ![d] = Etag]
    /\ offset' = [offset EXCEPT ![d] = IF HasNext(off) THEN PageEnd(off) ELSE 0]
    /\ drain' = [drain EXCEPT ![d] = IF HasNext(off) THEN "drain" ELSE "confirm"]

StartDrain(d) ==
    /\ drain[d] = "idle"
    /\ drain' = [drain EXCEPT ![d] = "drain"]
    /\ UNCHANGED <<now, arms, engineVars, topoVars, sending, reply,
                   offset, held, tags, last>>

ReadPage(d) ==
    /\ drain[d] = "drain" /\ armed
    /\ Page(d, offset[d], held[d], tags[d])
    /\ UNCHANGED <<now, arms, engineVars, topoVars, sending, reply>>

\* With the whole feed read, the client re-reads it with the ETag of the last
\* page and stops at a 304.
ConfirmCurrent(d) ==
    /\ drain[d] = "confirm" /\ armed
    /\ EtagMatches(last[d])
    /\ drain' = [drain EXCEPT ![d] = "settled"]
    /\ UNCHANGED <<now, arms, engineVars, topoVars, sending, reply,
                   offset, held, tags, last>>

\* Another topology is armed meanwhile: its first page starts a new map.
ConfirmChanged(d) ==
    /\ drain[d] = "confirm" /\ armed
    /\ ~EtagMatches(last[d])
    /\ Page(d, 0, {}, {})
    /\ UNCHANGED <<now, arms, engineVars, topoVars, sending, reply>>

\* Without a topology a pkranges read is a request like any other.
ReadUpstream(d) ==
    /\ drain[d] \in {"drain", "confirm"} /\ ~armed
    /\ \E out \in Replies :
        /\ Answer(out)
        /\ drain' = [drain EXCEPT ![d] = IF out = "forward" THEN "upstream" ELSE @]
    /\ UNCHANGED <<now, arms, topoVars, sending, offset, held, tags, last>>

Next ==
    \/ Tick \/ FaultControl \/ TopologyClear
    \/ \E m \in RangeCounts : \/ TopologyArmFails(m)
                              \/ \E p \in PageSizes : TopologyArm(m, p)
    \/ \E s \in Senders : StartSending(s) \/ DataRequest(s)
    \/ \E d \in Drainers :
        \/ StartDrain(d) \/ ReadPage(d) \/ ConfirmCurrent(d)
        \/ ConfirmChanged(d) \/ ReadUpstream(d)

Spec == Init /\ [][Next]_vars

\* Time passes and clients retry; nobody has to arm or clear anything.
FairSpec ==
    /\ Spec /\ WF_vars(Tick)
    /\ \A s \in Senders : WF_vars(DataRequest(s))
    /\ \A d \in Drainers : WF_vars(\/ ReadPage(d) \/ ConfirmCurrent(d)
                                   \/ ConfirmChanged(d) \/ ReadUpstream(d))
-----------------------------------------------------------------------------
TypeOK ==
    /\ now \in Nat /\ arms \in Nat
    /\ mode \in Modes /\ until \in Nat /\ remaining \in Int
    /\ fault \in Faults /\ injected \in Nat /\ asked \in Int
    /\ granted \in BOOLEAN
    /\ armed \in BOOLEAN /\ ranges \in Nat \ {0} /\ pageSize \in Int
    /\ sending \in [Senders -> BOOLEAN] /\ reply \in Replies
    /\ drain \in [Drainers -> DrainPCs] /\ offset \in [Drainers -> Nat]
    /\ held \in [Drainers -> SUBSET (Nat \X Nat)]
    /\ tags \in [Drainers -> SUBSET Nat] /\ last \in [Drainers -> Nat]

\* A count window gives exactly the faults it was armed with: what is left and
\* what was injected add up, so "the first N proxied requests" are N of them.
\* And no window is open that no answered request opened since the last clear,
\* although arms fail halfway and leave old numbers behind (fault_engine.py
\* 89-126).
CountWindowExact ==
    /\ mode = "count" => /\ injected + remaining = asked
                         /\ asked >= 0 => injected \in 0..asked
    /\ Active => granted

\* A client that read the feed to its end and saw one ETag only holds every
\* range of that topology, however the page size was changed meanwhile and
\* whatever was armed and cleared in between.
DrainConsistent ==
    \A d \in Drainers : \A m \in tags[d] :
        drain[d] \in {"confirm", "settled"} /\ tags[d] = {m}
            => held[d] = {m} \X (0..(m - 1))

\* A client that keeps retrying gets through: windows end, by time or by being
\* used up.
RequestsRecover == \A s \in Senders : sending[s] ~> ~sending[s]

\* The drain of a topology ends: the 304 stops the client.
DrainEnds ==
    \A d \in Drainers : drain[d] = "drain" ~> drain[d] \in {"settled", "upstream"}
=============================================================================
