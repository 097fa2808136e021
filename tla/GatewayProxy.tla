--------------------------- MODULE GatewayProxy ---------------------------
(***************************************************************************)
(* emulator/inmemory/cosmos_gateway_proxy.py between the SDKs and an        *)
(* emulator that serves resource paths by name only.  One thread per        *)
(* request: the path is translated when the request arrives, the emulator   *)
(* serves it, the resource ids in its answer are learnt, the answer is      *)
(* sent.  A request that fails on its way back may have taken effect.       *)
(* The emulator is external: names are unique, ids are never used twice.    *)
(* Clients are the SdkBackends of the two harnesses: both address databases *)
(* and containers by name, but Java reads the partition-key ranges by the   *)
(* ids in the answers it got.                                               *)
(***************************************************************************)
EXTENDS Integers, FiniteSets

CONSTANTS
    Clients,
    DbNames, CollNames,
    MaxRid,     \* bound: resources made in the course of a behaviour
    NoRid

ASSUME GatewayAssumption == MaxRid \in Nat /\ NoRid \notin Nat

VARIABLES
    engine,     \* the emulator's resources: [rid, kind, db, name], live ones
    lastRid,    \* the last id it gave
    dbRids,     \* _DB_RID_TO_NAME, as a set of pairs
    collRids,   \* _COLL_RID_TO_NAME
    req,        \* req[c]: the request of client c and its thread; `self` is the
                \* id it reads by, `answered` whether answers held its ids,
                \* `live` whether that container existed when it was served
    held        \* held[c]: the resources c got in answers: [kind, rid, db]

vars == <<engine, lastRid, dbRids, collRids, req, held>>

Idle == [at |-> "idle"]

\* A segment of a path is a name or an id.
Named(n) == [by |-> "name", seg |-> n]
Rid(r)   == [by |-> "rid", seg |-> r]

LiveDb(n) == {x \in engine : x.kind = "db" /\ x.name = n}
LiveColl(d, n) == {x \in engine : x.kind = "coll" /\ x.name = n
                                    /\ \E y \in LiveDb(d) : y.rid = x.db}

Init ==
    /\ engine = {} /\ lastRid = 0 /\ dbRids = {} /\ collRids = {}
    /\ req = [c \in Clients |-> Idle]
    /\ held = [c \in Clients |-> {}]

Go(c, r) == req' = [req EXCEPT ![c] = r]
-----------------------------------------------------------------------------
(* The proxy on the way in.                                                *)

\* One segment of _translate_rid_path: exact matches of a learnt id only.
Friendly(seg, map) ==
    IF seg.by = "rid" /\ \E p \in map : p[1] = seg.seg
    THEN Named((CHOOSE p \in map : p[1] = seg.seg)[2])
    ELSE seg

\* A request arrives and its target is computed.
Arrive(c, op, db, coll) ==
    /\ req[c] = Idle
    /\ Go(c, [at |-> "arrived", op |-> op, db |-> Friendly(db, dbRids),
              coll |-> Friendly(coll, collRids),
              self |-> IF coll.by = "rid" THEN coll.seg ELSE NoRid,
              answered |-> \A x \in {db, coll} : x.by = "rid" =>
                              \E h \in UNION {held[d] : d \in Clients} : h.rid = x.seg])
    /\ UNCHANGED <<engine, lastRid, dbRids, collRids, held>>

\* Databases by name: both languages, and createIfNotExists reads first.
CallDb(c) ==
    \E d \in DbNames, op \in {"create_db", "read_db", "delete_db"} :
        Arrive(c, op, Named(d), Named("none"))

\* Containers by name: createContainerIfNotExists reads first, and an SDK reads
\* the container before its ranges.
CallColl(c) ==
    \E d \in DbNames, n \in CollNames, op \in {"create_coll", "read_coll"} :
        Arrive(c, op, Named(d), Named(n))

\* Python: the ranges of a container by its name.
CallRanges(c) ==
    \E d \in DbNames, n \in CollNames : Arrive(c, "read_pkranges", Named(d), Named(n))

\* Java: the ranges of a container through its _self link.
CallBySelf(c) ==
    \E h \in held[c] : h.kind = "coll"
        /\ Arrive(c, "read_pkranges", Rid(h.db), Rid(h.rid))
-----------------------------------------------------------------------------
(* The emulator serves the target.                                         *)

Served(c, status, resources) ==
    Go(c, [at |-> "served", op |-> req[c].op, status |-> status, body |-> resources,
           self |-> req[c].self, answered |-> req[c].answered,
           live |-> \E x \in engine : x.rid = req[c].self])

Resource(kind, db, name) ==
    [rid |-> lastRid + 1, kind |-> kind, db |-> db, name |-> name]

Create(c, resource) ==
    /\ lastRid < MaxRid
    /\ engine' = engine \cup {resource} /\ lastRid' = lastRid + 1
    /\ Served(c, 201, {resource})

Refuse(c, status) == Served(c, status, {}) /\ UNCHANGED <<engine, lastRid>>
Return(c, found)  == Served(c, 200, found) /\ UNCHANGED <<engine, lastRid>>

ServeDb(c) ==
    /\ req[c].op \in {"create_db", "read_db", "delete_db"}
    /\ LET name  == req[c].db.seg
           found == LiveDb(name)
       IN  \/ /\ req[c].op = "create_db"
              /\ IF found = {} THEN Create(c, Resource("db", NoRid, name))
                 ELSE Refuse(c, 409)
           \/ /\ req[c].op = "read_db"
              /\ IF found = {} THEN Refuse(c, 404) ELSE Return(c, found)
           \/ /\ req[c].op = "delete_db"
              /\ IF found = {} THEN Refuse(c, 404)
                 ELSE /\ engine' = {x \in engine : \A y \in found :
                                        y.rid \notin {x.rid, x.db}}
                      /\ Served(c, 204, {}) /\ UNCHANGED lastRid

ServeColl(c) ==
    /\ req[c].op \in {"create_coll", "read_coll", "read_pkranges"}
    /\ LET db    == IF req[c].db.by = "name" THEN LiveDb(req[c].db.seg) ELSE {}
           found == IF db = {} \/ req[c].coll.by = "rid" THEN {}
                    ELSE LiveColl(req[c].db.seg, req[c].coll.seg)
       IN  IF req[c].op = "create_coll"
           THEN IF db = {} THEN Refuse(c, 404)
                ELSE IF found # {} THEN Refuse(c, 409)
                ELSE \E y \in db : Create(c, Resource("coll", y.rid, req[c].coll.seg))
           ELSE IF found = {} THEN Refuse(c, 404) ELSE Return(c, found)

Serve(c) ==
    /\ req[c].at = "arrived"
    /\ ServeDb(c) \/ ServeColl(c)
    /\ UNCHANGED <<dbRids, collRids, held>>
-----------------------------------------------------------------------------
(* The proxy on the way back.                                              *)

\* Resource bodies, not the feed of ranges, carry _rid and _self.
Resources(c) == IF req[c].op = "read_pkranges" THEN {} ELSE req[c].body

\* Mutant: only what is created is learnt.
LearnsCreated(c) == IF req[c].status = 201 THEN Resources(c) ELSE {}

\* Mutant: the container's name is filed under the id of its database.
CollPairsSwapped(resources) ==
    {<<x.db, x.name>> : x \in {y \in resources : y.kind = "coll"}}

\* What a reply teaches about containers: the id that ends its _self link.
CollPairs(resources) ==
    {<<x.rid, x.name>> : x \in {y \in resources : y.kind = "coll"}}

Learns(c) == Resources(c)

\* _learn_rid_names, before the answer is sent.
Learn(c) ==
    /\ req[c].at = "served"
    /\ dbRids' = dbRids \cup {<<x.rid, x.name>> : x \in {y \in Learns(c) : y.kind = "db"}}
    /\ collRids' = collRids \cup CollPairs(Learns(c))
    /\ Go(c, [req[c] EXCEPT !.at = "learnt"])
    /\ UNCHANGED <<engine, lastRid, held>>

\* The answer reaches the client, which keeps the resources in it.
Reply(c) ==
    /\ req[c].at = "learnt"
    /\ held' = [held EXCEPT ![c] = @ \cup
                   {[kind |-> x.kind, rid |-> x.rid, db |-> x.db] : x \in Resources(c)}]
    /\ Go(c, Idle)
    /\ UNCHANGED <<engine, lastRid, dbRids, collRids>>

\* The emulator is not reached or its answer is lost: 502, nothing is learnt.
UpstreamFails(c) ==
    /\ req[c].at \in {"arrived", "served"}
    /\ Go(c, Idle)
    /\ UNCHANGED <<engine, lastRid, dbRids, collRids, held>>

\* The container is restarted: the emulator and the proxy start empty, the
\* clients keep what they hold.
Restart ==
    /\ engine' = {} /\ dbRids' = {} /\ collRids' = {}
    /\ req' = [c \in Clients |-> Idle]
    /\ UNCHANGED <<lastRid, held>>

Next ==
    \/ \E c \in Clients : \/ CallDb(c) \/ CallColl(c) \/ CallRanges(c) \/ CallBySelf(c)
                          \/ Serve(c) \/ Learn(c) \/ Reply(c) \/ UpstreamFails(c)
    \/ Restart

Spec == Init /\ [][Next]_vars
-----------------------------------------------------------------------------
\* A read by a _self link of a live container, all of it from answers.
AnsweredSelfRead(c) ==
    /\ req[c].at \in {"served", "learnt"} /\ req[c].self # NoRid
    /\ req[c].live /\ req[c].answered

\* A Java read of the ranges of a live container by its _self link, whose ids
\* stood in answers the proxy had sent, gives the ranges of that container:
\* translation on arrival, learning on the way back and the concurrent requests
\* of others do not come between (cosmos_gateway_proxy.py 87-105).
SelfReadExact ==
    \A c \in Clients : AnsweredSelfRead(c) =>
        req[c].status = 200 /\ {x.rid : x \in req[c].body} = {req[c].self}

\* No client ever holds the id of a live resource that the proxy could not
\* translate, however many threads are between learning and answering
\* (cosmos_gateway_proxy.py 205-207, 222-233).
HeldIsKnown ==
    \A c \in Clients : \A h \in held[c] :
        (\E x \in engine : x.rid = h.rid)
            => \E p \in (IF h.kind = "db" THEN dbRids ELSE collRids) : p[1] = h.rid
=============================================================================
