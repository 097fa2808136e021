------------------------ MODULE GatewayProxyProofs ------------------------
(***************************************************************************)
(* What the gateway proxy promises of resource ids, for any clients, names *)
(* and numbers of resources, with lost answers and restarts.               *)
(***************************************************************************)
EXTENDS GatewayProxy, TLAPS

AllNames == DbNames \cup CollNames \cup {"none"}
Segments == [by : {"name"}, seg : AllNames] \cup [by : {"rid"}, seg : Nat]
Bodies   == [rid : Nat, kind : {"db"}, db : {NoRid}, name : AllNames]
            \cup [rid : Nat, kind : {"coll"}, db : Nat, name : AllNames]
Holdings == [kind : {"db"}, rid : Nat, db : {NoRid}]
            \cup [kind : {"coll"}, rid : Nat, db : Nat]
DbOps    == {"create_db", "read_db", "delete_db"}
CollOps  == {"create_coll", "read_coll", "read_pkranges"}

Requests ==
    {Idle} \cup
    [at : {"arrived"}, op : DbOps \cup CollOps, db : Segments, coll : Segments,
     self : Nat \cup {NoRid}, answered : BOOLEAN] \cup
    [at : {"served", "learnt"}, op : DbOps \cup CollOps, status : Nat,
     body : SUBSET Bodies, self : Nat \cup {NoRid}, answered : BOOLEAN, live : BOOLEAN]

TypeOK ==
    /\ engine \in SUBSET Bodies /\ lastRid \in Nat
    /\ dbRids \in SUBSET (Nat \X AllNames) /\ collRids \in SUBSET (Nat \X AllNames)
    /\ req \in [Clients -> Requests]
    /\ held \in [Clients -> SUBSET Holdings]

\* The emulator: ids are unique and never exceed the last one given, names are
\* unique within their parent, a container's database is there.
EngineInv ==
    /\ \A x \in engine : x.rid <= lastRid
    /\ \A x, y \in engine : x.rid = y.rid => x = y
    /\ \A x, y \in engine : x.kind = y.kind /\ x.db = y.db /\ x.name = y.name => x = y
    /\ \A x \in engine : x.kind = "coll" =>
            \E y \in engine : y.kind = "db" /\ y.rid = x.db

\* The proxy's maps give a live id its own name.
MapsInv ==
    \A p \in dbRids \cup collRids :
        p[1] <= lastRid /\ \A x \in engine : x.rid = p[1] => x.name = p[2]

Translatable(kind, rid) ==
    \E p \in (IF kind = "db" THEN dbRids ELSE collRids) : p[1] = rid

\* An answer under way speaks of resources as they are, if they still are; once
\* it is learnt from, their ids are translatable.
AnswerOk(r) ==
    /\ \A x \in r.body : x.rid <= lastRid
    /\ \A x \in r.body, y \in engine : x.rid = y.rid => x = y
    /\ r.at = "learnt" /\ r.op # "read_pkranges" =>
           \A x \in r.body : Translatable(x.kind, x.rid)
    /\ r.self # NoRid /\ r.live /\ r.answered =>
           r.status = 200 /\ {x.rid : x \in r.body} = {r.self}

BodyInv == \A c \in Clients : req[c].at \in {"served", "learnt"} => AnswerOk(req[c])

\* A client remembers resources as they are, if they still are.
HeldInv ==
    \A c \in Clients : \A h \in held[c] :
        /\ h.rid <= lastRid
        /\ \A x \in engine : x.rid = h.rid => x.kind = h.kind /\ x.db = h.db

\* The target of a read by ids from answers is the path of that container, as
\* long as it lives.
TargetOk(r) ==
    /\ r.op # "read_pkranges" => r.db.by = "name" /\ r.coll.by = "name"
    /\ r.self # NoRid => r.op = "read_pkranges" /\ r.self <= lastRid
    /\ r.self # NoRid /\ r.answered =>
           \A x \in engine : x.rid = r.self =>
               /\ x.kind = "coll" /\ r.coll = Named(x.name) /\ r.db.by = "name"
               /\ \E y \in LiveDb(r.db.seg) : y.rid = x.db

TargetInv == \A c \in Clients : req[c].at = "arrived" => TargetOk(req[c])

IInv == /\ TypeOK /\ EngineInv /\ MapsInv /\ BodyInv /\ HeldInv /\ TargetInv
        /\ HeldIsKnown
-----------------------------------------------------------------------------
LEMMA InitIInv == Init => IInv
BY GatewayAssumption DEF Init, IInv, TypeOK, EngineInv, MapsInv, BodyInv, HeldInv, TargetInv,
   HeldIsKnown, Requests, Idle

\* Translating a segment gives a segment: itself, or the name filed under it.
LEMMA FriendlyIs ==
    ASSUME NEW seg \in Segments, NEW map \in SUBSET (Nat \X AllNames)
    PROVE  /\ Friendly(seg, map) \in Segments
           /\ seg.by = "name" => Friendly(seg, map) = seg
           /\ seg.by = "rid" /\ (\E p \in map : p[1] = seg.seg) =>
                  \E p \in map : p[1] = seg.seg /\ Friendly(seg, map) = Named(p[2])
<1>1. CASE seg.by = "rid" /\ \E p \in map : p[1] = seg.seg
  <2> DEFINE q == CHOOSE p \in map : p[1] = seg.seg
  <2>1. q \in map /\ q[1] = seg.seg
    BY <1>1
  <2>2. q[2] \in AllNames
    BY <2>1
  <2>3. Friendly(seg, map) = Named(q[2])
    BY <1>1 DEF Friendly
  <2>4. Named(q[2]) \in Segments
    BY <2>2 DEF Segments, Named
  <2> QED
    BY <1>1, <2>1, <2>3, <2>4
<1>2. CASE ~(seg.by = "rid" /\ \E p \in map : p[1] = seg.seg)
  BY <1>2 DEF Friendly
<1> QED
  BY <1>1, <1>2

\* While the emulator only loses resources or makes some under new ids, what is
\* known of the ids given before stays true.
LEMMA EvolveKeeps ==
    ASSUME IInv, EngineInv', lastRid' \in Nat, lastRid <= lastRid',
           engine' \subseteq Bodies,
           \A x \in engine' : x \in engine \/ x.rid > lastRid,
           dbRids \subseteq dbRids', collRids \subseteq collRids'
    PROVE  /\ UNCHANGED <<dbRids, collRids>> => MapsInv'
           /\ UNCHANGED held => HeldInv' /\ HeldIsKnown'
           /\ \A r \in Requests : r.at = "arrived" /\ TargetOk(r) => TargetOk(r)'
           /\ \A r \in Requests : r.at \in {"served", "learnt"} /\ AnswerOk(r) => AnswerOk(r)'
<1> USE DEF IInv, TypeOK
<1>1. \A x \in engine' : x.rid \in Nat
  BY DEF Bodies
<1>2. ASSUME UNCHANGED <<dbRids, collRids>> PROVE MapsInv'
  BY <1>1, <1>2 DEF MapsInv
<1>3. ASSUME UNCHANGED held PROVE HeldInv'
  <2>1. \A c \in Clients : \A h \in held[c] : h.rid \in Nat
    BY DEF Holdings
  <2> QED
    BY <1>1, <1>3, <2>1 DEF HeldInv
<1>4. ASSUME UNCHANGED held PROVE HeldIsKnown'
  <2>1. \A c \in Clients : \A h \in held[c] : h.rid \in Nat
    BY DEF Holdings
  <2> QED
    BY <1>1, <1>4, <2>1 DEF HeldIsKnown, HeldInv
<1>5. ASSUME NEW r \in Requests, r.at = "arrived", TargetOk(r) PROVE TargetOk(r)'
  <2>1. r.self \in Nat \cup {NoRid}
    BY <1>5 DEF Requests, Idle
  <2>2. r.self # NoRid => r.self <= lastRid'
    BY <1>5, <2>1 DEF TargetOk
  <2>3. ASSUME NEW x \in engine', r.self # NoRid, r.answered, x.rid = r.self
        PROVE  /\ x.kind = "coll" /\ r.coll = Named(x.name) /\ r.db.by = "name"
               /\ \E y \in LiveDb(r.db.seg)' : y.rid = x.db
    <3>1. x \in engine
      BY <1>1, <1>5, <2>1, <2>3 DEF TargetOk
    <3>2. /\ x.kind = "coll" /\ r.coll = Named(x.name) /\ r.db.by = "name"
          /\ \E y \in LiveDb(r.db.seg) : y.rid = x.db
      BY <1>5, <2>3, <3>1 DEF TargetOk
    <3>3. PICK y \in LiveDb(r.db.seg) : y.rid = x.db
      BY <3>2
    <3>4. PICK z \in engine' : z.kind = "db" /\ z.rid = x.db
      BY <3>2, <2>3 DEF EngineInv
    <3>5. z = y
      BY <1>1, <3>3, <3>4 DEF EngineInv, LiveDb
    <3> QED
      BY <3>2, <3>3, <3>5 DEF LiveDb
  <2> QED
    BY <1>5, <2>2, <2>3 DEF TargetOk
<1>6. ASSUME NEW r \in Requests, r.at \in {"served", "learnt"}, AnswerOk(r)
      PROVE  AnswerOk(r)'
  <2>1. \A x \in r.body : x.rid \in Nat
    BY <1>6 DEF Requests, Idle, Bodies
  <2>2. \A x \in r.body : x.rid <= lastRid'
    BY <1>6, <2>1 DEF AnswerOk
  <2>3. \A x \in r.body, y \in engine' : x.rid = y.rid => x = y
    BY <1>1, <1>6, <2>1 DEF AnswerOk
  <2> QED
    BY <1>6, <2>2, <2>3 DEF AnswerOk, Translatable
<1> QED
  BY <1>2, <1>3, <1>4, <1>5, <1>6

\* One thread moves while the emulator evolves: the requests of the others stay
\* right.
LEMMA ThreadMoves ==
    ASSUME IInv, EngineInv', lastRid' \in Nat, lastRid <= lastRid',
           engine' \subseteq Bodies,
           \A x \in engine' : x \in engine \/ x.rid > lastRid,
           dbRids \subseteq dbRids', collRids \subseteq collRids',
           NEW c \in Clients, NEW r \in Requests, Go(c, r),
           r.at = "arrived" => TargetOk(r)',
           r.at \in {"served", "learnt"} => AnswerOk(r)'
    PROVE  req' \in [Clients -> Requests] /\ TargetInv' /\ BodyInv'
<1>1. \A d \in Clients : req[d] \in Requests
  BY DEF IInv, TypeOK
<1>2. \A d \in Clients : req'[d] = IF d = c THEN r ELSE req[d]
  BY DEF Go, IInv, TypeOK
<1>3. req' \in [Clients -> Requests]
  BY DEF Go, IInv, TypeOK
<1>4. ASSUME NEW d \in Clients, req'[d].at = "arrived" PROVE TargetOk(req[d])'
  <2>1. PICK q \in Requests : q = req'[d]
    BY <1>3
  <2>2. TargetOk(q)'
    BY <1>1, <1>2, <1>4, <2>1, EvolveKeeps DEF IInv, TargetInv
  <2> QED
    BY <2>1, <2>2
<1>5. ASSUME NEW d \in Clients, req'[d].at \in {"served", "learnt"}
      PROVE  AnswerOk(req[d])'
  <2>1. PICK q \in Requests : q = req'[d]
    BY <1>3
  <2>2. AnswerOk(q)'
    BY <1>1, <1>2, <1>5, <2>1, EvolveKeeps DEF IInv, BodyInv
  <2> QED
    BY <2>1, <2>2
<1> QED
  BY <1>3, <1>4, <1>5 DEF TargetInv, BodyInv

\* The segments a client may ask for: names, or the ids it holds.
Asked(c, db, coll) ==
    \/ db.by = "name" /\ coll.by = "name"
    \/ \E h \in held[c] : h.kind = "coll" /\ db = Rid(h.db) /\ coll = Rid(h.rid)

LEMMA ArriveKeeps ==
    ASSUME IInv, NEW c \in Clients, NEW op \in DbOps \cup CollOps,
           NEW db \in Segments, NEW coll \in Segments, Asked(c, db, coll),
           op # "read_pkranges" => db.by = "name" /\ coll.by = "name",
           Arrive(c, op, db, coll)
    PROVE  IInv'
<1>1. PICK r :
      /\ Go(c, r) /\ UNCHANGED <<engine, lastRid, dbRids, collRids, held>>
      /\ r = [at |-> "arrived", op |-> op, db |-> Friendly(db, dbRids),
              coll |-> Friendly(coll, collRids),
              self |-> IF coll.by = "rid" THEN coll.seg ELSE NoRid,
              answered |-> \A x \in {db, coll} : x.by = "rid" =>
                              \E h \in UNION {held[d] : d \in Clients} : h.rid = x.seg]
  BY DEF Arrive
<1>2. /\ Friendly(db, dbRids) \in Segments /\ Friendly(coll, collRids) \in Segments
      /\ db.by = "name" => Friendly(db, dbRids) = db
      /\ coll.by = "name" => Friendly(coll, collRids) = coll
  BY FriendlyIs DEF IInv, TypeOK
<1>3. r.self \in Nat \cup {NoRid} /\ r.answered \in BOOLEAN
  BY <1>1 DEF Segments
<1>4. r \in Requests
  <2>1. r \in [at : {"arrived"}, op : DbOps \cup CollOps, db : Segments, coll : Segments,
                self : Nat \cup {NoRid}, answered : BOOLEAN]
    BY <1>1, <1>2, <1>3
  <2> QED
    BY <2>1 DEF Requests
<1>5. ASSUME r.self # NoRid
      PROVE  /\ op = "read_pkranges" /\ r.self <= lastRid
             /\ r.answered => \A x \in engine : x.rid = r.self =>
                   /\ x.kind = "coll" /\ r.coll = Named(x.name) /\ r.db.by = "name"
                   /\ \E y \in LiveDb(r.db.seg) : y.rid = x.db
  <2>1. coll.by = "rid" /\ op = "read_pkranges"
    BY <1>1, <1>5
  <2>2. PICK h \in held[c] : h.kind = "coll" /\ db = Rid(h.db) /\ coll = Rid(h.rid)
    BY <2>1 DEF Asked
  <2>3. r.self = h.rid /\ h.rid <= lastRid
    BY <1>1, <2>1, <2>2 DEF IInv, HeldInv, Rid
  <2>4. ASSUME r.answered, NEW x \in engine, x.rid = r.self
        PROVE  /\ x.kind = "coll" /\ r.coll = Named(x.name) /\ r.db.by = "name"
               /\ \E y \in LiveDb(r.db.seg) : y.rid = x.db
    <3>1. x.kind = "coll" /\ x.db = h.db
      BY <2>2, <2>3, <2>4 DEF IInv, HeldInv
    <3>2. PICK y \in engine : y.kind = "db" /\ y.rid = x.db
      BY <3>1 DEF IInv, EngineInv
    <3>3. \E d \in Clients : \E g \in held[d] : g.rid = h.db
      BY <1>1, <2>2, <2>4 DEF Rid
    <3>4. \E p \in dbRids : p[1] = h.db
      BY <3>1, <3>2, <3>3 DEF IInv, HeldInv, HeldIsKnown
    <3>5. \E p \in collRids : p[1] = h.rid
      BY <2>2, <2>3, <2>4 DEF IInv, HeldIsKnown
    <3>6. db.by = "rid" /\ db.seg = h.db /\ coll.seg = h.rid
      BY <2>2 DEF Rid
    <3>7. PICK p \in dbRids : p[1] = h.db /\ r.db = Named(p[2])
      BY <1>1, <3>4, <3>6, FriendlyIs DEF IInv, TypeOK
    <3>8. PICK q \in collRids : q[1] = h.rid /\ r.coll = Named(q[2])
      BY <1>1, <2>1, <3>5, <3>6, FriendlyIs DEF IInv, TypeOK
    <3>9. p[2] = y.name /\ q[2] = x.name
      BY <2>3, <2>4, <3>1, <3>2, <3>7, <3>8 DEF IInv, MapsInv
    <3> QED
      BY <3>1, <3>2, <3>7, <3>8, <3>9 DEF Named, LiveDb
  <2> QED
    BY <2>1, <2>3, <2>4
<1>6. r.op = op /\ (op # "read_pkranges" => r.db.by = "name" /\ r.coll.by = "name")
  BY <1>1, <1>2
<1>7. TargetOk(r)
  BY <1>5, <1>6 DEF TargetOk
<1>8. TargetOk(r)'
  BY <1>1, <1>7 DEF TargetOk, LiveDb
<1>9. req' \in [Clients -> Requests] /\ TargetInv' /\ BodyInv'
  <2>1. EngineInv' /\ lastRid' \in Nat /\ lastRid <= lastRid' /\ engine' \subseteq Bodies
    BY <1>1 DEF IInv, EngineInv, TypeOK
  <2> QED
    BY <1>1, <1>4, <1>8, <2>1, ThreadMoves
<1>10. EngineInv' /\ MapsInv' /\ HeldInv' /\ HeldIsKnown'
  BY <1>1 DEF IInv, EngineInv, MapsInv, HeldInv, HeldIsKnown
<1> QED
  BY <1>1, <1>9, <1>10 DEF IInv, TypeOK

LEMMA CallKeeps ==
    ASSUME IInv, NEW c \in Clients,
           CallDb(c) \/ CallColl(c) \/ CallRanges(c) \/ CallBySelf(c)
    PROVE  IInv'
<1>1. \A n \in AllNames : Named(n) \in Segments /\ Named(n).by = "name"
  BY DEF Named, Segments
<1>2. CASE CallDb(c)
  <2>1. PICK d \in DbNames, op \in {"create_db", "read_db", "delete_db"} :
           Arrive(c, op, Named(d), Named("none"))
    BY <1>2 DEF CallDb
  <2>2. Asked(c, Named(d), Named("none"))
    BY <1>1 DEF Asked, AllNames
  <2> QED
    BY <1>1, <2>1, <2>2, ArriveKeeps DEF AllNames, DbOps
<1>3. CASE CallColl(c)
  <2>1. PICK d \in DbNames, n \in CollNames, op \in {"create_coll", "read_coll"} :
           Arrive(c, op, Named(d), Named(n))
    BY <1>3 DEF CallColl
  <2>2. Asked(c, Named(d), Named(n))
    BY <1>1 DEF Asked, AllNames
  <2> QED
    BY <1>1, <2>1, <2>2, ArriveKeeps DEF AllNames, CollOps
<1>4. CASE CallRanges(c)
  <2>1. PICK d \in DbNames, n \in CollNames :
           Arrive(c, "read_pkranges", Named(d), Named(n))
    BY <1>4 DEF CallRanges
  <2>2. Asked(c, Named(d), Named(n))
    BY <1>1 DEF Asked, AllNames
  <2> QED
    BY <1>1, <2>1, <2>2, ArriveKeeps DEF AllNames, CollOps
<1>5. CASE CallBySelf(c)
  <2>1. PICK h \in held[c] : h.kind = "coll"
                 /\ Arrive(c, "read_pkranges", Rid(h.db), Rid(h.rid))
    BY <1>5 DEF CallBySelf
  <2>2. Rid(h.db) \in Segments /\ Rid(h.rid) \in Segments
    BY <2>1 DEF IInv, TypeOK, Holdings, Segments, Rid
  <2>3. Asked(c, Rid(h.db), Rid(h.rid))
    BY <2>1 DEF Asked
  <2> QED
    BY <2>1, <2>2, <2>3, ArriveKeeps DEF CollOps
<1> QED
  BY <1>2, <1>3, <1>4, <1>5

\* What serving does to the emulator, and the resources in its answer.
Unchanged(body) == UNCHANGED <<engine, lastRid>> /\ body \subseteq engine

Created(c, body) ==
    /\ lastRid' = lastRid + 1 /\ req[c].op # "read_pkranges"
    /\ \E x \in Bodies :
         /\ x.rid = lastRid + 1 /\ engine' = engine \cup {x} /\ body = {x}
         /\ \A y \in engine : ~(y.kind = x.kind /\ y.db = x.db /\ y.name = x.name)
         /\ x.kind = "coll" => \E y \in engine : y.kind = "db" /\ y.rid = x.db

Dropped(c, body) ==
    /\ UNCHANGED lastRid /\ body = {} /\ req[c].op # "read_pkranges"
    /\ \E y \in engine : y.kind = "db"
         /\ engine' = {x \in engine : y.rid \notin {x.rid, x.db}}

LEMMA ArrivedIs ==
    ASSUME IInv, NEW c \in Clients, Serve(c)
    PROVE  /\ req[c] \in [at : {"arrived"}, op : DbOps \cup CollOps, db : Segments,
                          coll : Segments, self : Nat \cup {NoRid}, answered : BOOLEAN]
           /\ TargetOk(req[c])
<1>1. req[c] \in Requests /\ req[c].at = "arrived"
  BY DEF IInv, TypeOK, Serve
<1>2. TargetOk(req[c])
  BY <1>1 DEF IInv, TargetInv
<1> QED
  BY <1>1, <1>2 DEF Requests, Idle

LEMMA ServeIs ==
    ASSUME IInv, NEW c \in Clients, Serve(c)
    PROVE  \E status \in Nat, body \in SUBSET Bodies :
             /\ Served(c, status, body)
             /\ Unchanged(body) \/ Created(c, body) \/ Dropped(c, body)
<1> DEFINE r == req[c]
<1>1. /\ r.op \in DbOps \cup CollOps /\ r.db \in Segments /\ r.coll \in Segments
      /\ r.op # "read_pkranges" => r.db.by = "name" /\ r.coll.by = "name"
  BY ArrivedIs DEF TargetOk
<1>2. /\ r.db.by = "name" => r.db.seg \in AllNames
      /\ r.coll.by = "name" => r.coll.seg \in AllNames
  BY <1>1 DEF Segments
<1>3. engine \in SUBSET Bodies /\ lastRid \in Nat
  BY DEF IInv, TypeOK
<1>4. ASSUME NEW status \in Nat, Refuse(c, status) PROVE Served(c, status, {}) /\ Unchanged({})
  BY <1>4 DEF Refuse, Unchanged
<1>5. ASSUME NEW found \in SUBSET engine, Return(c, found)
      PROVE  Served(c, 200, found) /\ Unchanged(found)
  BY <1>5 DEF Return, Unchanged
<1>6. CASE ServeDb(c)
  <2>1. r.op # "read_pkranges" /\ r.db.seg \in AllNames
    BY <1>1, <1>2, <1>6 DEF ServeDb
  <2> DEFINE found == LiveDb(r.db.seg)
  <2>2. found \in SUBSET engine
    BY DEF LiveDb
  <2>3. CASE found = {} /\ Create(c, Resource("db", NoRid, r.db.seg))
    <3> DEFINE x == Resource("db", NoRid, r.db.seg)
    <3>1. x \in [rid : Nat, kind : {"db"}, db : {NoRid}, name : AllNames]
      BY <1>3, <2>1 DEF Resource
    <3>2. x \in Bodies /\ x.rid = lastRid + 1 /\ x.kind = "db" /\ x.name = r.db.seg
      BY <3>1 DEF Bodies, Resource
    <3>3. \A y \in engine : ~(y.kind = x.kind /\ y.db = x.db /\ y.name = x.name)
      BY <2>3, <3>2 DEF LiveDb
    <3> HIDE DEF x
    <3>4. Served(c, 201, {x}) /\ engine' = engine \cup {x} /\ lastRid' = lastRid + 1
      BY <2>3 DEF Create, x
    <3>5. Created(c, {x})
      BY <2>1, <3>2, <3>3, <3>4 DEF Created
    <3> QED
      BY <3>2, <3>4, <3>5
  <2>4. CASE Refuse(c, 409) \/ Refuse(c, 404)
    BY <1>4, <2>4
  <2>5. CASE Return(c, found)
    BY <1>3, <1>5, <2>2, <2>5
  <2>6. CASE /\ found # {} /\ Served(c, 204, {}) /\ UNCHANGED lastRid
             /\ engine' = {x \in engine : \A y \in found : y.rid \notin {x.rid, x.db}}
    <3>1. PICK y \in found : TRUE
      BY <2>6
    <3>2. \A z \in found : z = y
      <4>1. \A z \in found : z \in engine /\ z.kind = "db" /\ z.name = r.db.seg
        BY DEF LiveDb
      <4>2. \A z \in found : z.db = NoRid
        BY <1>3, <4>1 DEF Bodies
      <4> QED
        BY <3>1, <4>1, <4>2 DEF IInv, EngineInv
    <3>3. y \in engine /\ y.kind = "db"
      BY <3>1 DEF LiveDb
    <3>4. engine' = {x \in engine : y.rid \notin {x.rid, x.db}}
      BY <2>6, <3>1, <3>2
    <3>5. Dropped(c, {})
      BY <2>1, <2>6, <3>3, <3>4 DEF Dropped
    <3> QED
      BY <2>6, <3>5
  <2> QED
    BY <1>6, <2>3, <2>4, <2>5, <2>6 DEF ServeDb
<1>7. CASE ServeColl(c)
  <2> DEFINE db    == IF r.db.by = "name" THEN LiveDb(r.db.seg) ELSE {}
             found == IF db = {} \/ r.coll.by = "rid" THEN {}
                      ELSE LiveColl(r.db.seg, r.coll.seg)
  <2>1. found \in SUBSET engine
    BY DEF LiveColl
  <2>2. CASE /\ r.op = "create_coll" /\ db # {} /\ found = {}
             /\ \E y \in db : Create(c, Resource("coll", y.rid, r.coll.seg))
    <3>1. PICK y \in db : Create(c, Resource("coll", y.rid, r.coll.seg))
      BY <2>2
    <3>2. r.db.by = "name" /\ r.coll.by = "name" /\ r.coll.seg \in AllNames
      BY <1>1, <1>2, <2>2
    <3>3. y \in LiveDb(r.db.seg) /\ y \in engine /\ y.kind = "db" /\ y.rid \in Nat
      BY <1>3, <3>1, <3>2 DEF LiveDb, Bodies
    <3> DEFINE x == Resource("coll", y.rid, r.coll.seg)
    <3>4. x \in [rid : Nat, kind : {"coll"}, db : Nat, name : AllNames]
      BY <1>3, <3>2, <3>3 DEF Resource
    <3>5. /\ x \in Bodies /\ x.rid = lastRid + 1 /\ x.kind = "coll"
          /\ x.name = r.coll.seg /\ x.db = y.rid
      BY <3>4 DEF Bodies, Resource
    <3>6. LiveColl(r.db.seg, r.coll.seg) = {}
      BY <1>1, <2>2, <3>2
    <3>7. \A z \in engine : ~(z.kind = x.kind /\ z.db = x.db /\ z.name = x.name)
      BY <3>3, <3>5, <3>6 DEF LiveColl
    <3> HIDE DEF x
    <3>8. Served(c, 201, {x}) /\ engine' = engine \cup {x} /\ lastRid' = lastRid + 1
      BY <3>1 DEF Create, x
    <3>9. Created(c, {x})
      BY <2>2, <3>3, <3>5, <3>7, <3>8 DEF Created
    <3> QED
      BY <3>5, <3>8, <3>9
  <2>3. CASE Refuse(c, 409) \/ Refuse(c, 404)
    BY <1>4, <2>3
  <2>4. CASE Return(c, found)
    BY <1>3, <1>5, <2>1, <2>4
  <2> QED
    BY <1>7, <2>2, <2>3, <2>4 DEF ServeColl
<1> QED
  BY <1>6, <1>7 DEF Serve

\* A read by ids from answers of a container that lives finds it, and only it.
LEMMA SelfServed ==
    ASSUME IInv, NEW c \in Clients, Serve(c),
           req[c].self # NoRid, req[c].answered,
           NEW x \in engine, x.rid = req[c].self
    PROVE  Return(c, {x})
<1> DEFINE r == req[c]
<1>1. PICK y \in LiveDb(r.db.seg) : y.rid = x.db
  BY ArrivedIs DEF TargetOk
<1>2. /\ r.op = "read_pkranges" /\ x.kind = "coll" /\ r.coll = Named(x.name)
      /\ r.db.by = "name"
  BY ArrivedIs DEF TargetOk
<1>3. r.coll.by = "name" /\ r.coll.seg = x.name
  BY <1>2 DEF Named
<1>4. x \in LiveColl(r.db.seg, r.coll.seg)
  BY <1>1, <1>2, <1>3 DEF LiveColl
<1>5. \A z \in LiveColl(r.db.seg, r.coll.seg) : z = x
  <2> SUFFICES ASSUME NEW z \in LiveColl(r.db.seg, r.coll.seg) PROVE z = x
    OBVIOUS
  <2>1. PICK w \in LiveDb(r.db.seg) : w.rid = z.db
    BY DEF LiveColl
  <2>2. /\ y \in engine /\ y.kind = "db" /\ y.name = r.db.seg
        /\ w \in engine /\ w.kind = "db" /\ w.name = r.db.seg
    BY <1>1, <2>1 DEF LiveDb
  <2>3. y.db = NoRid /\ w.db = NoRid
    BY <2>2 DEF IInv, TypeOK, Bodies
  <2>4. w = y
    BY <2>2, <2>3 DEF IInv, EngineInv
  <2>5. z \in engine /\ z.kind = "coll" /\ z.name = x.name /\ z.db = x.db
    BY <1>1, <1>3, <2>1, <2>4 DEF LiveColl
  <2> QED
    BY <1>2, <2>5 DEF IInv, EngineInv
<1>6. LiveColl(r.db.seg, r.coll.seg) = {x}
  BY <1>4, <1>5
<1>7. LiveDb(r.db.seg) # {}
  BY <1>1
<1> QED
  BY <1>2, <1>3, <1>6, <1>7 DEF Serve, ServeDb, ServeColl

\* The answer of the serving thread speaks of resources as they are.
LEMMA ServeKeeps ==
    ASSUME IInv, NEW c \in Clients, Serve(c)
    PROVE  IInv'
<1>1. PICK status \in Nat, body \in SUBSET Bodies :
         /\ Served(c, status, body)
         /\ Unchanged(body) \/ Created(c, body) \/ Dropped(c, body)
  BY ServeIs
<1>2. PICK r : /\ Go(c, r) /\ UNCHANGED <<dbRids, collRids, held>>
               /\ r = [at |-> "served", op |-> req[c].op, status |-> status, body |-> body,
                       self |-> req[c].self, answered |-> req[c].answered,
                       live |-> \E x \in engine : x.rid = req[c].self]
  BY <1>1 DEF Served, Serve
<1>3. r \in Requests
  <2>1. /\ req[c].op \in DbOps \cup CollOps /\ req[c].self \in Nat \cup {NoRid}
        /\ req[c].answered \in BOOLEAN
    BY ArrivedIs
  <2>2. r \in [at : {"served", "learnt"}, op : DbOps \cup CollOps, status : Nat,
               body : SUBSET Bodies, self : Nat \cup {NoRid}, answered : BOOLEAN,
               live : BOOLEAN]
    BY <1>2, <2>1
  <2> QED
    BY <2>2 DEF Requests
<1>4. engine \in SUBSET Bodies /\ lastRid \in Nat /\ EngineInv
      /\ \A x \in engine : x.rid \in Nat /\ x.rid <= lastRid
  BY DEF IInv, TypeOK, EngineInv, Bodies
<1>5. /\ engine' \in SUBSET Bodies /\ lastRid' \in Nat /\ lastRid <= lastRid'
      /\ \A x \in engine' : x \in engine \/ x.rid > lastRid
  BY <1>1, <1>4 DEF Unchanged, Created, Dropped
<1>6. EngineInv' /\ \A x \in body : x \in engine'
  <2>1. CASE Unchanged(body)
    BY <1>4, <2>1 DEF EngineInv, Unchanged
  <2>2. CASE Created(c, body)
    <3>1. PICK x \in Bodies :
             /\ x.rid = lastRid + 1 /\ engine' = engine \cup {x} /\ body = {x}
             /\ \A y \in engine : ~(y.kind = x.kind /\ y.db = x.db /\ y.name = x.name)
             /\ x.kind = "coll" => \E y \in engine : y.kind = "db" /\ y.rid = x.db
      BY <2>2 DEF Created
    <3>2. lastRid' = lastRid + 1
      BY <2>2 DEF Created
    <3>3. \A y \in engine' : y.rid <= lastRid'
      BY <1>4, <3>1, <3>2
    <3>4. \A y, z \in engine' : y.rid = z.rid => y = z
      BY <1>4, <3>1 DEF EngineInv
    <3>5. \A y, z \in engine' : y.kind = z.kind /\ y.db = z.db /\ y.name = z.name => y = z
      BY <1>4, <3>1 DEF EngineInv
    <3>6. \A y \in engine' : y.kind = "coll" =>
             \E z \in engine' : z.kind = "db" /\ z.rid = y.db
      BY <1>4, <3>1 DEF EngineInv
    <3> QED
      BY <3>1, <3>3, <3>4, <3>5, <3>6 DEF EngineInv
  <2>3. CASE Dropped(c, body)
    <3>1. PICK y \in engine : /\ y.kind = "db"
                              /\ engine' = {x \in engine : y.rid \notin {x.rid, x.db}}
      BY <2>3 DEF Dropped
    <3>2. lastRid' = lastRid /\ engine' \subseteq engine /\ body = {}
      BY <2>3, <3>1 DEF Dropped
    <3>3. ASSUME NEW x \in engine', x.kind = "coll"
          PROVE  \E z \in engine' : z.kind = "db" /\ z.rid = x.db
      <4>1. PICK z \in engine : z.kind = "db" /\ z.rid = x.db
        BY <1>4, <3>2, <3>3 DEF EngineInv
      <4>2. z.db = NoRid /\ y.rid # NoRid
        BY <1>4, <3>1, <4>1, GatewayAssumption DEF Bodies
      <4> QED
        BY <3>1, <3>3, <4>1, <4>2
    <3> QED
      BY <1>4, <3>2, <3>3 DEF EngineInv
  <2> QED
    BY <1>1, <2>1, <2>2, <2>3
<1>7. AnswerOk(r)'
  <2>1. \A x \in body : x.rid <= lastRid'
    BY <1>6 DEF EngineInv
  <2>2. \A x \in body, y \in engine' : x.rid = y.rid => x = y
    BY <1>6 DEF EngineInv
  <2>3. ASSUME r.self # NoRid, r.live, r.answered
        PROVE  r.status = 200 /\ {x.rid : x \in r.body} = {r.self}
    <3>1. PICK x \in engine : x.rid = req[c].self
      BY <1>2, <2>3
    <3>2. Return(c, {x})
      BY <1>2, <2>3, <3>1, SelfServed
    <3>3. req'[c].status = 200 /\ req'[c].body = {x}
      BY <3>2 DEF Return, Served, Go, IInv, TypeOK
    <3>4. req'[c] = r
      BY <1>2 DEF Go, IInv, TypeOK
    <3> QED
      BY <1>2, <3>1, <3>3, <3>4
  <2> QED
    BY <1>2, <2>1, <2>2, <2>3 DEF AnswerOk
<1>8. req' \in [Clients -> Requests] /\ TargetInv' /\ BodyInv'
  <2>1. r.at = "served" /\ dbRids \subseteq dbRids' /\ collRids \subseteq collRids'
    BY <1>2
  <2> QED
    BY <1>2, <1>3, <1>5, <1>6, <1>7, <2>1, ThreadMoves
<1>9. MapsInv' /\ HeldInv' /\ HeldIsKnown'
  BY <1>2, <1>5, <1>6, EvolveKeeps
<1> QED
  BY <1>2, <1>5, <1>6, <1>8, <1>9 DEF IInv, TypeOK

\* What is learnt from an answer is the name of the id, if the id still lives.
LEMMA LearnKeeps ==
    ASSUME IInv, NEW c \in Clients, Learn(c)
    PROVE  IInv'
<1>1. PICK r : /\ r = [req[c] EXCEPT !.at = "learnt"]
               /\ Go(c, r) /\ UNCHANGED <<engine, lastRid, held>>
  BY DEF Learn
<1>2. /\ req[c] \in [at : {"served", "learnt"}, op : DbOps \cup CollOps, status : Nat,
                     body : SUBSET Bodies, self : Nat \cup {NoRid}, answered : BOOLEAN,
                     live : BOOLEAN]
      /\ AnswerOk(req[c])
  <2>1. req[c] \in Requests /\ req[c].at = "served"
    BY DEF Learn, IInv, TypeOK
  <2> QED
    BY <2>1 DEF Requests, Idle, IInv, BodyInv
<1>3. /\ r \in Requests /\ r.at = "learnt" /\ r.op = req[c].op /\ r.body = req[c].body
      /\ r.self = req[c].self /\ r.live = req[c].live /\ r.answered = req[c].answered
      /\ r.status = req[c].status
  <2>1. r \in [at : {"served", "learnt"}, op : DbOps \cup CollOps, status : Nat,
               body : SUBSET Bodies, self : Nat \cup {NoRid}, answered : BOOLEAN,
               live : BOOLEAN]
    BY <1>1, <1>2
  <2>2. r \in Requests
    BY <2>1 DEF Requests
  <2> QED
    BY <1>1, <1>2, <2>2
<1>4. PICK res :
      /\ res = Resources(c)
      /\ dbRids' = dbRids \cup {<<x.rid, x.name>> : x \in {y \in res : y.kind = "db"}}
      /\ collRids' = collRids \cup {<<x.rid, x.name>> : x \in {y \in res : y.kind = "coll"}}
  BY DEF Learn, Learns, CollPairs
<1>5. /\ res \in SUBSET Bodies /\ res \subseteq req[c].body
      /\ req[c].op # "read_pkranges" => res = req[c].body
  BY <1>2, <1>4 DEF Resources
<1>6. \A x \in res : x.rid \in Nat /\ x.name \in AllNames /\ x.kind \in {"db", "coll"}
  BY <1>5 DEF Bodies
<1>7. /\ dbRids \subseteq dbRids' /\ collRids \subseteq collRids'
      /\ dbRids' \in SUBSET (Nat \X AllNames) /\ collRids' \in SUBSET (Nat \X AllNames)
  BY <1>4, <1>6 DEF IInv, TypeOK
<1>8. \A x \in res : Translatable(x.kind, x.rid)'
  <2> SUFFICES ASSUME NEW x \in res PROVE Translatable(x.kind, x.rid)'
    OBVIOUS
  <2>1. CASE x.kind = "db"
    <3>1. <<x.rid, x.name>> \in dbRids'
      BY <1>4, <2>1
    <3> QED
      BY <2>1, <3>1 DEF Translatable
  <2>2. CASE x.kind = "coll"
    <3>1. <<x.rid, x.name>> \in collRids'
      BY <1>4, <2>2
    <3> QED
      BY <2>2, <3>1 DEF Translatable
  <2> QED
    BY <1>6, <2>1, <2>2
<1>9. AnswerOk(r)'
  BY <1>1, <1>2, <1>3, <1>5, <1>8 DEF AnswerOk
<1>10. MapsInv'
  <2> SUFFICES ASSUME NEW p \in dbRids' \cup collRids'
               PROVE  p[1] <= lastRid /\ \A x \in engine : x.rid = p[1] => x.name = p[2]
    BY <1>1 DEF MapsInv
  <2>1. CASE p \in dbRids \cup collRids
    BY <2>1 DEF IInv, MapsInv
  <2>2. CASE \E x \in res : p = <<x.rid, x.name>>
    BY <1>2, <1>5, <2>2 DEF AnswerOk
  <2> QED
    BY <1>4, <2>1, <2>2
<1>11. /\ EngineInv' /\ lastRid' \in Nat /\ lastRid <= lastRid' /\ engine' \in SUBSET Bodies
       /\ HeldInv' /\ held' \in [Clients -> SUBSET Holdings]
  BY <1>1 DEF IInv, TypeOK, EngineInv, HeldInv
<1>12. req' \in [Clients -> Requests] /\ TargetInv' /\ BodyInv'
  <2>1. \A x \in engine' : x \in engine
    BY <1>1
  <2> QED
    BY <1>1, <1>3, <1>7, <1>9, <1>11, <2>1, ThreadMoves
<1>13. HeldIsKnown'
  BY <1>1, <1>7 DEF IInv, HeldIsKnown
<1> QED
  BY <1>7, <1>10, <1>11, <1>12, <1>13 DEF IInv, TypeOK

\* A thread that ends leaves the requests of the others as they are.
LEMMA EndKeeps ==
    ASSUME IInv, NEW c \in Clients, Go(c, Idle),
           UNCHANGED <<engine, lastRid, dbRids, collRids>>
    PROVE  /\ req' \in [Clients -> Requests] /\ TargetInv' /\ BodyInv'
           /\ EngineInv' /\ MapsInv'
<1>1. Idle \in Requests /\ Idle.at = "idle"
  BY DEF Requests, Idle
<1>2. EngineInv' /\ MapsInv' /\ lastRid' \in Nat /\ lastRid <= lastRid' /\ engine' \in SUBSET Bodies
  BY DEF IInv, TypeOK, EngineInv, MapsInv
<1> QED
  BY <1>1, <1>2, ThreadMoves

\* The client keeps what the thread has learnt from.
LEMMA ReplyKeeps ==
    ASSUME IInv, NEW c \in Clients, Reply(c)
    PROVE  IInv'
<1>1. Go(c, Idle) /\ UNCHANGED <<engine, lastRid, dbRids, collRids>>
  BY DEF Reply
<1>2. /\ req[c] \in [at : {"served", "learnt"}, op : DbOps \cup CollOps, status : Nat,
                     body : SUBSET Bodies, self : Nat \cup {NoRid}, answered : BOOLEAN,
                     live : BOOLEAN]
      /\ AnswerOk(req[c]) /\ req[c].at = "learnt"
  <2>1. req[c] \in Requests /\ req[c].at = "learnt"
    BY DEF Reply, IInv, TypeOK
  <2> QED
    BY <2>1 DEF Requests, Idle, IInv, BodyInv
<1> DEFINE res == Resources(c)
           new == {[kind |-> x.kind, rid |-> x.rid, db |-> x.db] : x \in res}
<1>3. held' = [held EXCEPT ![c] = held[c] \cup new]
  BY DEF Reply
<1>4. /\ res \in SUBSET Bodies
      /\ \A x \in res : /\ x.rid <= lastRid /\ Translatable(x.kind, x.rid)
                        /\ \A y \in engine : x.rid = y.rid => x = y
  BY <1>2 DEF Resources, AnswerOk
<1> HIDE DEF res
<1>5. new \in SUBSET Holdings
  <2> SUFFICES ASSUME NEW x \in res
               PROVE  [kind |-> x.kind, rid |-> x.rid, db |-> x.db] \in Holdings
    OBVIOUS
  <2>1. x \in Bodies
    BY <1>4
  <2>2. CASE x.kind = "db" /\ x.rid \in Nat /\ x.db = NoRid
    BY <2>2 DEF Holdings
  <2>3. CASE x.kind = "coll" /\ x.rid \in Nat /\ x.db \in Nat
    BY <2>3 DEF Holdings
  <2> QED
    BY <2>1, <2>2, <2>3 DEF Bodies
<1>6. \A h \in new : \E x \in res : h.kind = x.kind /\ h.rid = x.rid /\ h.db = x.db
  OBVIOUS
<1> HIDE DEF new
<1>7. /\ held' \in [Clients -> SUBSET Holdings]
      /\ \A d \in Clients : \A h \in held'[d] : h \in held[d] \/ h \in new
  BY <1>3, <1>5 DEF IInv, TypeOK
<1>8. \A h \in new :
        /\ h.rid <= lastRid /\ Translatable(h.kind, h.rid)
        /\ \A y \in engine : y.rid = h.rid => y.kind = h.kind /\ y.db = h.db
  BY <1>4, <1>6
<1>9. HeldInv'
  BY <1>1, <1>7, <1>8 DEF IInv, HeldInv
<1>10. HeldIsKnown'
  BY <1>1, <1>7, <1>8 DEF IInv, HeldIsKnown, Translatable
<1> QED
  BY <1>1, <1>7, <1>9, <1>10, EndKeeps DEF IInv, TypeOK

LEMMA FailsKeeps ==
    ASSUME IInv, NEW c \in Clients, UpstreamFails(c)
    PROVE  IInv'
<1>1. Go(c, Idle) /\ UNCHANGED <<engine, lastRid, dbRids, collRids, held>>
  BY DEF UpstreamFails
<1> QED
  BY <1>1, EndKeeps DEF IInv, TypeOK, HeldInv, HeldIsKnown

LEMMA RestartKeeps == IInv /\ Restart => IInv'
BY DEF Restart, IInv, TypeOK, EngineInv, MapsInv, BodyInv, HeldInv, TargetInv,
   HeldIsKnown, Requests, Idle

LEMMA StepKeeps == IInv /\ [Next]_vars => IInv'
<1> SUFFICES ASSUME IInv, [Next]_vars PROVE IInv'
  OBVIOUS
<1>1. ASSUME NEW c \in Clients, CallDb(c) \/ CallColl(c) \/ CallRanges(c) \/ CallBySelf(c)
      PROVE  IInv'
  BY <1>1, CallKeeps
<1>2. ASSUME NEW c \in Clients, Serve(c) PROVE IInv'
  BY <1>2, ServeKeeps
<1>3. ASSUME NEW c \in Clients, Learn(c) PROVE IInv'
  BY <1>3, LearnKeeps
<1>4. ASSUME NEW c \in Clients, Reply(c) PROVE IInv'
  BY <1>4, ReplyKeeps
<1>5. ASSUME NEW c \in Clients, UpstreamFails(c) PROVE IInv'
  BY <1>5, FailsKeeps
<1>6. CASE Restart
  BY <1>6, RestartKeeps
<1>7. CASE UNCHANGED vars
  <2>1. UNCHANGED <<engine, lastRid, dbRids, collRids, req, held>>
    BY <1>7 DEF vars
  <2>2. BodyInv'
    BY <2>1 DEF IInv, BodyInv, AnswerOk, Translatable
  <2>3. TargetInv'
    BY <2>1 DEF IInv, TargetInv, TargetOk, LiveDb
  <2> QED
    BY <2>1, <2>2, <2>3 DEF IInv, TypeOK, EngineInv, MapsInv, HeldInv, HeldIsKnown
<1> QED
  BY <1>1, <1>2, <1>3, <1>4, <1>5, <1>6, <1>7 DEF Next

\* Ids are never reused, names are unique within their parent, the maps give a
\* live id its own name, and the answers and clients speak of resources as they
\* are if they still are (cosmos_gateway_proxy.py 71-115, 194-233).
THEOREM GatewayInv == Spec => []IInv
<1>1. Init => IInv
  BY InitIInv
<1>2. IInv /\ [Next]_vars => IInv'
  BY StepKeeps
<1> QED
  BY <1>1, <1>2, PTL DEF Spec

\* Whatever the number of clients, names and resources: no client holds the id
\* of a live resource that the proxy could not translate, because an answer is
\* sent after it was learnt from, whatever the other threads do in between
\* (cosmos_gateway_proxy.py 205-207, 222-233).
THEOREM HeldKnown == Spec => []HeldIsKnown
<1>1. IInv => HeldIsKnown
  BY DEF IInv
<1> QED
  BY <1>1, GatewayInv, PTL

\* A read of the ranges of a live container by a _self link made of ids from
\* answers gives the ranges of that container, for any number of threads,
\* databases and containers (cosmos_gateway_proxy.py 87-105).
THEOREM SelfReads == Spec => []SelfReadExact
<1>1. IInv => SelfReadExact
  BY DEF IInv, BodyInv, AnswerOk, SelfReadExact, AnsweredSelfRead
<1> QED
  BY <1>1, GatewayInv, PTL
=============================================================================
