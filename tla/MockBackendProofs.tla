------------------------- MODULE MockBackendProofs -------------------------
(***************************************************************************)
(* The two mocks side by side.  First what each operation on a backend      *)
(* does, then what the interpreter makes of each list of the profile, then  *)
(* what a call to both preserves; last that the pair of them implements the *)
(* document store.                                                         *)
(***************************************************************************)
EXTENDS MockBackend, TLAPS

Docs == {NoContainer} \cup [Keys -> Pks \cup {Absent}]

Counts == [account : Nat, collection : Nat, ranges : Nat, retries : Nat,
           c429 : Nat, c410 : Nat]

\* A backend, in the middle of a call too.
Backend ==
    [db : BOOLEAN, docs : Docs, touched : BOOLEAN, valid : BOOLEAN,
     armed : BOOLEAN, throttle : [RoutedOps -> 0..MaxCount], meter : Counts]

\* What an operation on b leaves alone in t.
SameStore(b, t)  == t.db = b.db /\ t.docs = b.docs
SameTouch(b, t)  == t.touched = b.touched /\ t.meter.collection = b.meter.collection
SameRanges(b, t) == t.valid = b.valid /\ t.meter.ranges = b.meter.ranges
SameFaults(b, t) == /\ t.armed = b.armed /\ t.throttle = b.throttle
                    /\ t.meter.retries = b.meter.retries
                    /\ t.meter.c429 = b.meter.c429 /\ t.meter.c410 = b.meter.c410
SameAccount(b, t) == t.meter.account = b.meter.account

Kept(b, t) == SameRanges(b, t) /\ SameFaults(b, t) /\ SameAccount(b, t)
-----------------------------------------------------------------------------
(* The operations on a backend.                                            *)

LEMMA MeterTyped == ASSUME NEW b \in Backend PROVE b.meter \in Counts
BY DEF Backend

LEMMA TouchIs ==
    ASSUME NEW b \in Backend, NEW t, t = TouchCollection(b)
    PROVE  /\ t \in Backend /\ SameStore(b, t) /\ Kept(b, t)
           /\ t.touched = TRUE
           /\ t.meter.collection = b.meter.collection + (IF b.touched THEN 0 ELSE 1)
<1>1. [b.meter EXCEPT !.collection = @ + 1] \in Counts
  BY MeterTyped DEF Counts
<1>2. CASE b.touched
  BY <1>2, MeterTyped DEF TouchCollection, Backend, Counts, SameStore, Kept,
     SameRanges, SameFaults, SameAccount
<1>3. CASE ~b.touched
  <2>1. t = [b EXCEPT !.touched = TRUE, !.meter.collection = @ + 1]
    BY <1>3 DEF TouchCollection
  <2>2. t \in Backend /\ SameStore(b, t)
    BY <1>1, <2>1, MeterTyped DEF Backend, SameStore
  <2>3. t.touched = TRUE /\ t.valid = b.valid /\ t.armed = b.armed /\ t.throttle = b.throttle
    BY <1>1, <2>1, MeterTyped DEF Backend
  <2>4. t.meter = [b.meter EXCEPT !.collection = @ + 1]
    BY <1>1, <2>1, MeterTyped DEF Backend
  <2>5. /\ t.meter.collection = b.meter.collection + 1
        /\ t.meter.ranges = b.meter.ranges /\ t.meter.retries = b.meter.retries
        /\ t.meter.c429 = b.meter.c429 /\ t.meter.c410 = b.meter.c410
        /\ t.meter.account = b.meter.account
    BY <2>4, MeterTyped DEF Counts
  <2> QED
    BY <1>3, <2>2, <2>3, <2>5 DEF Kept, SameRanges, SameFaults, SameAccount
<1> QED
  BY <1>2, <1>3 DEF Backend

LEMMA RefreshIs ==
    ASSUME NEW b \in Backend, NEW t, t = Refresh(b)
    PROVE  /\ t \in Backend /\ SameStore(b, t) /\ SameTouch(b, t)
           /\ SameFaults(b, t) /\ SameAccount(b, t)
           /\ t.valid = TRUE /\ t.meter.ranges = b.meter.ranges + 1
<1>1. [b.meter EXCEPT !.ranges = @ + 1] \in Counts
  BY MeterTyped DEF Counts
<1>2. t \in Backend /\ SameStore(b, t)
  BY <1>1, MeterTyped DEF Backend, SameStore, Refresh
<1>3. t.valid = TRUE /\ t.touched = b.touched /\ t.armed = b.armed /\ t.throttle = b.throttle
  BY <1>1, MeterTyped DEF Backend, Refresh
<1>4. t.meter = [b.meter EXCEPT !.ranges = @ + 1]
  BY <1>1, MeterTyped DEF Backend, Refresh
<1>5. /\ t.meter.collection = b.meter.collection
      /\ t.meter.ranges = b.meter.ranges + 1 /\ t.meter.retries = b.meter.retries
      /\ t.meter.c429 = b.meter.c429 /\ t.meter.c410 = b.meter.c410
      /\ t.meter.account = b.meter.account
  BY <1>4, MeterTyped DEF Counts
<1> QED
  BY <1>2, <1>3, <1>5 DEF SameTouch, SameFaults, SameAccount

\* A cross-partition query reads the ranges, Python's only over a cold cache.
Reads(b, c, python) == c.cross /\ ~(python /\ b.valid)

TouchRanges(b, c, python) ==
    IF python THEN PythonTouchRanges(b, c) ELSE JavaTouchRanges(b, c)

LEMMA TouchRangesIs ==
    ASSUME NEW b \in Backend, NEW c, NEW python \in BOOLEAN, NEW t,
           c.cross \in BOOLEAN, t = TouchRanges(b, c, python)
    PROVE  /\ t \in Backend /\ SameStore(b, t) /\ SameTouch(b, t)
           /\ SameFaults(b, t) /\ SameAccount(b, t)
           /\ t.meter.ranges = b.meter.ranges + (IF Reads(b, c, python) THEN 1 ELSE 0)
           /\ t.valid <=> (b.valid \/ (python /\ Reads(b, c, python)))
<1>1. CASE ~Reads(b, c, python)
  <2>1. t = b
    BY <1>1 DEF TouchRanges, PythonTouchRanges, JavaTouchRanges, Reads
  <2> QED
    BY <1>1, <2>1, MeterTyped
       DEF Counts, SameStore, SameTouch, SameFaults, SameAccount
<1>2. CASE Reads(b, c, python) /\ python
  <2>1. t = Refresh(b)
    BY <1>2 DEF TouchRanges, PythonTouchRanges, Reads
  <2> QED
    BY <1>2, <2>1, RefreshIs
<1>3. CASE Reads(b, c, python) /\ ~python
  <2>1. t = [b EXCEPT !.meter.ranges = @ + 1]
    BY <1>3 DEF TouchRanges, JavaTouchRanges, Reads
  <2>2. [b.meter EXCEPT !.ranges = @ + 1] \in Counts
    BY MeterTyped DEF Counts
  <2>3. t \in Backend /\ SameStore(b, t)
    BY <2>1, <2>2, MeterTyped DEF Backend, SameStore
  <2>4. /\ t.valid = b.valid /\ t.touched = b.touched /\ t.armed = b.armed
        /\ t.throttle = b.throttle /\ t.meter = [b.meter EXCEPT !.ranges = @ + 1]
    BY <2>1, <2>2, MeterTyped DEF Backend
  <2>5. /\ t.meter.collection = b.meter.collection
        /\ t.meter.ranges = b.meter.ranges + 1 /\ t.meter.retries = b.meter.retries
        /\ t.meter.c429 = b.meter.c429 /\ t.meter.c410 = b.meter.c410
        /\ t.meter.account = b.meter.account
    BY <2>4, MeterTyped DEF Counts
  <2> QED
    BY <1>3, <2>3, <2>4, <2>5 DEF SameTouch, SameFaults, SameAccount
<1> QED
  BY <1>1, <1>2, <1>3

LEMMA NewContainerIs ==
    ASSUME NEW b \in Backend
    PROVE  /\ NewContainer(b) \in Backend /\ Kept(b, NewContainer(b))
           /\ NewContainer(b).db = b.db
           /\ NewContainer(b).docs = [k \in Keys |-> Absent]
           /\ ~NewContainer(b).touched
           /\ NewContainer(b).meter.collection = b.meter.collection
<1>1. [k \in Keys |-> Absent] \in Docs
  BY DEF Docs
<1> QED
  BY <1>1 DEF NewContainer, Backend, Kept, SameRanges, SameFaults, SameAccount

MakeDb(b) == [b EXCEPT !.db = TRUE]
DropDb(b) == [b EXCEPT !.db = FALSE, !.docs = NoContainer]
Count(b)  == [b EXCEPT !.meter.account = @ + 1]
SetItem(b, k, v) == [b EXCEPT !.docs[k] = v]

LEMMA DatabaseIs ==
    ASSUME NEW b \in Backend
    PROVE  /\ MakeDb(b) \in Backend /\ Kept(b, MakeDb(b)) /\ SameTouch(b, MakeDb(b))
           /\ MakeDb(b).db = TRUE /\ MakeDb(b).docs = b.docs
           /\ DropDb(b) \in Backend /\ Kept(b, DropDb(b)) /\ SameTouch(b, DropDb(b))
           /\ DropDb(b).db = FALSE /\ DropDb(b).docs = NoContainer
<1>1. NoContainer \in Docs
  BY DEF Docs
<1> QED
  BY <1>1 DEF MakeDb, DropDb, Backend, Kept, SameRanges, SameFaults, SameAccount, SameTouch

LEMMA SetItemIs ==
    ASSUME NEW b \in Backend, NEW k \in Keys, NEW v \in Pks \cup {Absent},
           b.docs # NoContainer
    PROVE  /\ SetItem(b, k, v) \in Backend
           /\ Kept(b, SetItem(b, k, v)) /\ SameTouch(b, SetItem(b, k, v))
           /\ SetItem(b, k, v).db = b.db
           /\ SetItem(b, k, v).docs = [b.docs EXCEPT ![k] = v]
           /\ SetItem(b, k, v).docs # NoContainer
<1>1. b.docs \in [Keys -> Pks \cup {Absent}]
  BY DEF Backend, Docs
<1>2. [b.docs EXCEPT ![k] = v] \in [Keys -> Pks \cup {Absent}]
  BY <1>1
<1>3. SetItem(b, k, v) = [b EXCEPT !.docs = [b.docs EXCEPT ![k] = v]]
  BY DEF SetItem
<1> QED
  BY <1>2, <1>3, MockAssumption
     DEF Docs, Backend, Kept, SameRanges, SameFaults, SameAccount, SameTouch

LEMMA CountIs ==
    ASSUME NEW b \in Backend, NEW t, t = Count(b)
    PROVE  /\ t \in Backend /\ SameStore(b, t) /\ SameTouch(b, t)
           /\ SameRanges(b, t) /\ SameFaults(b, t)
           /\ t.meter.account = b.meter.account + 1
<1>1. [b.meter EXCEPT !.account = @ + 1] \in Counts
  BY MeterTyped DEF Counts
<1>2. t \in Backend /\ SameStore(b, t)
  BY <1>1, MeterTyped DEF Backend, SameStore, Count
<1>3. /\ t.valid = b.valid /\ t.touched = b.touched /\ t.armed = b.armed
      /\ t.throttle = b.throttle /\ t.meter = [b.meter EXCEPT !.account = @ + 1]
  BY <1>1, MeterTyped DEF Backend, Count
<1>4. /\ t.meter.collection = b.meter.collection
      /\ t.meter.ranges = b.meter.ranges /\ t.meter.retries = b.meter.retries
      /\ t.meter.c429 = b.meter.c429 /\ t.meter.c410 = b.meter.c410
      /\ t.meter.account = b.meter.account + 1
  BY <1>3, MeterTyped DEF Counts
<1> QED
  BY <1>2, <1>3, <1>4 DEF SameTouch, SameFaults, SameRanges
-----------------------------------------------------------------------------
(* The interpreter.                                                        *)

\* An execution.
Exec(b, c, python, status, existed, rows) ==
    [b |-> b, c |-> c, python |-> python, status |-> status,
     existed |-> existed, rows |-> rows]

\* One that goes on, and one that has answered.
On(b, c, python, existed, rows) == Exec(b, c, python, 0, existed, rows)

\* Whether an item is replaced: before and at the time it is put.
NotYet == FALSE
Existed(b, c) == b.docs[Key(c)] # Absent

\* What every predicate means while an execution goes on.
LEMMA PredicatesAre ==
    ASSUME NEW b \in Backend, NEW c, NEW python, NEW existed, NEW rows,
           c.lenient \in BOOLEAN
    PROVE  /\ Holds("db_exists", On(b, c, python, existed, rows)) <=> b.db
           /\ Holds("db_missing", On(b, c, python, existed, rows))
                <=> ~b.db
           /\ Holds("container_exists", On(b, c, python, existed, rows))
                <=> b.docs # NoContainer
           /\ Holds("container_missing", On(b, c, python, existed, rows))
                <=> b.docs = NoContainer
           /\ Holds("existed", On(b, c, python, existed, rows))
                <=> existed
           /\ Holds("if_not_exists", On(b, c, python, existed, rows))
                <=> c.lenient
           /\ b.docs # NoContainer =>
                /\ Holds("item_exists", On(b, c, python, existed, rows))
                     <=> b.docs[Key(c)] # Absent
                /\ Holds("item_missing", On(b, c, python, existed, rows))
                     <=> b.docs[Key(c)] = Absent
BY DEF Holds, On, Exec, Backend

\* Guards and returns.
LEMMA GuardIs ==
    ASSUME NEW b, NEW c, NEW python, NEW existed, NEW rows,
           NEW preds, NEW status
    PROVE  Interpret(On(b, c, python, existed, rows), When(preds, status)) =
             IF \A pred \in preds : Holds(pred, On(b, c, python, existed, rows))
             THEN Exec(b, c, python, status, existed, rows)
             ELSE On(b, c, python, existed, rows)
BY DEF Interpret, When, Taken, On, Exec

LEMMA ReturnIs ==
    ASSUME NEW b, NEW c, NEW python, NEW existed, NEW rows,
           NEW status
    PROVE  Interpret(On(b, c, python, existed, rows), Return(status))
             = Exec(b, c, python, status, existed, rows)
BY DEF Interpret, Return, Taken, On, Exec

\* An answer is final.
LEMMA AnswerStays ==
    ASSUME NEW e, NEW s, NEW n, e.status # 0
    PROVE  Step(e, s, n) = e
BY DEF Step, Interpret

Found(b, c) == {k \in Keys : b.docs[k] # Absent /\ c.pk \in {AnyPk, b.docs[k]}}
Named(c, python) == [c EXCEPT !.id = IF LacksId(@, python) THEN c.new ELSE @]

\* The effects.
LEMMA DoConnect ==
    ASSUME NEW b, NEW c, NEW python, NEW existed, NEW rows
    PROVE  Interpret(On(b, c, python, existed, rows), Do("set_connection"))
             = On(b, c, python, existed, rows)
BY DEF Interpret, Do, Effect, On, Exec

LEMMA DoCount ==
    ASSUME NEW b, NEW c, NEW python, NEW existed, NEW rows
    PROVE  Interpret(On(b, c, python, existed, rows), Do("incr_metadata"))
             = On(Count(b), c, python, existed, rows)
BY DEF Interpret, Do, Effect, On, Exec, Count

LEMMA DoTouch ==
    ASSUME NEW b, NEW c, NEW python, NEW existed, NEW rows
    PROVE  Interpret(On(b, c, python, existed, rows), Do("touch_collection"))
             = On(TouchCollection(b), c, python, existed, rows)
BY DEF Interpret, Do, Effect, On, Exec

LEMMA DoTouchRanges ==
    ASSUME NEW b, NEW c, NEW python \in BOOLEAN, NEW existed, NEW rows
    PROVE  Interpret(On(b, c, python, existed, rows), Do("touch_pk_ranges_if_cross"))
             = On(TouchRanges(b, c, python), c, python, existed, rows)
BY DEF Interpret, Do, Effect, On, Exec, TouchRanges

LEMMA DoName ==
    ASSUME NEW b, NEW c, NEW python, NEW existed, NEW rows
    PROVE  Interpret(On(b, c, python, existed, rows), Do("assign_id"))
             = On(b, Named(c, python), python, existed, rows)
BY DEF Interpret, Do, Effect, On, Exec, Named

LEMMA DoMakeDb ==
    ASSUME NEW b, NEW c, NEW python, NEW existed, NEW rows
    PROVE  Interpret(On(b, c, python, existed, rows), Do("put_database"))
             = On(MakeDb(b), c, python, existed, rows)
BY DEF Interpret, Do, Effect, On, Exec, MakeDb

LEMMA DoDropDb ==
    ASSUME NEW b, NEW c, NEW python, NEW existed, NEW rows
    PROVE  Interpret(On(b, c, python, existed, rows), Do("remove_database"))
             = On(DropDb(b), c, python, existed, rows)
BY DEF Interpret, Do, Effect, On, Exec, DropDb

LEMMA DoNewContainer ==
    ASSUME NEW b, NEW c, NEW python, NEW existed, NEW rows
    PROVE  Interpret(On(b, c, python, existed, rows), Do("put_container"))
             = On(NewContainer(b), c, python, existed, rows)
BY DEF Interpret, Do, Effect, On, Exec

LEMMA DoPut ==
    ASSUME NEW b, NEW c, NEW python, NEW existed, NEW rows
    PROVE  Interpret(On(b, c, python, existed, rows), Do("put_item"))
             = On(SetItem(b, Key(c), c.field), c, python, Existed(b, c), rows)
BY DEF Interpret, Do, Effect, On, Exec, Put, SetItem, Existed

LEMMA DoRemove ==
    ASSUME NEW b, NEW c, NEW python, NEW existed, NEW rows
    PROVE  Interpret(On(b, c, python, existed, rows), Do("remove_item"))
             = On(SetItem(b, Key(c), Absent), c, python, existed, rows)
BY DEF Interpret, Do, Effect, On, Exec, SetItem

LEMMA DoFilter ==
    ASSUME NEW b, NEW c, NEW python, NEW existed, NEW rows
    PROVE  Interpret(On(b, c, python, existed, rows), Do("query_filter"))
             = On(b, c, python, existed, Found(b, c))
BY DEF Interpret, Do, Effect, On, Exec, Selected, Found
-----------------------------------------------------------------------------
(* What comes of every list of the profile.                                *)

Calls == [op : DOMAIN Profile, id : Ids \cup {NoId}, pk : Pks \cup {AnyPk},
          field : Pks, cross : BOOLEAN, lenient : BOOLEAN, new : Ids]

LEMMA ExecuteIs ==
    ASSUME NEW b, NEW c, NEW python
    PROVE  Execute(b, c, python) = Steps(On(b, c, python, NotYet, {}), Profile[c.op])
BY DEF Execute, On, Exec, NotYet

LEMMA CreateClientRun ==
    ASSUME NEW b \in Backend, NEW c \in Calls, NEW python \in BOOLEAN,
           c.op = "create_client"
    PROVE  Execute(b, c, python) = Exec(Count(b), c, python, 200, NotYet, {})
<1> DEFINE s  == Profile["create_client"]
           e0 == On(b, c, python, NotYet, {})
           e2 == On(Count(b), c, python, NotYet, {})
<1>1. /\ DOMAIN s = 1..3 /\ s[1] = Do("set_connection") /\ s[2] = Do("incr_metadata")
      /\ s[3] = Return(200)
  BY DEF Profile
<1>2. Step(e0, s, 1) = e0
  BY <1>1, DoConnect DEF Step
<1>3. Step(e0, s, 2) = e2
  BY <1>1, DoCount DEF Step
<1>4. Step(e2, s, 3) = Exec(Count(b), c, python, 200, NotYet, {})
  BY <1>1, ReturnIs DEF Step
<1>5. Steps(e0, s) = Exec(Count(b), c, python, 200, NotYet, {})
  BY <1>1, <1>2, <1>3, <1>4, AnswerStays DEF Steps, Exec
<1> QED
  BY <1>5, ExecuteIs

LEMMA CreateDatabaseRun ==
    ASSUME NEW b \in Backend, NEW c \in Calls, NEW python \in BOOLEAN,
           c.op = "create_database"
    PROVE  Execute(b, c, python) =
             IF b.db THEN Exec(b, c, python, IF c.lenient THEN 200 ELSE 409, NotYet, {})
             ELSE Exec(MakeDb(b), c, python, 201, NotYet, {})
<1> DEFINE s  == Profile["create_database"]
           e0 == On(b, c, python, NotYet, {})
           e3 == On(MakeDb(b), c, python, NotYet, {})
<1>1. /\ DOMAIN s = 1..4 /\ s[1] = When({"db_exists", "if_not_exists"}, 200)
      /\ s[2] = When({"db_exists"}, 409) /\ s[3] = Do("put_database") /\ s[4] = Return(201)
  BY DEF Profile
<1>2. /\ Holds("db_exists", e0) <=> b.db
      /\ Holds("if_not_exists", e0) <=> c.lenient
  BY PredicatesAre DEF Calls
<1>3. CASE b.db /\ c.lenient
  <2>1. Step(e0, s, 1) = Exec(b, c, python, 200, NotYet, {})
    BY <1>1, <1>2, <1>3, GuardIs DEF Step
  <2>2. Steps(e0, s) = Exec(b, c, python, 200, NotYet, {})
    BY <2>1, AnswerStays DEF Steps, Exec
  <2> QED
    BY <1>3, <2>2, ExecuteIs
<1>4. CASE b.db /\ ~c.lenient
  <2>1. Step(e0, s, 1) = e0
    BY <1>1, <1>2, <1>4, GuardIs DEF Step
  <2>2. Step(e0, s, 2) = Exec(b, c, python, 409, NotYet, {})
    BY <1>1, <1>2, <1>4, GuardIs DEF Step
  <2>3. Steps(e0, s) = Exec(b, c, python, 409, NotYet, {})
    BY <2>1, <2>2, AnswerStays DEF Steps, Exec
  <2> QED
    BY <1>4, <2>3, ExecuteIs
<1>5. CASE ~b.db
  <2>1. Step(e0, s, 1) = e0 /\ Step(e0, s, 2) = e0
    BY <1>1, <1>2, <1>5, GuardIs DEF Step
  <2>2. Step(e0, s, 3) = e3
    BY <1>1, DoMakeDb DEF Step
  <2>3. Step(e3, s, 4) = Exec(MakeDb(b), c, python, 201, NotYet, {})
    BY <1>1, ReturnIs DEF Step
  <2>4. Steps(e0, s) = Exec(MakeDb(b), c, python, 201, NotYet, {})
    BY <1>1, <2>1, <2>2, <2>3, AnswerStays DEF Steps, Exec
  <2> QED
    BY <1>5, <2>4, ExecuteIs
<1> QED
  BY <1>3, <1>4, <1>5 DEF Backend, Calls

LEMMA DeleteDatabaseRun ==
    ASSUME NEW b \in Backend, NEW c \in Calls, NEW python \in BOOLEAN,
           c.op = "delete_database"
    PROVE  Execute(b, c, python) =
             IF b.db THEN Exec(DropDb(b), c, python, 204, NotYet, {})
             ELSE Exec(b, c, python, 404, NotYet, {})
<1> DEFINE s  == Profile["delete_database"]
           e0 == On(b, c, python, NotYet, {})
           e2 == On(DropDb(b), c, python, NotYet, {})
<1>1. /\ DOMAIN s = 1..3 /\ s[1] = When({"db_missing"}, 404)
      /\ s[2] = Do("remove_database") /\ s[3] = Return(204)
  BY DEF Profile
<1>2. Holds("db_missing", e0) <=> ~b.db
  BY PredicatesAre DEF Calls
<1>3. CASE ~b.db
  <2>1. Step(e0, s, 1) = Exec(b, c, python, 404, NotYet, {})
    BY <1>1, <1>2, <1>3, GuardIs DEF Step
  <2>2. Steps(e0, s) = Exec(b, c, python, 404, NotYet, {})
    BY <2>1, AnswerStays DEF Steps, Exec
  <2> QED
    BY <1>3, <2>2, ExecuteIs
<1>4. CASE b.db
  <2>1. Step(e0, s, 1) = e0
    BY <1>1, <1>2, <1>4, GuardIs DEF Step
  <2>2. Step(e0, s, 2) = e2
    BY <1>1, DoDropDb DEF Step
  <2>3. Step(e2, s, 3) = Exec(DropDb(b), c, python, 204, NotYet, {})
    BY <1>1, ReturnIs DEF Step
  <2>4. Steps(e0, s) = Exec(DropDb(b), c, python, 204, NotYet, {})
    BY <1>1, <2>1, <2>2, <2>3, AnswerStays DEF Steps, Exec
  <2> QED
    BY <1>4, <2>4, ExecuteIs
<1> QED
  BY <1>3, <1>4 DEF Backend

LEMMA CreateContainerRun ==
    ASSUME NEW b \in Backend, NEW c \in Calls, NEW python \in BOOLEAN,
           c.op = "create_container"
    PROVE  Execute(b, c, python) =
             IF ~b.db THEN Exec(b, c, python, 404, NotYet, {})
             ELSE IF b.docs # NoContainer
             THEN Exec(b, c, python, IF c.lenient THEN 200 ELSE 409, NotYet, {})
             ELSE Exec(NewContainer(b), c, python, 201, NotYet, {})
<1> DEFINE s  == Profile["create_container"]
           e0 == On(b, c, python, NotYet, {})
           e4 == On(NewContainer(b), c, python, NotYet, {})
<1>1. /\ DOMAIN s = 1..5 /\ s[1] = When({"db_missing"}, 404)
      /\ s[2] = When({"container_exists", "if_not_exists"}, 200)
      /\ s[3] = When({"container_exists"}, 409)
      /\ s[4] = Do("put_container") /\ s[5] = Return(201)
  BY DEF Profile
<1>2. /\ Holds("db_missing", e0) <=> ~b.db
      /\ Holds("container_exists", e0) <=> b.docs # NoContainer
      /\ Holds("if_not_exists", e0) <=> c.lenient
  BY PredicatesAre DEF Calls
<1>3. CASE ~b.db
  <2>1. Step(e0, s, 1) = Exec(b, c, python, 404, NotYet, {})
    BY <1>1, <1>2, <1>3, GuardIs DEF Step
  <2>2. Steps(e0, s) = Exec(b, c, python, 404, NotYet, {})
    BY <2>1, AnswerStays DEF Steps, Exec
  <2> QED
    BY <1>3, <2>2, ExecuteIs
<1>4. CASE b.db /\ b.docs # NoContainer /\ c.lenient
  <2>1. Step(e0, s, 1) = e0
    BY <1>1, <1>2, <1>4, GuardIs DEF Step
  <2>2. Step(e0, s, 2) = Exec(b, c, python, 200, NotYet, {})
    BY <1>1, <1>2, <1>4, GuardIs DEF Step
  <2>3. Steps(e0, s) = Exec(b, c, python, 200, NotYet, {})
    BY <2>1, <2>2, AnswerStays DEF Steps, Exec
  <2> QED
    BY <1>4, <2>3, ExecuteIs
<1>5. CASE b.db /\ b.docs # NoContainer /\ ~c.lenient
  <2>1. Step(e0, s, 1) = e0 /\ Step(e0, s, 2) = e0
    BY <1>1, <1>2, <1>5, GuardIs DEF Step
  <2>2. Step(e0, s, 3) = Exec(b, c, python, 409, NotYet, {})
    BY <1>1, <1>2, <1>5, GuardIs DEF Step
  <2>3. Steps(e0, s) = Exec(b, c, python, 409, NotYet, {})
    BY <2>1, <2>2, AnswerStays DEF Steps, Exec
  <2> QED
    BY <1>5, <2>3, ExecuteIs
<1>6. CASE b.db /\ b.docs = NoContainer
  <2>1. Step(e0, s, 1) = e0 /\ Step(e0, s, 2) = e0 /\ Step(e0, s, 3) = e0
    BY <1>1, <1>2, <1>6, GuardIs DEF Step
  <2>2. Step(e0, s, 4) = e4
    BY <1>1, DoNewContainer DEF Step
  <2>3. Step(e4, s, 5) = Exec(NewContainer(b), c, python, 201, NotYet, {})
    BY <1>1, ReturnIs DEF Step
  <2>4. Steps(e0, s) = Exec(NewContainer(b), c, python, 201, NotYet, {})
    BY <1>1, <2>1, <2>2, <2>3, AnswerStays DEF Steps, Exec
  <2> QED
    BY <1>6, <2>4, ExecuteIs
<1> QED
  BY <1>3, <1>4, <1>5, <1>6 DEF Backend, Calls
-----------------------------------------------------------------------------
(* The operations on items: without a container 404, else they touch it.   *)

LEMMA ItemStart ==
    ASSUME NEW b \in Backend, NEW c \in Calls, NEW python \in BOOLEAN, NEW s,
           1 \in DOMAIN s, s[1] = When({"container_missing"}, 404),
           2 \in DOMAIN s, s[2] = Do("touch_collection")
    PROVE  /\ b.docs = NoContainer =>
                Steps(On(b, c, python, NotYet, {}), s) = Exec(b, c, python, 404, NotYet, {})
           /\ b.docs # NoContainer =>
                Step(Step(On(b, c, python, NotYet, {}), s, 1), s, 2)
                  = On(TouchCollection(b), c, python, NotYet, {})
<1> DEFINE e0 == On(b, c, python, NotYet, {})
<1>1. Holds("container_missing", e0) <=> b.docs = NoContainer
  BY PredicatesAre DEF Calls
<1>2. CASE b.docs = NoContainer
  <2>1. Step(e0, s, 1) = Exec(b, c, python, 404, NotYet, {})
    BY <1>1, <1>2, GuardIs DEF Step
  <2> QED
    BY <1>2, <2>1, AnswerStays DEF Steps, Exec
<1>3. CASE b.docs # NoContainer
  <2>1. Step(e0, s, 1) = e0
    BY <1>1, <1>3, GuardIs DEF Step
  <2>2. Step(e0, s, 2) = On(TouchCollection(b), c, python, NotYet, {})
    BY DoTouch DEF Step
  <2> QED
    BY <1>3, <2>1, <2>2
<1> QED
  BY <1>2, <1>3

\* The call that assign_id leaves.
LEMMA NamedIs ==
    ASSUME NEW c \in Calls, NEW python \in BOOLEAN
    PROVE  LET d == Named(c, python)
           IN  /\ d \in Calls /\ d.id \in Ids
               /\ d.id = IF LacksId(c.id, python) THEN c.new ELSE c.id
               /\ d.pk = c.pk /\ d.field = c.field /\ d.lenient = c.lenient
BY DEF Named, Calls, LacksId

LEMMA KeyTyped ==
    ASSUME NEW c \in Calls, c.id \in Ids
    PROVE  Key(c) \in Keys
BY DEF Key, Keys, Calls

LEMMA ReadItemRun ==
    ASSUME NEW b \in Backend, NEW c \in Calls, NEW python \in BOOLEAN,
           c.op = "read_item", b.docs # NoContainer
    PROVE  Execute(b, c, python) =
             IF b.docs[Key(c)] = Absent
             THEN Exec(TouchCollection(b), c, python, 404, NotYet, {})
             ELSE Exec(TouchCollection(b), c, python, 200, NotYet, {})
<1> DEFINE s == Profile["read_item"]
           t == TouchCollection(b)
           e0 == On(b, c, python, NotYet, {})
           e2 == On(t, c, python, NotYet, {})
<1>1. /\ DOMAIN s = 1..4 /\ s[1] = When({"container_missing"}, 404)
      /\ s[2] = Do("touch_collection")
      /\ s[3] = When({"item_missing"}, 404) /\ s[4] = Return(200)
  BY DEF Profile, OnContainer
<1>2. Step(Step(e0, s, 1), s, 2) = e2
  BY <1>1, ItemStart
<1>3. t \in Backend /\ t.docs = b.docs
  BY TouchIs DEF SameStore
<1> HIDE DEF t
<1>4. Holds("item_missing", e2) <=> b.docs[Key(c)] = Absent
  BY <1>3, PredicatesAre DEF Calls
<1>5. CASE b.docs[Key(c)] = Absent
  <2>1. Step(e2, s, 3) = Exec(t, c, python, 404, NotYet, {})
    BY <1>1, <1>4, <1>5, GuardIs DEF Step
  <2>2. Steps(e0, s) = Exec(t, c, python, 404, NotYet, {})
    BY <1>2, <2>1, AnswerStays DEF Steps, Exec
  <2> QED
    BY <1>5, <2>2, ExecuteIs DEF t
<1>6. CASE b.docs[Key(c)] # Absent
  <2>1. Step(e2, s, 3) = e2
    BY <1>1, <1>4, <1>6, GuardIs DEF Step
  <2>2. Step(e2, s, 4) = Exec(t, c, python, 200, NotYet, {})
    BY <1>1, ReturnIs DEF Step
  <2>3. Steps(e0, s) = Exec(t, c, python, 200, NotYet, {})
    BY <1>2, <2>1, <2>2, AnswerStays DEF Steps, Exec
  <2> QED
    BY <1>6, <2>3, ExecuteIs DEF t
<1> QED
  BY <1>5, <1>6

LEMMA ReplaceItemRun ==
    ASSUME NEW b \in Backend, NEW c \in Calls, NEW python \in BOOLEAN,
           c.op = "replace_item", b.docs # NoContainer
    PROVE  Execute(b, c, python) =
             IF b.docs[Key(c)] = Absent
             THEN Exec(TouchCollection(b), c, python, 404, NotYet, {})
             ELSE Exec(SetItem(TouchCollection(b), Key(c), c.field), c, python,
                       200, Existed(TouchCollection(b), c), {})
<1> DEFINE s == Profile["replace_item"]
           t == TouchCollection(b)
           e0 == On(b, c, python, NotYet, {})
           e2 == On(t, c, python, NotYet, {})
<1>1. /\ DOMAIN s = 1..5 /\ s[1] = When({"container_missing"}, 404)
      /\ s[2] = Do("touch_collection")
      /\ s[3] = When({"item_missing"}, 404) /\ s[4] = Do("put_item")
      /\ s[5] = Return(200)
  BY DEF Profile, OnContainer
<1>2. Step(Step(e0, s, 1), s, 2) = e2
  BY <1>1, ItemStart
<1>3. t \in Backend /\ t.docs = b.docs
  BY TouchIs DEF SameStore
<1> HIDE DEF t
<1>4. Holds("item_missing", e2) <=> b.docs[Key(c)] = Absent
  BY <1>3, PredicatesAre DEF Calls
<1>5. CASE b.docs[Key(c)] = Absent
  <2>1. Step(e2, s, 3) = Exec(t, c, python, 404, NotYet, {})
    BY <1>1, <1>4, <1>5, GuardIs DEF Step
  <2>2. Steps(e0, s) = Exec(t, c, python, 404, NotYet, {})
    BY <1>2, <2>1, AnswerStays DEF Steps, Exec
  <2> QED
    BY <1>5, <2>2, ExecuteIs DEF t
<1>6. CASE b.docs[Key(c)] # Absent
  <2> DEFINE u == SetItem(t, Key(c), c.field)
  <2>1. Step(e2, s, 3) = e2
    BY <1>1, <1>4, <1>6, GuardIs DEF Step
  <2>2. Step(e2, s, 4) = On(u, c, python, Existed(t, c), {})
    BY <1>1, DoPut DEF Step
  <2>3. Step(On(u, c, python, Existed(t, c), {}), s, 5)
          = Exec(u, c, python, 200, Existed(t, c), {})
    BY <1>1, ReturnIs DEF Step
  <2>4. Steps(e0, s) = Exec(u, c, python, 200, Existed(t, c), {})
    BY <1>2, <2>1, <2>2, <2>3, AnswerStays DEF Steps, Exec
  <2> QED
    BY <1>6, <2>4, ExecuteIs DEF t
<1> QED
  BY <1>5, <1>6

LEMMA DeleteItemRun ==
    ASSUME NEW b \in Backend, NEW c \in Calls, NEW python \in BOOLEAN,
           c.op = "delete_item", b.docs # NoContainer
    PROVE  Execute(b, c, python) =
             IF b.docs[Key(c)] = Absent
             THEN Exec(TouchCollection(b), c, python, 404, NotYet, {})
             ELSE Exec(SetItem(TouchCollection(b), Key(c), Absent), c, python,
                       204, NotYet, {})
<1> DEFINE s == Profile["delete_item"]
           t == TouchCollection(b)
           e0 == On(b, c, python, NotYet, {})
           e2 == On(t, c, python, NotYet, {})
<1>1. /\ DOMAIN s = 1..5 /\ s[1] = When({"container_missing"}, 404)
      /\ s[2] = Do("touch_collection")
      /\ s[3] = When({"item_missing"}, 404) /\ s[4] = Do("remove_item")
      /\ s[5] = Return(204)
  BY DEF Profile, OnContainer
<1>2. Step(Step(e0, s, 1), s, 2) = e2
  BY <1>1, ItemStart
<1>3. t \in Backend /\ t.docs = b.docs
  BY TouchIs DEF SameStore
<1> HIDE DEF t
<1>4. Holds("item_missing", e2) <=> b.docs[Key(c)] = Absent
  BY <1>3, PredicatesAre DEF Calls
<1>5. CASE b.docs[Key(c)] = Absent
  <2>1. Step(e2, s, 3) = Exec(t, c, python, 404, NotYet, {})
    BY <1>1, <1>4, <1>5, GuardIs DEF Step
  <2>2. Steps(e0, s) = Exec(t, c, python, 404, NotYet, {})
    BY <1>2, <2>1, AnswerStays DEF Steps, Exec
  <2> QED
    BY <1>5, <2>2, ExecuteIs DEF t
<1>6. CASE b.docs[Key(c)] # Absent
  <2> DEFINE u == SetItem(t, Key(c), Absent)
  <2>1. Step(e2, s, 3) = e2
    BY <1>1, <1>4, <1>6, GuardIs DEF Step
  <2>2. Step(e2, s, 4) = On(u, c, python, NotYet, {})
    BY <1>1, DoRemove DEF Step
  <2>3. Step(On(u, c, python, NotYet, {}), s, 5)
          = Exec(u, c, python, 204, NotYet, {})
    BY <1>1, ReturnIs DEF Step
  <2>4. Steps(e0, s) = Exec(u, c, python, 204, NotYet, {})
    BY <1>2, <2>1, <2>2, <2>3, AnswerStays DEF Steps, Exec
  <2> QED
    BY <1>6, <2>4, ExecuteIs DEF t
<1> QED
  BY <1>5, <1>6

LEMMA CreateItemRun ==
    ASSUME NEW b \in Backend, NEW c \in Calls, NEW python \in BOOLEAN,
           c.op = "create_item", b.docs # NoContainer
    PROVE  Execute(b, c, python) =
             IF b.docs[Key(Named(c, python))] # Absent
             THEN Exec(TouchCollection(b), Named(c, python), python, 409, NotYet, {})
             ELSE Exec(SetItem(TouchCollection(b), Key(Named(c, python)), c.field),
                       Named(c, python), python, 201,
                       Existed(TouchCollection(b), Named(c, python)), {})
<1> DEFINE s == Profile["create_item"]
           t == TouchCollection(b)
           e0 == On(b, c, python, NotYet, {})
           e2 == On(t, c, python, NotYet, {})
<1>1. /\ DOMAIN s = 1..6 /\ s[1] = When({"container_missing"}, 404)
      /\ s[2] = Do("touch_collection")
      /\ s[3] = Do("assign_id") /\ s[4] = When({"item_exists"}, 409)
      /\ s[5] = Do("put_item") /\ s[6] = Return(201)
  BY DEF Profile, OnContainer
<1>2. Step(Step(e0, s, 1), s, 2) = e2
  BY <1>1, ItemStart
<1>3. t \in Backend /\ t.docs = b.docs
  BY TouchIs DEF SameStore
<1> HIDE DEF t
<1> DEFINE d  == Named(c, python)
           e3 == On(t, d, python, NotYet, {})
<1>4. Step(e2, s, 3) = e3
  BY <1>1, DoName DEF Step
<1>5. d.field = c.field /\ d.lenient \in BOOLEAN
  BY NamedIs DEF Calls
<1> HIDE DEF d
<1>6. Holds("item_exists", e3) <=> b.docs[Key(d)] # Absent
  BY <1>3, <1>5, PredicatesAre
<1>7. CASE b.docs[Key(d)] # Absent
  <2>1. Step(e3, s, 4) = Exec(t, d, python, 409, NotYet, {})
    BY <1>1, <1>6, <1>7, GuardIs DEF Step
  <2>2. Steps(e0, s) = Exec(t, d, python, 409, NotYet, {})
    BY <1>2, <1>4, <2>1, AnswerStays DEF Steps, Exec
  <2> QED
    BY <1>7, <2>2, ExecuteIs DEF t, d
<1>8. CASE b.docs[Key(d)] = Absent
  <2> DEFINE u == SetItem(t, Key(d), d.field)
  <2>1. Step(e3, s, 4) = e3
    BY <1>1, <1>6, <1>8, GuardIs DEF Step
  <2>2. Step(e3, s, 5) = On(u, d, python, Existed(t, d), {})
    BY <1>1, DoPut DEF Step
  <2>3. Step(On(u, d, python, Existed(t, d), {}), s, 6)
          = Exec(u, d, python, 201, Existed(t, d), {})
    BY <1>1, ReturnIs DEF Step
  <2>4. Steps(e0, s) = Exec(u, d, python, 201, Existed(t, d), {})
    BY <1>2, <1>4, <2>1, <2>2, <2>3 DEF Steps
  <2> QED
    BY <1>5, <1>8, <2>4, ExecuteIs DEF t, d
<1> QED
  BY <1>7, <1>8 DEF d

LEMMA UpsertItemRun ==
    ASSUME NEW b \in Backend, NEW c \in Calls, NEW python \in BOOLEAN,
           c.op = "upsert_item", b.docs # NoContainer
    PROVE  Execute(b, c, python) =
             IF b.docs[Key(Named(c, python))] # Absent
             THEN Exec(SetItem(TouchCollection(b), Key(Named(c, python)), c.field),
                       Named(c, python), python, 200,
                       Existed(TouchCollection(b), Named(c, python)), {})
             ELSE Exec(SetItem(TouchCollection(b), Key(Named(c, python)), c.field),
                       Named(c, python), python, 201,
                       Existed(TouchCollection(b), Named(c, python)), {})
<1> DEFINE s == Profile["upsert_item"]
           t == TouchCollection(b)
           e0 == On(b, c, python, NotYet, {})
           e2 == On(t, c, python, NotYet, {})
<1>1. /\ DOMAIN s = 1..6 /\ s[1] = When({"container_missing"}, 404)
      /\ s[2] = Do("touch_collection")
      /\ s[3] = Do("assign_id") /\ s[4] = Do("put_item")
      /\ s[5] = When({"existed"}, 200) /\ s[6] = Return(201)
  BY DEF Profile, OnContainer
<1>2. Step(Step(e0, s, 1), s, 2) = e2
  BY <1>1, ItemStart
<1>3. t \in Backend /\ t.docs = b.docs
  BY TouchIs DEF SameStore
<1> HIDE DEF t
<1> DEFINE d  == Named(c, python)
           u  == SetItem(t, Key(d), d.field)
           e3 == On(t, d, python, NotYet, {})
           e4 == On(u, d, python, Existed(t, d), {})
<1>4. Step(e2, s, 3) = e3
  BY <1>1, DoName DEF Step
<1>5. d \in Calls /\ d.id \in Ids /\ d.field = c.field /\ d.lenient \in BOOLEAN
  BY NamedIs DEF Calls
<1> HIDE DEF d
<1>6. Step(e3, s, 4) = e4
  BY <1>1, DoPut DEF Step
<1>7. u \in Backend
  BY <1>3, <1>5, KeyTyped, SetItemIs DEF Calls
<1> HIDE DEF u
<1>8. Holds("existed", e4) <=> Existed(t, d)
  BY <1>5, <1>7, PredicatesAre
<1>9. Existed(t, d) <=> b.docs[Key(d)] # Absent
  BY <1>3 DEF Existed
<1>10. CASE b.docs[Key(d)] # Absent
  <2>1. Step(e4, s, 5) = Exec(u, d, python, 200, Existed(t, d), {})
    BY <1>1, <1>8, <1>9, <1>10, GuardIs DEF Step
  <2>2. Steps(e0, s) = Exec(u, d, python, 200, Existed(t, d), {})
    BY <1>2, <1>4, <1>6, <2>1, AnswerStays DEF Steps, Exec
  <2> QED
    BY <1>5, <1>10, <2>2, ExecuteIs DEF t, d, u
<1>11. CASE b.docs[Key(d)] = Absent
  <2>1. Step(e4, s, 5) = e4
    BY <1>1, <1>8, <1>9, <1>11, GuardIs DEF Step
  <2>2. Step(e4, s, 6) = Exec(u, d, python, 201, Existed(t, d), {})
    BY <1>1, ReturnIs DEF Step
  <2>3. Steps(e0, s) = Exec(u, d, python, 201, Existed(t, d), {})
    BY <1>2, <1>4, <1>6, <2>1, <2>2 DEF Steps
  <2> QED
    BY <1>5, <1>11, <2>3, ExecuteIs DEF t, d, u
<1> QED
  BY <1>10, <1>11 DEF d

LEMMA QueryItemsRun ==
    ASSUME NEW b \in Backend, NEW c \in Calls, NEW python \in BOOLEAN,
           c.op = "query_items", b.docs # NoContainer
    PROVE  Execute(b, c, python) =
             LET u == TouchRanges(TouchCollection(b), c, python)
             IN  Exec(u, c, python, 200, NotYet, Found(u, c))
<1> DEFINE s == Profile["query_items"]
           t == TouchCollection(b)
           e0 == On(b, c, python, NotYet, {})
           e2 == On(t, c, python, NotYet, {})
<1>1. /\ DOMAIN s = 1..5 /\ s[1] = When({"container_missing"}, 404)
      /\ s[2] = Do("touch_collection")
      /\ s[3] = Do("touch_pk_ranges_if_cross") /\ s[4] = Do("query_filter")
      /\ s[5] = Return(200)
  BY DEF Profile, OnContainer
<1>2. Step(Step(e0, s, 1), s, 2) = e2
  BY <1>1, ItemStart
<1>3. t \in Backend /\ t.docs = b.docs
  BY TouchIs DEF SameStore
<1> HIDE DEF t
<1> DEFINE u  == TouchRanges(t, c, python)
           e3 == On(u, c, python, NotYet, {})
           e4 == On(u, c, python, NotYet, Found(u, c))
<1>4. Step(e2, s, 3) = e3
  BY <1>1, DoTouchRanges DEF Step
<1>5. Step(e3, s, 4) = e4
  BY <1>1, DoFilter DEF Step
<1>6. Step(e4, s, 5) = Exec(u, c, python, 200, NotYet, Found(u, c))
  BY <1>1, ReturnIs DEF Step
<1>7. Steps(e0, s) = Exec(u, c, python, 200, NotYet, Found(u, c))
  BY <1>2, <1>4, <1>5, <1>6, AnswerStays DEF Steps, Exec
<1> QED
  BY <1>7, ExecuteIs DEF t

LEMMA NoContainerRun ==
    ASSUME NEW b \in Backend, NEW c \in Calls, NEW python \in BOOLEAN,
           c.op \in RoutedOps, b.docs = NoContainer
    PROVE  Execute(b, c, python) = Exec(b, c, python, 404, NotYet, {})
<1> DEFINE s == Profile[c.op]
<1>1. /\ 1 \in DOMAIN s /\ s[1] = When({"container_missing"}, 404)
      /\ 2 \in DOMAIN s /\ s[2] = Do("touch_collection")
  BY DEF Profile, OnContainer, RoutedOps
<1> QED
  BY <1>1, ItemStart, ExecuteIs
-----------------------------------------------------------------------------
(* What a call adds to the meter of either backend, and what it leaves.    *)

\* A call whose key is there when it is looked up.
Posed(c) == c \in Calls
    /\ (c.op \in {"read_item", "replace_item", "delete_item"} => c.id \in Ids)

OnItems(b, c) == c.op \in RoutedOps /\ b.docs # NoContainer

\* This call reads the ranges.
ReadsNow(b, c, python) == c.op = "query_items" /\ OnItems(b, c) /\ Reads(b, c, python)

\* The whole of it, from b to e.
Called(b, c, python, e) ==
    /\ e.b \in Backend /\ SameFaults(b, e.b)
    /\ e.b.meter.account \in {b.meter.account, b.meter.account + 1}
    /\ e.b.meter.ranges = b.meter.ranges + (IF ReadsNow(b, c, python) THEN 1 ELSE 0)
    /\ e.b.valid <=> (b.valid \/ (python /\ ReadsNow(b, c, python)))
    /\ e.b.touched <=> (b.touched \/ OnItems(b, c))
                       /\ ~(c.op = "create_container" /\ e.status = 201)
    /\ e.b.meter.collection
         = b.meter.collection + (IF OnItems(b, c) /\ ~b.touched THEN 1 ELSE 0)
    /\ c.op \in RoutedOps => (e.b.docs = NoContainer <=> b.docs = NoContainer)

LEMMA SameBackend ==
    ASSUME NEW b \in Backend
    PROVE  SameStore(b, b) /\ SameTouch(b, b) /\ Kept(b, b)
BY DEF SameStore, SameTouch, Kept, SameRanges, SameFaults, SameAccount

\* Of a call that leaves the container's flag and the ranges alone ...
LEMMA PlainCalled ==
    ASSUME NEW b \in Backend, NEW c \in Calls, NEW python \in BOOLEAN, NEW e,
           c.op \notin RoutedOps, ~(c.op = "create_container" /\ e.status = 201),
           e.b \in Backend, SameTouch(b, e.b), SameRanges(b, e.b), SameFaults(b, e.b),
           e.b.meter.account \in {b.meter.account, b.meter.account + 1}
    PROVE  Called(b, c, python, e)
<1>1. ~OnItems(b, c) /\ ~ReadsNow(b, c, python)
  BY DEF OnItems, ReadsNow
<1> QED
  BY <1>1, MeterTyped DEF Called, SameTouch, SameRanges, Backend, Counts

\* ... and of one on items that leaves the ranges alone.
LEMMA TouchCalled ==
    ASSUME NEW b \in Backend, NEW c \in Calls, NEW python \in BOOLEAN, NEW e,
           OnItems(b, c), ~ReadsNow(b, c, python), e.b \in Backend,
           SameTouch(TouchCollection(b), e.b), Kept(TouchCollection(b), e.b),
           e.b.docs # NoContainer
    PROVE  Called(b, c, python, e)
<1>1. c.op # "create_container"
  BY DEF OnItems, RoutedOps
<1>2. /\ TouchCollection(b) \in Backend /\ Kept(b, TouchCollection(b))
      /\ TouchCollection(b).touched = TRUE
      /\ TouchCollection(b).meter.collection
           = b.meter.collection + (IF b.touched THEN 0 ELSE 1)
  BY TouchIs
<1>3. b.meter \in Counts /\ e.b.meter \in Counts
  BY MeterTyped
<1>4. /\ e.b.touched = TRUE
      /\ e.b.meter.collection = b.meter.collection + (IF b.touched THEN 0 ELSE 1)
      /\ e.b.valid = b.valid /\ e.b.meter.ranges = b.meter.ranges
      /\ e.b.meter.account = b.meter.account /\ SameFaults(b, e.b)
  BY <1>2 DEF SameTouch, Kept, SameRanges, SameFaults, SameAccount
<1> QED
  BY <1>1, <1>3, <1>4 DEF Called, Counts, Backend, OnItems

LEMMA ExecuteCalled ==
    ASSUME NEW b \in Backend, NEW c, Posed(c), NEW python \in BOOLEAN
    PROVE  Called(b, c, python, Execute(b, c, python))
<1> DEFINE e == Execute(b, c, python)
           t == TouchCollection(b)
<1>1. c \in Calls /\ c.op \in DOMAIN Profile
  BY DEF Posed, Calls
<1>2. SameTouch(b, b) /\ Kept(b, b) /\ b.meter.account \in Nat
  BY SameBackend, MeterTyped DEF Counts
<1>3. CASE c.op = "create_client"
  <2>1. e.b = Count(b)
    BY <1>1, <1>3, CreateClientRun DEF Exec
  <2> QED
    BY <1>1, <1>3, <2>1, CountIs, PlainCalled DEF RoutedOps
<1>4. CASE c.op = "create_database"
  <2>1. e.b \in {b, MakeDb(b)}
    BY <1>1, <1>4, CreateDatabaseRun DEF Exec
  <2>2. e.b \in Backend /\ SameTouch(b, e.b) /\ Kept(b, e.b)
    BY <1>2, <2>1, DatabaseIs
  <2> QED
    BY <1>1, <1>4, <2>2, PlainCalled DEF RoutedOps, Kept, SameAccount
<1>5. CASE c.op = "delete_database"
  <2>1. e.b \in {b, DropDb(b)}
    BY <1>1, <1>5, DeleteDatabaseRun DEF Exec
  <2>2. e.b \in Backend /\ SameTouch(b, e.b) /\ Kept(b, e.b)
    BY <1>2, <2>1, DatabaseIs
  <2> QED
    BY <1>1, <1>5, <2>2, PlainCalled DEF RoutedOps, Kept, SameAccount
<1>6. CASE c.op = "create_container"
  <2>1. \/ e.b = b /\ e.status # 201
        \/ e.b = NewContainer(b) /\ e.status = 201
    BY <1>1, <1>6, CreateContainerRun DEF Exec
  <2>2. CASE e.b = b /\ e.status # 201
    BY <1>1, <1>2, <1>6, <2>2, PlainCalled DEF RoutedOps, Kept, SameAccount
  <2>3. CASE e.b = NewContainer(b) /\ e.status = 201
    <3>1. /\ e.b \in Backend /\ Kept(b, e.b) /\ ~e.b.touched
          /\ e.b.meter.collection = b.meter.collection
      BY <2>3, NewContainerIs
    <3>2. ~OnItems(b, c) /\ ~ReadsNow(b, c, python)
      BY <1>6 DEF OnItems, ReadsNow, RoutedOps
    <3> QED
      BY <1>6, <2>3, <3>1, <3>2, MeterTyped
         DEF Called, Kept, SameRanges, SameAccount, Backend, Counts, RoutedOps
  <2> QED
    BY <2>1, <2>2, <2>3
<1>7. CASE c.op \in RoutedOps /\ b.docs = NoContainer
  <2>1. e.b = b
    BY <1>1, <1>7, NoContainerRun DEF Exec
  <2>2. c.op # "create_container" /\ ~OnItems(b, c) /\ ~ReadsNow(b, c, python)
    BY <1>7 DEF OnItems, ReadsNow, RoutedOps
  <2> QED
    BY <1>2, <2>1, <2>2, MeterTyped
       DEF Called, SameTouch, Kept, SameRanges, SameFaults, Backend, Counts
<1>8. ASSUME OnItems(b, c) PROVE Called(b, c, python, e)
  <2>1. /\ t \in Backend /\ t.docs = b.docs /\ t.docs # NoContainer
        /\ SameTouch(t, t) /\ Kept(t, t)
    BY <1>8, TouchIs, SameBackend DEF SameStore, OnItems
  <2> HIDE DEF t
  <2>2. ASSUME NEW k \in Keys, NEW v \in Pks \cup {Absent}, e.b = SetItem(t, k, v),
               c.op # "query_items"
        PROVE  Called(b, c, python, e)
    <3> DEFINE u == SetItem(t, k, v)
    <3>1. u \in Backend /\ Kept(t, u) /\ SameTouch(t, u) /\ u.docs # NoContainer
      BY <2>1, SetItemIs
    <3> HIDE DEF u
    <3> QED
      BY <1>1, <1>8, <2>2, <3>1, TouchCalled DEF ReadsNow, t, u
  <2>3. ASSUME e.b = t, c.op # "query_items"
        PROVE  Called(b, c, python, e)
    BY <1>1, <1>8, <2>1, <2>3, TouchCalled DEF ReadsNow, t
  <2>4. c.field \in Pks /\ Key(Named(c, python)) \in Keys
    BY <1>1, NamedIs, KeyTyped DEF Calls
  <2>5. CASE c.op = "read_item"
    <3>1. e.b = t
      BY <1>1, <1>8, <2>5, ReadItemRun DEF Exec, OnItems, t
    <3> QED
      BY <2>3, <2>5, <3>1
  <2>6. CASE c.op = "replace_item"
    <3>1. e.b \in {t, SetItem(t, Key(c), c.field)}
      BY <1>1, <1>8, <2>6, ReplaceItemRun DEF Exec, OnItems, t
    <3>2. Key(c) \in Keys
      BY <1>1, <2>6, KeyTyped DEF Posed
    <3> QED
      BY <2>2, <2>3, <2>4, <2>6, <3>1, <3>2
  <2>7. CASE c.op = "delete_item"
    <3>1. e.b \in {t, SetItem(t, Key(c), Absent)}
      BY <1>1, <1>8, <2>7, DeleteItemRun DEF Exec, OnItems, t
    <3>2. Key(c) \in Keys
      BY <1>1, <2>7, KeyTyped DEF Posed
    <3> QED
      BY <2>2, <2>3, <2>7, <3>1, <3>2
  <2>8. CASE c.op = "create_item"
    <3>1. e.b \in {t, SetItem(t, Key(Named(c, python)), c.field)}
      BY <1>1, <1>8, <2>8, CreateItemRun DEF Exec, OnItems, t
    <3> QED
      BY <2>2, <2>3, <2>4, <2>8, <3>1
  <2>9. CASE c.op = "upsert_item"
    <3>1. e.b = SetItem(t, Key(Named(c, python)), c.field)
      BY <1>1, <1>8, <2>9, UpsertItemRun DEF Exec, OnItems, t
    <3> QED
      BY <2>2, <2>4, <2>9, <3>1
  <2>10. CASE c.op = "query_items"
    <3> DEFINE u == TouchRanges(t, c, python)
    <3>1. e.b = u
      BY <1>1, <1>8, <2>10, QueryItemsRun DEF Exec, OnItems, t
    <3>2. c.cross \in BOOLEAN
      BY <1>1 DEF Calls
    <3>3. /\ t.touched = TRUE /\ Kept(b, t)
          /\ t.meter.collection = b.meter.collection + (IF b.touched THEN 0 ELSE 1)
      BY TouchIs DEF t
    <3>4. Reads(t, c, python) <=> ReadsNow(b, c, python)
      BY <1>8, <2>10, <3>3 DEF Reads, ReadsNow, Kept, SameRanges
    <3>5. /\ u \in Backend /\ SameStore(t, u) /\ SameTouch(t, u)
          /\ SameFaults(t, u) /\ SameAccount(t, u)
          /\ u.meter.ranges = t.meter.ranges + (IF Reads(t, c, python) THEN 1 ELSE 0)
          /\ u.valid <=> (t.valid \/ (python /\ Reads(t, c, python)))
      BY <2>1, <3>2, TouchRangesIs
    <3> HIDE DEF u
    <3>6. /\ u.touched = TRUE /\ SameFaults(b, u) /\ u.docs # NoContainer
          /\ u.meter.collection = b.meter.collection + (IF b.touched THEN 0 ELSE 1)
          /\ u.meter.account = b.meter.account
      BY <2>1, <3>3, <3>5 DEF SameTouch, SameFaults, Kept, SameStore, SameAccount
    <3>7. /\ u.meter.ranges = b.meter.ranges + (IF ReadsNow(b, c, python) THEN 1 ELSE 0)
          /\ u.valid <=> (b.valid \/ (python /\ ReadsNow(b, c, python)))
      BY <3>3, <3>4, <3>5 DEF Kept, SameRanges
    <3> QED
      BY <1>8, <2>10, <3>1, <3>5, <3>6, <3>7, MeterTyped
         DEF Called, Counts, Backend, OnItems
  <2> QED
    BY <1>8, <2>5, <2>6, <2>7, <2>8, <2>9, <2>10 DEF OnItems, RoutedOps
<1>9. \/ c.op \in {"create_client", "create_database",
                   "delete_database", "create_container"}
      \/ c.op \in RoutedOps
  BY <1>1 DEF Profile, RoutedOps
<1> QED
  BY <1>3, <1>4, <1>5, <1>6, <1>7, <1>8, <1>9 DEF OnItems
-----------------------------------------------------------------------------
(* The faults Python meets before a call.                                  *)

LEMMA ThrottledIs ==
    ASSUME NEW b \in Backend, NEW op \in RoutedOps
    PROVE  LET t == Throttled(b, op)
           IN  /\ t \in Backend /\ SameStore(b, t) /\ SameTouch(b, t)
               /\ SameRanges(b, t) /\ SameAccount(b, t) /\ t.armed = b.armed
               /\ t.throttle = [b.throttle EXCEPT ![op] = 0]
               /\ t.meter.retries = b.meter.retries + b.throttle[op]
               /\ t.meter.c429 = b.meter.c429 + b.throttle[op]
               /\ t.meter.c410 = b.meter.c410
<1> DEFINE t == Throttled(b, op)
           n == b.throttle[op]
<1>1. n \in Nat /\ n \in 0..MaxCount /\ 0 \in 0..MaxCount
  BY MockAssumption DEF Backend
<1>2. [b.throttle EXCEPT ![op] = 0] \in [RoutedOps -> 0..MaxCount]
  BY <1>1 DEF Backend
<1> HIDE DEF n
<1> DEFINE l == [b.meter EXCEPT !.retries = @ + n]
           m == [l EXCEPT !.c429 = @ + n]
<1>8. l = [b.meter EXCEPT !.retries = @ + n]
  OBVIOUS
<1>9. m = [l EXCEPT !.c429 = @ + n]
  OBVIOUS
<1> HIDE DEF l, m
<1>7. /\ l \in Counts /\ l.retries = b.meter.retries + n /\ l.c429 = b.meter.c429
      /\ l.c410 = b.meter.c410 /\ l.account = b.meter.account
      /\ l.collection = b.meter.collection /\ l.ranges = b.meter.ranges
  BY <1>1, <1>8, MeterTyped DEF Counts
<1>3. m \in Counts
  BY <1>1, <1>7, <1>9 DEF Counts
<1>4. /\ m.retries = b.meter.retries + n /\ m.c429 = b.meter.c429 + n
      /\ m.c410 = b.meter.c410 /\ m.account = b.meter.account
      /\ m.collection = b.meter.collection /\ m.ranges = b.meter.ranges
  BY <1>1, <1>7, <1>9 DEF Counts
<1>5. t = [[b EXCEPT !.meter = m] EXCEPT !.throttle = [b.throttle EXCEPT ![op] = 0]]
  BY MeterTyped DEF Throttled, Backend, Counts, n, l, m, t
<1> HIDE DEF t
<1>6. /\ t \in Backend /\ SameStore(b, t) /\ t.meter = m
      /\ t.throttle = [b.throttle EXCEPT ![op] = 0] /\ t.armed = b.armed
      /\ t.touched = b.touched /\ t.valid = b.valid
  BY <1>2, <1>3, <1>5 DEF Backend, SameStore
<1> QED
  BY <1>4, <1>6 DEF SameTouch, SameRanges, SameAccount, n, t

LEMMA ReroutedIs ==
    ASSUME NEW b \in Backend
    PROVE  LET t == Rerouted(b)
           IN  /\ t \in Backend /\ SameStore(b, t) /\ SameTouch(b, t)
               /\ SameAccount(b, t) /\ t.throttle = b.throttle /\ ~t.armed
               /\ t.valid <=> (b.valid \/ b.armed)
               /\ t.meter.c429 = b.meter.c429
               /\ t.meter.retries = b.meter.retries + (IF b.armed THEN 1 ELSE 0)
               /\ t.meter.c410 = b.meter.c410 + (IF b.armed THEN 1 ELSE 0)
               /\ t.meter.ranges = b.meter.ranges + (IF b.armed THEN 1 ELSE 0)
<1> DEFINE t == Rerouted(b)
<1>1. CASE ~b.armed
  <2>1. t = b
    BY <1>1 DEF Rerouted
  <2> QED
    BY <1>1, <2>1, MeterTyped DEF Backend, Counts, SameStore, SameTouch, SameAccount
<1>2. CASE b.armed
  <2> DEFINE l == [b.meter EXCEPT !.retries = @ + 1]
             m == [l EXCEPT !.c410 = @ + 1]
             u == [[b EXCEPT !.meter = m] EXCEPT !.armed = FALSE]
  <2>7. l = [b.meter EXCEPT !.retries = @ + 1]
    OBVIOUS
  <2>8. m = [l EXCEPT !.c410 = @ + 1]
    OBVIOUS
  <2>3. t = Refresh(u)
    BY <1>2, MeterTyped DEF Rerouted, Backend, Counts
  <2> HIDE DEF l, m, t
  <2>6. /\ l \in Counts /\ l.retries = b.meter.retries + 1 /\ l.c429 = b.meter.c429
        /\ l.c410 = b.meter.c410 /\ l.account = b.meter.account
        /\ l.collection = b.meter.collection /\ l.ranges = b.meter.ranges
    BY <2>7, MeterTyped DEF Counts
  <2>1. m \in Counts
    BY <2>6, <2>8 DEF Counts
  <2>2. /\ m.retries = b.meter.retries + 1 /\ m.c410 = b.meter.c410 + 1
        /\ m.c429 = b.meter.c429 /\ m.account = b.meter.account
        /\ m.collection = b.meter.collection /\ m.ranges = b.meter.ranges
    BY <2>6, <2>8 DEF Counts
  <2>4. /\ u \in Backend /\ SameStore(b, u) /\ u.meter = m /\ u.throttle = b.throttle
        /\ ~u.armed /\ u.touched = b.touched /\ u.valid = b.valid
    BY <2>1 DEF Backend, SameStore
  <2> HIDE DEF u
  <2>5. /\ t \in Backend /\ SameStore(u, t) /\ SameTouch(u, t)
        /\ SameFaults(u, t) /\ SameAccount(u, t)
        /\ t.valid = TRUE /\ t.meter.ranges = u.meter.ranges + 1
    BY <2>3, <2>4, RefreshIs
  <2> QED
    BY <1>2, <2>2, <2>4, <2>5 DEF SameStore, SameTouch, SameFaults, SameAccount, t
<1> QED
  BY <1>1, <1>2 DEF Backend

\* A routed call first meets the 429s of its operation, then the 410.
Met(b, op) == IF op \in RoutedOps THEN b.throttle[op] ELSE 0
MetSplit(b, op) == op \in RoutedOps /\ b.armed

Hit(b, op, t) ==
    /\ t \in Backend /\ SameStore(b, t) /\ SameTouch(b, t) /\ SameAccount(b, t)
    /\ op \in RoutedOps => ~t.armed
    /\ op \notin RoutedOps => t.armed = b.armed
    /\ op \in RoutedOps => t.throttle = [b.throttle EXCEPT ![op] = 0]
    /\ op \notin RoutedOps => t.throttle = b.throttle
    /\ t.valid <=> (b.valid \/ MetSplit(b, op))
    /\ t.meter.c429 = Met(b, op)
    /\ t.meter.c410 = (IF MetSplit(b, op) THEN 1 ELSE 0)
    /\ t.meter.ranges = (IF MetSplit(b, op) THEN 1 ELSE 0)
    /\ t.meter.retries = t.meter.c429 + t.meter.c410

LEMMA FaultedIs ==
    ASSUME NEW b \in Backend, NEW op, b.meter = NoCost
    PROVE  Hit(b, op, Faulted(b, op))
<1> DEFINE t == Faulted(b, op)
<1>1. /\ b.meter.c429 = 0 /\ b.meter.c410 = 0 /\ b.meter.ranges = 0
      /\ b.meter.retries = 0
  BY DEF NoCost
<1>2. CASE op \notin RoutedOps
  <2>1. t = b
    BY <1>2 DEF Faulted
  <2> QED
    BY <1>1, <1>2, <2>1, SameBackend DEF Hit, Met, MetSplit, Kept
<1>3. CASE op \in RoutedOps
  <2> DEFINE u == Throttled(b, op)
  <2>1. t = Rerouted(u)
    BY <1>3 DEF Faulted
  <2>2. /\ u \in Backend /\ SameStore(b, u) /\ SameTouch(b, u)
        /\ SameRanges(b, u) /\ SameAccount(b, u) /\ u.armed = b.armed
        /\ u.throttle = [b.throttle EXCEPT ![op] = 0]
        /\ u.meter.retries = b.throttle[op] /\ u.meter.c429 = b.throttle[op]
        /\ u.meter.c410 = 0 /\ b.throttle[op] \in Nat
    <3>1. b.throttle[op] \in Nat
      BY <1>3, MockAssumption DEF Backend
    <3> QED
      BY <1>1, <1>3, <3>1, ThrottledIs
  <2> HIDE DEF u
  <2>3. /\ t \in Backend /\ SameStore(u, t) /\ SameTouch(u, t)
        /\ SameAccount(u, t) /\ t.throttle = u.throttle /\ ~t.armed
        /\ t.valid <=> (u.valid \/ u.armed)
        /\ t.meter.c429 = u.meter.c429
        /\ t.meter.retries = u.meter.retries + (IF u.armed THEN 1 ELSE 0)
        /\ t.meter.c410 = u.meter.c410 + (IF u.armed THEN 1 ELSE 0)
        /\ t.meter.ranges = u.meter.ranges + (IF u.armed THEN 1 ELSE 0)
    BY <2>1, <2>2, ReroutedIs
  <2> HIDE DEF t
  <2>4. SameStore(b, t) /\ SameTouch(b, t) /\ SameAccount(b, t)
    BY <2>2, <2>3 DEF SameStore, SameTouch, SameAccount
  <2>5. t.valid <=> (b.valid \/ MetSplit(b, op))
    BY <1>3, <2>2, <2>3 DEF SameRanges, MetSplit
  <2>6. /\ t.meter.c429 = Met(b, op)
        /\ t.meter.c410 = (IF MetSplit(b, op) THEN 1 ELSE 0)
        /\ t.meter.ranges = (IF MetSplit(b, op) THEN 1 ELSE 0)
        /\ t.meter.retries = t.meter.c429 + t.meter.c410
    BY <1>1, <1>3, <2>2, <2>3 DEF SameRanges, MetSplit, Met
  <2> QED
    BY <1>3, <2>2, <2>3, <2>4, <2>5, <2>6 DEF t, Hit
<1> QED
  BY <1>2, <1>3
-----------------------------------------------------------------------------
(* What is answered, and what is stored then.                              *)

Answers(e, status, rows, docs) == e.status = status /\ e.rows = rows /\ e.b.docs = docs

LEMMA ExecFields ==
    ASSUME NEW b, NEW c, NEW python, NEW status, NEW existed, NEW rows
    PROVE  /\ Exec(b, c, python, status, existed, rows).b = b
           /\ Exec(b, c, python, status, existed, rows).status = status
           /\ Exec(b, c, python, status, existed, rows).rows = rows
BY DEF Exec

LEMMA CreateClientAnswer ==
    ASSUME NEW b \in Backend, NEW c \in Calls, NEW python \in BOOLEAN,
           c.op = "create_client"
    PROVE  LET e == Execute(b, c, python)
           IN  Answers(e, 200, {}, b.docs) /\ e.b.db = b.db
<1> DEFINE e == Execute(b, c, python)
<1>1. e.b = Count(b) /\ e.status = 200 /\ e.rows = {}
  BY CreateClientRun, ExecFields
<1>2. SameStore(b, Count(b))
  BY CountIs
<1> QED
  BY <1>1, <1>2 DEF Answers, SameStore

LEMMA CreateDatabaseAnswer ==
    ASSUME NEW b \in Backend, NEW c \in Calls, NEW python \in BOOLEAN,
           c.op = "create_database"
    PROVE  LET e == Execute(b, c, python)
           IN  /\ b.db /\ c.lenient => Answers(e, 200, {}, b.docs)
               /\ b.db /\ ~c.lenient => Answers(e, 409, {}, b.docs)
               /\ ~b.db => Answers(e, 201, {}, b.docs)
               /\ e.b.db
<1> DEFINE e == Execute(b, c, python)
<1>1. CASE b.db
  <2>1. e.b = b /\ e.status = (IF c.lenient THEN 200 ELSE 409) /\ e.rows = {}
    BY <1>1, CreateDatabaseRun, ExecFields
  <2> QED
    BY <1>1, <2>1 DEF Answers, Backend
<1>2. CASE ~b.db
  <2>1. e.b = MakeDb(b) /\ e.status = 201 /\ e.rows = {}
    BY <1>2, CreateDatabaseRun, ExecFields
  <2>2. MakeDb(b).docs = b.docs /\ MakeDb(b).db = TRUE
    BY DatabaseIs
  <2> QED
    BY <1>2, <2>1, <2>2 DEF Answers
<1> QED
  BY <1>1, <1>2

LEMMA DeleteDatabaseAnswer ==
    ASSUME NEW b \in Backend, NEW c \in Calls, NEW python \in BOOLEAN,
           c.op = "delete_database"
    PROVE  LET e == Execute(b, c, python)
           IN  /\ ~b.db => Answers(e, 404, {}, b.docs)
               /\ b.db => Answers(e, 204, {}, NoContainer)
               /\ e.b.db = FALSE
<1> DEFINE e == Execute(b, c, python)
<1>1. CASE ~b.db
  <2>1. e.b = b /\ e.status = 404 /\ e.rows = {}
    BY <1>1, DeleteDatabaseRun, ExecFields
  <2> QED
    BY <1>1, <2>1 DEF Answers, Backend
<1>2. CASE b.db
  <2>1. e.b = DropDb(b) /\ e.status = 204 /\ e.rows = {}
    BY <1>2, DeleteDatabaseRun, ExecFields
  <2>2. DropDb(b).docs = NoContainer /\ DropDb(b).db = FALSE
    BY DatabaseIs
  <2> QED
    BY <1>2, <2>1, <2>2 DEF Answers
<1> QED
  BY <1>1, <1>2

LEMMA CreateContainerAnswer ==
    ASSUME NEW b \in Backend, NEW c \in Calls, NEW python \in BOOLEAN,
           c.op = "create_container"
    PROVE  LET e == Execute(b, c, python)
           IN  /\ ~b.db => Answers(e, 404, {}, b.docs)
               /\ b.db /\ b.docs # NoContainer /\ c.lenient => Answers(e, 200, {}, b.docs)
               /\ b.db /\ b.docs # NoContainer /\ ~c.lenient => Answers(e, 409, {}, b.docs)
               /\ b.db /\ b.docs = NoContainer => Answers(e, 201, {}, [k \in Keys |-> Absent])
               /\ e.b.db = b.db
<1> DEFINE e == Execute(b, c, python)
<1>1. CASE ~b.db
  <2>1. e.b = b /\ e.status = 404 /\ e.rows = {}
    BY <1>1, CreateContainerRun, ExecFields
  <2> QED
    BY <1>1, <2>1 DEF Answers
<1>2. CASE b.db /\ b.docs # NoContainer
  <2>1. e.b = b /\ e.status = (IF c.lenient THEN 200 ELSE 409) /\ e.rows = {}
    BY <1>2, CreateContainerRun, ExecFields
  <2> QED
    BY <1>2, <2>1 DEF Answers
<1>3. CASE b.db /\ b.docs = NoContainer
  <2>1. e.b = NewContainer(b) /\ e.status = 201 /\ e.rows = {}
    BY <1>3, CreateContainerRun, ExecFields
  <2>2. NewContainer(b).docs = [k \in Keys |-> Absent] /\ NewContainer(b).db = b.db
    BY NewContainerIs
  <2> QED
    BY <1>3, <2>1, <2>2 DEF Answers
<1> QED
  BY <1>1, <1>2, <1>3

LEMMA NoContainerAnswer ==
    ASSUME NEW b \in Backend, NEW c \in Calls, NEW python \in BOOLEAN, c.op \in RoutedOps,
           b.docs = NoContainer
    PROVE  LET e == Execute(b, c, python)
           IN  Answers(e, 404, {}, b.docs) /\ e.b.db = b.db
<1> DEFINE e == Execute(b, c, python)
<1>1. e.b = b /\ e.status = 404 /\ e.rows = {}
  BY NoContainerRun, ExecFields
<1> QED
  BY <1>1 DEF Answers

\* Touching keeps the items, and then one of them may be set.
LEMMA ItemStored ==
    ASSUME NEW b \in Backend, b.docs # NoContainer
    PROVE  /\ TouchCollection(b).db = b.db /\ TouchCollection(b).docs = b.docs
           /\ \A k \in Keys, v \in Pks \cup {Absent} :
                /\ SetItem(TouchCollection(b), k, v).db = b.db
                /\ SetItem(TouchCollection(b), k, v).docs = [b.docs EXCEPT ![k] = v]
<1> DEFINE t == TouchCollection(b)
<1>1. t \in Backend /\ t.db = b.db /\ t.docs = b.docs
  BY TouchIs DEF SameStore
<1> HIDE DEF t
<1>2. \A k \in Keys, v \in Pks \cup {Absent} :
         /\ SetItem(t, k, v).db = b.db
         /\ SetItem(t, k, v).docs = [b.docs EXCEPT ![k] = v]
  BY <1>1, SetItemIs
<1> QED
  BY <1>1, <1>2 DEF t

LEMMA ReadItemAnswer ==
    ASSUME NEW b \in Backend, NEW c \in Calls, NEW python \in BOOLEAN, c.op = "read_item",
           b.docs # NoContainer
    PROVE  LET e == Execute(b, c, python)
           IN  /\ b.docs[Key(c)] = Absent => Answers(e, 404, {}, b.docs)
               /\ b.docs[Key(c)] # Absent => Answers(e, 200, {}, b.docs)
               /\ e.b.db = b.db
<1> DEFINE e == Execute(b, c, python)
<1>1. /\ e.b = TouchCollection(b) /\ e.rows = {}
      /\ e.status = (IF b.docs[Key(c)] = Absent THEN 404 ELSE 200)
  BY ReadItemRun, ExecFields
<1> QED
  BY <1>1, ItemStored DEF Answers

LEMMA ReplaceItemAnswer ==
    ASSUME NEW b \in Backend, NEW c \in Calls, NEW python \in BOOLEAN,
           c.op = "replace_item",
           c.id \in Ids, b.docs # NoContainer
    PROVE  LET e == Execute(b, c, python)
           IN  /\ b.docs[Key(c)] = Absent => Answers(e, 404, {}, b.docs)
               /\ b.docs[Key(c)] # Absent =>
                    Answers(e, 200, {}, [b.docs EXCEPT ![Key(c)] = c.field])
               /\ e.b.db = b.db
<1> DEFINE e == Execute(b, c, python)
<1>1. Key(c) \in Keys /\ c.field \in Pks \cup {Absent}
  BY KeyTyped DEF Calls
<1>2. CASE b.docs[Key(c)] = Absent
  <2>1. e.b = TouchCollection(b) /\ e.status = 404 /\ e.rows = {}
    BY <1>2, ReplaceItemRun, ExecFields
  <2> QED
    BY <1>2, <2>1, ItemStored DEF Answers
<1>3. CASE b.docs[Key(c)] # Absent
  <2>1. e.b = SetItem(TouchCollection(b), Key(c), c.field) /\ e.status = 200 /\ e.rows = {}
    BY <1>3, ReplaceItemRun, ExecFields
  <2> QED
    BY <1>1, <1>3, <2>1, ItemStored DEF Answers
<1> QED
  BY <1>2, <1>3

LEMMA DeleteItemAnswer ==
    ASSUME NEW b \in Backend, NEW c \in Calls, NEW python \in BOOLEAN, c.op = "delete_item",
           c.id \in Ids, b.docs # NoContainer
    PROVE  LET e == Execute(b, c, python)
           IN  /\ b.docs[Key(c)] = Absent => Answers(e, 404, {}, b.docs)
               /\ b.docs[Key(c)] # Absent =>
                    Answers(e, 204, {}, [b.docs EXCEPT ![Key(c)] = Absent])
               /\ e.b.db = b.db
<1> DEFINE e == Execute(b, c, python)
<1>1. Key(c) \in Keys
  BY KeyTyped
<1>2. CASE b.docs[Key(c)] = Absent
  <2>1. e.b = TouchCollection(b) /\ e.status = 404 /\ e.rows = {}
    BY <1>2, DeleteItemRun, ExecFields
  <2> QED
    BY <1>2, <2>1, ItemStored DEF Answers
<1>3. CASE b.docs[Key(c)] # Absent
  <2>1. e.b = SetItem(TouchCollection(b), Key(c), Absent) /\ e.status = 204 /\ e.rows = {}
    BY <1>3, DeleteItemRun, ExecFields
  <2> QED
    BY <1>1, <1>3, <2>1, ItemStored DEF Answers
<1> QED
  BY <1>2, <1>3

LEMMA CreateItemAnswer ==
    ASSUME NEW b \in Backend, NEW c \in Calls, NEW python \in BOOLEAN, c.op = "create_item",
           b.docs # NoContainer
    PROVE  LET e == Execute(b, c, python)
               k == Key(Named(c, python))
           IN  /\ b.docs[k] # Absent => Answers(e, 409, {}, b.docs)
               /\ b.docs[k] = Absent => Answers(e, 201, {}, [b.docs EXCEPT ![k] = c.field])
               /\ e.b.db = b.db
<1> DEFINE e == Execute(b, c, python)
           k == Key(Named(c, python))
<1>1. k \in Keys /\ c.field \in Pks \cup {Absent}
  BY NamedIs, KeyTyped DEF Calls
<1>2. CASE b.docs[k] # Absent
  <2>1. e.b = TouchCollection(b) /\ e.status = 409 /\ e.rows = {}
    BY <1>2, CreateItemRun, ExecFields
  <2> QED
    BY <1>2, <2>1, ItemStored DEF Answers
<1>3. CASE b.docs[k] = Absent
  <2>1. e.b = SetItem(TouchCollection(b), k, c.field) /\ e.status = 201 /\ e.rows = {}
    BY <1>3, CreateItemRun, ExecFields
  <2> QED
    BY <1>1, <1>3, <2>1, ItemStored DEF Answers
<1> QED
  BY <1>2, <1>3

LEMMA UpsertItemAnswer ==
    ASSUME NEW b \in Backend, NEW c \in Calls, NEW python \in BOOLEAN, c.op = "upsert_item",
           b.docs # NoContainer
    PROVE  LET e == Execute(b, c, python)
               k == Key(Named(c, python))
           IN  /\ b.docs[k] # Absent => Answers(e, 200, {}, [b.docs EXCEPT ![k] = c.field])
               /\ b.docs[k] = Absent => Answers(e, 201, {}, [b.docs EXCEPT ![k] = c.field])
               /\ e.b.db = b.db
<1> DEFINE e == Execute(b, c, python)
           k == Key(Named(c, python))
<1>1. k \in Keys /\ c.field \in Pks \cup {Absent}
  BY NamedIs, KeyTyped DEF Calls
<1>2. /\ e.b = SetItem(TouchCollection(b), k, c.field) /\ e.rows = {}
      /\ e.status = (IF b.docs[k] # Absent THEN 200 ELSE 201)
  BY UpsertItemRun, ExecFields
<1> QED
  BY <1>1, <1>2, ItemStored DEF Answers

LEMMA QueryItemsAnswer ==
    ASSUME NEW b \in Backend, NEW c \in Calls, NEW python \in BOOLEAN, c.op = "query_items",
           b.docs # NoContainer
    PROVE  LET e == Execute(b, c, python)
           IN  Answers(e, 200, Found(b, c), b.docs) /\ e.b.db = b.db
<1> DEFINE e == Execute(b, c, python)
<1> DEFINE t == TouchCollection(b)
           u == TouchRanges(t, c, python)
<1>1. t \in Backend /\ t.db = b.db /\ t.docs = b.docs
  BY TouchIs DEF SameStore
<1>2. c.cross \in BOOLEAN
  BY DEF Calls
<1> HIDE DEF t
<1>3. u.db = b.db /\ u.docs = b.docs
  BY <1>1, <1>2, TouchRangesIs DEF SameStore
<1> HIDE DEF u
<1>4. e.b = u /\ e.status = 200 /\ e.rows = Found(u, c)
  BY QueryItemsRun, ExecFields DEF t, u
<1> QED
  BY <1>3, <1>4 DEF Answers, Found

\* The answers depend on the items only: both languages give the same, if the
\* body put has no null id.
LEMMA SameRuns ==
    ASSUME NEW a \in Backend, NEW b \in Backend, a.db = b.db, a.docs = b.docs,
           NEW c, Posed(c), ~Nulls(c), NEW p \in BOOLEAN, NEW q \in BOOLEAN
    PROVE  LET e == Execute(a, c, p)
               f == Execute(b, c, q)
           IN  /\ e.status = f.status /\ e.rows = f.rows
               /\ e.b.db = f.b.db /\ e.b.docs = f.b.docs
<1> DEFINE e == Execute(a, c, p)
           f == Execute(b, c, q)
           Agree == /\ e.status = f.status /\ e.rows = f.rows
                    /\ e.b.db = f.b.db /\ e.b.docs = f.b.docs
<1> SUFFICES Agree
  OBVIOUS
<1>1. c \in Calls /\ c.op \in DOMAIN Profile /\ c.lenient \in BOOLEAN /\ b.db \in BOOLEAN
  BY DEF Posed, Calls, Backend
<1>2. CASE c.op = "create_client"
  <2>1. /\ Answers(e, 200, {}, a.docs) /\ e.b.db = a.db
    BY <1>1, <1>2, CreateClientAnswer
  <2>2. /\ Answers(f, 200, {}, b.docs) /\ f.b.db = b.db
    BY <1>1, <1>2, CreateClientAnswer
  <2> HIDE DEF e, f
  <2> QED
    BY <1>1, <2>1, <2>2 DEF Answers
<1>3. CASE c.op = "create_database"
  <2>1. /\ a.db /\ c.lenient => Answers(e, 200, {}, a.docs)
        /\ a.db /\ ~c.lenient => Answers(e, 409, {}, a.docs)
        /\ ~a.db => Answers(e, 201, {}, a.docs)
        /\ e.b.db
    BY <1>1, <1>3, CreateDatabaseAnswer
  <2>2. /\ b.db /\ c.lenient => Answers(f, 200, {}, b.docs)
        /\ b.db /\ ~c.lenient => Answers(f, 409, {}, b.docs)
        /\ ~b.db => Answers(f, 201, {}, b.docs)
        /\ f.b.db
    BY <1>1, <1>3, CreateDatabaseAnswer
  <2> HIDE DEF e, f
  <2> QED
    BY <1>1, <2>1, <2>2 DEF Answers
<1>4. CASE c.op = "delete_database"
  <2>1. /\ ~a.db => Answers(e, 404, {}, a.docs)
        /\ a.db => Answers(e, 204, {}, NoContainer)
        /\ e.b.db = FALSE
    BY <1>1, <1>4, DeleteDatabaseAnswer, ZenonT(60)
  <2>2. /\ ~b.db => Answers(f, 404, {}, b.docs)
        /\ b.db => Answers(f, 204, {}, NoContainer)
        /\ f.b.db = FALSE
    BY <1>1, <1>4, DeleteDatabaseAnswer
  <2> HIDE DEF e, f
  <2> QED
    BY <1>1, <2>1, <2>2 DEF Answers
<1>5. CASE c.op = "create_container"
  <2>1. /\ ~a.db => Answers(e, 404, {}, a.docs)
        /\ a.db /\ a.docs # NoContainer /\ c.lenient => Answers(e, 200, {}, a.docs)
        /\ a.db /\ a.docs # NoContainer /\ ~c.lenient => Answers(e, 409, {}, a.docs)
        /\ a.db /\ a.docs = NoContainer => Answers(e, 201, {}, [k \in Keys |-> Absent])
        /\ e.b.db = a.db
    BY <1>1, <1>5, CreateContainerAnswer
  <2>2. /\ ~b.db => Answers(f, 404, {}, b.docs)
        /\ b.db /\ b.docs # NoContainer /\ c.lenient => Answers(f, 200, {}, b.docs)
        /\ b.db /\ b.docs # NoContainer /\ ~c.lenient => Answers(f, 409, {}, b.docs)
        /\ b.db /\ b.docs = NoContainer => Answers(f, 201, {}, [k \in Keys |-> Absent])
        /\ f.b.db = b.db
    BY <1>1, <1>5, CreateContainerAnswer
  <2> HIDE DEF e, f
  <2> QED
    BY <1>1, <2>1, <2>2 DEF Answers
<1>6. CASE c.op \in RoutedOps /\ b.docs = NoContainer
  <2>1. /\ Answers(e, 404, {}, a.docs) /\ e.b.db = a.db
    BY <1>1, <1>6, NoContainerAnswer
  <2>2. /\ Answers(f, 404, {}, b.docs) /\ f.b.db = b.db
    BY <1>1, <1>6, NoContainerAnswer
  <2> HIDE DEF e, f
  <2> QED
    BY <1>1, <2>1, <2>2 DEF Answers
<1>7. CASE c.op = "read_item" /\ b.docs # NoContainer
  <2>1. /\ a.docs[Key(c)] = Absent => Answers(e, 404, {}, a.docs)
        /\ a.docs[Key(c)] # Absent => Answers(e, 200, {}, a.docs)
        /\ e.b.db = a.db
    BY <1>1, <1>7, ReadItemAnswer
  <2>2. /\ b.docs[Key(c)] = Absent => Answers(f, 404, {}, b.docs)
        /\ b.docs[Key(c)] # Absent => Answers(f, 200, {}, b.docs)
        /\ f.b.db = b.db
    BY <1>1, <1>7, ReadItemAnswer
  <2> HIDE DEF e, f
  <2> QED
    BY <1>1, <2>1, <2>2 DEF Answers
<1>8. CASE c.op = "replace_item" /\ b.docs # NoContainer
  <2>1. /\ a.docs[Key(c)] = Absent => Answers(e, 404, {}, a.docs)
        /\ a.docs[Key(c)] # Absent =>
             Answers(e, 200, {}, [a.docs EXCEPT ![Key(c)] = c.field])
        /\ e.b.db = a.db
    BY <1>1, <1>8, ReplaceItemAnswer DEF Posed
  <2>2. /\ b.docs[Key(c)] = Absent => Answers(f, 404, {}, b.docs)
        /\ b.docs[Key(c)] # Absent =>
             Answers(f, 200, {}, [b.docs EXCEPT ![Key(c)] = c.field])
        /\ f.b.db = b.db
    BY <1>1, <1>8, ReplaceItemAnswer DEF Posed
  <2> HIDE DEF e, f
  <2> QED
    BY <1>1, <2>1, <2>2 DEF Answers
<1>9. CASE c.op = "delete_item" /\ b.docs # NoContainer
  <2>1. /\ a.docs[Key(c)] = Absent => Answers(e, 404, {}, a.docs)
        /\ a.docs[Key(c)] # Absent =>
             Answers(e, 204, {}, [a.docs EXCEPT ![Key(c)] = Absent])
        /\ e.b.db = a.db
    BY <1>1, <1>9, DeleteItemAnswer DEF Posed
  <2>2. /\ b.docs[Key(c)] = Absent => Answers(f, 404, {}, b.docs)
        /\ b.docs[Key(c)] # Absent =>
             Answers(f, 204, {}, [b.docs EXCEPT ![Key(c)] = Absent])
        /\ f.b.db = b.db
    BY <1>1, <1>9, DeleteItemAnswer DEF Posed
  <2> HIDE DEF e, f
  <2> QED
    BY <1>1, <2>1, <2>2 DEF Answers
<1> DEFINE k == Key(Named(c, p))
<1>14. ASSUME c.op \in {"create_item", "upsert_item"} PROVE k = Key(Named(c, q))
  <2>1. c.id # NullId
    BY <1>14 DEF Nulls
  <2> QED
    BY <2>1 DEF Named, LacksId
<1> HIDE DEF k
<1>10. CASE c.op = "create_item" /\ b.docs # NoContainer
  <2>1. /\ a.docs[k] # Absent => Answers(e, 409, {}, a.docs)
        /\ a.docs[k] = Absent =>
             Answers(e, 201, {}, [a.docs EXCEPT ![k] = c.field])
        /\ e.b.db = a.db
    BY <1>1, <1>10, CreateItemAnswer DEF k
  <2>2. /\ b.docs[k] # Absent => Answers(f, 409, {}, b.docs)
        /\ b.docs[k] = Absent =>
             Answers(f, 201, {}, [b.docs EXCEPT ![k] = c.field])
        /\ f.b.db = b.db
    BY <1>1, <1>10, <1>14, CreateItemAnswer
  <2> HIDE DEF e, f
  <2> QED
    BY <1>1, <2>1, <2>2 DEF Answers
<1>11. CASE c.op = "upsert_item" /\ b.docs # NoContainer
  <2>1. /\ a.docs[k] # Absent =>
             Answers(e, 200, {}, [a.docs EXCEPT ![k] = c.field])
        /\ a.docs[k] = Absent =>
             Answers(e, 201, {}, [a.docs EXCEPT ![k] = c.field])
        /\ e.b.db = a.db
    BY <1>1, <1>11, UpsertItemAnswer DEF k
  <2>2. /\ b.docs[k] # Absent =>
             Answers(f, 200, {}, [b.docs EXCEPT ![k] = c.field])
        /\ b.docs[k] = Absent =>
             Answers(f, 201, {}, [b.docs EXCEPT ![k] = c.field])
        /\ f.b.db = b.db
    BY <1>1, <1>11, <1>14, UpsertItemAnswer
  <2> HIDE DEF e, f
  <2> QED
    BY <1>1, <2>1, <2>2 DEF Answers
<1>12. CASE c.op = "query_items" /\ b.docs # NoContainer
  <2>1. /\ Answers(e, 200, Found(a, c), a.docs) /\ e.b.db = a.db
    BY <1>1, <1>12, QueryItemsAnswer
  <2>2. /\ Answers(f, 200, Found(b, c), b.docs) /\ f.b.db = b.db
    BY <1>1, <1>12, QueryItemsAnswer
  <2> HIDE DEF e, f
  <2> QED
    BY <1>1, <2>1, <2>2 DEF Answers, Found
<1>13. \/ c.op \in {"create_client", "create_database",
                    "delete_database", "create_container"}
       \/ c.op \in RoutedOps
  BY <1>1 DEF Profile, RoutedOps
<1> QED
  BY <1>2, <1>3, <1>4, <1>5, <1>6, <1>7, <1>8, <1>9, <1>10, <1>11, <1>12, <1>13
     DEF RoutedOps
\* Whatever the body put, both have the same database and container then, and
\* what is no operation on items gives the same answer.
Stand(a, b)   == a.db = b.db /\ (a.docs = NoContainer <=> b.docs = NoContainer)
Replied(e, f) == e.status = f.status /\ e.rows = f.rows

\* The operations on items keep the database.
LEMMA RoutedDatabase ==
    ASSUME NEW b \in Backend, NEW c, Posed(c), c.op \in RoutedOps,
           NEW python \in BOOLEAN
    PROVE  Execute(b, c, python).b.db = b.db
<1>1. c \in Calls /\ (c.op \in {"read_item", "replace_item", "delete_item"} => c.id \in Ids)
  BY DEF Posed
<1>2. CASE b.docs = NoContainer
  BY <1>1, <1>2, NoContainerAnswer
<1>3. CASE b.docs # NoContainer
  <2>1. c.op = "read_item" => Execute(b, c, python).b.db = b.db
    BY <1>1, <1>3, ReadItemAnswer
  <2>2. c.op = "replace_item" => Execute(b, c, python).b.db = b.db
    BY <1>1, <1>3, ReplaceItemAnswer, ZenonT(60)
  <2>3. c.op = "upsert_item" => Execute(b, c, python).b.db = b.db
    BY <1>1, <1>3, UpsertItemAnswer
  <2>4. c.op = "delete_item" => Execute(b, c, python).b.db = b.db
    BY <1>1, <1>3, DeleteItemAnswer, ZenonT(60)
  <2>5. c.op = "create_item" => Execute(b, c, python).b.db = b.db
    BY <1>1, <1>3, CreateItemAnswer, ZenonT(60)
  <2>6. c.op = "query_items" => Execute(b, c, python).b.db = b.db
    BY <1>1, <1>3, QueryItemsAnswer
  <2> QED
    BY <2>1, <2>2, <2>3, <2>4, <2>5, <2>6 DEF RoutedOps
<1> QED
  BY <1>2, <1>3

LEMMA SameStands ==
    ASSUME NEW a \in Backend, NEW b \in Backend, Stand(a, b),
           NEW c, Posed(c), NEW p \in BOOLEAN, NEW q \in BOOLEAN
    PROVE  LET e == Execute(a, c, p)
               f == Execute(b, c, q)
           IN  /\ Stand(e.b, f.b)
               /\ c.op \notin RoutedOps \/ b.docs = NoContainer => Replied(e, f)
<1> DEFINE e == Execute(a, c, p)
           f == Execute(b, c, q)
<1>1. /\ c \in Calls /\ c.op \in DOMAIN Profile /\ c.lenient \in BOOLEAN
      /\ a.db = b.db /\ (a.docs = NoContainer <=> b.docs = NoContainer)
  BY DEF Posed, Calls, Stand
<1>2. CASE c.op = "create_client"
  <2>1. Answers(e, 200, {}, a.docs) /\ e.b.db = a.db
    BY <1>1, <1>2, CreateClientAnswer
  <2>2. Answers(f, 200, {}, b.docs) /\ f.b.db = b.db
    BY <1>1, <1>2, CreateClientAnswer
  <2> HIDE DEF e, f
  <2> QED
    BY <1>1, <2>1, <2>2 DEF Answers, Stand, Replied, e, f
<1>3. CASE c.op = "create_database"
  <2> DEFINE status == IF a.db THEN (IF c.lenient THEN 200 ELSE 409) ELSE 201
  <2>1. Answers(e, status, {}, a.docs) /\ e.b.db
    BY <1>1, <1>3, CreateDatabaseAnswer
  <2>2. Answers(f, status, {}, b.docs) /\ f.b.db
    BY <1>1, <1>3, CreateDatabaseAnswer
  <2>3. e.b.db \in BOOLEAN /\ f.b.db \in BOOLEAN
    BY ExecuteCalled DEF Called, Backend
  <2> HIDE DEF e, f, status
  <2> QED
    BY <1>1, <2>1, <2>2, <2>3 DEF Answers, Stand, Replied, e, f
<1>4. CASE c.op = "delete_database"
  <2>1. CASE a.db
    <3>1. Answers(e, 204, {}, NoContainer) /\ e.b.db = FALSE
      BY <1>1, <1>4, <2>1, DeleteDatabaseAnswer, ZenonT(60)
    <3>2. Answers(f, 204, {}, NoContainer) /\ f.b.db = FALSE
      BY <1>1, <1>4, <2>1, DeleteDatabaseAnswer, ZenonT(60)
    <3> HIDE DEF e, f
    <3> QED
      BY <3>1, <3>2 DEF Answers, Stand, Replied, e, f
  <2>2. CASE ~a.db
    <3>1. Answers(e, 404, {}, a.docs) /\ e.b.db = FALSE
      BY <1>1, <1>4, <2>2, DeleteDatabaseAnswer, ZenonT(60)
    <3>2. Answers(f, 404, {}, b.docs) /\ f.b.db = FALSE
      BY <1>1, <1>4, <2>2, DeleteDatabaseAnswer, ZenonT(60)
    <3> HIDE DEF e, f
    <3> QED
      BY <1>1, <3>1, <3>2 DEF Answers, Stand, Replied, e, f
  <2> QED
    BY <2>1, <2>2
<1>5. CASE c.op = "create_container"
  <2>1. CASE a.db /\ a.docs = NoContainer
    <3>1. Answers(e, 201, {}, [k \in Keys |-> Absent]) /\ e.b.db = a.db
      BY <1>1, <1>5, <2>1, CreateContainerAnswer, ZenonT(60)
    <3>2. Answers(f, 201, {}, [k \in Keys |-> Absent]) /\ f.b.db = b.db
      BY <1>1, <1>5, <2>1, CreateContainerAnswer, ZenonT(60)
    <3> HIDE DEF e, f
    <3> QED
      BY <1>1, <3>1, <3>2 DEF Answers, Stand, Replied, e, f
  <2>2. CASE ~(a.db /\ a.docs = NoContainer)
    <3> DEFINE status == IF a.db THEN (IF c.lenient THEN 200 ELSE 409) ELSE 404
    <3>1. Answers(e, status, {}, a.docs) /\ e.b.db = a.db
      BY <1>1, <1>5, <2>2, CreateContainerAnswer
    <3>2. Answers(f, status, {}, b.docs) /\ f.b.db = b.db
      BY <1>1, <1>5, <2>2, CreateContainerAnswer
    <3> HIDE DEF e, f, status
    <3> QED
      BY <1>1, <3>1, <3>2 DEF Answers, Stand, Replied, e, f
  <2> QED
    BY <2>1, <2>2
<1>6. CASE c.op \in RoutedOps
  <2>1. e.b.db = a.db /\ f.b.db = b.db
    BY <1>6, RoutedDatabase
  <2>2. /\ e.b.docs = NoContainer <=> a.docs = NoContainer
        /\ f.b.docs = NoContainer <=> b.docs = NoContainer
    BY <1>6, ExecuteCalled DEF Called
  <2>3. ASSUME b.docs = NoContainer PROVE Replied(e, f)
    <3>1. Answers(e, 404, {}, a.docs)
      BY <1>1, <1>6, <2>3, NoContainerAnswer
    <3>2. Answers(f, 404, {}, b.docs)
      BY <1>1, <1>6, <2>3, NoContainerAnswer
    <3> HIDE DEF e, f
    <3> QED
      BY <3>1, <3>2 DEF Answers, Replied
  <2> HIDE DEF e, f
  <2> QED
    BY <1>1, <1>6, <2>1, <2>2, <2>3 DEF Stand, e, f
<1>7. \/ c.op \in {"create_client", "create_database",
                   "delete_database", "create_container"}
      \/ c.op \in RoutedOps
  BY <1>1 DEF Profile, RoutedOps
<1> QED
  BY <1>2, <1>3, <1>4, <1>5, <1>6, <1>7
-----------------------------------------------------------------------------
(* The inductive invariant.                                                *)

\* Both languages know the container alike, and its metadata was read once if
\* they do.
TouchInv ==
    /\ py.touched = jv.touched
    /\ looked = IF py.touched THEN 1 ELSE 0

\* A 410 to come is that of the split that made the cache stale last, and a
\* cache that is stale has not been refreshed since.
CacheInv ==
    /\ py.armed => split /\ forced = 0
    /\ ~py.valid => forced = 0 /\ ~fed

MockInv ==
    /\ TypeOK /\ SameAnswers /\ FaultsConserved /\ OneForcedRefresh
    /\ OneRefreshPerCall /\ CollectionReadOnce /\ TouchInv /\ CacheInv

LEMMA BackendsTyped ==
    ASSUME NEW b \in Backends
    PROVE  b \in Backend /\ b.meter = NoCost
<1>1. NoCost \in Counts
  BY DEF NoCost, Counts
<1> QED
  BY <1>1 DEF Backends, Backend, Docs

LEMMA UnmeteredIs ==
    ASSUME NEW b \in Backend
    PROVE  /\ Unmetered(b) \in Backends /\ SameStore(b, Unmetered(b))
           /\ Unmetered(b).touched = b.touched /\ Unmetered(b).valid = b.valid
           /\ Unmetered(b).armed = b.armed /\ Unmetered(b).throttle = b.throttle
BY DEF Unmetered, Backends, Backend, Docs, SameStore

\* A call takes its own throttle off what is to come.
LEMMA ThrottlesOff ==
    ASSUME NEW t \in [RoutedOps -> 0..MaxCount], NEW op \in RoutedOps, NEW n \in 0..MaxCount
    PROVE  /\ Throttles(t) \in Nat
           /\ Throttles([t EXCEPT ![op] = n]) = Throttles(t) - t[op] + n
<1>1. \A o \in RoutedOps : t[o] \in Nat
  BY MockAssumption
<1>2. n \in Nat
  BY MockAssumption
<1>3. CASE op = "read_item"
  BY <1>1, <1>2, <1>3 DEF Throttles, RoutedOps
<1>4. CASE op = "replace_item"
  BY <1>1, <1>2, <1>4 DEF Throttles, RoutedOps
<1>5. CASE op = "upsert_item"
  BY <1>1, <1>2, <1>5 DEF Throttles, RoutedOps
<1>6. CASE op = "delete_item"
  BY <1>1, <1>2, <1>6 DEF Throttles, RoutedOps
<1>7. CASE op = "create_item"
  BY <1>1, <1>2, <1>7 DEF Throttles, RoutedOps
<1>8. CASE op = "query_items"
  BY <1>1, <1>2, <1>8 DEF Throttles, RoutedOps
<1> QED
  BY <1>3, <1>4, <1>5, <1>6, <1>7, <1>8 DEF RoutedOps

LEMMA InitMockInv == Init => MockInv
<1> SUFFICES ASSUME Init PROVE MockInv
  OBVIOUS
<1>1. 0 \in 0..MaxCount /\ MaxCount \in Nat
  BY MockAssumption
<1>2. Fresh \in Backends /\ py = Fresh /\ jv = Fresh
  BY <1>1 DEF Init, Fresh, Backends
<1>3. /\ ~Fresh.touched /\ ~Fresh.armed /\ Fresh.docs = NoContainer
      /\ Throttles(Fresh.throttle) = 0
  BY DEF Fresh, Throttles, RoutedOps
<1>9. /\ owed = [c429 |-> 0, c410 |-> 0] /\ looked = 0 /\ split = FALSE
      /\ forced = 0 /\ fed = FALSE /\ nulled = FALSE /\ quiet = TRUE
      /\ pyMeter = NoCost /\ jvMeter = NoCost
  BY DEF Init
<1>4. NoCost \in Meters /\ NoCost.ranges = 0 /\ NoCost.c410 = 0 /\ NoCost.c429 = 0
      /\ NoCost.retries = 0
  BY <1>1 DEF NoCost, Meters
<1>5. TypeOK
  <2>1. owed \in [c429 : Nat, c410 : 0..1] /\ looked \in Nat /\ forced \in Nat
    BY <1>9
  <2>2. split \in BOOLEAN /\ fed \in BOOLEAN /\ nulled \in BOOLEAN /\ quiet \in BOOLEAN
    BY <1>9
  <2>3. pyMeter \in Meters /\ jvMeter \in Meters
    BY <1>4, <1>9
  <2> QED
    BY <1>2, <2>1, <2>2, <2>3 DEF TypeOK
<1>6. SameAnswers /\ TouchInv /\ CacheInv /\ OneForcedRefresh
  BY <1>2, <1>3 DEF SameAnswers, TouchInv, CacheInv, OneForcedRefresh, Init
<1>7. FaultsConserved /\ OneRefreshPerCall
  BY <1>2, <1>3, <1>4 DEF FaultsConserved, OneRefreshPerCall, Init
<1>8. CollectionReadOnce
  BY <1>2, <1>3 DEF CollectionReadOnce, Init
<1> QED
  BY <1>5, <1>6, <1>7, <1>8 DEF MockInv

\* What a call to both does, its two executions named.
Both(c, name, f, p, j) ==
    /\ py' = Unmetered(p.b) /\ pyMeter' = p.b.meter
    /\ jv' = Unmetered(j.b) /\ jvMeter' = j.b.meter
    /\ pyReply' = [call |-> name, status |-> p.status, rows |-> p.rows]
    /\ jvReply' = [call |-> name, status |-> j.status, rows |-> j.rows]
    /\ owed' = [c429 |-> owed.c429 - p.b.meter.c429, c410 |-> owed.c410 - p.b.meter.c410]
    /\ forced' = forced + p.b.meter.ranges
    /\ looked' = (IF c.op = "create_container" /\ p.status = 201 THEN 0 ELSE looked)
                   + p.b.meter.collection
    /\ nulled' = (p.b.docs # NoContainer /\ (nulled \/ Nulls(c)))
    /\ split' = split /\ fed' = fed /\ quiet' = quiet

\* ... and what is known of them.
Yes == TRUE
No  == FALSE

ByPython(c) == Execute(Faulted(py, c.op), c, Yes)
ByJava(c)   == Execute(jv, c, No)

LEMMA AskBoth ==
    ASSUME MockInv, NEW c, Posed(c), NEW name, Ask(c, name)
    PROVE  LET f == Faulted(py, c.op)
               p == ByPython(c)
               j == ByJava(c)
           IN  /\ Both(c, name, f, p, j)
               /\ py \in Backend /\ py.meter = NoCost /\ jv \in Backend /\ jv.meter = NoCost
               /\ f \in Backend /\ f.db = py.db /\ f.docs = py.docs
               /\ Called(f, c, Yes, p) /\ Called(jv, c, No, j)
               /\ Stand(f, jv) /\ Stand(p.b, j.b)
               /\ c.op \notin RoutedOps \/ f.docs = NoContainer => Replied(p, j)
               /\ f.docs = jv.docs /\ ~Nulls(c) => Replied(p, j) /\ p.b.docs = j.b.docs
<1> DEFINE f == Faulted(py, c.op)
           p == ByPython(c)
           j == ByJava(c)
<1>1. Yes \in BOOLEAN /\ No \in BOOLEAN
  BY DEF Yes, No
<1>2. Both(c, name, f, p, j)
  BY Zenon DEF Ask, Both, Owed, ByPython, ByJava, Yes, No
<1>3. py \in Backend /\ py.meter = NoCost /\ jv \in Backend /\ jv.meter = NoCost
  BY BackendsTyped DEF MockInv, TypeOK
<1>4. f \in Backend /\ f.db = py.db /\ f.docs = py.docs
  BY <1>3, FaultedIs DEF Hit, SameStore
<1>8. Stand(f, jv)
  BY <1>4 DEF Stand, MockInv, SameAnswers
<1> HIDE DEF f
<1>5. p = Execute(f, c, Yes) /\ j = Execute(jv, c, No)
  BY DEF ByPython, ByJava, f
<1> HIDE DEF p, j
<1>6. Called(f, c, Yes, p) /\ Called(jv, c, No, j)
  BY <1>1, <1>3, <1>4, <1>5, ExecuteCalled
<1>7. /\ Stand(p.b, j.b)
      /\ c.op \notin RoutedOps \/ jv.docs = NoContainer => Replied(p, j)
  BY <1>1, <1>3, <1>4, <1>5, <1>8, SameStands
<1>9. f.docs = jv.docs /\ ~Nulls(c) => Replied(p, j) /\ p.b.docs = j.b.docs
  <2>1. f.db = jv.db
    BY <1>8 DEF Stand
  <2> QED
    BY <1>1, <1>3, <1>4, <1>5, <2>1, SameRuns DEF Replied
<1>10. c.op \notin RoutedOps \/ f.docs = NoContainer => Replied(p, j)
  BY <1>7, <1>8 DEF Stand
<1> QED
  BY <1>2, <1>3, <1>4, <1>6, <1>7, <1>8, <1>9, <1>10 DEF f, p, j

LEMMA AskStep ==
    ASSUME MockInv, NEW c, Posed(c), NEW name, name[1] = c.op, Ask(c, name)
    PROVE  MockInv'
<1> DEFINE op == c.op
           f == Faulted(py, c.op)
           p == ByPython(c)
           j == ByJava(c)
<1>1. /\ Both(c, name, f, p, j)
      /\ py \in Backend /\ py.meter = NoCost /\ jv \in Backend /\ jv.meter = NoCost
      /\ f \in Backend /\ f.db = py.db /\ f.docs = py.docs
      /\ Called(f, c, Yes, p) /\ Called(jv, c, No, j)
      /\ Stand(f, jv) /\ Stand(p.b, j.b)
      /\ op \notin RoutedOps \/ f.docs = NoContainer => Replied(p, j)
      /\ f.docs = jv.docs /\ ~Nulls(c) => Replied(p, j) /\ p.b.docs = j.b.docs
  BY AskBoth
<1>24. Hit(py, op, f)
  BY <1>1, FaultedIs
<1> HIDE DEF f, p, j
<1>2. /\ SameStore(py, f) /\ SameTouch(py, f) /\ SameAccount(py, f)
      /\ op \in RoutedOps => ~f.armed
      /\ op \notin RoutedOps => f.armed = py.armed
      /\ op \in RoutedOps => f.throttle = [py.throttle EXCEPT ![op] = 0]
      /\ op \notin RoutedOps => f.throttle = py.throttle
      /\ f.valid <=> (py.valid \/ MetSplit(py, op))
      /\ f.meter.c429 = Met(py, op)
      /\ f.meter.c410 = (IF MetSplit(py, op) THEN 1 ELSE 0)
      /\ f.meter.ranges = (IF MetSplit(py, op) THEN 1 ELSE 0)
      /\ f.meter.retries = f.meter.c429 + f.meter.c410
  BY <1>24 DEF Hit
<1>3. /\ py.meter.account = 0 /\ py.meter.collection = 0
      /\ jv.meter.account = 0 /\ jv.meter.collection = 0 /\ jv.meter.ranges = 0
      /\ jv.meter.retries = 0 /\ jv.meter.c429 = 0 /\ jv.meter.c410 = 0
  BY <1>1 DEF NoCost
<1>4. /\ p.b \in Backend /\ j.b \in Backend /\ p.b.meter \in Counts /\ j.b.meter \in Counts
  BY <1>1, MeterTyped DEF Called
<1>5. /\ py' \in Backends /\ py'.db = p.b.db /\ py'.docs = p.b.docs
      /\ py'.touched = p.b.touched /\ py'.valid = p.b.valid
      /\ py'.armed = p.b.armed /\ py'.throttle = p.b.throttle
  BY <1>1, <1>4, UnmeteredIs DEF Both, SameStore
<1>6. /\ jv' \in Backends /\ jv'.db = j.b.db /\ jv'.docs = j.b.docs
      /\ jv'.touched = j.b.touched
  BY <1>1, <1>4, UnmeteredIs DEF Both, SameStore
<1>7. /\ pyMeter' = p.b.meter /\ jvMeter' = j.b.meter
      /\ pyReply' = [call |-> name, status |-> p.status, rows |-> p.rows]
      /\ jvReply' = [call |-> name, status |-> j.status, rows |-> j.rows]
      /\ owed'.c429 = owed.c429 - pyMeter'.c429 /\ owed'.c410 = owed.c410 - pyMeter'.c410
      /\ owed' = [c429 |-> owed'.c429, c410 |-> owed'.c410]
      /\ forced' = forced + pyMeter'.ranges
      /\ nulled' = (p.b.docs # NoContainer /\ (nulled \/ Nulls(c)))
      /\ split' = split /\ fed' = fed /\ quiet' = quiet
      /\ looked' = (IF op = "create_container" /\ p.status = 201 THEN 0 ELSE looked)
                     + pyMeter'.collection
  BY <1>1 DEF Both
<1>8. Routed(pyReply') <=> op \in RoutedOps
  BY <1>7 DEF Routed
<1>9. /\ pyMeter'.c429 = Met(py, op)
      /\ pyMeter'.c410 = (IF MetSplit(py, op) THEN 1 ELSE 0)
      /\ pyMeter'.retries = pyMeter'.c429 + pyMeter'.c410
      /\ py'.armed = f.armed /\ py'.throttle = f.throttle
      /\ pyMeter'.account \in {0, 1}
  <2>1. SameFaults(f, p.b) /\ p.b.meter.account \in {f.meter.account, f.meter.account + 1}
    BY <1>1 DEF Called
  <2>2. f.meter.account = 0
    BY <1>2, <1>3 DEF SameAccount
  <2>3. /\ py'.armed = f.armed /\ py'.throttle = f.throttle
        /\ pyMeter'.retries = f.meter.retries /\ pyMeter'.c429 = f.meter.c429
        /\ pyMeter'.c410 = f.meter.c410
    BY <1>5, <1>7, <2>1 DEF SameFaults
  <2> QED
    BY <1>2, <1>7, <2>1, <2>2, <2>3
<1>10. /\ jvMeter'.c429 = 0 /\ jvMeter'.c410 = 0 /\ jvMeter'.retries = 0
       /\ jvMeter'.account \in {0, 1}
  BY <1>1, <1>3, <1>7 DEF Called, SameFaults
<1>11. FaultsConserved'
  <2>1. /\ owed.c429 = Throttles(py.throttle) /\ owed.c410 = IF py.armed THEN 1 ELSE 0
        /\ py.throttle \in [RoutedOps -> 0..MaxCount]
    BY <1>1 DEF MockInv, FaultsConserved, Backend
  <2>2. CASE op \in RoutedOps
    <3>1. 0 \in 0..MaxCount
      BY MockAssumption
    <3>2. /\ py'.throttle = [py.throttle EXCEPT ![op] = 0] /\ ~py'.armed
          /\ Met(py, op) = py.throttle[op] /\ (MetSplit(py, op) <=> py.armed)
      BY <1>2, <1>9, <2>2 DEF Met, MetSplit
    <3>3. /\ Throttles(py'.throttle) = Throttles(py.throttle) - py.throttle[op]
          /\ py.throttle[op] \in Nat /\ Throttles(py.throttle) \in Nat
      <4>1. py.throttle[op] \in Nat
        BY <2>1, <2>2, MockAssumption
      <4>2. /\ Throttles(py.throttle) \in Nat
            /\ Throttles([py.throttle EXCEPT ![op] = 0])
                 = Throttles(py.throttle) - py.throttle[op] + 0
        BY <2>1, <2>2, <3>1, ThrottlesOff
      <4> QED
        BY <3>2, <4>1, <4>2
    <3>4. owed'.c429 = Throttles(py'.throttle) /\ owed'.c410 = 0
      BY <1>7, <1>9, <2>1, <3>2, <3>3
    <3> QED
      BY <1>9, <3>2, <3>4 DEF FaultsConserved
  <2>3. CASE op \notin RoutedOps
    <3>1. /\ py'.throttle = py.throttle /\ py'.armed = py.armed
          /\ Met(py, op) = 0 /\ ~MetSplit(py, op)
      BY <1>2, <1>9, <2>3 DEF Met, MetSplit
    <3>2. owed.c429 \in Nat /\ owed.c410 \in Nat
      BY DEF MockInv, TypeOK
    <3> QED
      BY <1>7, <1>9, <2>1, <3>1, <3>2 DEF FaultsConserved
  <2> QED
    BY <2>2, <2>3
<1>12. SameAnswers'
  <2>1. py'.db = jv'.db /\ (py'.docs = NoContainer <=> jv'.docs = NoContainer)
    BY <1>1, <1>5, <1>6 DEF Stand
  <2>2. CASE ~nulled /\ ~Nulls(c)
    <3>1. f.docs = jv.docs
      BY <1>1, <2>2 DEF MockInv, SameAnswers
    <3>2. Replied(p, j) /\ p.b.docs = j.b.docs
      BY <1>1, <2>2, <3>1
    <3> QED
      BY <1>5, <1>6, <1>7, <2>1, <3>2 DEF SameAnswers, Replied
  <2>3. CASE p.b.docs = NoContainer
    <3>1. op \notin RoutedOps \/ f.docs = NoContainer
      BY <1>1, <2>3 DEF Called
    <3>2. Replied(p, j) /\ j.b.docs = NoContainer
      BY <1>1, <2>3, <3>1 DEF Stand
    <3> QED
      BY <1>5, <1>6, <1>7, <2>1, <2>3, <3>2 DEF SameAnswers, Replied
  <2>4. CASE p.b.docs # NoContainer /\ (nulled \/ Nulls(c))
    <3>1. nulled'
      BY <1>7, <2>4
    <3> QED
      BY <2>1, <3>1 DEF SameAnswers
  <2> QED
    BY <2>2, <2>3, <2>4
<1>13. pyMeter'.ranges = (IF MetSplit(py, op) THEN 1 ELSE 0)
                          + (IF ReadsNow(f, c, Yes) THEN 1 ELSE 0)
  BY <1>1, <1>2, <1>7 DEF Called
<1>14. ReadsNow(f, c, Yes) => ~f.valid
  BY <1>1 DEF ReadsNow, Reads, Yes
<1>15. OneRefreshPerCall'
  BY <1>2, <1>9, <1>13, <1>14 DEF OneRefreshPerCall
<1>16. CacheInv' /\ OneForcedRefresh'
  <2> DEFINE met == MetSplit(py, op)
             reads == ReadsNow(f, c, Yes)
  <2>1. py'.valid <=> (f.valid \/ (Yes /\ ReadsNow(f, c, Yes)))
    BY <1>1, <1>5 DEF Called
  <2>2. py'.valid <=> py.valid \/ met \/ reads
    BY <1>2, <2>1 DEF Yes
  <2>3. reads => ~py.valid /\ ~met
    BY <1>2, <1>14
  <2>4. /\ forced \in Nat /\ split' = split /\ fed' = fed
        /\ forced' = forced + (IF met THEN 1 ELSE 0) + (IF reads THEN 1 ELSE 0)
    BY <1>7, <1>13 DEF MockInv, TypeOK
  <2>5. /\ met \/ reads => op \in RoutedOps /\ ~py'.armed
        /\ ~met => py'.armed = py.armed
        /\ met => py.armed
    <3>1. reads => op \in RoutedOps
      BY DEF ReadsNow, OnItems
    <3>2. /\ op \in RoutedOps => ~py'.armed /\ (met <=> py.armed)
          /\ op \notin RoutedOps => py'.armed = py.armed /\ ~met
      BY <1>2, <1>9 DEF MetSplit
    <3>3. py'.armed \in BOOLEAN /\ py.armed \in BOOLEAN
      BY <1>1, <1>5 DEF Backend, Backends
    <3> HIDE DEF met, reads
    <3> QED
      BY <3>1, <3>2, <3>3
  <2> HIDE DEF met, reads
  <2>6. /\ py.armed => split /\ forced = 0
        /\ ~py.valid => forced = 0 /\ ~fed
        /\ forced <= 1 /\ (split => (forced = 1 <=> ~py.armed))
        /\ fed /\ forced = 1 => split
    BY DEF MockInv, CacheInv, OneForcedRefresh
  <2>7. CASE met
    <3>1. forced' = 1 /\ split' /\ ~py'.armed /\ py'.valid
      BY <2>2, <2>3, <2>4, <2>5, <2>6, <2>7
    <3> QED
      BY <3>1 DEF CacheInv, OneForcedRefresh
  <2>8. CASE reads
    <3>1. forced' = 1 /\ ~fed' /\ ~py'.armed /\ py'.valid
      BY <2>2, <2>3, <2>4, <2>5, <2>6, <2>8
    <3> QED
      BY <3>1 DEF CacheInv, OneForcedRefresh
  <2>9. CASE ~met /\ ~reads
    <3>1. /\ forced' = forced /\ split' = split /\ fed' = fed
          /\ py'.armed = py.armed /\ (py'.valid <=> py.valid)
      BY <2>2, <2>4, <2>5, <2>9
    <3> QED
      BY <2>6, <3>1 DEF CacheInv, OneForcedRefresh
  <2> QED
    BY <2>7, <2>8, <2>9
<1>17. OnItems(f, c) <=> OnItems(jv, c)
  BY <1>1 DEF OnItems, Stand
<1>25. op = "create_container" => p.status = j.status
  BY <1>1 DEF RoutedOps, Replied
<1>18. /\ py'.touched <=> (py.touched \/ OnItems(f, c))
                          /\ ~(op = "create_container" /\ p.status = 201)
       /\ jv'.touched <=> (py.touched \/ OnItems(f, c))
                          /\ ~(op = "create_container" /\ p.status = 201)
       /\ pyMeter'.collection = (IF OnItems(f, c) /\ ~py.touched THEN 1 ELSE 0)
       /\ jvMeter'.collection = (IF OnItems(f, c) /\ ~py.touched THEN 1 ELSE 0)
       /\ op \in RoutedOps => (py'.docs = NoContainer <=> f.docs = NoContainer)
  <2>1. /\ p.b.touched <=> (f.touched \/ OnItems(f, c))
                            /\ ~(op = "create_container" /\ p.status = 201)
        /\ j.b.touched <=> (jv.touched \/ OnItems(jv, c))
                            /\ ~(op = "create_container" /\ j.status = 201)
        /\ p.b.meter.collection
             = f.meter.collection + (IF OnItems(f, c) /\ ~f.touched THEN 1 ELSE 0)
        /\ j.b.meter.collection
             = jv.meter.collection + (IF OnItems(jv, c) /\ ~jv.touched THEN 1 ELSE 0)
        /\ op \in RoutedOps => (p.b.docs = NoContainer <=> f.docs = NoContainer)
    BY <1>1 DEF Called
  <2>2. /\ f.touched = py.touched /\ jv.touched = py.touched
        /\ f.meter.collection = 0 /\ jv.meter.collection = 0
    BY <1>2, <1>3 DEF SameTouch, MockInv, TouchInv
  <2> QED
    BY <1>1, <1>5, <1>6, <1>7, <1>17, <1>25, <2>1, <2>2
<1>19. OnItems(f, c) => op # "create_container"
  BY DEF OnItems, RoutedOps
<1>20. TouchInv'
  BY <1>5, <1>6, <1>7, <1>18, <1>19 DEF MockInv, TouchInv, Backends
<1>21. CollectionReadOnce'
  BY <1>8, <1>18, <1>20, <1>19 DEF CollectionReadOnce, TouchInv, OnItems
<1>22. TypeOK'
  <2>1. Met(py, op) \in 0..MaxCount /\ 0 \in 0..MaxCount
    BY <1>1, MockAssumption DEF Met, Backend
  <2>2. pyMeter' \in Meters
    BY <1>4, <1>7, <1>9, <1>18, <2>1 DEF Meters, Counts
  <2>3. jvMeter' \in Meters
    BY <1>4, <1>7, <1>10, <1>18, <2>1 DEF Meters, Counts
  <2>4. owed' \in [c429 : Nat, c410 : 0..1]
    <3>1. Throttles(py'.throttle) \in Nat
      <4>1. "read_item" \in RoutedOps /\ py'.throttle \in [RoutedOps -> 0..MaxCount]
        BY <1>5 DEF RoutedOps, Backends
      <4> QED
        BY <2>1, <4>1, ThrottlesOff
    <3> QED
      BY <1>7, <1>11, <3>1 DEF FaultsConserved
  <2>5. /\ split' \in BOOLEAN /\ fed' \in BOOLEAN /\ quiet' \in BOOLEAN
        /\ looked' \in Nat
    BY <1>7, <1>20 DEF MockInv, TypeOK, TouchInv
  <2>6. forced' \in Nat
    BY <1>4, <1>7 DEF MockInv, TypeOK, Counts
  <2>7. nulled' \in BOOLEAN
    BY <1>7, Zenon
  <2> QED
    BY <1>5, <1>6, <2>2, <2>3, <2>4, <2>5, <2>6, <2>7 DEF TypeOK
<1> QED
  BY <1>11, <1>12, <1>15, <1>16, <1>20, <1>21, <1>22 DEF MockInv
-----------------------------------------------------------------------------
(* Every step.                                                             *)

LEMMA CallPosed ==
    ASSUME NEW op \in DOMAIN Profile, NEW id \in Ids, NEW pk \in Pks \cup {AnyPk},
           NEW field \in Pks, NEW cross \in BOOLEAN, NEW lenient \in BOOLEAN
    PROVE  LET c == Call(op, id, pk, field, cross, lenient)
           IN  /\ Posed(c) /\ c.op = op /\ c.id = id /\ c.pk = pk /\ c.field = field
               /\ c.lenient = lenient /\ c.new = id
BY DEF Call, Posed, Calls

LEMMA PlainPosed ==
    ASSUME NEW op \in DOMAIN Profile, NEW lenient \in BOOLEAN
    PROVE  LET c == Plain(op, lenient)
           IN  Posed(c) /\ c.op = op /\ c.lenient = lenient
<1>1. SomeId \in Ids /\ SomePk \in Pks
  BY MockAssumption DEF SomeId, SomePk
<1>2. FALSE \in BOOLEAN
  OBVIOUS
<1> QED
  BY <1>1, <1>2 DEF Plain, Call, Posed, Calls

\* A body, one without its id and one whose id is null.
Body(op, i, p)     == Call(op, i, AnyPk, p, FALSE, FALSE)
Nameless(op, i, p) == [Body(op, i, p) EXCEPT !.id = NoId]
Nulled(op, i, p)   == [Body(op, i, p) EXCEPT !.id = NullId]

\* A call that puts an item under an id.
Puts(c, op, id, p) ==
    Posed(c) /\ c.op = op /\ c.field = p /\ Key(Named(c, Yes)) = <<id, p>>

\* All three are a call that puts p with the given id; i is for one that lacks it.
PutCallOf(op, i, p, id) ==
    [op |-> op, id |-> id, pk |-> AnyPk, field |-> p, cross |-> No, lenient |-> No,
     new |-> i]

LEMMA BodiesAre ==
    ASSUME NEW op, NEW i, NEW p
    PROVE  /\ Body(op, i, p) = PutCallOf(op, i, p, i)
           /\ Nameless(op, i, p) = PutCallOf(op, i, p, NoId)
           /\ Nulled(op, i, p) = PutCallOf(op, i, p, NullId)
<1>1. Body(op, i, p) = PutCallOf(op, i, p, i)
  BY Zenon DEF Body, Call, No, PutCallOf
<1> QED
  BY <1>1 DEF Nameless, Nulled, PutCallOf

LEMMA BodyPuts ==
    ASSUME NEW op \in {"create_item", "upsert_item"}, NEW i \in Ids, NEW p \in Pks,
           NEW id \in Ids \cup {NoId}
    PROVE  Puts(PutCallOf(op, i, p, id), op, IF id = NoId THEN i ELSE id, p)
<1> DEFINE c == PutCallOf(op, i, p, id)
           d == Named(c, Yes)
<1>1. op \in DOMAIN Profile /\ No \in BOOLEAN /\ Yes \in BOOLEAN
  BY DEF Profile, No, Yes
<1>2. c \in Calls /\ c.op = op /\ c.field = p /\ c.pk = AnyPk /\ c.new = i /\ c.id = id
  BY <1>1 DEF Calls, PutCallOf
<1> HIDE DEF c
<1>3. LacksId(id, Yes) <=> id = NoId
  BY DEF LacksId, Yes
<1>4. d.id = (IF id = NoId THEN i ELSE id) /\ d.pk = AnyPk /\ d.field = p
  BY <1>1, <1>2, <1>3, NamedIs
<1>5. Posed(c)
  BY <1>2 DEF Posed
<1> HIDE DEF d
<1>6. Key(d) = <<IF id = NoId THEN i ELSE id, p>>
  BY <1>4 DEF Key
<1> QED
  BY <1>2, <1>5, <1>6 DEF Puts, c, d

LEMMA PutAsks ==
    ASSUME NEW op \in {"create_item", "upsert_item"}, NEW i \in Ids, NEW p \in Pks,
           PutCall(op, i, p)
    PROVE  \E id \in Ids : \E c : Puts(c, op, id, p) /\ Ask(c, <<op, id, p>>)
<1>1. NullId \in Ids /\ NoId \notin Ids
  BY MockAssumption
<1>2. \/ Ask(Body(op, i, p), <<op, i, p>>)
      \/ Ask(Nameless(op, i, p), <<op, i, p>>)
      \/ Ask(Nulled(op, i, p), <<op, NullId, p>>)
  BY Zenon DEF PutCall, Body, Nameless, Nulled
<1>3. Puts(PutCallOf(op, i, p, i), op, i, p)
  BY <1>1, BodyPuts
<1>4. Puts(PutCallOf(op, i, p, NoId), op, i, p)
  BY BodyPuts
<1>5. Puts(PutCallOf(op, i, p, NullId), op, NullId, p)
  BY <1>1, BodyPuts
<1> QED
  BY <1>1, <1>2, <1>3, <1>4, <1>5, BodiesAre

\* The names of the operations.
Ops == {"create_client", "create_database", "create_container", "create_item", "read_item",
        "replace_item", "upsert_item", "delete_item", "query_items", "delete_database"}

LEMMA OpsAre == DOMAIN Profile = Ops
BY DEF Profile, Ops

\* A call of Next is put to both mocks under the name of its operation.
LEMMA NextAsks ==
    ASSUME Next
    PROVE  \/ \E c \in Calls : \E name : Posed(c) /\ name[1] = c.op /\ Ask(c, name)
           \/ ReadFeedRanges \/ SplitOrMerge \/ ExpireCache
           \/ \E op \in ThrottledOps, n \in 1..MaxCount : Throttle(op, n)
<1> DEFINE Asks == \E c \in Calls : \E name : Posed(c) /\ name[1] = c.op /\ Ask(c, name)
<1>1. ASSUME NEW c, NEW name, Posed(c), name[1] = c.op, Ask(c, name) PROVE Asks
  BY <1>1 DEF Posed
<1> HIDE DEF Asks
<1>2. /\ Ops \subseteq DOMAIN Profile /\ SomeId \in Ids /\ SomePk \in Pks
      /\ No \in BOOLEAN
  BY OpsAre, MockAssumption DEF SomeId, SomePk, No
<1>3. ASSUME CreateClient PROVE Asks
  <2>1. Ask(Plain("create_client", No), <<"create_client">>)
    BY <1>3, Zenon DEF CreateClient, No
  <2>2. LET c == Plain("create_client", No)
        IN  Posed(c) /\ c.op = "create_client"
    BY <1>2, PlainPosed DEF Ops
  <2>3. <<"create_client">>[1] = "create_client"
    OBVIOUS
  <2> QED
    BY <1>1, <2>1, <2>2, <2>3
<1>4. ASSUME DeleteDatabase PROVE Asks
  <2>1. Ask(Plain("delete_database", No), <<"delete_database">>)
    BY <1>4, Zenon DEF DeleteDatabase, No
  <2>2. LET c == Plain("delete_database", No)
        IN  Posed(c) /\ c.op = "delete_database"
    BY <1>2, PlainPosed DEF Ops
  <2>3. <<"delete_database">>[1] = "delete_database"
    OBVIOUS
  <2> QED
    BY <1>1, <2>1, <2>2, <2>3
<1>5. ASSUME NEW lenient \in BOOLEAN, CreateDatabase(lenient) PROVE Asks
  BY <1>1, <1>2, <1>5, PlainPosed DEF CreateDatabase, Ops
<1>6. ASSUME NEW lenient \in BOOLEAN, CreateContainer(lenient) PROVE Asks
  BY <1>1, <1>2, <1>6, PlainPosed DEF CreateContainer, Ops
<1>7. ASSUME NEW p \in Pks \cup {AnyPk}, NEW cross \in BOOLEAN, QueryItems(p, cross)
      PROVE  Asks
  <2>1. Ask(Call("query_items", SomeId, p, SomePk, cross, No), <<"query_items", p>>)
    BY <1>7, Zenon DEF QueryItems, No
  <2>4. "query_items" \in DOMAIN Profile
    BY <1>2 DEF Ops
  <2>2. LET c == Call("query_items", SomeId, p, SomePk, cross, No)
        IN  Posed(c) /\ c.op = "query_items"
    BY <1>2, <2>4, CallPosed
  <2>3. <<"query_items", p>>[1] = "query_items"
    OBVIOUS
  <2> QED
    BY <1>1, <2>1, <2>2, <2>3
<1>8. ASSUME NEW op \in {"create_item", "upsert_item"}, NEW i \in Ids, NEW p \in Pks,
             PutCall(op, i, p)
      PROVE  Asks
  <2>1. PICK id \in Ids : \E c : Puts(c, op, id, p) /\ Ask(c, <<op, id, p>>)
    BY <1>8, PutAsks
  <2>2. <<op, id, p>>[1] = op
    OBVIOUS
  <2> QED
    BY <1>1, <2>1, <2>2 DEF Puts
<1>9. ASSUME NEW i \in Ids, NEW p \in Pks, ReadItem(i, p) PROVE Asks
  <2>1. Ask(Call("read_item", i, p, p, No, No), <<"read_item", i, p>>)
    BY <1>9, Zenon DEF ReadItem, No
  <2>2. LET c == Call("read_item", i, p, p, No, No)
        IN  Posed(c) /\ c.op = "read_item"
    BY <1>2, CallPosed DEF Ops
  <2>3. <<"read_item", i, p>>[1] = "read_item"
    OBVIOUS
  <2> QED
    BY <1>1, <2>1, <2>2, <2>3
<1>10. ASSUME NEW i \in Ids, NEW p \in Pks, DeleteItem(i, p) PROVE Asks
  <2>1. Ask(Call("delete_item", i, p, p, No, No), <<"delete_item", i, p>>)
    BY <1>10, Zenon DEF DeleteItem, No
  <2>2. LET c == Call("delete_item", i, p, p, No, No)
        IN  Posed(c) /\ c.op = "delete_item"
    BY <1>2, CallPosed DEF Ops
  <2>3. <<"delete_item", i, p>>[1] = "delete_item"
    OBVIOUS
  <2> QED
    BY <1>1, <2>1, <2>2, <2>3
<1>11. ASSUME NEW i \in Ids, NEW p \in Pks, NEW f \in Pks, ReplaceItem(i, p, f) PROVE Asks
  <2>1. Ask(Call("replace_item", i, p, f, No, No), <<"replace_item", i, p, f>>)
    BY <1>11, Zenon DEF ReplaceItem, No
  <2>2. LET c == Call("replace_item", i, p, f, No, No)
        IN  Posed(c) /\ c.op = "replace_item"
    BY <1>2, CallPosed DEF Ops
  <2>3. <<"replace_item", i, p, f>>[1] = "replace_item"
    OBVIOUS
  <2> QED
    BY <1>1, <2>1, <2>2, <2>3
<1> QED
  BY <1>3, <1>4, <1>5, <1>6, <1>7, <1>8, <1>9, <1>10, <1>11
     DEF Next, CreateItem, UpsertItem, Asks

\* The feed ranges are not of the profile, but read through the same cache.
LEMMA FeedRangesStep ==
    ASSUME MockInv, ReadFeedRanges
    PROVE  MockInv'
<1> DEFINE r == Refresh(py)
<1>1. py \in Backend /\ py.meter = NoCost
  BY BackendsTyped DEF MockInv, TypeOK
<1>2. /\ r \in Backend /\ SameStore(py, r) /\ SameTouch(py, r)
      /\ SameFaults(py, r) /\ SameAccount(py, r)
      /\ r.valid = TRUE /\ r.meter.ranges = py.meter.ranges + 1
  BY <1>1, RefreshIs
<1>3. /\ py' = Unmetered(r) /\ pyMeter' = r.meter /\ jvMeter' = NoCost
      /\ pyReply' = [call |-> <<"read_feed_ranges">>, status |-> 200, rows |-> FeedRanges]
      /\ jv' = jv /\ owed' = owed /\ looked' = looked /\ nulled' = nulled
      /\ split' = split /\ forced' = forced
  BY DEF ReadFeedRanges
<1>4. fed' \in BOOLEAN /\ quiet' \in BOOLEAN /\ (fed' => fed \/ forced = 0)
  BY Zenon DEF ReadFeedRanges
<1> HIDE DEF r
<1>5. /\ r.meter \in Counts /\ r.meter.ranges = 1 /\ r.meter.account = 0
      /\ r.meter.collection = 0 /\ r.meter.retries = 0 /\ r.meter.c429 = 0
      /\ r.meter.c410 = 0
  BY <1>1, <1>2, MeterTyped DEF SameTouch, SameFaults, SameAccount, NoCost
<1>6. /\ py' \in Backends /\ py'.db = py.db /\ py'.docs = py.docs
      /\ py'.touched = py.touched /\ py'.valid = TRUE
      /\ py'.armed = py.armed /\ py'.throttle = py.throttle
  BY <1>2, <1>3, UnmeteredIs DEF SameStore, SameTouch, SameFaults
<1>7. 0 \in 0..MaxCount
  BY MockAssumption
<1>8. /\ NoCost \in Meters /\ NoCost.collection = 0
  BY <1>7 DEF NoCost, Meters
<1>9. TypeOK'
  <2>1. pyMeter' \in Meters
    BY <1>3, <1>5, <1>7 DEF Counts, Meters
  <2> QED
    BY <1>3, <1>4, <1>6, <1>8, <2>1 DEF MockInv, TypeOK
<1>10. pyReply'.call[1] = "read_feed_ranges"
  BY <1>3
<1>11. ~Routed(pyReply')
  BY <1>10 DEF Routed, RoutedOps
<1>12. SameAnswers' /\ TouchInv'
  BY <1>3, <1>6, <1>10 DEF MockInv, SameAnswers, TouchInv
<1>15. CacheInv' /\ OneForcedRefresh'
  BY <1>3, <1>4, <1>6 DEF MockInv, CacheInv, OneForcedRefresh
<1>13. FaultsConserved' /\ OneRefreshPerCall'
  BY <1>3, <1>5, <1>6 DEF MockInv, FaultsConserved, OneRefreshPerCall
<1>14. CollectionReadOnce'
  BY <1>3, <1>5, <1>6, <1>8, <1>11 DEF MockInv, CollectionReadOnce
<1> QED
  BY <1>9, <1>12, <1>13, <1>14, <1>15 DEF MockInv

\* What a control event leaves alone, and what may be owed after it.
LEMMA ControlStep ==
    ASSUME MockInv, NEW b \in Backends, Control(b), SameStore(py, b),
           b.touched = py.touched, CacheInv', OneForcedRefresh',
           split' \in BOOLEAN, forced' \in Nat, fed' \in BOOLEAN,
           owed' \in [c429 : Nat, c410 : 0..1], owed'.c429 = Throttles(b.throttle),
           owed'.c410 = IF b.armed THEN 1 ELSE 0
    PROVE  MockInv'
<1>1. /\ py' = b /\ quiet' \in BOOLEAN /\ jv' = jv /\ looked' = looked
      /\ nulled' = nulled
      /\ pyReply' = pyReply /\ jvReply' = jvReply
      /\ pyMeter' = pyMeter /\ jvMeter' = jvMeter
  BY DEF Control, replies, meters
<1>2. TypeOK'
  BY <1>1 DEF MockInv, TypeOK
<1>3. SameAnswers' /\ TouchInv'
  BY <1>1 DEF MockInv, SameAnswers, TouchInv, SameStore
<1>4. FaultsConserved' /\ OneRefreshPerCall'
  BY <1>1 DEF MockInv, FaultsConserved, OneRefreshPerCall
<1>5. CollectionReadOnce'
  BY <1>1 DEF MockInv, CollectionReadOnce, SameStore, Routed
<1> QED
  BY <1>1, <1>2, <1>3, <1>4, <1>5 DEF MockInv

LEMMA SplitStep ==
    ASSUME MockInv, SplitOrMerge
    PROVE  MockInv'
<1> DEFINE l == [py EXCEPT !.valid = FALSE]
           b == [l EXCEPT !.armed = TRUE]
<1>1. /\ py \in Backends /\ owed \in [c429 : Nat, c410 : 0..1]
      /\ owed.c429 = Throttles(py.throttle)
  BY DEF MockInv, TypeOK, FaultsConserved
<1>2. Control(b)
  BY <1>1, Zenon DEF SplitOrMerge
<1>3. /\ owed' = [owed EXCEPT !.c410 = 1] /\ py' = b
      /\ split' = TRUE /\ forced' = 0 /\ fed' = FALSE
  BY <1>2 DEF SplitOrMerge, Stale, Control
<1>4. /\ l \in Backends /\ l.db = py.db /\ l.docs = py.docs
      /\ l.touched = py.touched /\ l.throttle = py.throttle
  BY <1>1 DEF Backends
<1>5. /\ b \in Backends /\ b.db = l.db /\ b.docs = l.docs
      /\ b.touched = l.touched /\ b.throttle = l.throttle /\ b.armed = TRUE
  BY <1>4 DEF Backends
<1> HIDE DEF l, b
<1>6. CacheInv' /\ OneForcedRefresh'
  BY <1>3, <1>5 DEF CacheInv, OneForcedRefresh
<1>7. /\ owed' \in [c429 : Nat, c410 : 0..1]
      /\ owed'.c429 = Throttles(b.throttle) /\ owed'.c410 = 1
  BY <1>1, <1>3, <1>4, <1>5
<1>8. SameStore(py, b) /\ b.touched = py.touched /\ (b.armed <=> TRUE)
  BY <1>4, <1>5 DEF SameStore
<1>9. split' \in BOOLEAN /\ forced' \in Nat /\ fed' \in BOOLEAN
  BY <1>3
<1> QED
  BY <1>2, <1>5, <1>6, <1>7, <1>8, <1>9, ControlStep

LEMMA ExpireStep ==
    ASSUME MockInv, ExpireCache
    PROVE  MockInv'
<1> DEFINE b == [py EXCEPT !.valid = FALSE]
<1>1. /\ py \in Backends /\ owed \in [c429 : Nat, c410 : 0..1]
      /\ owed.c429 = Throttles(py.throttle) /\ owed.c410 = IF py.armed THEN 1 ELSE 0
  BY DEF MockInv, TypeOK, FaultsConserved
<1>2. /\ Control(b) /\ owed' = owed /\ py' = b
      /\ split' = py.armed /\ forced' = 0 /\ fed' = FALSE
  BY DEF ExpireCache, Stale, Control
<1>3. /\ b \in Backends /\ b.db = py.db /\ b.docs = py.docs /\ b.armed = py.armed
      /\ b.touched = py.touched /\ b.throttle = py.throttle
  BY <1>1 DEF Backends
<1> HIDE DEF b
<1>4. split' \in BOOLEAN
  BY <1>1, <1>2 DEF Backends
<1>5. CacheInv' /\ OneForcedRefresh'
  BY <1>1, <1>2, <1>3 DEF CacheInv, OneForcedRefresh, Backends
<1> QED
  BY <1>1, <1>2, <1>3, <1>4, <1>5, ControlStep DEF SameStore

\* A throttle takes back what its operation still had.
LEMMA ThrottleStep ==
    ASSUME MockInv, NEW op \in ThrottledOps, NEW n \in 1..MaxCount, Throttle(op, n)
    PROVE  MockInv'
<1> DEFINE t == [py.throttle EXCEPT ![op] = n]
           b == [py EXCEPT !.throttle = t]
<1>1. /\ py \in Backends /\ owed \in [c429 : Nat, c410 : 0..1]
      /\ owed.c429 = Throttles(py.throttle) /\ owed.c410 = IF py.armed THEN 1 ELSE 0
  BY DEF MockInv, TypeOK, FaultsConserved
<1>2. op \in RoutedOps /\ n \in 0..MaxCount /\ n \in Nat
  BY MockAssumption
<1>3. t \in [RoutedOps -> 0..MaxCount] /\ py.throttle \in [RoutedOps -> 0..MaxCount]
  BY <1>1, <1>2 DEF Backends
<1>4. /\ Throttles(py.throttle) \in Nat /\ Throttles(t) \in Nat /\ py.throttle[op] \in Nat
      /\ Throttles(t) = Throttles(py.throttle) - py.throttle[op] + n
  BY <1>2, <1>3, ThrottlesOff, MockAssumption
<1>5. Control(b) /\ py' = b /\ split' = split /\ forced' = forced /\ fed' = fed
  BY <1>1 DEF Throttle, Backends, Control, stale
<1>6. owed' = [owed EXCEPT !.c429 = @ + n - py.throttle[op]]
  BY DEF Throttle
<1> HIDE DEF t
<1>7. /\ owed' \in [c429 : Nat, c410 : 0..1]
      /\ owed'.c429 = Throttles(t) /\ owed'.c410 = owed.c410
  <2>1. owed.c429 + n - py.throttle[op] = Throttles(t)
    BY <1>1, <1>2, <1>4
  <2> QED
    BY <1>1, <1>4, <1>6, <2>1
<1>8. /\ b \in Backends /\ b.db = py.db /\ b.docs = py.docs /\ b.armed = py.armed
      /\ b.touched = py.touched /\ b.throttle = t /\ b.valid = py.valid
  BY <1>1, <1>3 DEF Backends
<1> HIDE DEF b
<1>9. split \in BOOLEAN /\ forced \in Nat /\ fed \in BOOLEAN
  BY DEF MockInv, TypeOK
<1>10. CacheInv' /\ OneForcedRefresh'
  BY <1>5, <1>8 DEF MockInv, CacheInv, OneForcedRefresh
<1> QED
  BY <1>1, <1>5, <1>7, <1>8, <1>9, <1>10, ControlStep DEF SameStore

\* A step that leaves the variables alone.
LEMMA StutterStep ==
    ASSUME MockInv, UNCHANGED vars
    PROVE  MockInv'
<1>1. /\ py' = py /\ jv' = jv /\ pyReply' = pyReply /\ jvReply' = jvReply
      /\ pyMeter' = pyMeter /\ jvMeter' = jvMeter
      /\ owed' = owed /\ looked' = looked /\ quiet' = quiet /\ nulled' = nulled
      /\ split' = split /\ forced' = forced /\ fed' = fed
  BY DEF vars, replies, meters, ghosts, stale
<1> QED
  BY <1>1 DEF MockInv, TypeOK, SameAnswers, FaultsConserved, OneForcedRefresh,
     OneRefreshPerCall, CollectionReadOnce, TouchInv, CacheInv, Routed

LEMMA NextMockInv ==
    ASSUME MockInv, [Next]_vars
    PROVE  MockInv'
<1>1. CASE \E c \in Calls : \E name : Posed(c) /\ name[1] = c.op /\ Ask(c, name)
  BY <1>1, AskStep
<1>2. CASE ReadFeedRanges
  BY <1>2, FeedRangesStep
<1>3. CASE SplitOrMerge
  BY <1>3, SplitStep
<1>4. CASE ExpireCache
  BY <1>4, ExpireStep
<1>5. CASE \E op \in ThrottledOps, n \in 1..MaxCount : Throttle(op, n)
  BY <1>5, ThrottleStep
<1>6. CASE UNCHANGED vars
  BY <1>6, StutterStep
<1> QED
  BY <1>1, <1>2, <1>3, <1>4, <1>5, <1>6, NextAsks
-----------------------------------------------------------------------------
\* The inductive invariant: the five properties below with their types and the
\* two facts that make them inductive, on the container's metadata and on the
\* cache.
THEOREM MockInvariant == Spec => []MockInv
<1>1. MockInv /\ [Next]_vars => MockInv'
  BY NextMockInv
<1> QED
  BY InitMockInv, <1>1, PTL DEF Spec

\* Both languages have the same database and container, and until a null id is
\* put hold the same items and give the same answer to every operation of the
\* profile, whatever throttles, splits and expiries are thrown at Python's.
THEOREM AnswersAlike == Spec => []SameAnswers
<1>1. MockInv => SameAnswers
  BY DEF MockInv
<1> QED
  BY MockInvariant, <1>1, PTL

\* No 429 or 410 of the timeline is lost or met twice.
THEOREM FaultsKept == Spec => []FaultsConserved
<1>1. MockInv => FaultsConserved
  BY DEF MockInv
<1> QED
  BY MockInvariant, <1>1, PTL

\* A call reads the PKRanges once at most, and once if it met a 410.
THEOREM RefreshedOnce == Spec => []OneRefreshPerCall
<1>1. MockInv => OneRefreshPerCall
  BY DEF MockInv
<1> QED
  BY MockInvariant, <1>1, PTL

\* The metadata of a container is read once, by the first call on its items.
THEOREM MetadataOnce == Spec => []CollectionReadOnce
<1>1. MockInv => CollectionReadOnce
  BY DEF MockInv
<1> QED
  BY MockInvariant, <1>1, PTL

\* Between two times that the PKRange cache goes stale, the calls of the profile
\* refresh it once at most, and after a split once exactly, when its 410 is met.
THEOREM RefreshForcedOnce == Spec => []OneForcedRefresh
<1>1. MockInv => OneForcedRefresh
  BY DEF MockInv
<1> QED
  BY MockInvariant, <1>1, PTL
-----------------------------------------------------------------------------
(* The document store is implemented: a call to both mocks is the store's    *)
(* operation of the same name, and a control event changes nothing of it.    *)

\* The answer the store gives: its state, its call, its status and its rows.
Told(name, status, rows, docs) ==
    /\ pyReply' = [call |-> name, status |-> status, rows |-> rows]
    /\ py'.docs = docs

\* What a call is told, given what the interpreter makes of it from f on.
Tells(c, name, f) ==
    /\ f \in Backend /\ f.db = py.db /\ f.docs = py.docs /\ f.db \in BOOLEAN
    /\ py'.db = Execute(f, c, Yes).b.db /\ py'.db \in BOOLEAN
    /\ \A status, rows, docs : Answers(Execute(f, c, Yes), status, rows, docs)
                                 => Told(name, status, rows, docs)

LEMMA AskTells ==
    ASSUME MockInv, NEW c, Posed(c), NEW name, Ask(c, name)
    PROVE  /\ Tells(c, name, Faulted(py, c.op))
           /\ c \in Calls /\ Yes \in BOOLEAN
<1> DEFINE f == Faulted(py, c.op)
           p == ByPython(c)
           j == ByJava(c)
<1>1. /\ Both(c, name, f, p, j) /\ f \in Backend /\ f.db = py.db /\ f.docs = py.docs
      /\ Called(f, c, Yes, p)
  BY AskBoth
<1>3. p = Execute(f, c, Yes)
  BY DEF ByPython
<1> HIDE DEF f, p, j
<1>4. /\ py' = Unmetered(p.b)
      /\ pyReply' = [call |-> name, status |-> p.status, rows |-> p.rows]
  BY <1>1 DEF Both
<1>5. py'.db = p.b.db /\ py'.docs = p.b.docs /\ py'.db \in BOOLEAN
  BY <1>1, <1>4, UnmeteredIs DEF Called, SameStore, Backends
<1>6. \A status, rows, docs : Answers(p, status, rows, docs) => Told(name, status, rows, docs)
  BY <1>4, <1>5 DEF Answers, Told
<1>7. f.db \in BOOLEAN
  BY <1>1 DEF Backend
<1> QED
  BY <1>1, <1>3, <1>5, <1>6, <1>7 DEF f, Tells, Posed, Yes

\* An operation on items answers 404 without a container.
LEMMA NoContainerTold ==
    ASSUME MockInv, NEW c, Posed(c), NEW name, Ask(c, name), c.op \in RoutedOps,
           py.docs = NoContainer
    PROVE  Told(name, 404, {}, py.docs) /\ py'.db = py.db
<1> DEFINE f == Faulted(py, c.op)
<1>1. Tells(c, name, f) /\ c \in Calls /\ Yes \in BOOLEAN
  BY AskTells
<1> HIDE DEF f
<1>2. Answers(Execute(f, c, Yes), 404, {}, f.docs) /\ Execute(f, c, Yes).b.db = f.db
  BY <1>1, NoContainerAnswer DEF Tells
<1> QED
  BY <1>1, <1>2 DEF Tells

\* Its forms of answer.
LEMMA ToldTell ==
    ASSUME NEW name, NEW status, NEW docs, Told(name, status, {}, docs)
    PROVE  Documents!Tell(name, status) /\ py'.docs = docs
BY DEF Told, Documents!Tell, Documents!Find

LEMMA ToldReply ==
    ASSUME NEW name, NEW status, Told(name, status, {}, py.docs), py'.db = py.db
    PROVE  Documents!Reply(name, status)
BY ToldTell DEF Documents!Reply

LEMMA ToldStore ==
    ASSUME NEW name, NEW status, NEW k, NEW v, py'.db = py.db,
           Told(name, status, {}, [py.docs EXCEPT ![k] = v])
    PROVE  Documents!Store(name, k, v, status)
BY ToldTell DEF Documents!Store

\* The operations without an item.
LEMMA PlainNamed ==
    ASSUME NEW op \in {"create_client", "create_database", "create_container",
                       "delete_database"}, NEW lenient \in BOOLEAN
    PROVE  LET c == Plain(op, lenient)
           IN  Posed(c) /\ c.op = op /\ c.lenient = lenient
<1>1. op \in DOMAIN Profile
  BY OpsAre DEF Ops
<1> QED
  BY <1>1, PlainPosed

LEMMA CreateClientStored ==
    ASSUME MockInv, CreateClient PROVE Documents!CreateClient
<1> DEFINE c == Plain("create_client", No)
           name == <<"create_client">>
           f == Faulted(py, c.op)
<1>1. Posed(c) /\ c.op = "create_client"
  BY PlainNamed DEF No
<1>2. Ask(c, name)
  BY Zenon DEF CreateClient, No
<1> HIDE DEF c
<1>3. Tells(c, name, f) /\ c \in Calls /\ Yes \in BOOLEAN
  BY <1>1, <1>2, AskTells
<1> HIDE DEF f
<1>4. Told(name, 200, {}, py.docs) /\ py'.db = py.db
  BY <1>1, <1>3, CreateClientAnswer DEF Tells
<1> QED
  BY <1>4, ToldReply DEF Documents!CreateClient

LEMMA CreateDatabaseStored ==
    ASSUME MockInv, NEW lenient \in BOOLEAN, CreateDatabase(lenient)
    PROVE  Documents!CreateDatabase(lenient)
<1> DEFINE c == Plain("create_database", lenient)
           name == <<"create_database", lenient>>
           f == Faulted(py, c.op)
<1>1. Posed(c) /\ c.op = "create_database" /\ c.lenient = lenient
  BY PlainNamed
<1>2. Ask(c, name)
  BY Zenon DEF CreateDatabase
<1> HIDE DEF c
<1> HIDE DEF name
<1>3. Tells(c, name, f) /\ c \in Calls /\ Yes \in BOOLEAN
  BY <1>1, <1>2, AskTells
<1> HIDE DEF f
<1>4. /\ py.db => Told(name, IF lenient THEN 200 ELSE 409, {}, py.docs)
      /\ ~py.db => Told(name, 201, {}, py.docs)
      /\ py'.db /\ py'.db \in BOOLEAN /\ py.db \in BOOLEAN
  BY <1>1, <1>3, CreateDatabaseAnswer DEF Tells
<1>7. py'.db = TRUE /\ (py.db => py.db = TRUE)
  BY <1>4
<1>5. CASE py.db
  <2>1. Documents!Reply(name, IF lenient THEN 200 ELSE 409)
    BY <1>4, <1>5, <1>7, ToldReply
  <2> QED
    BY <1>5, <2>1 DEF Documents!CreateDatabase, name
<1>6. CASE ~py.db
  <2>1. Documents!Tell(name, 201) /\ py'.docs = py.docs
    BY <1>4, <1>6, ToldTell
  <2> QED
    BY <1>6, <1>7, <2>1 DEF Documents!CreateDatabase, name
<1> QED
  BY <1>5, <1>6

LEMMA DeleteDatabaseStored ==
    ASSUME MockInv, DeleteDatabase
    PROVE  Documents!DeleteDatabase
<1> DEFINE c == Plain("delete_database", No)
           name == <<"delete_database">>
           f == Faulted(py, c.op)
<1>1. Posed(c) /\ c.op = "delete_database"
  BY PlainNamed DEF No
<1>2. Ask(c, name)
  BY Zenon DEF DeleteDatabase, No
<1> HIDE DEF c
<1> HIDE DEF name
<1>3. Tells(c, name, f) /\ c \in Calls /\ Yes \in BOOLEAN
  BY <1>1, <1>2, AskTells
<1> HIDE DEF f
<1>4. /\ ~py.db => Told(name, 404, {}, py.docs)
      /\ py.db => Told(name, 204, {}, NoContainer)
      /\ ~py'.db /\ py'.db \in BOOLEAN /\ py.db \in BOOLEAN
  <2>1. ~Execute(f, c, Yes).b.db
    BY <1>1, <1>3, DeleteDatabaseAnswer DEF Tells
  <2> QED
    BY <1>1, <1>3, <2>1, DeleteDatabaseAnswer, ZenonT(60) DEF Tells
<1>7. py'.db = FALSE /\ (~py.db => py.db = FALSE)
  BY <1>4
<1>5. CASE ~py.db
  <2>1. Documents!Reply(name, 404)
    BY <1>4, <1>5, <1>7, ToldReply
  <2> QED
    BY <1>5, <2>1 DEF Documents!DeleteDatabase, name
<1>6. CASE py.db
  <2>1. Documents!Tell(name, 204) /\ py'.docs = NoContainer
    BY <1>4, <1>6, ToldTell
  <2> QED
    BY <1>6, <1>7, <2>1 DEF Documents!DeleteDatabase, name
<1> QED
  BY <1>5, <1>6

LEMMA CreateContainerStored ==
    ASSUME MockInv, NEW lenient \in BOOLEAN, CreateContainer(lenient)
    PROVE  Documents!CreateContainer(lenient)
<1> DEFINE c == Plain("create_container", lenient)
           name == <<"create_container", lenient>>
           f == Faulted(py, c.op)
<1>1. Posed(c) /\ c.op = "create_container" /\ c.lenient = lenient
  BY PlainNamed
<1>2. Ask(c, name)
  BY Zenon DEF CreateContainer
<1> HIDE DEF c
<1> HIDE DEF name
<1>3. Tells(c, name, f) /\ c \in Calls /\ Yes \in BOOLEAN
  BY <1>1, <1>2, AskTells
<1> HIDE DEF f
<1>4. /\ ~py.db => Told(name, 404, {}, py.docs)
      /\ py.db /\ py.docs # NoContainer =>
            Told(name, IF lenient THEN 200 ELSE 409, {}, py.docs)
      /\ py.db /\ py.docs = NoContainer => Told(name, 201, {}, [k \in Keys |-> Absent])
      /\ py'.db = py.db
  BY <1>1, <1>3, CreateContainerAnswer DEF Tells
<1>5. CASE ~py.db
  <2>1. Documents!Reply(name, 404)
    BY <1>4, <1>5, ToldReply
  <2> QED
    BY <1>5, <2>1 DEF Documents!CreateContainer, name
<1>6. CASE py.db /\ py.docs # NoContainer
  <2>1. Documents!Reply(name, IF lenient THEN 200 ELSE 409)
    BY <1>4, <1>6, ToldReply
  <2> QED
    BY <1>6, <2>1 DEF Documents!CreateContainer, name
<1>7. CASE py.db /\ py.docs = NoContainer
  <2>1. Documents!Tell(name, 201) /\ py'.docs = [k \in Keys |-> Absent]
    BY <1>4, <1>7, ToldTell
  <2> QED
    BY <1>4, <1>7, <2>1 DEF Documents!CreateContainer, Documents!Keys, Keys, name
<1> QED
  BY <1>5, <1>6, <1>7

\* The operations on an item.
LEMMA ItemNamed ==
    ASSUME NEW op \in {"read_item", "replace_item", "delete_item"},
           NEW i \in Ids, NEW p \in Pks, NEW v \in Pks
    PROVE  LET c == Call(op, i, p, v, No, No)
           IN  /\ Posed(c) /\ c.op = op /\ c.id \in Ids /\ c.field = v
               /\ Key(c) = <<i, p>>
<1>1. op \in DOMAIN Profile /\ p # AnyPk /\ No \in BOOLEAN
  BY OpsAre, MockAssumption DEF Ops, No
<1> QED
  BY <1>1, CallPosed DEF Key

LEMMA ReadItemStored ==
    ASSUME MockInv, NEW i \in Ids, NEW p \in Pks, ReadItem(i, p)
    PROVE  Documents!ReadItem(i, p)
<1> DEFINE c == Call("read_item", i, p, p, No, No)
           name == <<"read_item", i, p>>
           f == Faulted(py, c.op)
<1>1. Posed(c) /\ c.op = "read_item" /\ Key(c) = <<i, p>>
  BY ItemNamed DEF Ops
<1>2. Ask(c, name)
  BY Zenon DEF ReadItem, No
<1> HIDE DEF c
<1> HIDE DEF name
<1>3. Tells(c, name, f) /\ c \in Calls /\ Yes \in BOOLEAN
  BY <1>1, <1>2, AskTells
<1> HIDE DEF f
<1>4. CASE py.docs = NoContainer
  <2>1. Told(name, 404, {}, py.docs) /\ py'.db = py.db
    BY <1>1, <1>2, <1>4, NoContainerTold DEF RoutedOps
  <2>2. Documents!Reply(name, 404)
    BY <2>1, ToldReply
  <2> QED
    BY <1>4, <2>2 DEF Documents!ReadItem, Documents!NoSuch, name
<1>5. CASE py.docs # NoContainer
  <2>1. /\ py.docs[<<i, p>>] = Absent => Told(name, 404, {}, py.docs)
        /\ py.docs[<<i, p>>] # Absent => Told(name, 200, {}, py.docs)
        /\ py'.db = py.db
    BY <1>1, <1>3, <1>5, ReadItemAnswer DEF Tells
  <2>2. /\ py.docs[<<i, p>>] = Absent => Documents!Reply(name, 404)
        /\ py.docs[<<i, p>>] # Absent => Documents!Reply(name, 200)
    BY <2>1, ToldReply
  <2> QED
    BY <1>5, <2>2 DEF Documents!ReadItem, Documents!NoItem, Documents!HasItem, name
<1> QED
  BY <1>4, <1>5

LEMMA ReplaceItemStored ==
    ASSUME MockInv, NEW i \in Ids, NEW p \in Pks, NEW v \in Pks, ReplaceItem(i, p, v)
    PROVE  Documents!ReplaceItem(i, p, v)
<1> DEFINE c == Call("replace_item", i, p, v, No, No)
           name == <<"replace_item", i, p, v>>
           f == Faulted(py, c.op)
<1>1. /\ Posed(c) /\ c.op = "replace_item" /\ Key(c) = <<i, p>>
      /\ c.field = v /\ c.id \in Ids
  BY ItemNamed DEF Ops
<1>2. Ask(c, name)
  BY Zenon DEF ReplaceItem, No
<1> HIDE DEF c
<1> HIDE DEF name
<1>3. Tells(c, name, f) /\ c \in Calls /\ Yes \in BOOLEAN
  BY <1>1, <1>2, AskTells
<1> HIDE DEF f
<1>4. CASE py.docs = NoContainer
  <2>1. Told(name, 404, {}, py.docs) /\ py'.db = py.db
    BY <1>1, <1>2, <1>4, NoContainerTold DEF RoutedOps
  <2>2. Documents!Reply(name, 404)
    BY <2>1, ToldReply
  <2> QED
    BY <1>4, <2>2 DEF Documents!ReplaceItem, Documents!NoSuch, name
<1>5. CASE py.docs # NoContainer
  <2>1. /\ py.docs[<<i, p>>] = Absent => Told(name, 404, {}, py.docs)
        /\ py.docs[<<i, p>>] # Absent =>
                Told(name, 200, {}, [py.docs EXCEPT ![<<i, p>>] = v])
        /\ py'.db = py.db
    BY <1>1, <1>3, <1>5, ReplaceItemAnswer DEF Tells
  <2>2. /\ py.docs[<<i, p>>] = Absent => Documents!Reply(name, 404)
        /\ py.docs[<<i, p>>] # Absent => Documents!Store(name, <<i, p>>, v, 200)
    BY <2>1, ToldReply, ToldStore
  <2> QED
    BY <1>5, <2>2 DEF Documents!ReplaceItem, Documents!NoItem, Documents!HasItem, name
<1> QED
  BY <1>4, <1>5

LEMMA DeleteItemStored ==
    ASSUME MockInv, NEW i \in Ids, NEW p \in Pks, DeleteItem(i, p)
    PROVE  Documents!DeleteItem(i, p)
<1> DEFINE c == Call("delete_item", i, p, p, No, No)
           name == <<"delete_item", i, p>>
           f == Faulted(py, c.op)
<1>1. Posed(c) /\ c.op = "delete_item" /\ Key(c) = <<i, p>> /\ c.id \in Ids
  BY ItemNamed DEF Ops
<1>2. Ask(c, name)
  BY Zenon DEF DeleteItem, No
<1> HIDE DEF c
<1> HIDE DEF name
<1>3. Tells(c, name, f) /\ c \in Calls /\ Yes \in BOOLEAN
  BY <1>1, <1>2, AskTells
<1> HIDE DEF f
<1>4. CASE py.docs = NoContainer
  <2>1. Told(name, 404, {}, py.docs) /\ py'.db = py.db
    BY <1>1, <1>2, <1>4, NoContainerTold DEF RoutedOps
  <2>2. Documents!Reply(name, 404)
    BY <2>1, ToldReply
  <2> QED
    BY <1>4, <2>2 DEF Documents!DeleteItem, Documents!NoSuch, name
<1>5. CASE py.docs # NoContainer
  <2>1. /\ py.docs[<<i, p>>] = Absent => Told(name, 404, {}, py.docs)
        /\ py.docs[<<i, p>>] # Absent =>
                Told(name, 204, {}, [py.docs EXCEPT ![<<i, p>>] = Absent])
        /\ py'.db = py.db
    BY <1>1, <1>3, <1>5, DeleteItemAnswer DEF Tells
  <2>2. /\ py.docs[<<i, p>>] = Absent => Documents!Reply(name, 404)
        /\ py.docs[<<i, p>>] # Absent => Documents!Store(name, <<i, p>>, Absent, 204)
    BY <2>1, ToldReply, ToldStore
  <2> QED
    BY <1>5, <2>2 DEF Documents!DeleteItem, Documents!NoItem, Documents!HasItem, name
<1> QED
  BY <1>4, <1>5

LEMMA CreateItemStored ==
    ASSUME MockInv, NEW i \in Ids, NEW p \in Pks, CreateItem(i, p)
    PROVE  \E id \in Ids : Documents!CreateItem(id, p)
<1> DEFINE op == "create_item"
<1>7. PICK id \in Ids : \E c : Puts(c, op, id, p) /\ Ask(c, <<op, id, p>>)
  BY PutAsks DEF CreateItem
<1> DEFINE name == <<op, id, p>>
<1>6. PICK c : Puts(c, op, id, p) /\ Ask(c, name)
  BY <1>7
<1> DEFINE f == Faulted(py, c.op)
           k == Key(Named(c, Yes))
<1>1. Posed(c) /\ c.op = op /\ c.field = p /\ k = <<id, p>>
  BY <1>6 DEF Puts
<1> HIDE DEF name
<1>3. Tells(c, name, f) /\ c \in Calls /\ Yes \in BOOLEAN
  BY <1>1, <1>6, AskTells
<1> HIDE DEF f
<1>4. CASE py.docs = NoContainer
  <2>1. Told(name, 404, {}, py.docs) /\ py'.db = py.db
    BY <1>1, <1>4, <1>6, NoContainerTold DEF RoutedOps
  <2>2. Documents!Reply(name, 404)
    BY <2>1, ToldReply
  <2> QED
    BY <1>4, <2>2 DEF Documents!CreateItem, Documents!NoSuch, name
<1>5. CASE py.docs # NoContainer
  <2>1. /\ py.docs[<<id, p>>] # Absent => Told(name, 409, {}, py.docs)
        /\ py.docs[<<id, p>>] = Absent =>
                Told(name, 201, {}, [py.docs EXCEPT ![<<id, p>>] = p])
        /\ py'.db = py.db
    BY <1>1, <1>3, <1>5, CreateItemAnswer DEF Tells
  <2>2. /\ py.docs[<<id, p>>] # Absent => Documents!Reply(name, 409)
        /\ py.docs[<<id, p>>] = Absent => Documents!Store(name, <<id, p>>, p, 201)
    BY <2>1, ToldReply, ToldStore
  <2> QED
    BY <1>5, <2>2 DEF Documents!CreateItem, Documents!HasItem, name
<1> QED
  BY <1>4, <1>5

LEMMA UpsertItemStored ==
    ASSUME MockInv, NEW i \in Ids, NEW p \in Pks, UpsertItem(i, p)
    PROVE  \E id \in Ids : Documents!UpsertItem(id, p)
<1> DEFINE op == "upsert_item"
<1>7. PICK id \in Ids : \E c : Puts(c, op, id, p) /\ Ask(c, <<op, id, p>>)
  BY PutAsks DEF UpsertItem
<1> DEFINE name == <<op, id, p>>
<1>6. PICK c : Puts(c, op, id, p) /\ Ask(c, name)
  BY <1>7
<1> DEFINE f == Faulted(py, c.op)
           k == Key(Named(c, Yes))
<1>1. Posed(c) /\ c.op = op /\ c.field = p /\ k = <<id, p>>
  BY <1>6 DEF Puts
<1> HIDE DEF name
<1>3. Tells(c, name, f) /\ c \in Calls /\ Yes \in BOOLEAN
  BY <1>1, <1>6, AskTells
<1> HIDE DEF f
<1>4. CASE py.docs = NoContainer
  <2>1. Told(name, 404, {}, py.docs) /\ py'.db = py.db
    BY <1>1, <1>4, <1>6, NoContainerTold DEF RoutedOps
  <2>2. Documents!Reply(name, 404)
    BY <2>1, ToldReply
  <2> QED
    BY <1>4, <2>2 DEF Documents!UpsertItem, Documents!NoSuch, name
<1>5. CASE py.docs # NoContainer
  <2>1. /\ py.docs[<<id, p>>] # Absent =>
                Told(name, 200, {}, [py.docs EXCEPT ![<<id, p>>] = p])
        /\ py.docs[<<id, p>>] = Absent =>
                Told(name, 201, {}, [py.docs EXCEPT ![<<id, p>>] = p])
        /\ py'.db = py.db
    BY <1>1, <1>3, <1>5, UpsertItemAnswer DEF Tells
  <2>2. /\ py.docs[<<id, p>>] # Absent => Documents!Store(name, <<id, p>>, p, 200)
        /\ py.docs[<<id, p>>] = Absent => Documents!Store(name, <<id, p>>, p, 201)
    BY <2>1, ToldStore
  <2> QED
    BY <1>5, <2>2 DEF Documents!UpsertItem, Documents!HasItem, name
<1> QED
  BY <1>4, <1>5

LEMMA QueryItemsStored ==
    ASSUME MockInv, NEW p \in Pks \cup {AnyPk}, NEW cross \in BOOLEAN, QueryItems(p, cross)
    PROVE  Documents!Query(p)
<1> DEFINE c == Call("query_items", SomeId, p, SomePk, cross, No)
           name == <<"query_items", p>>
           f == Faulted(py, c.op)
<1>1. Posed(c) /\ c.op = "query_items" /\ c.pk = p
  <2>1. /\ SomeId \in Ids /\ SomePk \in Pks /\ No \in BOOLEAN
        /\ "query_items" \in DOMAIN Profile
    BY OpsAre, MockAssumption DEF SomeId, SomePk, No, Ops
  <2> QED
    BY <2>1, CallPosed
<1>2. Ask(c, name)
  BY Zenon DEF QueryItems, No
<1> HIDE DEF c
<1> HIDE DEF name
<1>3. Tells(c, name, f) /\ c \in Calls /\ Yes \in BOOLEAN
  BY <1>1, <1>2, AskTells
<1> HIDE DEF f
<1>4. CASE py.docs = NoContainer
  <2>1. Told(name, 404, {}, py.docs) /\ py'.db = py.db
    BY <1>1, <1>2, <1>4, NoContainerTold DEF RoutedOps
  <2>2. Documents!Reply(name, 404)
    BY <2>1, ToldReply
  <2> QED
    BY <1>4, <2>2 DEF Documents!Query, Documents!NoSuch, name
<1>5. CASE py.docs # NoContainer
  <2> DEFINE found == {k \in Keys : Documents!HasItem(k) /\ p \in {AnyPk, py.docs[k]}}
  <2>1. /\ Answers(Execute(f, c, Yes), 200, Found(f, c), f.docs)
        /\ Execute(f, c, Yes).b.db = f.db
    BY <1>1, <1>3, <1>5, QueryItemsAnswer DEF Tells
  <2>2. Found(f, c) = found
    BY <1>1, <1>3, <1>5 DEF Tells, Found, Documents!HasItem
  <2> HIDE DEF found
  <2>3. Told(name, 200, found, py.docs) /\ py'.db = py.db
    BY <1>3, <2>1, <2>2 DEF Tells
  <2>4. Documents!Find(name, 200, found) /\ py'.docs = py.docs
    BY <2>3 DEF Told, Documents!Find
  <2> QED
    BY <1>5, <2>3, <2>4 DEF Documents!Query, Documents!Keys, Keys, name, found
<1> QED
  BY <1>4, <1>5

\* The store is left alone.
StoreSame == UNCHANGED <<py.db, py.docs, pyReply>>

LEMMA NextStored ==
    ASSUME MockInv, [Next]_vars
    PROVE  Documents!Next \/ StoreSame
<1>1. CASE CreateClient
  BY <1>1, CreateClientStored DEF Documents!Next
<1>2. CASE DeleteDatabase
  BY <1>2, DeleteDatabaseStored DEF Documents!Next
<1>3. CASE ReadFeedRanges
  <2> DEFINE r == Refresh(py)
  <2>1. py \in Backend
    BY BackendsTyped DEF MockInv, TypeOK
  <2>2. r \in Backend /\ SameStore(py, r)
    BY <2>1, RefreshIs
  <2>3. /\ py' = Unmetered(r)
        /\ pyReply' = [call |-> <<"read_feed_ranges">>, status |-> 200,
                       rows |-> FeedRanges]
    BY <1>3 DEF ReadFeedRanges
  <2> HIDE DEF r
  <2>4. py'.db = py.db /\ py'.docs = py.docs
    BY <2>2, <2>3, UnmeteredIs DEF SameStore
  <2>5. Documents!ReadFeedRanges
    BY <2>3, <2>4
       DEF Documents!ReadFeedRanges, Documents!Find
  <2> QED
    BY <2>5 DEF Documents!Next
<1>4. ASSUME NEW lenient \in BOOLEAN, CreateDatabase(lenient) PROVE Documents!Next
  BY <1>4, CreateDatabaseStored DEF Documents!Next
<1>5. ASSUME NEW lenient \in BOOLEAN, CreateContainer(lenient) PROVE Documents!Next
  BY <1>5, CreateContainerStored DEF Documents!Next
<1>6. ASSUME NEW p \in Pks \cup {AnyPk}, NEW cross \in BOOLEAN, QueryItems(p, cross)
      PROVE  Documents!Next
  BY <1>6, QueryItemsStored DEF Documents!Next
<1>7. ASSUME NEW i \in Ids, NEW p \in Pks,
             CreateItem(i, p) \/ ReadItem(i, p) \/ UpsertItem(i, p) \/ DeleteItem(i, p)
      PROVE  Documents!Next
  BY <1>7, CreateItemStored, ReadItemStored, UpsertItemStored, DeleteItemStored
     DEF Documents!Next
<1>8. ASSUME NEW i \in Ids, NEW p \in Pks, NEW v \in Pks, ReplaceItem(i, p, v)
      PROVE  Documents!Next
  BY <1>8, ReplaceItemStored DEF Documents!Next
<1>9. ASSUME NEW b, Control(b), SameStore(py, b) PROVE StoreSame
  BY <1>9 DEF Control, SameStore, StoreSame, replies
<1>10. py \in Backends
  BY DEF MockInv, TypeOK
<1>11. CASE SplitOrMerge
  <2> DEFINE b == [[py EXCEPT !.valid = FALSE] EXCEPT !.armed = TRUE]
  <2>1. Control(b)
    BY <1>10, <1>11, Zenon DEF SplitOrMerge
  <2>2. SameStore(py, b)
    BY <1>10 DEF Backends, SameStore
  <2> QED
    BY <1>9, <2>1, <2>2
<1>12. CASE ExpireCache
  <2>1. SameStore(py, [py EXCEPT !.valid = FALSE])
    BY <1>10 DEF Backends, SameStore
  <2> QED
    BY <1>9, <1>12, <2>1 DEF ExpireCache
<1>13. ASSUME NEW op \in ThrottledOps, NEW n \in 1..MaxCount, Throttle(op, n) PROVE StoreSame
  <2>1. SameStore(py, [py EXCEPT !.throttle[op] = n])
    BY <1>10 DEF Backends, SameStore
  <2> QED
    BY <1>9, <1>13, <2>1 DEF Throttle
<1>14. CASE UNCHANGED vars
  BY <1>14 DEF vars, replies, StoreSame
<1> QED
  BY <1>1, <1>2, <1>3, <1>4, <1>5, <1>6, <1>7, <1>8, <1>11, <1>12, <1>13, <1>14 DEF Next

\* The mock implements the document store: every call answers as the store
\* does and leaves the items it would, whatever faults Python's mock met, and
\* no control event touches them.
THEOREM MockImplementsStore == Spec => StoreSpec
<1>1. Init => Documents!Init
  BY DEF Init, Fresh, Documents!Init
<1>2. MockInv /\ [Next]_vars => [Documents!Next]_Documents!vars
  BY NextStored DEF StoreSame, Documents!vars
<1> QED
  BY MockInvariant, <1>1, <1>2, PTL DEF Spec, StoreSpec, Documents!Spec
=============================================================================
