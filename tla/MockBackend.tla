---------------------------- MODULE MockBackend ----------------------------
(***************************************************************************)
(* The offline mock in its two implementations, Python (backends.py) and    *)
(* Java (MockBackend.java), answering the same calls.  Both interpret the   *)
(* step lists of specs/mock-profile.json; Python adds the control plane:    *)
(* throttling, partition splits and a PKRange cache.                        *)
(*                                                                         *)
(* One database and one container.  RU charges, messages and the query      *)
(* language are left out; a query selects by partition key.  The counters   *)
(* of the metrics are kept as what each call adds to them.                  *)
(***************************************************************************)
EXTENDS Naturals, Sequences

CONSTANTS
    Ids, Pks, Absent, NoContainer, AnyPk,
    NoId, NullId,   \* a body without an id; the id of one whose id is null
    Partitions,     \* physical partitions of the control plane
    ThrottledOps,   \* operations a timeline throttles
    NullPks,        \* bound: partition keys of the bodies with a null id
    MaxCount        \* bound: count of a throttle

VARIABLES
    py, jv,             \* the two backends
    pyReply, jvReply,   \* what they answered to the last call
    pyMeter, jvMeter,   \* what the last call added to their metrics, and the
                        \* 429s and 410s it met
    owed,               \* 429s and 410s asked of Python's and not met yet
    \* since the PKRange cache went stale last: whether a split (or an expiry
    \* before its 410) made it so, the refreshes that calls of the profile made,
    \* and whether the feed ranges were read before the first of them
    split, forced, fed,
    looked,             \* metadata reads of this container
    nulled,             \* a null id was put into this container
    quiet               \* only operations of the profile so far

replies == <<pyReply, jvReply>>
meters == <<pyMeter, jvMeter>>
stale == <<split, forced, fed>>
ghosts == <<owed, stale, looked, nulled, quiet>>
vars == <<py, jv, replies, meters, ghosts>>

Keys == Ids \X Pks
RoutedOps == {"read_item", "replace_item", "upsert_item", "delete_item",
              "create_item", "query_items"}

ASSUME MockAssumption ==
    /\ NullId \in Ids /\ NoId \notin Ids /\ Partitions \in Nat \ {0}
    /\ Pks # {} /\ {Absent, AnyPk} \cap Pks = {}
    /\ NoContainer \notin [Keys -> Pks \cup {Absent}]
    /\ ThrottledOps \subseteq RoutedOps /\ NullPks \subseteq Pks /\ MaxCount \in Nat

NoCost == [account |-> 0, collection |-> 0, ranges |-> 0, retries |-> 0,
           c429 |-> 0, c410 |-> 0]

Fresh == [db |-> FALSE, docs |-> NoContainer, touched |-> FALSE, valid |-> FALSE,
          armed |-> FALSE, throttle |-> [o \in RoutedOps |-> 0], meter |-> NoCost]
-----------------------------------------------------------------------------
(* The profile: guards on predicates, effects and returns, in order.        *)

When(preds, status) == [kind |-> "guard", preds |-> preds, status |-> status]
Do(effect)          == [kind |-> "effect", effect |-> effect]
Return(status)      == [kind |-> "return", status |-> status]

OnContainer(steps) ==
    <<When({"container_missing"}, 404), Do("touch_collection")>> \o steps

Profile ==
    [create_client |-> <<Do("set_connection"), Do("incr_metadata"), Return(200)>>,
     create_database |->
        <<When({"db_exists", "if_not_exists"}, 200), When({"db_exists"}, 409),
          Do("put_database"), Return(201)>>,
     create_container |->
        <<When({"db_missing"}, 404),
          When({"container_exists", "if_not_exists"}, 200),
          When({"container_exists"}, 409), Do("put_container"), Return(201)>>,
     create_item |-> OnContainer(
        <<Do("assign_id"), When({"item_exists"}, 409), Do("put_item"), Return(201)>>),
     read_item |-> OnContainer(<<When({"item_missing"}, 404), Return(200)>>),
     replace_item |-> OnContainer(
        <<When({"item_missing"}, 404), Do("put_item"), Return(200)>>),
     upsert_item |-> OnContainer(
        <<Do("assign_id"), Do("put_item"), When({"existed"}, 200), Return(201)>>),
     delete_item |-> OnContainer(
        <<When({"item_missing"}, 404), Do("remove_item"), Return(204)>>),
     query_items |-> OnContainer(
        <<Do("touch_pk_ranges_if_cross"), Do("query_filter"), Return(200)>>),
     delete_database |->
        <<When({"db_missing"}, 404), Do("remove_database"), Return(204)>>]
-----------------------------------------------------------------------------
(* The interpreter.  An execution e is the backend b, the call c with its   *)
(* context, and the status once a step has returned (0 before).             *)

Key(c) == <<c.id, IF c.pk = AnyPk THEN c.field ELSE c.pk>>

Holds(pred, e) ==
    LET has == e.b.docs # NoContainer /\ e.b.docs[Key(e.c)] # Absent
    IN  CASE pred = "db_exists"         -> e.b.db
          [] pred = "db_missing"        -> ~e.b.db
          [] pred = "container_exists"  -> e.b.docs # NoContainer
          [] pred = "container_missing" -> e.b.docs = NoContainer
          [] pred = "item_exists"       -> has
          [] pred = "item_missing"      -> ~has
          [] pred = "existed"           -> e.existed
          [] pred = "if_not_exists"     -> e.c.lenient

\* The first touch of a container costs one metadata read.
TouchCollection(b) ==
    IF b.touched THEN b
    ELSE [b EXCEPT !.touched = TRUE, !.meter.collection = @ + 1]

\* Mutant: a refresh does not make the cache valid.
RefreshInvalid(b) == [b EXCEPT !.meter.ranges = @ + 1]

\* _refresh_pkranges
Refresh(b) == [b EXCEPT !.meter.ranges = @ + 1, !.valid = TRUE]

\* Mutant: the cache is never used.
PythonTouchAlways(b, c) == IF c.cross THEN Refresh(b) ELSE b

\* Python reuses a valid cache ...
PythonTouchRanges(b, c) == IF c.cross /\ ~b.valid THEN Refresh(b) ELSE b

\* ... and Java reads each time.
JavaTouchRanges(b, c) == IF c.cross THEN [b EXCEPT !.meter.ranges = @ + 1] ELSE b

\* Mutant: whether the item existed is looked up after it was stored.
PutLooksLate(e) ==
    [e EXCEPT !.existed = TRUE, !.b.docs[Key(e.c)] = e.c.field]

\* Mutant: only one of the two implementations does so.
PutLateInPython(e) ==
    [e EXCEPT !.existed = e.python \/ e.b.docs[Key(e.c)] # Absent,
              !.b.docs[Key(e.c)] = e.c.field]

Put(e) ==
    [e EXCEPT !.existed = e.b.docs[Key(e.c)] # Absent,
              !.b.docs[Key(e.c)] = e.c.field]

Selected(e) == {k \in Keys : e.b.docs[k] # Absent /\ e.c.pk \in {AnyPk, e.b.docs[k]}}

\* Mutant: a container's read_collection flag outlives it.
NewContainerKnown(b) == [b EXCEPT !.docs = [k \in Keys |-> Absent]]

NewContainer(b) == [b EXCEPT !.docs = [k \in Keys |-> Absent], !.touched = FALSE]

\* Python's setdefault keeps a null id, Java's putIfAbsent replaces it.
LacksId(id, python) == id = NoId \/ (id = NullId /\ ~python)

Effect(name, e) ==
    CASE name = "set_connection"   -> e
      [] name = "incr_metadata"    -> [e EXCEPT !.b.meter.account = @ + 1]
      [] name = "touch_collection" -> [e EXCEPT !.b = TouchCollection(@)]
      [] name = "touch_pk_ranges_if_cross" ->
            [e EXCEPT !.b = IF e.python THEN PythonTouchRanges(@, e.c)
                                        ELSE JavaTouchRanges(@, e.c)]
      [] name = "assign_id"        ->
            [e EXCEPT !.c.id = IF LacksId(@, e.python) THEN e.c.new ELSE @]
      [] name = "put_database"     -> [e EXCEPT !.b.db = TRUE]
      [] name = "remove_database"  -> [e EXCEPT !.b.db = FALSE, !.b.docs = NoContainer]
      [] name = "put_container"    -> [e EXCEPT !.b = NewContainer(@)]
      [] name = "put_item"         -> Put(e)
      [] name = "remove_item"      -> [e EXCEPT !.b.docs[Key(e.c)] = Absent]
      [] name = "query_filter"     -> [e EXCEPT !.rows = Selected(e)]

Taken(s, e) == s.kind = "return" \/ \A pred \in s.preds : Holds(pred, e)

Interpret(e, s) ==
    IF e.status # 0 THEN e
    ELSE IF s.kind = "effect" THEN Effect(s.effect, e)
    ELSE IF Taken(s, e) THEN [e EXCEPT !.status = s.status] ELSE e

Step(e, steps, n) == IF n \in DOMAIN steps THEN Interpret(e, steps[n]) ELSE e

\* The steps in order; no list of the profile has more than six.
Steps(e, s) ==
    Step(Step(Step(Step(Step(Step(e, s, 1), s, 2), s, 3), s, 4), s, 5), s, 6)

Execute(b, c, python) ==
    Steps([b |-> b, c |-> c, python |-> python, status |-> 0,
           existed |-> FALSE, rows |-> {}], Profile[c.op])
-----------------------------------------------------------------------------
(* Faults of the control plane, Python only: N x 429 for a throttled        *)
(* operation, then one 410 and one refresh after a topology change.         *)

\* Mutant: the throttle is kept.
ThrottledStill(b, op) ==
    [b EXCEPT !.meter.retries = @ + b.throttle[op], !.meter.c429 = @ + b.throttle[op]]

Throttled(b, op) ==
    [b EXCEPT !.meter.retries = @ + b.throttle[op], !.meter.c429 = @ + b.throttle[op],
              !.throttle[op] = 0]

Rerouted(b) ==
    IF b.armed
    THEN Refresh([b EXCEPT !.meter.retries = @ + 1, !.meter.c410 = @ + 1, !.armed = FALSE])
    ELSE b

Faulted(b, op) == IF op \in RoutedOps THEN Rerouted(Throttled(b, op)) ELSE b
-----------------------------------------------------------------------------
Init ==
    /\ py = Fresh /\ jv = Fresh
    /\ pyReply = [call |-> <<"none">>, status |-> 0, rows |-> {}] /\ jvReply = pyReply
    /\ pyMeter = NoCost /\ jvMeter = NoCost
    /\ owed = [c429 |-> 0, c410 |-> 0] /\ looked = 0 /\ nulled = FALSE /\ quiet = TRUE
    /\ split = FALSE /\ forced = 0 /\ fed = FALSE

\* The call with what the interpreter reports it as.
Call(op, id, pk, field, cross, lenient) ==
    [op |-> op, id |-> id, pk |-> pk, field |-> field, cross |-> cross,
     lenient |-> lenient, new |-> id]

Unmetered(b) == [b EXCEPT !.meter = NoCost]

Owed(m) == owed' = [c429 |-> owed.c429 - m.c429, c410 |-> owed.c410 - m.c410]

\* The body put has a null id.
Nulls(c) == c.op \in {"create_item", "upsert_item"} /\ c.id = NullId

\* One call of a scenario, to both.
Ask(c, name) ==
    LET p == Execute(Faulted(py, c.op), c, TRUE)
        j == Execute(jv, c, FALSE)
        made == c.op = "create_container" /\ p.status = 201
    IN  /\ py' = Unmetered(p.b) /\ pyMeter' = p.b.meter
        /\ jv' = Unmetered(j.b) /\ jvMeter' = j.b.meter
        /\ pyReply' = [call |-> name, status |-> p.status, rows |-> p.rows]
        /\ jvReply' = [call |-> name, status |-> j.status, rows |-> j.rows]
        /\ Owed(p.b.meter)
        /\ forced' = forced + p.b.meter.ranges
        /\ looked' = (IF made THEN 0 ELSE looked) + p.b.meter.collection
        /\ nulled' = (p.b.docs # NoContainer /\ (nulled \/ Nulls(c)))
        /\ UNCHANGED <<split, fed, quiet>>

SomeId == CHOOSE i \in Ids : TRUE
SomePk == CHOOSE p \in Pks : TRUE
Plain(op, lenient) == Call(op, SomeId, SomePk, SomePk, FALSE, lenient)

CreateClient ==
    Ask(Plain("create_client", FALSE), <<"create_client">>)

CreateDatabase(lenient) ==
    Ask(Plain("create_database", lenient), <<"create_database", lenient>>)

DeleteDatabase ==
    Ask(Plain("delete_database", FALSE), <<"delete_database">>)

CreateContainer(lenient) ==
    Ask(Plain("create_container", lenient), <<"create_container", lenient>>)

\* A body may lack its id, or have a null one: a new id is one no item has.
PutCall(op, i, p) ==
    LET body == Call(op, i, AnyPk, p, FALSE, FALSE)
        unused == \A b \in {py, jv}, q \in Pks :
                    b.docs # NoContainer => b.docs[i, q] = Absent
    IN  /\ i # NullId
        /\ \/ Ask(body, <<op, i, p>>)
           \/ unused /\ Ask([body EXCEPT !.id = NoId], <<op, i, p>>)
           \/ /\ unused /\ p \in NullPks
              /\ Ask([body EXCEPT !.id = NullId], <<op, NullId, p>>)

CreateItem(i, p) == PutCall("create_item", i, p)
UpsertItem(i, p) == PutCall("upsert_item", i, p)

\* A call names an item by a string (backends.py 93-102), so never by a null id.
ReadItem(i, p) ==
    i # NullId /\ Ask(Call("read_item", i, p, p, FALSE, FALSE), <<"read_item", i, p>>)

DeleteItem(i, p) ==
    i # NullId /\ Ask(Call("delete_item", i, p, p, FALSE, FALSE), <<"delete_item", i, p>>)

\* The body's partition key field may differ from the partition key given.
ReplaceItem(i, p, f) ==
    i # NullId /\ Ask(Call("replace_item", i, p, f, FALSE, FALSE), <<"replace_item", i, p, f>>)

QueryItems(p, cross) ==
    Ask(Call("query_items", SomeId, p, SomePk, cross, FALSE), <<"query_items", p>>)

FeedRanges == {<<"range", k>> : k \in 0..Partitions - 1}

\* Not of the profile: Python reads the ranges, one per partition; Java answers
\* one full range.
ReadFeedRanges ==
    /\ py' = Unmetered(Refresh(py)) /\ pyMeter' = Refresh(py).meter
    /\ jvMeter' = NoCost /\ fed' = (fed \/ forced = 0)
    /\ pyReply' = [call |-> <<"read_feed_ranges">>, status |-> 200, rows |-> FeedRanges]
    /\ jvReply' = [pyReply' EXCEPT !.rows = {<<"full">>}]
    /\ quiet' = FALSE /\ UNCHANGED <<jv, owed, split, forced, looked, nulled>>

\* control_event of the timeline; Java ignores it.
Control(b) ==
    py' = b /\ quiet' = FALSE /\ UNCHANGED <<jv, replies, meters, looked, nulled>>

\* The cache is stale.
Stale(bySplit) == split' = bySplit /\ forced' = 0 /\ fed' = FALSE

SplitOrMerge ==
    /\ Control([py EXCEPT !.valid = FALSE, !.armed = TRUE])
    /\ Stale(TRUE) /\ owed' = [owed EXCEPT !.c410 = 1]

ExpireCache ==
    /\ Control([py EXCEPT !.valid = FALSE])
    /\ Stale(py.armed) /\ UNCHANGED owed

\* A throttle replaces the one the operation still had.
Throttle(op, n) ==
    /\ Control([py EXCEPT !.throttle[op] = n])
    /\ owed' = [owed EXCEPT !.c429 = @ + n - py.throttle[op]] /\ UNCHANGED stale

Next ==
    \/ CreateClient \/ DeleteDatabase \/ ReadFeedRanges
    \/ \E lenient \in BOOLEAN : CreateDatabase(lenient) \/ CreateContainer(lenient)
    \/ \E p \in Pks \cup {AnyPk}, cross \in BOOLEAN : QueryItems(p, cross)
    \/ \E i \in Ids, p \in Pks :
        \/ CreateItem(i, p) \/ ReadItem(i, p) \/ UpsertItem(i, p) \/ DeleteItem(i, p)
        \/ \E f \in Pks : ReplaceItem(i, p, f)
    \/ SplitOrMerge \/ ExpireCache
    \/ \E op \in ThrottledOps, n \in 1..MaxCount : Throttle(op, n)

Spec == Init /\ [][Next]_vars
-----------------------------------------------------------------------------
Meters == [account : 0..1, collection : 0..1, ranges : Nat, retries : Nat,
           c429 : 0..MaxCount, c410 : 0..1]

Backends ==
    [db : BOOLEAN, docs : {NoContainer} \cup [Keys -> Pks \cup {Absent}],
     touched : BOOLEAN, valid : BOOLEAN, armed : BOOLEAN,
     throttle : [RoutedOps -> 0..MaxCount], meter : {NoCost}]

TypeOK ==
    /\ py \in Backends /\ jv \in Backends
    /\ pyMeter \in Meters /\ jvMeter \in Meters
    /\ owed \in [c429 : Nat, c410 : 0..1] /\ looked \in Nat
    /\ split \in BOOLEAN /\ forced \in Nat /\ fed \in BOOLEAN
    /\ nulled \in BOOLEAN /\ quiet \in BOOLEAN

\* The 429s still to come.
Throttles(t) ==
    t["read_item"] + t["replace_item"] + t["upsert_item"] + t["delete_item"]
        + t["create_item"] + t["query_items"]

Routed(reply) == reply.call[1] \in RoutedOps

\* Every 429 and every 410 the timeline asks for is met once or still to
\* come, and each counts as one retry (backends.py 309-323).
FaultsConserved ==
    /\ owed.c429 = Throttles(py.throttle)
    /\ owed.c410 = IF py.armed THEN 1 ELSE 0
    /\ pyMeter.retries = pyMeter.c429 + pyMeter.c410

\* A stale cache forces calls of the profile to at most one refresh.  A split
\* forces exactly one, when its 410 is met and not before (backends.py 198-199,
\* 317-318) - even if the feed ranges were read in between and the cache is warm
\* again: two reads then follow one split.  Of a cold or expired cache the feed
\* ranges spare calls the refresh.
OneForcedRefresh ==
    /\ forced <= 1
    /\ split => (forced = 1 <=> ~py.armed)
    /\ fed /\ forced = 1 => split

\* One call reads the PKRanges at most once, and exactly once if it met a 410,
\* even a cross-partition query (backends.py 317-318).
OneRefreshPerCall ==
    /\ pyMeter.ranges <= 1
    /\ pyMeter.c410 = 1 => pyMeter.ranges = 1

\* The metadata of a container is read once in its life, by the first call on
\* its items, in both languages.
CollectionReadOnce ==
    /\ looked <= 1
    /\ py.touched /\ py.docs # NoContainer => looked = 1
    /\ Routed(pyReply) /\ py.docs # NoContainer => looked = 1
    /\ pyMeter.collection = jvMeter.collection

\* Whatever faults the Python mock injects, both mocks have the same database
\* and container, and until a null id is put into the container they hold the
\* same items and give the same answer to every operation of the profile
\* (backends.py 180-182).  Not of the profile are the feed ranges: Python's are
\* as many as partitions (256-267), Java's one (MockBackend.java 164-176).
SameAnswers ==
    /\ py.db = jv.db /\ (py.docs = NoContainer <=> jv.docs = NoContainer)
    /\ ~nulled => /\ py.docs = jv.docs
                  /\ pyReply.call[1] # "read_feed_ranges" => pyReply = jvReply

\* The mock and its profile implement the document store.
Documents == INSTANCE DocumentStore WITH db <- py.db, docs <- py.docs, reply <- pyReply
StoreSpec == Documents!Spec

\* As long as only operations of the profile run, both mocks count the same
\* metadata calls: "All operation semantics (status codes, RU charges, 409/404
\* branching, lazy metadata accounting) come from specs/mock-profile.json so
\* the Python and Java runners cannot diverge" (backends.py 180-182).
MetadataAgrees == quiet => pyMeter = jvMeter
=============================================================================
