--------------------------- MODULE DocumentStore ---------------------------
(* What the offline mock promises: one database with one container of items *)
(* keyed by id and partition key, and what every operation answers.         *)
CONSTANTS
    Ids, Pks,     \* item ids, partition key values
    Absent,       \* no item under a key
    NoContainer,  \* no container
    AnyPk,        \* a query over every partition
    FeedRanges    \* the feed ranges of the container

VARIABLES
    db,     \* the database exists
    docs,   \* the items, by key; an item is its partition key field
    reply   \* the last call, its status and the keys it returned

vars == <<db, docs, reply>>

Keys == Ids \X Pks

Init ==
    /\ db = FALSE /\ docs = NoContainer
    /\ reply = [call |-> <<"none">>, status |-> 0, rows |-> {}]

Find(call, status, rows) ==
    reply' = [call |-> call, status |-> status, rows |-> rows]
Tell(call, status)  == Find(call, status, {})
Reply(call, status) == Tell(call, status) /\ UNCHANGED <<db, docs>>

CreateClient   == Reply(<<"create_client">>, 200)
ReadFeedRanges ==
    Find(<<"read_feed_ranges">>, 200, FeedRanges) /\ UNCHANGED <<db, docs>>

CreateDatabase(lenient) ==
    LET call == <<"create_database", lenient>>
    IN  \/ db /\ Reply(call, IF lenient THEN 200 ELSE 409)
        \/ ~db /\ db' = TRUE /\ Tell(call, 201) /\ UNCHANGED docs

DeleteDatabase ==
    LET call == <<"delete_database">>
    IN  \/ ~db /\ Reply(call, 404)
        \/ db /\ db' = FALSE /\ docs' = NoContainer /\ Tell(call, 204)

CreateContainer(lenient) ==
    LET call == <<"create_container", lenient>>
    IN  \/ ~db /\ Reply(call, 404)
        \/ docs # NoContainer /\ Reply(call, IF lenient THEN 200 ELSE 409)
        \/ /\ db /\ docs = NoContainer /\ Tell(call, 201)
           /\ docs' = [k \in Keys |-> Absent] /\ UNCHANGED db

\* The operations on items answer 404 without a container, and those that
\* need an item without one.
NoSuch(call) == docs = NoContainer /\ Reply(call, 404)
HasItem(k)   == docs # NoContainer /\ docs[k] # Absent
NoItem(call, k) == docs # NoContainer /\ docs[k] = Absent /\ Reply(call, 404)

Store(call, k, field, status) ==
    docs' = [docs EXCEPT ![k] = field] /\ Tell(call, status) /\ UNCHANGED db

CreateItem(i, p) ==
    LET call == <<"create_item", i, p>>
    IN  \/ NoSuch(call)
        \/ HasItem(<<i, p>>) /\ Reply(call, 409)
        \/ /\ docs # NoContainer /\ ~HasItem(<<i, p>>)
           /\ Store(call, <<i, p>>, p, 201)

UpsertItem(i, p) ==
    LET call == <<"upsert_item", i, p>>
    IN  \/ NoSuch(call)
        \/ /\ docs # NoContainer
           /\ Store(call, <<i, p>>, p, IF HasItem(<<i, p>>) THEN 200 ELSE 201)

ReadItem(i, p) ==
    LET call == <<"read_item", i, p>>
    IN  \/ NoSuch(call) \/ NoItem(call, <<i, p>>)
        \/ HasItem(<<i, p>>) /\ Reply(call, 200)

ReplaceItem(i, p, f) ==
    LET call == <<"replace_item", i, p, f>>
    IN  \/ NoSuch(call) \/ NoItem(call, <<i, p>>)
        \/ HasItem(<<i, p>>) /\ Store(call, <<i, p>>, f, 200)

DeleteItem(i, p) ==
    LET call == <<"delete_item", i, p>>
    IN  \/ NoSuch(call) \/ NoItem(call, <<i, p>>)
        \/ HasItem(<<i, p>>) /\ Store(call, <<i, p>>, Absent, 204)

\* A query finds items by their field, wherever they are kept.
Query(p) ==
    LET call == <<"query_items", p>>
    IN  \/ NoSuch(call)
        \/ /\ docs # NoContainer
           /\ Find(call, 200, {k \in Keys : HasItem(k) /\ p \in {AnyPk, docs[k]}})
           /\ UNCHANGED <<db, docs>>

Next ==
    \/ CreateClient \/ ReadFeedRanges \/ DeleteDatabase
    \/ \E lenient \in BOOLEAN : CreateDatabase(lenient) \/ CreateContainer(lenient)
    \/ \E p \in Pks \cup {AnyPk} : Query(p)
    \/ \E i \in Ids, p \in Pks :
        \/ CreateItem(i, p) \/ ReadItem(i, p) \/ UpsertItem(i, p) \/ DeleteItem(i, p)
        \/ \E f \in Pks : ReplaceItem(i, p, f)

Spec == Init /\ [][Next]_vars
=============================================================================
