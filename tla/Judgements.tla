----------------------------- MODULE Judgements -----------------------------
(***************************************************************************)
(* The computations that decide verdicts: assertions of a step (Python's    *)
(* assertions.py, Java's Assertions.java), the exit codes of the CI sweep   *)
(* (run-matrix.py, compare.py), and the ranges the topology engine advertises.  Each *)
(* behaviour takes one input and evaluates it; the properties compare the   *)
(* outcome with what the computation is for.  Floating point is scaled to   *)
(* integers: a percentile asked for is in tenths, 995 for the 99.5th, and   *)
(* the value it has in thousandths of a sample's unit.                      *)
(***************************************************************************)
EXTENDS KeyRanges, SequencesExt


CONSTANTS
    MaxRanges,   \* bound: ranges of a topology
    Events,      \* statuses or metadata events of a step
    Samples,     \* latency samples
    Percents,    \* percentiles asked for, in tenths
    Items,       \* ids of drained items
    Sdks,        \* SDK labels of a report
    Scenarios,   \* scenarios of a sweep
    MaxLen,      \* bound: length of a sequence
    Unset        \* a parameter, token or expected total that is not given

ASSUME JudgementAssumption ==
    /\ MaxRanges \in Nat /\ MaxLen \in Nat /\ Unset \notin Nat
    /\ Samples \subseteq Nat /\ Percents \subseteq 0..1000

VARIABLES
    kind,     \* which computation
    given,    \* its input
    outcome   \* its outcome, {} before

vars == <<kind, given, outcome>>

Statuses == {"pass", "fail", "skip"}
UpTo(S, n) == UNION {[1..k -> S] : k \in 0..n}
Elements(s) == {s[i] : i \in DOMAIN s}
-----------------------------------------------------------------------------
(* sequence ... contains_in_order: all(any(x == w for x in it) for w in want) *)
(* on one iterator.  Where[i] is how far it has been read for the first i.    *)

\* Mutant: each wanted event is searched from the one found last.
WhereRereads(actual, want) ==
    LET beyond == Len(actual) + 1
        Where[i \in 0..Len(want)] ==
            IF i = 0 THEN 1
            ELSE Min({j \in Where[i - 1]..Len(actual) : actual[j] = want[i]} \cup {beyond})
    IN  Where[Len(want)]

Reached(actual, want) ==
    LET beyond == Len(actual) + 1
        Where[i \in 0..Len(want)] ==
            IF i = 0 THEN 0
            ELSE Min({j \in (Where[i - 1] + 1)..Len(actual) : actual[j] = want[i]}
                        \cup {beyond})
    IN  Where[Len(want)]

ContainsInOrder(actual, want) == Reached(actual, want) <= Len(actual)
-----------------------------------------------------------------------------
(* latency_percentile                                                       *)

\* The samples in ascending order.
Sorted(samples) ==
    LET order == CHOOSE p \in Bijection(DOMAIN samples, DOMAIN samples) :
            \A i, j \in DOMAIN samples : i < j => samples[p[i]] <= samples[p[j]]
    IN  [i \in DOMAIN samples |-> samples[order[i]]]

Between(s, lo, hi, frac) == 1000 * s[lo] + (s[hi] - s[lo]) * frac

\* Mutant: the rank of n samples goes up to n - 2.
RankShort(n, pct) == pct * (n - 2)

Rank(n, pct) == pct * (n - 1)

PythonPercentile(samples, pct) ==
    LET s  == Sorted(samples)
        n  == Len(s)
        lo == Rank(n, pct) \div 1000 + 1
    IN  IF n = 1 THEN 1000 * s[1]
        ELSE IF lo + 1 > n THEN 1000 * s[n]
        ELSE Between(s, lo, lo + 1, Rank(n, pct) % 1000)

\* Java reads the percentile as an int: intValue drops the tenths.
AsInt(pct) == 10 * (pct \div 10)

JavaPercentile(samples, percentile) ==
    LET s   == Sorted(samples)
        n   == Len(s)
        pct == AsInt(percentile)
        lo  == Rank(n, pct) \div 1000 + 1
        hi  == (Rank(n, pct) + 999) \div 1000 + 1
    IN  IF n = 1 THEN 1000 * s[1] ELSE Between(s, lo, hi, Rank(n, pct) % 1000)
-----------------------------------------------------------------------------
(* resumes_without_gap, and pages_cover_set for a drain in one piece.       *)

NoDupes(first, rest) ==
    Len(first) + Len(rest) = Cardinality(Elements(first) \cup Elements(rest))

Resumes(first, rest, total) ==
    LET overlap == Elements(first) \cap Elements(rest)
        union   == Elements(first) \cup Elements(rest)
    IN  /\ overlap = {} /\ NoDupes(first, rest)
        /\ total = Unset \/ Cardinality(union) = total

PagesCover(items, total) ==
    /\ Len(items) = Cardinality(Elements(items))
    /\ total = Unset \/ Cardinality(Elements(items)) = total
-----------------------------------------------------------------------------
(* query_drain: the pages of a query, up to max_pages of them, and the token  *)
(* of the last one.  The token stands for the page it leads to; after the     *)
(* last page the service gives none.                                          *)

Empty == 0   \* the empty string, for a placeholder without a value

\* _lookup; then step_handlers.py turns "" into "from the beginning".
Lookup(value) == IF value = Unset THEN Empty ELSE value
FirstPage(continuation) == IF continuation \in {Unset, Empty} THEN 1 ELSE continuation

\* Mutant: max_pages is looked at before the page counts.
LastPageLate(n, from, maxPages) ==
    IF maxPages = Unset THEN n ELSE Min({n, from + maxPages})

\* At least one page is read, whatever max_pages says.
LastPage(n, from, maxPages) ==
    IF maxPages = Unset THEN n ELSE Min({n, Max({from, from + maxPages - 1})})

Drain(pages, continuation, maxPages) ==
    LET from == FirstPage(continuation)
        last == LastPage(Len(pages), from, maxPages)
    IN  [items        |-> FlattenSeq(SubSeq(pages, from, last)),
         pageCount    |-> last - from + 1,
         continuation |-> IF last < Len(pages) THEN last + 1 ELSE Unset]

\* The two steps of D-403 and C-311: a drain that stops, then one that goes on.
DrainInTwo(pages, maxPages) ==
    LET first == Drain(pages, Unset, maxPages)
    IN  <<first, Drain(pages, Lookup(first.continuation), Unset)>>
-----------------------------------------------------------------------------
(* scripts/compare.py --fail-on-divergence, on the results it is given.      *)

\* by_scenario[scenario]: the last result of each SDK.
BySdk(results, sc) ==
    LET of == {i \in DOMAIN results : results[i].scenario = sc}
    IN  [sdk \in {results[i].sdk : i \in of} |->
            results[Max({i \in of : results[i].sdk = sdk})].status]

\* Mutant: a skipped scenario takes part.
ParticipatingAll(last) == DOMAIN last

Participating(last) == {sdk \in DOMAIN last : last[sdk] # "skip"}

Divergent(results, sc) ==
    LET last == BySdk(results, sc)
        part == Participating(last)
    IN  Cardinality(part) >= 2 /\ Cardinality({last[sdk] : sdk \in part}) > 1

\* Nothing to report is an error; one SDK is not compared.
CompareExit(results) ==
    IF results = << >> THEN 1
    ELSE IF Cardinality({results[i].sdk : i \in DOMAIN results}) < 2 THEN 0
    ELSE IF \E sc \in Scenarios : Divergent(results, sc) THEN 1 ELSE 0
-----------------------------------------------------------------------------
(* scripts/run-matrix.py: one result per pair, one pair after the other, into *)
(* an empty directory.  A pair is gated by backend or runners, or dispatched. *)

Written(sweep) ==
    SetToSeq({[scenario |-> p[1], sdk |-> p[2],
               status |-> IF sweep[p] = "gated" THEN "skip" ELSE sweep[p]]
                  : p \in DOMAIN sweep})

MatrixExit(sweep) ==
    IF \E p \in DOMAIN sweep : sweep[p] \in {"fail", "error"} THEN 1 ELSE 0
-----------------------------------------------------------------------------
Init ==
    /\ outcome = {}
    /\ \/ kind = "ranges" /\ given \in 1..MaxRanges
       \/ kind = "order"  /\ given \in UpTo(Events, MaxLen) \X UpTo(Events, MaxLen)
       \/ kind = "percentile" /\ given \in (UpTo(Samples, MaxLen) \ {<<>>}) \X Percents
       \/ /\ kind = "resume"
          /\ given \in UpTo(Items, 2) \X UpTo(Items, 2) \X ((0..4) \cup {Unset})
       \/ /\ kind = "drain"
          /\ given \in (UpTo(UpTo(Items, 2), MaxLen) \ {<<>>}) \X (0..MaxLen)
                            \X ((0..4) \cup {Unset})
       \/ /\ kind = "report"
          /\ given \in UpTo([scenario : Scenarios, sdk : Sdks, status : Statuses], MaxLen)
       \/ /\ kind = "sweep"
          /\ given \in [Scenarios \X Sdks -> {"pass", "fail", "error", "gated"}]

Outcome ==
    CASE kind = "ranges"     -> Boundaries(given)
      [] kind = "order"      -> ContainsInOrder(given[1], given[2])
      [] kind = "percentile" -> <<PythonPercentile(given[1], given[2]),
                                  JavaPercentile(given[1], given[2])>>
      [] kind = "resume"     -> <<Resumes(given[1], given[2], given[3]),
                                  PagesCover(given[1] \o given[2], given[3])>>
      [] kind = "drain"      ->
            LET parts == DrainInTwo(given[1], given[2])
            IN  <<parts, Resumes(parts[1].items, parts[2].items, given[3])>>
      [] kind = "report"     -> CompareExit(given)
      [] kind = "sweep"      -> <<MatrixExit(given), CompareExit(Written(given))>>

Evaluate == outcome = {} /\ outcome' = {Outcome} /\ UNCHANGED <<kind, given>>

Spec == Init /\ [][Evaluate]_vars
-----------------------------------------------------------------------------
Judged(k) == kind = k /\ outcome # {}
Result == CHOOSE x \in outcome : TRUE

\* The advertised ranges tile the key space from "" to "FF" for any number of
\* them, and none ends before it starts.  "Strictly increasing"
\* (topology_engine.py 44-45) holds up to a number: up to 170 ranges none is
\* empty, from 171 on the last one is, and from 257 on interior boundaries
\* repeat as well, since they are single bytes.
RangesTile ==
    Judged("ranges") =>
        LET Increases(ks) == \A k \in ks : Result[k - 1] < Result[k]
        IN  /\ Result[0] = -1 /\ Result[given] = 255
            /\ \A k \in 1..given : Result[k - 1] <= Result[k]
            /\ Increases(1..given) <=> given <= 170
            /\ Increases(2..(given - 1)) <=> given <= 256

\* As many samples lie on either side of v as the percentile pct says.
Splits(s, v, pct) ==
    LET rank == pct * (Len(s) - 1)
    IN  /\ Cardinality({i \in DOMAIN s : 1000 * s[i] <= v}) > rank \div 1000
        /\ Cardinality({i \in DOMAIN s : 1000 * s[i] >= v})
                >= Len(s) - (rank + 999) \div 1000

\* Python judges by the percentile asked for, Java by the whole one at or below
\* it (Assertions.java 81).  So both compute one value when it is whole, and
\* Java's is never above Python's: of the two only Java can pass alone.
PercentilesExact ==
    Judged("percentile") =>
        LET s     == given[1]
            pct   == given[2]
            whole == pct - (pct % 10)
        IN  /\ Splits(s, Result[1], pct) /\ Splits(s, Result[2], whole)
            /\ Result[2] <= Result[1]
            /\ pct = whole => Result[2] = Result[1]

\* The greedy scan finds an ordered subsequence exactly when there is one, and
\* a resumed drain passes exactly when both parts together are one drain that
\* serves no item twice and as many as expected.  So the two steps of D-403
\* pass exactly when the service does serve every item once, provided that
\* max_pages stops the first before the last page; a first drain that came to
\* the end has no token, the second starts again, and only an empty query passes.
AssertionsExact ==
    /\ Judged("order") =>
        LET actual == given[1]
            want   == given[2]
        IN  Result <=> \E f \in [DOMAIN want -> DOMAIN actual] :
                /\ \A i, j \in DOMAIN want : i < j => f[i] < f[j]
                /\ \A i \in DOMAIN want : actual[f[i]] = want[i]
    /\ Judged("resume") =>
        LET all == given[1] \o given[2]
        IN  /\ Result[1] <=> /\ \A i, j \in DOMAIN all : all[i] = all[j] => i = j
                             /\ given[3] \in {Unset, Len(all)}
            /\ Result[1] = Result[2]
    /\ Judged("drain") =>
        LET all   == FlattenSeq(given[1])
            part  == Result[1]
            whole == Len(part[1].items) + Len(part[2].items) = Len(all)
            once  == \A i, j \in DOMAIN all : all[i] = all[j] => i = j
        IN  IF Max({1, given[2]}) < Len(given[1])
            THEN /\ whole /\ part[1].pageCount + part[2].pageCount = Len(given[1])
                 /\ Result[2] <=> once /\ given[3] \in {Unset, Len(all)}
            ELSE Result[2] <=> all = << >> /\ given[3] \in {Unset, 0}

\* The report fails exactly when it is empty or two SDKs that both ran some
\* scenario ended it apart; and a sweep that ends well, in which pairs were only
\* skipped or passed, is never failed by the comparison behind it (ci.yml 82-95).
DivergenceExact ==
    /\ Judged("report") =>
        LET IsLast(i) == \A j \in DOMAIN given : j > i =>
                <<given[j].scenario, given[j].sdk>> # <<given[i].scenario, given[i].sdk>>
            Ran(i)    == IsLast(i) /\ given[i].status # "skip"
        IN  Result = 1 <=>
                \/ given = << >>
                \/ \E i, j \in DOMAIN given :
                        /\ Ran(i) /\ Ran(j) /\ given[i].scenario = given[j].scenario
                        /\ given[i].status # given[j].status
    /\ Judged("sweep") => (Result[1] = 0 => Result[2] = 0)
=============================================================================
