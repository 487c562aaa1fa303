--------------------------- MODULE DiscoveryQuery ---------------------------
(***************************************************************************)
(* A query to a Discovery node of the reference services, over one reading *)
(* of its index: the packages that match are taken one after the other,    *)
(* sorted by score, and cut at the limit.  Names are compared without      *)
(* regard to case there, and by parts, of which only the outcome is kept:  *)
(* mentions says that a package has the text of the query somewhere.       *)
(***************************************************************************)
EXTENDS Naturals, Sequences, FiniteSets

CONSTANTS
    IndexedPackages, \* [tags, mentions, identity, services, active]
    Queries,         \* [text, tags, type, protocol, limit]
    Unasked,             \* a part the query leaves open
    IndexSize        \* bound on the packages in the index

ASSUME QueriesAssumption ==
    IndexSize \in Nat /\ \A q \in Queries : q.limit \in Nat /\ IsFiniteSet(q.tags)

VARIABLES
    index,      \* the packages read
    query,
    next,       \* the package the filter has come to
    candidates, \* the places of those that matched
    answered

queryVars == <<index, query, next, candidates, answered>>

QueryInit ==
    /\ index \in UNION {[1..n -> IndexedPackages] : n \in 0..IndexSize}
    /\ query \in Queries
    /\ next = 1 /\ candidates = <<>> /\ answered = FALSE

\* Mutant: a withdrawn Agent is a match.
MatchesWithdrawn(package) ==
    /\ query.text => package.mentions
    /\ query.tags = {} \/ query.tags \cap package.tags # {}

matches_query(package) ==
    /\ query.text => package.mentions
    /\ query.tags = {} \/ query.tags \cap package.tags # {}
    /\ query.type = Unasked \/ query.type = package.identity \/ \E s \in package.services : s.type = query.type
    /\ query.protocol = Unasked \/ \E s \in package.services : s.protocol = query.protocol
    /\ package.active

\* In quarters.
score(i) == 2 + Cardinality(query.tags \cap index[i].tags)

\* sort_by keeps the order of equals.
Before(i, j) == score(i) > score(j) \/ (score(i) = score(j) /\ i < j)
Sorted(s) ==
    CHOOSE t \in [1..Len(s) -> {s[k] : k \in 1..Len(s)}] :
        \A k, l \in 1..Len(s) : k < l => Before(t[k], t[l])

Filter ==
    /\ next <= Len(index)
    /\ candidates' = IF matches_query(index[next]) THEN Append(candidates, next) ELSE candidates
    /\ next' = next + 1
    /\ UNCHANGED <<index, query, answered>>

Respond ==
    /\ next > Len(index) /\ ~answered
    /\ candidates' = LET sorted == Sorted(candidates) IN
                     SubSeq(sorted, 1, IF Len(sorted) < query.limit THEN Len(sorted) ELSE query.limit)
    /\ answered' = TRUE
    /\ UNCHANGED <<index, query, next>>

QueryNext == Filter \/ Respond
QuerySpec == QueryInit /\ [][QueryNext]_queryVars

\* The answer is the best of what matches: nothing withdrawn or unasked for is
\* in it, nothing left out scores better than anything in it, and something is
\* left out only of a full answer.
AnswerIsBest ==
    answered =>
        /\ \A k \in 1..Len(candidates) : matches_query(index[candidates[k]]) /\ index[candidates[k]].active
        /\ \A i \in 1..Len(index) :
              matches_query(index[i]) /\ (\A k \in 1..Len(candidates) : candidates[k] # i) =>
                  /\ Len(candidates) = query.limit
                  /\ \A k \in 1..Len(candidates) : score(candidates[k]) >= score(i)
============================================================================
