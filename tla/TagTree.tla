------------------------------- MODULE TagTree -------------------------------
(***************************************************************************)
(* The capability tag tree, by which a Discovery node tells whether an     *)
(* Agent's tags fall into its domains.  The walk from a tag to its parents *)
(* is run turn by turn over every table of parents, with cycles, parents   *)
(* that are not in the table, and aliases.                                 *)
(***************************************************************************)
EXTENDS Naturals, Sequences, FiniteSets

CONSTANTS
    TagIds,      \* tags, and names that may be aliases of tags
    NoTag,       \* no parent
    Wildcard,    \* "*"
    MaxTags      \* bound on the tags of the table

ASSUME TagsAssumption == IsFiniteSet(TagIds) /\ NoTag \notin TagIds /\ MaxTags \in Nat

VARIABLES
    table,   \* the tags in their order: id, parent, aliases
    asked,   \* the capability tag and the domain
    at,      \* the parent the walk has come to
    seen,    \* the parents it has passed
    verdict, \* none yet, or the answer
    turns    \* history: the turns of the loop

tagVars == <<table, asked, at, seen, verdict, turns>>

Tag == [id : TagIds, parent : TagIds \union {NoTag}, aliases : SUBSET TagIds]

\* normalize_tag: the first tag that has this id or alias; else the value itself.
Normalized(value) ==
    LET named == {i \in 1..Len(table) : value = table[i].id \/ value \in table[i].aliases} IN
    IF named = {} THEN value ELSE table[CHOOSE i \in named : \A j \in named : i <= j].id

\* by_id: a map collected from the tags, where the last of an id counts.
ParentOf(t) ==
    LET rows == {i \in 1..Len(table) : table[i].id = t} IN
    IF rows = {} THEN NoTag ELSE table[CHOOSE i \in rows : \A j \in rows : j <= i].parent

\* matches_authorized_domains, up to the loop of is_descendant_or_same.
TagInit ==
    /\ table \in UNION {[1..n -> Tag] : n \in 0..MaxTags}
    /\ asked \in [capability : TagIds, domain : TagIds \union {Wildcard}]
    /\ at = ParentOf(Normalized(asked.capability)) /\ seen = {} /\ turns = 0
    /\ verdict = IF asked.domain = Wildcard \/ Normalized(asked.capability) = Normalized(asked.domain)
                 THEN "yes" ELSE "none"

\* Mutant: a cycle is taken for a match.
CycleMatches == "yes"

CycleVerdict == "no"
Passed(t) == seen \union {t}

\* One turn of the loop.
Climb ==
    /\ verdict = "none"
    /\ verdict' = CASE at = NoTag -> "no"
                    [] at # NoTag /\ at = Normalized(asked.domain) -> "yes"
                    [] at # NoTag /\ at # Normalized(asked.domain) /\ at \in seen -> CycleVerdict
                    [] OTHER -> "none"
    /\ seen' = IF at = NoTag THEN seen ELSE Passed(at)
    /\ at' = IF verdict' = "none" THEN ParentOf(at) ELSE at
    /\ turns' = turns + 1
    /\ UNCHANGED <<table, asked>>

TagNext == Climb
TagSpec == TagInit /\ [][TagNext]_tagVars

----------------------------------------------------------------------------
(* Properties *)

\* The tags above t: the smallest set that holds the parent of t, and of
\* every tag in it.
Closed(S, t) == \A u \in S \union {t} : ParentOf(u) # NoTag => ParentOf(u) \in S
Above(t) == {u \in TagIds : \A S \in SUBSET TagIds : Closed(S, t) => u \in S}

\* The walk gives the answer of the definition: the domain is the tag or above
\* it, on trees and on tables that are none.  And it ends, also in a cycle: it
\* climbs no further than there are tags, and one turn more.
WalkIsAncestry ==
    /\ turns <= Cardinality(TagIds) + 1
    /\ verdict # "none" =>
          (verdict = "yes" <=>
              \/ asked.domain = Wildcard
              \/ Normalized(asked.domain) = Normalized(asked.capability)
              \/ Normalized(asked.domain) \in Above(Normalized(asked.capability)))
============================================================================
