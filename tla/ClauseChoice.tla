---------------------------- MODULE ClauseChoice ----------------------------
(***************************************************************************)
(* Which clause is recommended for each slot of a contract: the candidates  *)
(* of the knowledge object are grouped by category                          *)
(* (phase_b/recommendation.py), scored and ranked (invariants/ranking.py),  *)
(* and the first is chosen.  A library clause is described by its id        *)
(* (knowledge/providers/clause_library.py), a template's clause by the      *)
(* classifier: it has no clause id.                                         *)
(*                                                                         *)
(* A candidate's merits are what ranking gives points for.                  *)
(***************************************************************************)
EXTENDS Lists

CONSTANTS
    MeritSets,      \* the merits a template's clause may have
    MaxClassified   \* bound on the clauses classified in the template

ASSUME MaxClassifiedAssumption == MaxClassified \in Nat

\* The suffixes of some ids of the library, in alphabetical order, and the
\* categories they map to.  "bespoke" is mapped to nothing and is no category.
LibraryIds == <<"bespoke", "confidentiality", "duration", "obligations">>
Taxonomy == {"confidentiality", "term_and_duration"}
Mapped(suffix) ==
    CASE suffix = "duration" -> "term_and_duration"
      [] suffix = "obligations" -> "confidentiality"
      [] OTHER -> suffix

\* Mutant: a suffix that is no category becomes one.
CategoryInvented(suffix) == Mapped(suffix)

\* _category_of
CategoryOf(suffix) == IF Mapped(suffix) \in Taxonomy THEN Mapped(suffix) ELSE "other"
Category == Taxonomy \cup {"other"}

Points ==
    [jurisdiction |-> 3, industry |-> 2, mandatory |-> 2, low_risk |-> 1, confident |-> 1]
Merit == DOMAIN Points

NoId == 0       \* a candidate's id is its place in LibraryIds, or this
Candidate == [category : Category, id : 0 .. Len(LibraryIds), merits : SUBSET Merit]

\* clause_to_candidate, for a clause whose jurisdiction the intent names
ClauseToCandidate(id, required) ==
    [category |-> CategoryOf(LibraryIds[id]), id |-> id,
     merits |-> {"jurisdiction", "low_risk", "confident"}
                    \cup (IF required THEN {"mandatory"} ELSE {})]

VARIABLES
    candidates,     \* those of the knowledge object
    recommended     \* no tuple, or the recommendation of each slot

choiceVars == <<candidates, recommended>>

ChoiceTypeOK ==
    /\ candidates \in Seq(Candidate)
    /\ \A set \in recommended : \A c \in DOMAIN set :
           /\ c \in Category
           /\ set[c].chosen \in Candidate
           /\ set[c].alternatives \in Seq(Candidate)

Classified ==
    {c \in Candidate : c.id = NoId /\ c.merits \in MeritSets}

\* The library's candidates in library order, whatever that is, and after them
\* the template's: the order of precedence in which the aggregator lists them.
ChoiceInit ==
    /\ \E ids \in SUBSET DOMAIN LibraryIds, required \in SUBSET DOMAIN LibraryIds,
          n \in 0 .. MaxClassified :
           /\ required \subseteq ids
           /\ \E order \in SetToSeqs(ids), classified \in [1 .. n -> Classified] :
                  candidates = [i \in DOMAIN order |->
                                    ClauseToCandidate(order[i], order[i] \in required)]
                               \o classified
    /\ recommended = {}

-----------------------------------------------------------------------------
Gain(c, merit) == IF merit \in c.merits THEN Points[merit] ELSE 0

\* _score
Score(c) ==
    Gain(c, "jurisdiction") + Gain(c, "industry") + Gain(c, "mandatory")
      + Gain(c, "low_risk") + Gain(c, "confident")

\* Mutant: equal scores are left in the order they came in.
RanksByScore(c, d) == Score(c) > Score(d)

\* sort_key: the higher score, then the smaller id.  The category, its last
\* part, is the same within a slot.
Ranks(c, d) == Score(c) > Score(d) \/ (Score(c) = Score(d) /\ c.id < d.id)

RankCandidates(list) == Sorted(list, Ranks)

RecommendSlot(list) ==
    LET ranked == RankCandidates(list)
    IN  [chosen |-> Head(ranked), alternatives |-> Tail(ranked)]

InSlot(c) == Kept(candidates, {i \in DOMAIN candidates : candidates[i].category = c})

\* A slot without candidates has no recommendation.
RecommendClauses ==
    /\ recommended = {}
    /\ recommended' = {[c \in {candidates[i].category : i \in DOMAIN candidates} |->
                            RecommendSlot(InSlot(c))]}
    /\ UNCHANGED candidates

ChoiceNext == RecommendClauses

-----------------------------------------------------------------------------
\* Every candidate is either chosen for its slot or recorded as an alternative,
\* the chosen one has the best score of all that are described, and whichever
\* order the library lists its clauses in, of two with equal scores the one with
\* the smaller id comes first (ranking.py: "the order is total and stable").
ChoiceIsBest ==
    \A set \in recommended :
        /\ DOMAIN set = {c.category : c \in ToSet(candidates)}
        /\ \A c \in DOMAIN set :
               LET ranked == <<set[c].chosen>> \o set[c].alternatives
                   count(list, d) == Cardinality({i \in DOMAIN list : list[i] = d})
               IN  /\ \A d \in ToSet(candidates) \cup ToSet(ranked) :
                          count(ranked, d) =
                              IF d.category = c THEN count(candidates, d) ELSE 0
                   /\ \A i \in DOMAIN ranked : Score(ranked[i]) <= Score(set[c].chosen)
                   /\ \A i, j \in DOMAIN ranked :
                          /\ i < j /\ Score(ranked[i]) = Score(ranked[j])
                          => ranked[i].id <= ranked[j].id
=============================================================================
