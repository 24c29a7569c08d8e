----------------------------- MODULE DraftGates -----------------------------
(***************************************************************************)
(* The gates no model decides (invariants/validate.py, invariants/         *)
(* finalize.py): whether a draft holds the rendered clauses as they are,    *)
(* how many points that is worth, and which of several drafts may become    *)
(* the contract.                                                           *)
(*                                                                         *)
(* A text says what it makes of each clause: "absent", "reworded", or the   *)
(* values the clause is rendered with, verbatim; and whether a placeholder  *)
(* is left in it.  `rendered` gives the values each clause in the           *)
(* workspace was rendered with.                                            *)
(***************************************************************************)
EXTENDS Integers, FiniteSets

CompletenessWeight == 30
PlaceholdersWeight == 25
FidelityWeight == 15
JudgeMax == 30
BlockedCeiling == 89
PassScore == 90

\* _classify_clauses: a clause rendered with other values reads as a rewording.
Present(text, rendered) == {c \in DOMAIN rendered : text.body[c] # "absent"}
Altered(text, rendered) ==
    {c \in Present(text, rendered) : text.body[c] # rendered[c]}
Missing(text, rendered, required) == required \ Present(text, rendered)

\* Python's round of a quotient: to the even neighbour from the middle
RoundedQuotient(n, d) ==
    LET q == n \div d
        twice == 2 * (n % d)
    IN IF twice > d \/ (twice = d /\ q % 2 = 1) THEN q + 1 ELSE q

Proportional(points, good, total) ==
    IF total = 0 THEN points ELSE RoundedQuotient(points * good, total)

DeterministicPoints(text, rendered, required) ==
    LET missing == Cardinality(Missing(text, rendered, required))
        altered == Cardinality(Altered(text, rendered))
        all == Cardinality(DOMAIN rendered)
    IN  Proportional(CompletenessWeight, Cardinality(required) - missing, Cardinality(required))
          + (IF text.blanks THEN 0 ELSE PlaceholdersWeight)
          + Proportional(FidelityWeight, all - altered, all)

\* Mutant: the wording is left to the judge.
PassesUnlessMissing(text, rendered, required) ==
    Missing(text, rendered, required) = {} /\ ~text.blanks

\* ValidationReport.ok: no finding of any gate
Passes(text, rendered, required) ==
    /\ Missing(text, rendered, required) = {}
    /\ ~text.blanks
    /\ Altered(text, rendered) = {}

\* score_draft
ScoreDraft(text, rendered, required, judgePoints) ==
    LET total == DeterministicPoints(text, rendered, required) + judgePoints
    IN IF ~Passes(text, rendered, required) /\ total > BlockedCeiling
       THEN BlockedCeiling ELSE total

NotJudged == -1

\* _score_of: the judge's score, or the gates' alone
ScoreOf(candidate, rendered, required) ==
    IF candidate.score # NotJudged THEN candidate.score
    ELSE ScoreDraft(candidate.text, rendered, required, 0)

\* The attempts whose draft select_finalizable may choose
Eligible(candidates, rendered, required) ==
    {a \in DOMAIN candidates : Passes(candidates[a].text, rendered, required)}

\* select_finalizable's choice among them: the highest score, the earliest
\* attempt of those that have it
SelectFinalizable(candidates, rendered, required) ==
    LET eligible == Eligible(candidates, rendered, required)
        score(a) == ScoreOf(candidates[a], rendered, required)
    IN CHOOSE a \in eligible : \A b \in eligible :
            score(b) < score(a) \/ (score(b) = score(a) /\ a <= b)
=============================================================================
