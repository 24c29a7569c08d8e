--------------------------- MODULE DeepAgentProofs ---------------------------
(* Proofs about the supervisor agent's ledger of drafts: its length, its one *)
(* final version, and what a version that is final says.  They hold for      *)
(* overlapping slices too (any value of Retries).                            *)
EXTENDS DeepAgent, TLAPS, FiniteSetTheorems, SequenceTheorems, WellFoundedInduction

(***************************************************************************)
(* The gates                                                               *)
(***************************************************************************)

\* Rounding a quotient does not take it past a whole bound (Python's round).
LEMMA QuotientBounded ==
  ASSUME NEW n \in Nat, NEW d \in Nat \ {0}, NEW k \in Nat, n <= k * d
  PROVE  RoundedQuotient(n, d) \in 0 .. k
<1> DEFINE q == n \div d
           r == n % d
<1>1. q \in Nat /\ r \in 0 .. d - 1 /\ n = d * q + r
  OBVIOUS
<1>2. q <= k
  <2>1. SUFFICES ASSUME q >= k + 1 PROVE FALSE
    BY <1>1
  <2>2. d * q >= d * (k + 1)
    BY <1>1, <2>1
  <2>3. d * (k + 1) = k * d + d
    OBVIOUS
  <2> QED
    BY <1>1, <2>2, <2>3
<1>3. q = k => r = 0
  BY <1>1
<1>4. q = k => 2 * r = 0
  BY <1>3
<1>5. RoundedQuotient(n, d) = IF 2 * r > d \/ (2 * r = d /\ q % 2 = 1) THEN q + 1 ELSE q
  BY DEF RoundedQuotient
<1> HIDE DEF q, r
<1>6. CASE q = k
  BY <1>4, <1>5, <1>6
<1>7. CASE q < k
  BY <1>1, <1>5, <1>7
<1> QED
  BY <1>1, <1>2, <1>6, <1>7

\* A gate awards between none of its points and all of them.
LEMMA ProportionalBounded ==
  ASSUME NEW points \in Nat, NEW total \in Nat, NEW good \in 0 .. total
  PROVE  Proportional(points, good, total) \in 0 .. points
<1>1. CASE total = 0
  BY <1>1 DEF Proportional
<1>2. CASE total # 0
  <2>1. points * good \in Nat /\ points * good <= points * total
    OBVIOUS
  <2> QED
    BY <1>2, <2>1, QuotientBounded DEF Proportional
<1> QED
  BY <1>1, <1>2

\* A score is between 0 and 100, whatever the draft and the library.
LEMMA ScoreBounded ==
  ASSUME NEW text \in Text, NEW rendered \in Rendered,
         NEW required \in SUBSET Clause, NEW points \in 0 .. JudgeMax
  PROVE  ScoreDraft(text, rendered, required, points) \in 0 .. 100
<1> DEFINE missing == Missing(text, rendered, required)
           altered == Altered(text, rendered)
           deterministic == DeterministicPoints(text, rendered, required)
<1>1. IsFiniteSet(required) /\ IsFiniteSet(DOMAIN rendered)
  BY LibraryAssumption, FS_Subset DEF Rendered
<1>2. /\ missing \in SUBSET required /\ altered \in SUBSET DOMAIN rendered
  BY DEF Missing, Altered, Present
<1>3. /\ Cardinality(required) \in Nat /\ Cardinality(DOMAIN rendered) \in Nat
      /\ Cardinality(missing) \in Nat /\ Cardinality(altered) \in Nat
      /\ Cardinality(missing) <= Cardinality(required)
      /\ Cardinality(altered) <= Cardinality(DOMAIN rendered)
  BY <1>1, <1>2, FS_Subset, FS_CardinalityType
<1>4. Proportional(CompletenessWeight, Cardinality(required) - Cardinality(missing),
                   Cardinality(required)) \in 0 .. 30
  <2>1. Cardinality(required) - Cardinality(missing) \in 0 .. Cardinality(required)
    BY <1>3
  <2> QED
    BY <1>3, <2>1, ProportionalBounded DEF CompletenessWeight
<1>5. Proportional(FidelityWeight, Cardinality(DOMAIN rendered) - Cardinality(altered),
                   Cardinality(DOMAIN rendered)) \in 0 .. 15
  <2>1. Cardinality(DOMAIN rendered) - Cardinality(altered) \in 0 .. Cardinality(DOMAIN rendered)
    BY <1>3
  <2> QED
    BY <1>3, <2>1, ProportionalBounded DEF FidelityWeight
<1>6. deterministic \in 0 .. 70
  BY <1>4, <1>5 DEF DeterministicPoints, PlaceholdersWeight
<1> QED
  BY <1>6 DEF ScoreDraft, JudgeMax, BlockedCeiling

\* Among natural numbers there is a least one.
LEMMA LeastOf ==
  ASSUME NEW T, T \subseteq Nat, T # {}
  PROVE  \E x \in T : \A y \in T : x <= y
<1>1. PICK x \in T : \A y \in T : <<y, x>> \notin OpToRel(<, Nat)
  BY NatLessThanWellFounded, WFMin
<1>2. ASSUME NEW y \in T PROVE x <= y
  <2>1. ~(y < x)
    BY <1>1 DEF OpToRel
  <2> QED
    BY <2>1
<1> QED
  BY <1>2

\* select_finalizable chooses a draft that passes the gates, if there is one.
LEMMA ChoosesEligible ==
  ASSUME NEW candidates \in Seq(Version), NEW rendered \in Rendered,
         NEW required \in SUBSET Clause,
         Eligible(candidates, rendered, required) # {}
  PROVE  SelectFinalizable(candidates, rendered, required)
            \in Eligible(candidates, rendered, required)
<1> DEFINE eligible == Eligible(candidates, rendered, required)
           score(a) == ScoreOf(candidates[a], rendered, required)
           lost == {100 - score(a) : a \in eligible}
<1>1. eligible \subseteq DOMAIN candidates /\ DOMAIN candidates \subseteq Nat
  <2>1. DOMAIN candidates = 1 .. Len(candidates) /\ Len(candidates) \in Nat
    BY LenProperties
  <2> QED
    BY <2>1 DEF Eligible
<1>2. \A a \in eligible : score(a) \in 0 .. 100
  <2> SUFFICES ASSUME NEW a \in eligible PROVE score(a) \in 0 .. 100
    OBVIOUS
  <2>1. candidates[a] \in Version
    BY <1>1, ElementOfSeq
  <2>t. candidates[a].text \in Text /\ 0 \in 0 .. JudgeMax
    BY <2>1 DEF Version, JudgeMax
  <2>2. ScoreDraft(candidates[a].text, rendered, required, 0) \in 0 .. 100
    BY <2>t, ScoreBounded
  <2> QED
    BY <2>1, <2>2 DEF ScoreOf, Version
<1>e. eligible # {}
  OBVIOUS
<1> HIDE DEF eligible, score
<1>3. lost \subseteq Nat /\ lost # {}
  <2>1. \A a \in eligible : 100 - score(a) \in Nat
    <3>1. \A x \in 0 .. 100 : 100 - x \in Nat
      OBVIOUS
    <3> QED
      BY <1>2, <3>1
  <2> QED
    BY <2>1, <1>e
<1>4. PICK least \in lost : \A other \in lost : least <= other
  BY <1>3, LeastOf
<1> DEFINE best == {a \in eligible : 100 - score(a) = least}
<1>5. best \subseteq Nat /\ best # {}
  BY <1>1, <1>4
<1>6. PICK a \in best : \A b \in best : a <= b
  BY <1>5, LeastOf
<1>7. \A b \in eligible : score(b) < score(a) \/ (score(b) = score(a) /\ a <= b)
  <2> SUFFICES ASSUME NEW b \in eligible
               PROVE  score(b) < score(a) \/ (score(b) = score(a) /\ a <= b)
    OBVIOUS
  <2>1. score(a) \in 0 .. 100 /\ score(b) \in 0 .. 100 /\ 100 - score(a) = least
    BY <1>2, <1>6
  <2>2. least <= 100 - score(b)
    BY <1>4
  <2>3. CASE score(b) = score(a)
    BY <1>6, <2>1, <2>3
  <2>4. \A x, y \in 0 .. 100 : 100 - x = least /\ least <= 100 - y => y <= x
    OBVIOUS
  <2>5. \A x, y \in 0 .. 100 : y <= x /\ y # x => y < x
    OBVIOUS
  <2> QED
    BY <2>1, <2>2, <2>3, <2>4, <2>5
<1>8. a \in eligible
  BY <1>6
<1>9. SelectFinalizable(candidates, rendered, required)
        = CHOOSE c \in eligible : \A b \in eligible :
            score(b) < score(c) \/ (score(b) = score(c) /\ c <= b)
  BY DEF SelectFinalizable, eligible, score
<1> HIDE DEF best
<1>10. SelectFinalizable(candidates, rendered, required) \in eligible
  BY <1>7, <1>8, <1>9
<1> QED
  BY <1>10 DEF eligible

(***************************************************************************)
(* The ledger                                                              *)
(***************************************************************************)

\* A text that may become the contract: no placeholder is left in it, and every
\* clause some contract type requires is in it as it was rendered.
Whole(text) ==
    /\ ~text.blanks
    /\ \E t \in ContractType : \A c \in RequiredOf[t] : text.body[c] \in Value

\* What a draft that passes the gates says.
LEMMA PassesIsWhole ==
  ASSUME NEW text, NEW rendered \in Rendered, NEW t \in ContractType,
         Passes(text, rendered, RequiredOf[t])
  PROVE  Whole(text)
<1>1. ASSUME NEW c \in RequiredOf[t] PROVE text.body[c] \in Value
  <2>1. c \in Present(text, rendered)
    BY DEF Passes, Missing
  <2>2. c \in DOMAIN rendered /\ text.body[c] = rendered[c]
    BY <2>1 DEF Passes, Altered, Present
  <2> QED
    BY <2>2 DEF Rendered
<1> QED
  BY <1>1 DEF Whole, Passes

Statuses == {"intake", "drafting", "awaiting_input", "ready", "failed"}
Terminals == {"complete", "input_required", "error"}

\* A slice's RunContext
IsContext(context) ==
    /\ DOMAIN context = {"at", "type", "tokens", "log", "turns"}
    /\ context.at = "choosing"
    /\ context.type \in {"none"} \cup ContractType

\* What a slice knows at each point: the call under way keeps the context it
\* returns to, and what it has read still holds of the ledger.
CallInv(call) ==
    /\ call.at = "choosing" => IsContext(call)
    /\ call.at \in {"drafting", "judging", "committing"} => IsContext(call.context)
    /\ call.at = "drafting" => call.found <= MaxAttempts
    /\ call.at = "judging" =>
          versions # <<>> /\ call.found.scores \subseteq 0 .. 100
    /\ call.at = "committing" =>
          /\ call.found.attempt \in DOMAIN versions
          /\ call.found.score \in 0 .. 100
          /\ Whole(versions[call.found.attempt].text)
    /\ call.at = "stopping" => call.status \in Statuses /\ call.event \in Terminals
    /\ call.at = "reporting" => call.event \in Terminals

SliceInv ==
    /\ slice = [s \in Slice |-> slice[s]]
    /\ \A s \in Slice : CallInv(slice[s])

LedgerInv ==
    /\ Len(versions) <= MaxAttempts
    /\ \A a \in Finals : Whole(versions[a].text)
    /\ \A a, b \in Finals : a = b

AgentInv == TypeOK /\ SliceInv /\ LedgerInv

\* Versions are only ever added, and what one says is never rewritten.
TextsKept ==
    \A a \in DOMAIN versions :
        a \in DOMAIN versions' /\ versions'[a].text = versions[a].text

Grading(s) == DraftEnd(s) \/ RecordScore(s) \/ CommitFinal(s)

\* The fields of a version that a score and a final stamp leave as they are.
LEMMA StampedVersion ==
  ASSUME NEW v \in Version, NEW n \in 0 .. 100, NEW b \in BOOLEAN
  PROVE  /\ [v EXCEPT !.score = n] \in Version
         /\ [v EXCEPT !.score = n].text = v.text
         /\ [v EXCEPT !.score = n].final = v.final
         /\ [v EXCEPT !.score = n].review = v.review
         /\ [v EXCEPT !.final = TRUE, !.score = n, !.review = b] \in Version
         /\ [v EXCEPT !.final = TRUE, !.score = n, !.review = b].text = v.text
         /\ [v EXCEPT !.final = TRUE, !.score = n, !.review = b].final
BY DEF Version

\* Every other step leaves the ledger alone.
LEMMA LedgerUntouched ==
  ASSUME NEW s \in Slice, StartRun(s) \/ ReadPending(s) \/ Work(s), ~Grading(s)
  PROVE  UNCHANGED versions
<1>1. CASE StartRun(s) \/ ReadPending(s) \/ MarkAnswered(s) \/ Rehydrate(s)
  BY <1>1 DEF StartRun, ReadPending, MarkAnswered, Rehydrate
<1>2. CASE RenderClauses(s) \/ NothingDone(s) \/ DraftBegin(s) \/ SubAgentFails(s)
  BY <1>2 DEF RenderClauses, NothingDone, DraftBegin, SubAgentFails, RunSubAgent
<1>3. CASE JudgeBegin(s) \/ SelectDraft(s) \/ ExportDocx(s)
  BY <1>3 DEF JudgeBegin, SelectDraft, ExportDocx, RunSubAgent
<1>4. CASE AskUser(s) \/ Answer(s) \/ Break(s) \/ SetStatus(s) \/ Finish(s)
  BY <1>4 DEF AskUser, Answer, Break, SetStatus, Finish
<1> QED
  BY <1>1, <1>2, <1>3, <1>4 DEF Work, Grading

\* The slices that are about to commit an attempt
Committing(a) == {s \in Slice : Calling(s, "committing") /\ slice[s].found.attempt = a}

\* What a step may do to the ledger: a draft is appended within the limit, a score
\* is recorded, or one version is stamped that nothing but itself precedes as the
\* final one.
LedgerStep ==
    /\ versions' \in Seq(Version)
    /\ TextsKept
    /\ Len(versions') <= MaxAttempts
    /\ \A a \in DOMAIN versions' : versions'[a].final /\ a \notin Finals =>
          Finals = {} /\ a \in DOMAIN versions /\ Whole(versions[a].text)
    /\ \A a, b \in DOMAIN versions' : versions'[a].final /\ versions'[b].final
          /\ a \notin Finals /\ b \notin Finals => a = b
    /\ \A a \in Finals :
          /\ versions'[a].final
          /\ versions'[a].review # versions[a].review => Committing(a) # {}

\* DraftEnd appends a version that is not final, at a number within the limit.
LEMMA DraftLedger ==
  ASSUME AgentInv, NEW s \in Slice, DraftEnd(s)
  PROVE  LedgerStep
<1>1. PICK text \in Text :
        versions' = IF slice[s].found = NextAttempt
                    THEN Append(versions, NewVersion(text)) ELSE versions
  BY DEF DraftEnd
<1>2. slice[s].found <= MaxAttempts /\ Len(versions) \in Nat
  BY LenProperties DEF AgentInv, TypeOK, SliceInv, CallInv, DraftEnd, Calling
<1>3. NewVersion(text) \in Version /\ ~NewVersion(text).final
  BY DEF NewVersion, Version, NotJudged
<1>4. CASE slice[s].found = NextAttempt
  <2>1. /\ versions' \in Seq(Version) /\ Len(versions') = Len(versions) + 1
        /\ \A a \in 1 .. Len(versions) : versions'[a] = versions[a]
        /\ versions'[Len(versions) + 1] = NewVersion(text)
    BY <1>1, <1>3, <1>4, AppendProperties DEF AgentInv, TypeOK
  <2>2. /\ DOMAIN versions = 1 .. Len(versions)
        /\ DOMAIN versions' = 1 .. (Len(versions) + 1)
    BY <2>1, LenProperties DEF AgentInv, TypeOK
  <2>3. \A a \in DOMAIN versions' : a \in DOMAIN versions \/ a = Len(versions) + 1
    BY <1>2, <2>2
  <2>4. Len(versions') <= MaxAttempts
    BY <1>2, <1>4, <2>1 DEF NextAttempt
  <2>5. DOMAIN versions \subseteq DOMAIN versions'
    BY <1>2, <2>2
  <2> QED
    BY <1>3, <2>1, <2>2, <2>3, <2>4, <2>5 DEF LedgerStep, TextsKept, Finals
<1>5. CASE slice[s].found # NextAttempt
  BY <1>1, <1>5 DEF LedgerStep, TextsKept, Finals, AgentInv, TypeOK, LedgerInv
<1> QED
  BY <1>4, <1>5

\* RecordScore changes the newest version's score.
LEMMA ScoreLedger ==
  ASSUME AgentInv, NEW s \in Slice, RecordScore(s)
  PROVE  LedgerStep
<1>1. PICK score \in slice[s].found.scores :
        versions' = [versions EXCEPT ![Len(versions)].score = score]
  BY DEF RecordScore
<1>2. score \in 0 .. 100 /\ versions # <<>> /\ versions \in Seq(Version)
  BY DEF AgentInv, TypeOK, SliceInv, CallInv, RecordScore, Calling
<1>3. Len(versions) \in 1 .. Len(versions) /\ DOMAIN versions = 1 .. Len(versions)
  BY <1>2, LenProperties, EmptySeq
<1> DEFINE newest == versions[Len(versions)]
           scored == [newest EXCEPT !.score = score]
<1>4. newest \in Version
  BY <1>2, <1>3, ElementOfSeq
<1>5. /\ scored \in Version /\ scored.text = newest.text /\ scored.final = newest.final
      /\ scored.review = newest.review
  BY <1>2, <1>4, StampedVersion
<1>6. versions' = [versions EXCEPT ![Len(versions)] = scored]
  BY <1>1
<1> HIDE DEF newest, scored
<1>7. /\ versions' \in Seq(Version) /\ Len(versions') = Len(versions)
      /\ \A a \in 1 .. Len(versions) :
            versions'[a] = IF a = Len(versions) THEN scored ELSE versions[a]
  BY <1>2, <1>3, <1>5, <1>6, ExceptSeq
<1>8. DOMAIN versions' = DOMAIN versions
  BY <1>6
<1>9. \A a \in DOMAIN versions :
        /\ versions'[a].text = versions[a].text /\ versions'[a].final = versions[a].final
        /\ versions'[a].review = versions[a].review
  BY <1>3, <1>5, <1>7 DEF newest
<1> QED
  BY <1>7, <1>8, <1>9 DEF LedgerStep, TextsKept, Finals, AgentInv, LedgerInv

\* CommitFinal stamps the version that was chosen, if no other is final by now.
LEMMA CommitLedger ==
  ASSUME AgentInv, NEW s \in Slice, CommitFinal(s)
  PROVE  LedgerStep
<1> DEFINE chosen == slice[s].found
<1>1. CASE MayBeFinal(chosen.attempt)
  <2>1. /\ chosen.attempt \in DOMAIN versions /\ chosen.score \in 0 .. 100
        /\ Whole(versions[chosen.attempt].text) /\ versions \in Seq(Version)
    BY DEF AgentInv, TypeOK, SliceInv, CallInv, CommitFinal, Calling
  <2> DEFINE old == versions[chosen.attempt]
             review == chosen.score < PassScore
             stamped == [old EXCEPT !.final = TRUE, !.score = chosen.score, !.review = review]
  <2>2. versions' = [versions EXCEPT ![chosen.attempt] = stamped]
    BY <1>1 DEF CommitFinal
  <2>3. DOMAIN versions = 1 .. Len(versions)
    BY <2>1, LenProperties
  <2>4. old \in Version /\ review \in BOOLEAN
    BY <2>1, <2>3, ElementOfSeq
  <2> HIDE DEF old, review
  <2> DEFINE n == chosen.score
  <2>n. n \in 0 .. 100
    BY <2>1
  <2> HIDE DEF n
  <2>5. stamped \in Version /\ stamped.text = old.text /\ stamped.final
    <3>1. /\ [old EXCEPT !.final = TRUE, !.score = n, !.review = review] \in Version
          /\ [old EXCEPT !.final = TRUE, !.score = n, !.review = review].text = old.text
          /\ [old EXCEPT !.final = TRUE, !.score = n, !.review = review].final
      BY <2>4, <2>n, StampedVersion
    <3> QED
      BY <3>1 DEF n
  <2> HIDE DEF stamped, chosen
  <2>6. /\ versions' \in Seq(Version) /\ Len(versions') = Len(versions)
        /\ \A a \in 1 .. Len(versions) :
              versions'[a] = IF a = chosen.attempt THEN stamped ELSE versions[a]
    BY <2>1, <2>2, <2>3, <2>5, ExceptSeq
  <2>7. DOMAIN versions' = DOMAIN versions
    BY <2>2
  <2>8. \A a \in DOMAIN versions : versions'[a].text = versions[a].text
    BY <2>3, <2>5, <2>6 DEF old
  <2>9. ASSUME NEW a \in DOMAIN versions', versions'[a].final, a \notin Finals
        PROVE  Finals = {} /\ a \in DOMAIN versions /\ Whole(versions[a].text)
    <3>1. a \in DOMAIN versions /\ a = chosen.attempt
      BY <2>3, <2>6, <2>7, <2>9 DEF Finals
    <3>2. Finals = {}
      BY <1>1, <2>9, <3>1 DEF MayBeFinal
    <3> QED
      BY <2>1, <3>1, <3>2
  <2>10. ASSUME NEW a \in Finals
         PROVE  /\ versions'[a].final
                /\ versions'[a].review # versions[a].review => Committing(a) # {}
    <3>1. CASE a = chosen.attempt
      <4>1. s \in Committing(a)
        BY <3>1 DEF Committing, CommitFinal, chosen
      <4> QED
        BY <2>3, <2>5, <2>6, <3>1, <4>1 DEF Finals
    <3>2. CASE a # chosen.attempt
      BY <2>3, <2>6, <3>2 DEF Finals
    <3> QED
      BY <3>1, <3>2
  <2>11. Len(versions') <= MaxAttempts
    BY <2>6 DEF AgentInv, LedgerInv
  <2>12. \A a \in DOMAIN versions' : versions'[a].final /\ a \notin Finals => a = chosen.attempt
    BY <2>3, <2>6, <2>7 DEF Finals
  <2> QED
    BY <2>6, <2>7, <2>8, <2>9, <2>10, <2>11, <2>12 DEF LedgerStep, TextsKept
<1>2. CASE ~MayBeFinal(chosen.attempt)
  BY <1>2 DEF CommitFinal, LedgerStep, TextsKept, Finals, AgentInv, TypeOK, LedgerInv
<1> QED
  BY <1>1, <1>2

\* Every step keeps to what a ledger step may do.
LEMMA StepsKeepLedger ==
  ASSUME AgentInv, [Next]_vars
  PROVE  LedgerStep
<1>1. CASE UNCHANGED versions
  BY <1>1 DEF LedgerStep, TextsKept, Finals, AgentInv, TypeOK, LedgerInv
<1>2. CASE \E s \in Slice : Grading(s)
  BY <1>2, DraftLedger, ScoreLedger, CommitLedger DEF Grading
<1> QED
  BY <1>1, <1>2, LedgerUntouched DEF Next, vars

(***************************************************************************)
(* The slices                                                              *)
(***************************************************************************)

Points == {"idle", "resuming", "rehydrating", "choosing", "drafting", "judging",
           "committing", "stopping", "reporting", "over"}

\* A slice is at one of its points, and knows what it should there.
Placed(s) == slice[s].at \in Points /\ CallInv(slice[s])

\* What holds of the slice that takes a step holds of all: what the others have
\* read is not rewritten by it.
LEMMA SlicesKept ==
  ASSUME AgentInv, TextsKept, NEW s \in Slice, NEW to,
         slice' = [slice EXCEPT ![s] = to], Placed(s)'
  PROVE  SliceInv' /\ \A q \in Slice : slice'[q].at \in Points
<1>1. versions # <<>> => versions' # <<>>
  <2>1. versions # <<>> => 1 \in DOMAIN versions
    BY LenProperties, EmptySeq DEF AgentInv, TypeOK
  <2>2. versions' = <<>> => DOMAIN versions' = {}
    OBVIOUS
  <2> QED
    BY <2>1, <2>2 DEF TextsKept
<1>2. slice' = [q \in Slice |-> slice'[q]] /\ \A q \in Slice \ {s} : slice'[q] = slice[q]
  BY DEF AgentInv, SliceInv
<1>3. ASSUME NEW q \in Slice \ {s}
      PROVE  slice'[q].at \in Points /\ CallInv(slice[q])'
  <2>1. slice'[q] = slice[q] /\ slice[q].at \in Points /\ CallInv(slice[q])
    BY <1>2 DEF AgentInv, TypeOK, SliceInv, Points
  <2> QED
    BY <1>1, <2>1 DEF CallInv, TextsKept
<1> QED
  BY <1>2, <1>3 DEF SliceInv, Placed

\* The slice that takes a step is where it moves.
LEMMA MovedTo ==
  ASSUME AgentInv, NEW s \in Slice, NEW to, Move(s, to)
  PROVE  slice' = [slice EXCEPT ![s] = to] /\ slice'[s] = to
BY DEF Move, AgentInv, SliceInv

\* What a library requires are clauses.
LEMMA RequiredTyped ==
  ASSUME NEW t \in ContractType PROVE RequiredOf[t] \in SUBSET Clause
BY LibraryAssumption

\* A rendering leaves its context one, of the type it has rendered.
LEMMA ContextKept ==
  ASSUME NEW context, IsContext(context), NEW t \in ContractType, NEW call
  PROVE  IsContext([context EXCEPT !.type = t, !.log[call] = @ + 1])
BY DEF IsContext

\* The steps that leave nothing to know, or end the slice.
LEMMA PlainSteps ==
  ASSUME AgentInv, NEW s \in Slice,
         \/ StartRun(s) \/ ReadPending(s) \/ MarkAnswered(s)
         \/ AskUser(s) \/ Answer(s) \/ Break(s) \/ SetStatus(s) \/ Finish(s)
  PROVE  Placed(s)'
<1>1. CASE StartRun(s) \/ ReadPending(s) \/ MarkAnswered(s) \/ Finish(s)
  <2>1. slice'[s].at \in {"rehydrating", "resuming", "over"}
    BY <1>1, MovedTo DEF StartRun, ReadPending, MarkAnswered, Finish
  <2> QED
    BY <2>1 DEF Placed, Points, CallInv
<1>2. CASE AskUser(s) \/ Answer(s) \/ Break(s)
  <2>1. /\ slice'[s].at = "stopping"
        /\ slice'[s].status \in Statuses /\ slice'[s].event \in Terminals
    BY <1>2, MovedTo DEF AskUser, Answer, Break, Stop, Statuses, Terminals
  <2> QED
    BY <2>1 DEF Placed, Points, CallInv
<1>3. CASE SetStatus(s)
  <2>1. slice'[s].at = "reporting" /\ slice'[s].event = slice[s].event
    BY <1>3, MovedTo DEF SetStatus
  <2>2. slice[s].event \in Terminals
    BY <1>3 DEF AgentInv, SliceInv, CallInv, SetStatus, Calling
  <2> QED
    BY <2>1, <2>2 DEF Placed, Points, CallInv
<1> QED
  BY <1>1, <1>2, <1>3

\* The steps that stay at, or return to, the choice of the next tool.
LEMMA ChoosingSteps ==
  ASSUME AgentInv, NEW s \in Slice,
         \/ Rehydrate(s) \/ RenderClauses(s) \/ NothingDone(s) \/ ExportDocx(s)
         \/ DraftEnd(s) \/ SubAgentFails(s) \/ RecordScore(s) \/ CommitFinal(s)
  PROVE  Placed(s)'
<1>1. SUFFICES IsContext(slice'[s])
  BY DEF Placed, Points, CallInv, IsContext
<1>2. CASE Rehydrate(s)
  <2>1. slice'[s] = [at |-> "choosing", type |-> type, tokens |-> LedgerTokens,
                     log |-> [call \in ContractType \X Value |-> 0], turns |-> 0]
    BY <1>2, MovedTo DEF Rehydrate
  <2>2. type \in {"none"} \cup ContractType
    BY DEF AgentInv, TypeOK
  <2> QED
    BY <2>1, <2>2 DEF IsContext
<1>3. CASE RenderClauses(s) \/ NothingDone(s) \/ ExportDocx(s)
  <2>1. IsContext(slice[s])
    BY <1>3 DEF AgentInv, SliceInv, CallInv, RenderClauses, NothingDone, ExportDocx,
                Turn, Calling
  <2>2. CASE RenderClauses(s)
    <3>1. PICK t \in ContractType, v \in Value :
            Move(s, [Taken(s) EXCEPT !.type = t, !.log[<<t, v>>] = @ + 1])
      BY <2>2 DEF RenderClauses
    <3>2. slice'[s] = [Taken(s) EXCEPT !.type = t, !.log[<<t, v>>] = @ + 1]
      BY <3>1, MovedTo
    <3>3. IsContext(Taken(s))
      BY <2>1 DEF Taken, IsContext
    <3> DEFINE taken == Taken(s)
               call == <<t, v>>
    <3>4. IsContext(taken) /\ slice'[s] = [taken EXCEPT !.type = t, !.log[call] = @ + 1]
      BY <3>2, <3>3
    <3> HIDE DEF taken, call
    <3>5. IsContext([taken EXCEPT !.type = t, !.log[call] = @ + 1])
      BY <3>4, ContextKept
    <3> QED
      BY <3>4, <3>5
  <2>3. CASE NothingDone(s) \/ ExportDocx(s)
    <3>1. slice'[s] = Taken(s)
      BY <2>3, MovedTo DEF NothingDone, ExportDocx
    <3> QED
      BY <2>1, <3>1 DEF Taken, IsContext
  <2> QED
    BY <1>3, <2>2, <2>3
<1>4. CASE DraftEnd(s) \/ SubAgentFails(s) \/ RecordScore(s) \/ CommitFinal(s)
  <2>1. IsContext(Back(s))
    BY <1>4 DEF AgentInv, SliceInv, CallInv, DraftEnd, SubAgentFails, RecordScore,
                CommitFinal, Calling, Back
  <2>2. slice'[s] = Back(s) \/ slice'[s] = Charged(Back(s))
    BY <1>4, MovedTo DEF DraftEnd, SubAgentFails, RecordScore, CommitFinal
  <2> QED
    BY <2>1, <2>2 DEF Charged, IsContext
<1> QED
  BY <1>2, <1>3, <1>4

\* What a slice waits with keeps its context, with one turn more.
LEMMA WaitingPlaced ==
  ASSUME AgentInv, NEW s \in Slice, Turn(s), NEW call, NEW found
  PROVE  /\ Waiting(s, call, found).at = call /\ Waiting(s, call, found).found = found
         /\ IsContext(Waiting(s, call, found).context)
<1>1. IsContext(slice[s])
  BY DEF AgentInv, SliceInv, CallInv, Turn, Calling
<1>2. IsContext(Taken(s))
  BY <1>1 DEF Taken, IsContext
<1> QED
  BY <1>2 DEF Waiting

\* A budget that is used up ends the slice in failure.
LEMMA OverBudgetPlaced ==
  ASSUME AgentInv, NEW s \in Slice, Move(s, Stop("failed", "error"))
  PROVE  Placed(s)'
<1>1. slice'[s] = Stop("failed", "error")
  BY MovedTo
<1> QED
  BY <1>1 DEF Placed, Points, CallInv, Stop, Statuses, Terminals

\* DraftBegin and JudgeBegin: what the sub-agent is started with.
LEMMA BeginSteps ==
  ASSUME AgentInv, NEW s \in Slice, DraftBegin(s) \/ JudgeBegin(s), UNCHANGED versions
  PROVE  Placed(s)'
<1>1. CASE DraftBegin(s)
  <2>1. \/ Move(s, Stop("failed", "error"))
        \/ Move(s, Waiting(s, "drafting", NextAttempt))
    BY <1>1 DEF DraftBegin, RunSubAgent
  <2>2. CASE Move(s, Waiting(s, "drafting", NextAttempt))
    <3>1. slice'[s] = Waiting(s, "drafting", NextAttempt)
      BY <2>2, MovedTo
    <3>2. /\ slice'[s].at = "drafting" /\ slice'[s].found = NextAttempt
          /\ IsContext(slice'[s].context)
      BY <1>1, <3>1, WaitingPlaced DEF DraftBegin
    <3>3. NextAttempt <= MaxAttempts
      BY <1>1 DEF DraftBegin
    <3> QED
      BY <3>2, <3>3 DEF Placed, Points, CallInv
  <2> QED
    BY <2>1, <2>2, OverBudgetPlaced
<1>2. CASE JudgeBegin(s)
  <2> DEFINE text == Last(versions).text
             scoresOf(points) == {ScoreDraft(text, clauses, Required(s), p) : p \in points}
  <2>1. \/ Move(s, Stop("failed", "error"))
        \/ \E runs \in BOOLEAN, points \in SUBSET (0 .. JudgeMax) :
              Move(s, Waiting(s, "judging", [runs |-> runs, scores |-> scoresOf(points)]))
    <3>1. CASE ~Passes(text, clauses, Required(s))
      <4>1. Move(s, Waiting(s, "judging",
              [runs |-> FALSE, scores |-> {ScoreDraft(text, clauses, Required(s), 0)}]))
        BY <1>2, <3>1 DEF JudgeBegin
      <4>2. {ScoreDraft(text, clauses, Required(s), 0)} = scoresOf({0})
        OBVIOUS
      <4>3. {0} \in SUBSET (0 .. JudgeMax)
        BY DEF JudgeMax
      <4> QED
        BY <4>1, <4>2, <4>3
    <3>2. CASE Passes(text, clauses, Required(s))
      <4>1. RunSubAgent(s, "judging", [runs |-> TRUE, scores |-> scoresOf(JudgePoints)])
        BY <1>2, <3>2 DEF JudgeBegin
      <4>2. JudgePoints \in SUBSET (0 .. JudgeMax)
        BY LimitsAssumption
      <4> QED
        BY <4>1, <4>2 DEF RunSubAgent
    <3> QED
      BY <3>1, <3>2
  <2>2. ASSUME NEW runs \in BOOLEAN, NEW points \in SUBSET (0 .. JudgeMax),
               Move(s, Waiting(s, "judging", [runs |-> runs, scores |-> scoresOf(points)]))
        PROVE  Placed(s)'
    <3>1. versions # <<>> /\ versions \in Seq(Version) /\ clauses \in Rendered
      BY <1>2 DEF JudgeBegin, AgentInv, TypeOK
    <3>2. text \in Text
      <4>1. Len(versions) \in 1 .. Len(versions)
        BY <3>1, LenProperties, EmptySeq
      <4>2. versions[Len(versions)] \in Version
        BY <3>1, <4>1, ElementOfSeq
      <4> QED
        BY <4>2 DEF Last, Version
    <3>3. Required(s) \in SUBSET Clause
      <4>1. slice[s].type \in ContractType
        BY <1>2 DEF JudgeBegin, Turn, Calling, Ready, AgentInv, SliceInv, CallInv, IsContext
      <4> QED
        BY <4>1, RequiredTyped DEF Required
    <3>4. scoresOf(points) \subseteq 0 .. 100
      BY <3>1, <3>2, <3>3, ScoreBounded
    <3> HIDE DEF scoresOf
    <3>5. slice'[s] = Waiting(s, "judging", [runs |-> runs, scores |-> scoresOf(points)])
      BY <2>2, MovedTo
    <3>6. /\ slice'[s].at = "judging" /\ slice'[s].found.scores = scoresOf(points)
          /\ IsContext(slice'[s].context)
      BY <1>2, <3>5, WaitingPlaced DEF JudgeBegin
    <3> QED
      BY <3>1, <3>4, <3>6 DEF Placed, Points, CallInv
  <2> QED
    BY <2>1, <2>2, OverBudgetPlaced
<1> QED
  BY <1>1, <1>2

\* SelectDraft: the draft it has chosen is whole.
LEMMA SelectStep ==
  ASSUME AgentInv, NEW s \in Slice, SelectDraft(s)
  PROVE  Placed(s)'
<1> DEFINE a == SelectFinalizable(versions, clauses, Required(s))
<1>1. /\ versions \in Seq(Version) /\ clauses \in Rendered /\ UNCHANGED versions
      /\ slice[s].type \in ContractType /\ Eligible(versions, clauses, Required(s)) # {}
  BY DEF SelectDraft, Ready, Turn, Calling, AgentInv, TypeOK, SliceInv, CallInv, IsContext
<1>2. Required(s) = RequiredOf[slice[s].type] /\ Required(s) \in SUBSET Clause
  BY <1>1, RequiredTyped DEF Required
<1>3. a \in Eligible(versions, clauses, Required(s))
  BY <1>1, <1>2, ChoosesEligible
<1>4. a \in DOMAIN versions /\ Passes(versions[a].text, clauses, Required(s))
  BY <1>3 DEF Eligible
<1>5. Whole(versions[a].text)
  BY <1>1, <1>2, <1>4, PassesIsWhole
<1>6. ScoreOf(versions[a], clauses, Required(s)) \in 0 .. 100
  <2>1. versions[a] \in Version
    BY <1>1, <1>4, LenProperties, ElementOfSeq
  <2>2. versions[a].text \in Text /\ 0 \in 0 .. JudgeMax
    BY <2>1 DEF Version, JudgeMax
  <2>3. ScoreDraft(versions[a].text, clauses, Required(s), 0) \in 0 .. 100
    BY <1>1, <1>2, <2>2, ScoreBounded
  <2> QED
    BY <2>1, <2>3 DEF ScoreOf, Version
<1>7. Choice(s) = [attempt |-> a, score |-> ScoreOf(versions[a], clauses, Required(s))]
  BY DEF Choice
<1> HIDE DEF a
<1>8. Choice(s).attempt = a /\ Choice(s).score \in 0 .. 100
  BY <1>6, <1>7
<1>9. slice'[s] = Waiting(s, "committing", Choice(s))
  BY MovedTo DEF SelectDraft
<1>10. /\ slice'[s].at = "committing" /\ slice'[s].found = Choice(s)
       /\ IsContext(slice'[s].context)
  BY <1>9, WaitingPlaced DEF SelectDraft
<1> QED
  BY <1>1, <1>4, <1>5, <1>8, <1>10 DEF Placed, Points, CallInv

\* Whatever a slice does next, every slice still knows what it should.
LEMMA StepsKeepSlices ==
  ASSUME AgentInv, [Next]_vars, TextsKept
  PROVE  SliceInv' /\ \A q \in Slice : slice'[q].at \in Points
<1>1. CASE UNCHANGED vars
  BY <1>1 DEF vars, AgentInv, TypeOK, SliceInv, CallInv, IsContext, Points
<1>2. CASE Next
  <2>1. PICK s \in Slice : StartRun(s) \/ ReadPending(s) \/ Work(s)
    BY <1>2 DEF Next
  <2>2. \E to : slice' = [slice EXCEPT ![s] = to]
    <3>1. CASE StartRun(s) \/ ReadPending(s) \/ MarkAnswered(s) \/ Rehydrate(s)
      BY <3>1 DEF StartRun, ReadPending, MarkAnswered, Rehydrate, Move
    <3>2. CASE RenderClauses(s) \/ NothingDone(s) \/ DraftBegin(s) \/ SubAgentFails(s)
      BY <3>2 DEF RenderClauses, NothingDone, DraftBegin, SubAgentFails, RunSubAgent, Move
    <3>3. CASE JudgeBegin(s) \/ SelectDraft(s) \/ ExportDocx(s)
      BY <3>3 DEF JudgeBegin, SelectDraft, ExportDocx, RunSubAgent, Move
    <3>4. CASE DraftEnd(s) \/ RecordScore(s) \/ CommitFinal(s)
      BY <3>4 DEF DraftEnd, RecordScore, CommitFinal, Move
    <3>5. CASE AskUser(s) \/ Answer(s) \/ Break(s) \/ SetStatus(s) \/ Finish(s)
      BY <3>5 DEF AskUser, Answer, Break, SetStatus, Finish, Move
    <3> QED
      BY <2>1, <3>1, <3>2, <3>3, <3>4, <3>5 DEF Work
  <2>3. Placed(s)'
    <3>1. CASE DraftBegin(s) \/ JudgeBegin(s)
      <4>1. UNCHANGED versions
        BY <3>1 DEF DraftBegin, JudgeBegin, RunSubAgent
      <4> QED
        BY <3>1, <4>1, BeginSteps
    <3> QED
      BY <2>1, <3>1, PlainSteps, ChoosingSteps, SelectStep DEF Work
  <2> QED
    BY <2>2, <2>3, SlicesKept
<1> QED
  BY <1>1, <1>2

(***************************************************************************)
(* The other variables                                                     *)
(***************************************************************************)

Others == <<status, type, clauses, question, told, exports, spent>>

OthersTyped ==
    /\ status \in Statuses
    /\ type \in {"none"} \cup ContractType
    /\ clauses \in Rendered
    /\ question \in [Slice -> {"none", "open", "answered"}]
    /\ told \in [Slice -> {"nothing", "complete", "input_required", "error"}]
    /\ \A e \in exports : e.attempt \in DOMAIN versions /\ e.appendix \in Rendered
    /\ spent \in Nat

\* A rendering writes clauses of the library, with the values it was given.
LEMMA RenderTyped ==
  ASSUME AgentInv, NEW s \in Slice, RenderClauses(s)
  PROVE  type' \in ContractType /\ clauses' \in Rendered
<1>1. PICK t \in ContractType, v \in Value :
        /\ clauses' = [c \in DOMAIN clauses \cup ClausesOf[t] |->
                            IF c \in ClausesOf[t] THEN v ELSE clauses[c]]
        /\ type' = t
  BY DEF RenderClauses
<1>2. PICK subset \in SUBSET Clause : clauses \in [subset -> Value]
  BY DEF AgentInv, TypeOK, Rendered
<1>3. ClausesOf[t] \subseteq Clause
  BY LibraryAssumption
<1>4. clauses' \in [subset \cup ClausesOf[t] -> Value]
  BY <1>1, <1>2
<1>5. subset \cup ClausesOf[t] \in SUBSET Clause
  BY <1>2, <1>3
<1> QED
  BY <1>1, <1>4, <1>5 DEF Rendered

\* No step takes a variable out of its type.
LEMMA StepsKeepTypes ==
  ASSUME AgentInv, [Next]_vars, TextsKept
  PROVE  OthersTyped'
<1>t. OthersTyped
  BY DEF AgentInv, TypeOK, OthersTyped, Statuses
<1>e. \A e \in exports : e.attempt \in DOMAIN versions' /\ e.appendix \in Rendered
  BY <1>t DEF OthersTyped, TextsKept
<1>1. CASE UNCHANGED vars
  BY <1>1, <1>t DEF vars, OthersTyped
<1>2. ASSUME NEW s \in Slice, StartRun(s) \/ ReadPending(s) \/ Work(s)
      PROVE  OthersTyped'
  <2>1. CASE UNCHANGED Others
    BY <2>1, <1>t, <1>e DEF Others, OthersTyped
  <2>2. CASE MarkAnswered(s)
    <3>1. question' \in [Slice -> {"none", "open", "answered"}]
      BY <2>2, <1>t DEF MarkAnswered, OthersTyped
    <3>2. status' \in Statuses /\ UNCHANGED <<type, clauses, told, exports, spent>>
      BY <2>2 DEF MarkAnswered, Statuses
    <3> QED
      BY <3>1, <3>2, <1>t, <1>e DEF OthersTyped
  <2>3. CASE RenderClauses(s)
    <3>1. UNCHANGED <<status, question, told, exports, spent>>
      BY <2>3 DEF RenderClauses
    <3> QED
      BY <2>3, <3>1, <1>t, <1>e, RenderTyped DEF OthersTyped
  <2>4. CASE DraftEnd(s) \/ RecordScore(s) \/ SubAgentFails(s)
    <3>1. UNCHANGED <<status, type, clauses, question, told, exports>>
      BY <2>4 DEF DraftEnd, RecordScore, SubAgentFails
    <3>2. spent' = spent + 1 \/ spent' = spent
      BY <2>4 DEF DraftEnd, RecordScore, SubAgentFails
    <3> QED
      BY <3>1, <3>2, <1>t, <1>e DEF OthersTyped
  <2>5. CASE CommitFinal(s)
    <3>1. /\ status' = "ready" \/ status' = status
          /\ UNCHANGED <<type, clauses, question, told, exports, spent>>
      BY <2>5 DEF CommitFinal
    <3> QED
      BY <3>1, <1>t, <1>e DEF OthersTyped, Statuses
  <2>6. CASE ExportDocx(s)
    <3>1. PICK a \in Finals : exports' = exports \cup {[attempt |-> a, appendix |-> clauses]}
      BY <2>6 DEF ExportDocx
    <3>2. UNCHANGED <<status, type, clauses, versions, question, told, spent>>
      BY <2>6 DEF ExportDocx
    <3>3. a \in DOMAIN versions'
      BY <3>1, <3>2 DEF Finals
    <3>4. \A e \in exports' : e.attempt \in DOMAIN versions' /\ e.appendix \in Rendered
      BY <3>1, <3>3, <1>t, <1>e DEF OthersTyped
    <3> QED
      BY <3>2, <3>4, <1>t DEF OthersTyped
  <2>7. CASE AskUser(s)
    <3>1. question' \in [Slice -> {"none", "open", "answered"}]
      BY <2>7, <1>t DEF AskUser, OthersTyped
    <3>2. UNCHANGED <<status, type, clauses, told, exports, spent>>
      BY <2>7 DEF AskUser
    <3> QED
      BY <3>1, <3>2, <1>t, <1>e DEF OthersTyped
  <2>8. CASE SetStatus(s)
    <3>1. status' = slice[s].status /\ slice[s].status \in Statuses
      BY <2>8 DEF SetStatus, AgentInv, SliceInv, CallInv, Calling
    <3>2. UNCHANGED <<type, clauses, question, told, exports, spent>>
      BY <2>8 DEF SetStatus
    <3> QED
      BY <3>1, <3>2, <1>t, <1>e DEF OthersTyped
  <2>9. CASE Finish(s)
    <3>1. told' = [told EXCEPT ![s] = slice[s].event] /\ slice[s].event \in Terminals
      BY <2>9 DEF Finish, AgentInv, SliceInv, CallInv, Calling
    <3>2. told' \in [Slice -> {"nothing", "complete", "input_required", "error"}]
      BY <3>1, <1>t DEF OthersTyped, Terminals
    <3>3. UNCHANGED <<status, type, clauses, question, exports, spent>>
      BY <2>9 DEF Finish
    <3> QED
      BY <3>2, <3>3, <1>t, <1>e DEF OthersTyped
  <2>10. StartRun(s) \/ ReadPending(s) \/ Rehydrate(s) \/ NothingDone(s) => UNCHANGED Others
    BY DEF StartRun, ReadPending, Rehydrate, NothingDone, Others
  <2>11. DraftBegin(s) \/ JudgeBegin(s) => UNCHANGED Others
    BY DEF DraftBegin, JudgeBegin, RunSubAgent, Others
  <2>12. SelectDraft(s) \/ Answer(s) \/ Break(s) => UNCHANGED Others
    BY DEF SelectDraft, Answer, Break, Others
  <2> QED
    BY <1>2, <2>1, <2>2, <2>3, <2>4, <2>5, <2>6, <2>7, <2>8, <2>9, <2>10, <2>11, <2>12 DEF Work
<1> QED
  BY <1>1, <1>2 DEF Next

\* The invariant the theorems follow from, and what every step does to the ledger.
LEMMA AlwaysAgentInv == Spec => []AgentInv
<1>1. Init => AgentInv
  <2> SUFFICES ASSUME Init PROVE AgentInv
    OBVIOUS
  <2>1. versions = <<>> /\ versions \in Seq(Version) /\ Len(versions) = 0 /\ DOMAIN versions = {}
    BY EmptySeq DEF Init
  <2>2. NoClauses \in Rendered
    BY DEF NoClauses, Rendered
  <2>3. TypeOK
    BY <2>1, <2>2 DEF Init, TypeOK, Idle
  <2>4. SliceInv
    BY DEF Init, SliceInv, CallInv, Idle
  <2>5. LedgerInv
    BY <2>1, LimitsAssumption DEF LedgerInv, Finals
  <2> QED
    BY <2>3, <2>4, <2>5 DEF AgentInv
<1>2. AgentInv /\ [Next]_vars => AgentInv'
  <2> SUFFICES ASSUME AgentInv, [Next]_vars PROVE AgentInv'
    OBVIOUS
  <2>1. LedgerStep
    BY StepsKeepLedger
  <2>2. TextsKept
    BY <2>1 DEF LedgerStep
  <2>3. SliceInv' /\ (\A q \in Slice : slice'[q].at \in Points) /\ OthersTyped'
    BY <2>2, StepsKeepSlices, StepsKeepTypes
  <2>4. TypeOK'
    BY <2>1, <2>3 DEF TypeOK, LedgerStep, OthersTyped, Statuses, Points
  <2>5. ASSUME NEW a \in Finals' PROVE Whole(versions'[a].text)
    <3>1. a \in DOMAIN versions' /\ versions'[a].final
      BY <2>5 DEF Finals
    <3>2. CASE a \in Finals
      BY <2>2, <3>2 DEF TextsKept, Finals, AgentInv, LedgerInv
    <3>3. CASE a \notin Finals
      <4>1. a \in DOMAIN versions /\ Whole(versions[a].text)
        BY <2>1, <3>1, <3>3 DEF LedgerStep
      <4> QED
        BY <2>2, <4>1 DEF TextsKept
    <3> QED
      BY <3>2, <3>3
  <2>6. ASSUME NEW a \in Finals', NEW b \in Finals' PROVE a = b
    <3>1. /\ a \in DOMAIN versions' /\ versions'[a].final
          /\ b \in DOMAIN versions' /\ versions'[b].final
      BY <2>6 DEF Finals
    <3> QED
      BY <2>1, <3>1 DEF LedgerStep, AgentInv, LedgerInv
  <2>7. LedgerInv'
    BY <2>1, <2>5, <2>6 DEF LedgerInv, LedgerStep
  <2> QED
    BY <2>3, <2>4, <2>7 DEF AgentInv
<1> QED
  BY <1>1, <1>2, PTL DEF Spec

(***************************************************************************)
(* What the ledger promises                                                *)
(***************************************************************************)

\* Every variable keeps its type (deep_agent.py, workspace/ledger.py): every
\* export is of a recorded attempt, every score between 0 and 100.
THEOREM TypeCorrect == Spec => []TypeOK
<1>1. AgentInv => TypeOK
  BY DEF AgentInv
<1> QED
  BY <1>1, AlwaysAgentInv, PTL

\* However slices render, judge and finalize, a final document has no placeholder
\* and holds every required clause of some contract type as it was rendered
\* (finalize_tool.py).
THEOREM FinalsAreComplete == Spec => []FinalIsComplete
<1>1. AgentInv => FinalIsComplete
  BY DEF AgentInv, LedgerInv, FinalIsComplete, Whole
<1> QED
  BY <1>1, AlwaysAgentInv, PTL

\* The ledger outlives every slice: no more drafts than max_draft_attempts are
\* recorded, and none is rewritten (workspace/ledger.py).
THEOREM AttemptsAreBounded == Spec => AttemptsBounded
<1>1. AgentInv /\ [Next]_vars =>
        [/\ Len(versions') <= MaxAttempts
         /\ \A a \in DOMAIN versions :
              a \in DOMAIN versions' /\ versions'[a].text = versions[a].text]_vars
  BY StepsKeepLedger DEF LedgerStep, TextsKept
<1> QED
  BY <1>1, AlwaysAgentInv, PTL DEF Spec, AttemptsBounded

\* Once a version is final it stays the only one, whichever slices draft, judge and
\* finalize, and its review flag is changed by a second commit of that attempt only
\* (uq_contract_versions_one_final).
THEOREM FinalsStay == Spec => FinalStays
<1>1. ASSUME AgentInv, [Next]_vars, NEW a \in Finals
      PROVE  /\ Finals' = {a}
             /\ versions'[a].review # versions[a].review =>
                  \E s \in Slice : Calling(s, "committing") /\ slice[s].found.attempt = a
  <2>1. LedgerStep
    BY <1>1, StepsKeepLedger
  <2>2. ASSUME NEW b \in Finals' PROVE b = a
    <3>1. b \in Finals
      BY <1>1, <2>1, <2>2 DEF LedgerStep, Finals
    <3> QED
      BY <1>1, <3>1 DEF AgentInv, LedgerInv
  <2>3. a \in Finals'
    BY <1>1, <2>1 DEF LedgerStep, TextsKept, Finals
  <2> QED
    BY <1>1, <2>1, <2>2, <2>3 DEF LedgerStep, Committing
<1>2. AgentInv /\ [Next]_vars =>
        [\A a \in Finals :
            /\ Finals' = {a}
            /\ versions'[a].review # versions[a].review =>
                \E s \in Slice : Calling(s, "committing") /\ slice[s].found.attempt = a]_vars
  BY <1>1
<1> QED
  BY <1>2, AlwaysAgentInv, PTL DEF Spec, FinalStays
=============================================================================
