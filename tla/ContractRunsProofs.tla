------------------------- MODULE ContractRunsProofs -------------------------
(* Proofs about ContractRuns, for any number of runs and any bounds. *)
EXTENDS ContractRuns, TLAPS

(***************************************************************************)
(* Type correctness: what the updates of a row or a task's locals preserve *)
(***************************************************************************)

\* The program points, by name.
LEMMA StringLabels ==
    {"reading", "marking", "deciding", "refusing", "resuming", "intent", "asking",
     "resolving", "seeking", "gathering", "understanding", "planning", "drafting",
     "counting", "inserting", "validating", "settling", "mirroring", "stamping",
     "emitting", "raising", "finishing", "idle", "over", "lost"} = PcState
BY DEF Live, PcState, Resuming, PhaseA, PhaseB, Applying

\* The initial state is well typed.
LEMMA InitTypeOK == Init => TypeOK
BY BoundsAssumption DEF Init, TypeOK, NoFile, Text, Local, Body, Outcome, PcState

\* A task that goes on is at a program point, and one that leaves keeps its
\* locals typed.
LEMMA GotoTyped ==
    ASSUME TypeOK, NEW r \in Run, NEW label \in PcState, Goto(r, label)
    PROVE  pc' \in [Run -> PcState]
BY DEF TypeOK, Goto

\* Updates of one task's locals keep them typed: its outcome,
LEMMA OutcomeTyped ==
    ASSUME local \in [Run -> Local], NEW r \in Run, NEW o \in Outcome
    PROVE  [local EXCEPT ![r].outcome = o] \in [Run -> Local]
BY DEF Local

\* the question it asked,
LEMMA AskedTyped ==
    ASSUME local \in [Run -> Local], NEW r \in Run, NEW o \in Outcome, NEW n \in Nat
    PROVE  [local EXCEPT ![r].asked = n, ![r].outcome = o] \in [Run -> Local]
BY DEF Local

\* the questions it read as outstanding,
LEMMA PendingTyped ==
    ASSUME local \in [Run -> Local], NEW r \in Run, NEW s \in SUBSET Nat
    PROVE  [local EXCEPT ![r].pending = s] \in [Run -> Local]
BY DEF Local

\* the answers it was given,
LEMMA BodyTyped ==
    ASSUME local \in [Run -> Local], NEW r \in Run, NEW b \in Body
    PROVE  [local EXCEPT ![r].body = b] \in [Run -> Local]
BY DEF Local

\* what the intent agent said,
LEMMA UnclearTyped ==
    ASSUME local \in [Run -> Local], NEW r \in Run, NEW b \in BOOLEAN
    PROVE  [local EXCEPT ![r].unclear = b] \in [Run -> Local]
BY DEF Local

\* what its plan rests on,
LEMMA BackedTyped ==
    ASSUME local \in [Run -> Local], NEW r \in Run, NEW b \in BOOLEAN
    PROVE  [local EXCEPT ![r].backed = b] \in [Run -> Local]
BY DEF Local

\* the attempt number it counted,
LEMMA AttemptTyped ==
    ASSUME local \in [Run -> Local], NEW r \in Run, NEW n \in Nat
    PROVE  [local EXCEPT ![r].attempt = n] \in [Run -> Local]
BY DEF Local

\* the verdict of the gates,
LEMMA VerdictTyped ==
    ASSUME local \in [Run -> Local], NEW r \in Run, NEW o \in Outcome, NEW b \in BOOLEAN
    PROVE  [local EXCEPT ![r].outcome = o, ![r].review = b] \in [Run -> Local]
BY DEF Local

\* and the version it is about to mirror.
LEMMA NewestTyped ==
    ASSUME local \in [Run -> Local], NEW r \in Run, NEW n \in Nat, NEW t \in Text,
           NEW s \in SUBSET Nat
    PROVE  [local EXCEPT ![r].newest = n, ![r].text = t, ![r].prior = s] \in [Run -> Local]
<1>1. [local EXCEPT ![r].newest = n, ![r].text = t] \in [Run -> Local]
  BY DEF Local
<1>2. \A f \in [Run -> Local] : [f EXCEPT ![r].prior = s] \in [Run -> Local]
  BY DEF Local
<1> QED
  BY <1>1, <1>2

\* The fields of a typed task.
LEMMA LocalOf ==
    ASSUME local \in [Run -> Local], NEW r \in Run
    PROVE  /\ local[r].body \in Body
           /\ local[r].pending \in SUBSET Nat
           /\ local[r].backed \in BOOLEAN
           /\ local[r].attempt \in Nat
           /\ local[r].asked \in Nat
           /\ local[r].outcome \in Outcome
           /\ local[r].review \in BOOLEAN
           /\ local[r].newest \in Nat
           /\ local[r].text \in Text
           /\ local[r].prior \in SUBSET Nat
BY DEF Local

\* Rows updated in place stay rows.
LEMMA PointwiseTyped ==
    ASSUME NEW S, NEW s \in Seq(S), NEW t, t = [i \in DOMAIN s |-> t[i]],
           \A i \in DOMAIN s : t[i] \in S
    PROVE  t \in Seq(S)
OBVIOUS

\* An answered question is a question.
LEMMA AnsweredTyped ==
    ASSUME NEW q \in Question, NEW b \in Body
    PROVE  [q EXCEPT !.answered = TRUE, !.answers = b] \in Question
BY DEF Question

\* Two gates that have reported come to a decision.
LEMMA DecisionMade ==
    \A legal, document \in Gate \ {"pending"} :
        Decision(legal, document) \in Gate \ {"pending"}
BY DEF Decision, Gate

\* The verdicts and the outcomes, by name.
LEMMA GateNames == {"pending", "clean", "flagged", "blocked"} = Gate
BY DEF Gate

\* A replaced row keeps a sequence typed.
LEMMA ReplacedTyped ==
    ASSUME NEW S, NEW s \in Seq(S), NEW n, NEW v, n \in DOMAIN s => v \in S
    PROVE  [s EXCEPT ![n] = v] \in Seq(S)
<1>1. CASE n \in DOMAIN s
  BY <1>1
<1>2. CASE n \notin DOMAIN s
  <2>1. [s EXCEPT ![n] = v] = s
    BY <1>2
  <2> QED
    BY <2>1
<1> QED
  BY <1>1, <1>2

\* The columns of a version that the actions write keep it one.
LEMMA GateTyped ==
    ASSUME versions \in Seq(Version), NEW n, NEW g \in Gate
    PROVE  [versions EXCEPT ![n].gate = g] \in Seq(Version)
<1>1. ASSUME n \in DOMAIN versions
      PROVE  [versions[n] EXCEPT !.gate = g] \in Version
  <2>1. versions[n] \in Version
    BY <1>1
  <2> QED
    BY <2>1 DEF Version
<1> QED
  BY <1>1, ReplacedTyped

LEMMA ReviewTyped ==
    ASSUME versions \in Seq(Version), NEW n, NEW b \in BOOLEAN
    PROVE  [versions EXCEPT ![n].review = b] \in Seq(Version)
<1>1. ASSUME n \in DOMAIN versions
      PROVE  [versions[n] EXCEPT !.review = b] \in Version
  <2>1. versions[n] \in Version
    BY <1>1
  <2> QED
    BY <2>1 DEF Version
<1> QED
  BY <1>1, ReplacedTyped

LEMMA EditedTyped ==
    ASSUME versions \in Seq(Version), NEW n
    PROVE  [versions EXCEPT ![n].text = "edited", ![n].docx = FALSE] \in Seq(Version)
<1>1. ASSUME n \in DOMAIN versions
      PROVE  [versions EXCEPT ![n].text = "edited", ![n].docx = FALSE] \in Seq(Version)
  <2>1. versions[n] \in Version
    BY <1>1
  <2>2. [versions[n] EXCEPT !.text = "edited", !.docx = FALSE] \in Version
    BY <2>1 DEF Version, Text
  <2>3. [versions EXCEPT ![n].text = "edited", ![n].docx = FALSE]
          = [versions EXCEPT ![n] = [versions[n] EXCEPT !.text = "edited", !.docx = FALSE]]
    BY <1>1
  <2> QED
    BY <2>2, <2>3, ReplacedTyped
<1>2. ASSUME n \notin DOMAIN versions
      PROVE  [versions EXCEPT ![n].text = "edited", ![n].docx = FALSE] = versions
  BY <1>2
<1> QED
  BY <1>1, <1>2

\* A stamped and a cleared version are versions.
LEMMA StampedTyped ==
    ASSUME NEW v \in Version, NEW b \in BOOLEAN
    PROVE  /\ [v EXCEPT !.final = TRUE, !.review = b] \in Version
           /\ [v EXCEPT !.final = FALSE] \in Version
BY DEF Version

\* A published event is recorded with its run.
LEMMA EventTyped ==
    ASSUME events \in [Run -> Seq(TerminalEvent)], NEW r \in Run, NEW e \in TerminalEvent
    PROVE  [events EXCEPT ![r] = Append(@, e)] \in [Run -> Seq(TerminalEvent)]
OBVIOUS

LEMMA OutcomeNames ==
    {"none", "complete", "blocked", "awaiting_input", "over_budget", "declined",
     "raised", "must_ask"} = Outcome
BY DEF Outcome

\* A version of the contract and its text.
LEMMA TextOf ==
    ASSUME versions \in Seq(Version), NEW n \in DOMAIN versions
    PROVE  /\ versions[n] \in Version
           /\ versions[n].text \in Text
           /\ n \in Nat
<1>1. versions[n] \in Version /\ n \in Nat
  OBVIOUS
<1> QED
  BY <1>1 DEF Version

LEMMA LeaveTyped ==
    ASSUME TypeOK, NEW r \in Run, NEW outcome \in Outcome, NEW label \in PcState,
           Leave(r, outcome, label)
    PROVE  pc' \in [Run -> PcState] /\ local' \in [Run -> Local]
<1>1. local' \in [Run -> Local]
  BY OutcomeTyped DEF TypeOK, Leave
<1> QED
  BY <1>1, GotoTyped DEF Leave

\* A new question is a question.
LEMMA QuestionTyped ==
    ASSUME NEW kind \in {"clarification", "consent"}
    PROVE  NewQuestion(kind) \in Question
BY DEF NewQuestion, Question, Body

\* Asking keeps the questions and the asking task typed.
LEMMA AskTyped ==
    ASSUME TypeOK, NEW r \in Run, NEW kind \in {"clarification", "consent"}, Ask(r, kind)
    PROVE  /\ questions' \in Seq(Question)
           /\ pc' \in [Run -> PcState]
           /\ local' \in [Run -> Local]
<1>1. questions' \in Seq(Question)
  BY QuestionTyped DEF Ask, TypeOK
<1>2. local' \in [Run -> Local]
  <2>1. "awaiting_input" \in Outcome /\ Len(questions) + 1 \in Nat
    BY OutcomeNames DEF TypeOK
  <2> QED
    BY <2>1, AskedTyped DEF Ask, TypeOK
<1>3. pc' \in [Run -> PcState]
  BY GotoTyped, StringLabels DEF Ask
<1> QED
  BY <1>1, <1>2, <1>3

\* A step of a run's own task keeps the types.
LEMMA StepTypeOK ==
    ASSUME TypeOK, NEW r \in Run, Step(r)
    PROVE  TypeOK'
<1>p. ASSUME NEW label \in PcState, Goto(r, label)
      PROVE  pc' \in [Run -> PcState]
  BY <1>p, GotoTyped
<1>l. local \in [Run -> Local] /\ versions \in Seq(Version) /\ questions \in Seq(Question)
  BY DEF TypeOK
<1>e. ASSUME NEW outcome \in Outcome, NEW label \in PcState, Leave(r, outcome, label)
      PROVE  pc' \in [Run -> PcState] /\ local' \in [Run -> Local]
  BY <1>e, LeaveTyped
<1> USE DEF store, editor
<1>1. CASE ReadPending(r)
  <2>1. pc' \in [Run -> PcState] /\ local' \in [Run -> Local]
    <3>1. CASE Leave(r, "raised", "finishing")
      BY <3>1, <1>e, StringLabels, OutcomeNames
    <3>2. CASE local' = [local EXCEPT ![r].pending = Unanswered] /\ Goto(r, "marking")
      <4>1. Unanswered \in SUBSET Nat
        BY <1>l DEF Unanswered
      <4> QED
        BY <1>l, <1>p, <3>2, <4>1, PendingTyped, StringLabels
    <3> QED
      BY <1>1, <3>1, <3>2 DEF ReadPending
  <2> QED
    BY <1>1, <2>1 DEF ReadPending, TypeOK
<1>2. CASE MarkAnswered(r)
  <2>1. \A i \in DOMAIN questions : questions'[i] \in Question
    <3>1. ASSUME NEW i \in DOMAIN questions
          PROVE  questions'[i] \in Question
      <4>1. questions[i] \in Question /\ local[r].body \in Body
        BY <1>l, LocalOf
      <4>2. [questions[i] EXCEPT !.answered = TRUE, !.answers = local[r].body] \in Question
        BY <4>1, AnsweredTyped
      <4> QED
        BY <1>2, <4>1, <4>2 DEF MarkAnswered
    <3> QED
      BY <3>1
  <2>2. questions' = [i \in DOMAIN questions |-> questions'[i]]
    BY <1>2 DEF MarkAnswered
  <2>3. questions' \in Seq(Question)
    BY <1>l, <2>1, <2>2, PointwiseTyped
  <2>4. pc' \in [Run -> PcState]
    BY <1>2, <1>p, StringLabels DEF MarkAnswered
  <2> QED
    BY <1>2, <2>3, <2>4 DEF MarkAnswered, TypeOK
<1>3. CASE RecordConsent(r)
  <2>1. pc' \in [Run -> PcState]
    BY <1>3, <1>p, StringLabels DEF RecordConsent, AfterDecision
  <2>2. consent' \in {"granted", "declined"}
    BY <1>3, <1>l, LocalOf DEF RecordConsent, Body
  <2> QED
    BY <1>3, <2>1, <2>2 DEF RecordConsent, TypeOK
<1>4. CASE Decline(r)
  BY <1>4, <1>e, StringLabels, OutcomeNames DEF Decline, TypeOK
<1>5. CASE SetDrafting(r)
  BY <1>5, <1>p, StringLabels DEF SetDrafting, TypeOK
<1>6. CASE DetermineIntent(r)
  <2>1. pc' \in [Run -> PcState]
    BY <1>6, <1>p, StringLabels DEF DetermineIntent
  <2>2. local' \in [Run -> Local]
    BY <1>6, <1>l, UnclearTyped DEF DetermineIntent
  <2> QED
    BY <1>6, <2>1, <2>2 DEF DetermineIntent, TypeOK
<1>7. CASE AskUser(r)
  BY <1>7, AskTyped DEF AskUser, TypeOK
<1>8. CASE Resolve(r)
  <2>1. pc' \in [Run -> PcState]
    BY <1>8, <1>p, StringLabels DEF Resolve
  <2>2. local' \in [Run -> Local]
    BY <1>8, <1>l, BackedTyped DEF Resolve
  <2> QED
    BY <1>8, <2>1, <2>2 DEF Resolve, TypeOK
<1>9. CASE AskConsent(r)
  <2>1. CASE Leave(r, "raised", "raising") /\ UNCHANGED questions
    BY <1>9, <2>1, <1>e, StringLabels, OutcomeNames DEF AskConsent, TypeOK
  <2>2. CASE Ask(r, "consent")
    BY <1>9, <2>2, AskTyped DEF AskConsent, TypeOK
  <2> QED
    BY <1>9, <2>1, <2>2 DEF AskConsent
<1>10. CASE Gather(r)
  <2>1. pc' \in [Run -> PcState]
    BY <1>10, <1>p, StringLabels DEF Gather
  <2>2. local' \in [Run -> Local]
    BY <1>10, <1>l, BackedTyped DEF Gather
  <2> QED
    BY <1>10, <2>1, <2>2 DEF Gather, TypeOK
<1>11. CASE Understand(r)
  BY <1>11, <1>p, StringLabels DEF Understand, TypeOK
<1>12. CASE AssertComplete(r)
  <2>1. CASE Leave(r, "must_ask", "raising")
    BY <1>12, <2>1, <1>e, StringLabels, OutcomeNames DEF AssertComplete, TypeOK
  <2>2. CASE Goto(r, "drafting") /\ UNCHANGED local
    BY <1>12, <2>2, <1>p, StringLabels DEF AssertComplete, TypeOK
  <2> QED
    BY <1>12, <2>1, <2>2 DEF AssertComplete
<1>13. CASE Draft(r)
  BY <1>13, <1>p, StringLabels DEF Draft, TypeOK
<1>14. CASE CountAttempts(r)
  <2>1. pc' \in [Run -> PcState]
    BY <1>14, <1>p, StringLabels DEF CountAttempts
  <2>2. local' \in [Run -> Local]
    <3>1. Len(versions) + 1 \in Nat
      BY <1>l
    <3> QED
      BY <1>14, <1>l, <3>1, AttemptTyped DEF CountAttempts
  <2> QED
    BY <1>14, <2>1, <2>2 DEF CountAttempts, TypeOK
<1>15. CASE InsertVersion(r)
  <2>1. CASE Leave(r, "raised", "raising") /\ UNCHANGED versions
    BY <1>15, <2>1, <1>e, StringLabels, OutcomeNames DEF InsertVersion, TypeOK
  <2>2. CASE /\ versions' = Append(versions, DraftedVersion(local[r].backed))
             /\ Goto(r, "validating")
             /\ UNCHANGED local
    <3>1. DraftedVersion(local[r].backed) \in Version
      BY <1>l, LocalOf DEF DraftedVersion, Version, Gate, Text
    <3>2. versions' \in Seq(Version)
      BY <1>l, <2>2, <3>1
    <3>3. pc' \in [Run -> PcState]
      BY <2>2, <1>p, StringLabels
    <3> QED
      BY <1>15, <2>2, <3>2, <3>3 DEF InsertVersion, TypeOK
  <2> QED
    BY <1>15, <2>1, <2>2 DEF InsertVersion
<1>16. CASE Finalize(r)
  <2>1. PICK gate \in Gate \ {"pending"} :
           /\ versions' = [versions EXCEPT ![local[r].attempt].gate = gate]
           /\ local' = [local EXCEPT ![r].outcome = Verdict(gate),
                                     ![r].review = (gate = "flagged")]
    BY <1>16, DecisionMade DEF Finalize
  <2>2. versions' \in Seq(Version)
    BY <2>1, <1>l, GateTyped
  <2>3. Verdict(gate) \in Outcome /\ (gate = "flagged") \in BOOLEAN
    BY OutcomeNames DEF Verdict
  <2>4. local' \in [Run -> Local]
    BY <2>1, <2>3, <1>l, VerdictTyped
  <2>5. pc' \in [Run -> PcState]
    BY <1>16, <1>p, StringLabels DEF Finalize
  <2> QED
    BY <1>16, <2>2, <2>4, <2>5 DEF Finalize, TypeOK
<1>17. CASE Fault(r)
  BY <1>17, <1>e, StringLabels, OutcomeNames DEF Fault, TypeOK
<1>18. CASE SpendBudget(r)
  BY <1>18, <1>e, StringLabels, OutcomeNames DEF SpendBudget, TypeOK
<1>19. CASE SetStatus(r)
  <2>1. pc' \in [Run -> PcState]
    BY <1>19, <1>p, StringLabels DEF SetStatus, AfterStatus
  <2>2. status' \in {"awaiting_input", "ready", "failed"}
    BY <1>19 DEF SetStatus, ContractStatus
  <2> QED
    BY <1>19, <2>1, <2>2 DEF SetStatus, TypeOK
<1>20. CASE ReadNewest(r)
  <2>1. pc' \in [Run -> PcState]
    BY <1>20, <1>p, StringLabels DEF ReadNewest
  <2>2. Len(versions) \in DOMAIN versions
    BY <1>20, <1>l DEF ReadNewest
  <2>3. Len(versions) \in Nat /\ versions[Len(versions)].text \in Text
    BY <1>l, <2>2, TextOf
  <2>4. Finals \ {Len(versions)} \in SUBSET Nat
    BY <1>l DEF Finals
  <2>5. local' \in [Run -> Local]
    BY <1>20, <1>l, <2>3, <2>4, NewestTyped DEF ReadNewest
  <2> QED
    BY <1>20, <2>1, <2>5 DEF ReadNewest, TypeOK
<1>21. CASE MirrorDraft(r)
  <2>1. pc' \in [Run -> PcState]
    BY <1>21, <1>p, StringLabels DEF MirrorDraft
  <2>2. local[r].review \in BOOLEAN /\ local[r].newest \in Nat
    BY <1>l, LocalOf
  <2>3. versions' \in Seq(Version)
    BY <1>21, <1>l, <2>2, ReviewTyped DEF MirrorDraft
  <2> QED
    BY <1>21, <2>1, <2>2, <2>3 DEF MirrorDraft, TypeOK
<1>22. CASE MirrorFinal(r)
  <2>1. pc' \in [Run -> PcState]
    BY <1>22, <1>p, StringLabels DEF MirrorFinal
  <2>2. /\ local[r].review \in BOOLEAN
        /\ local[r].newest \in Nat
        /\ local[r].text \in Text
    BY <1>l, LocalOf
  <2>3. ASSUME NEW n \in DOMAIN versions
        PROVE  versions'[n] \in Version
    <3>1. versions[n] \in Version
      BY <1>l
    <3>2. /\ [versions[n] EXCEPT !.final = TRUE, !.review = local[r].review] \in Version
          /\ [versions[n] EXCEPT !.final = FALSE] \in Version
      BY <2>2, <3>1, StampedTyped
    <3> QED
      BY <1>22, <3>1, <3>2 DEF MirrorFinal
  <2>4. versions' = [n \in DOMAIN versions |-> versions'[n]]
    BY <1>22 DEF MirrorFinal
  <2>5. versions' \in Seq(Version)
    BY <1>l, <2>3, <2>4, PointwiseTyped
  <2>6. finalMd' \in [attempt : Nat, text : Text]
    BY <1>22, <2>2 DEF MirrorFinal
  <2> QED
    BY <1>22, <2>1, <2>5, <2>6 DEF MirrorFinal, TypeOK
<1>23. CASE MirrorRefused(r)
  BY <1>23, <1>e, StringLabels, OutcomeNames DEF MirrorRefused, TypeOK
<1>24. CASE EmitTerminal(r)
  <2>1. EventOf(local[r].outcome) \in TerminalEvent
    BY DEF EventOf, TerminalEvent
  <2>2. events' \in [Run -> Seq(TerminalEvent)]
    BY <1>24, <2>1, EventTyped DEF EmitTerminal, TypeOK
  <2>3. pc' \in [Run -> PcState]
    BY <1>24, <1>p, StringLabels DEF EmitTerminal
  <2> QED
    BY <1>24, <2>2, <2>3 DEF EmitTerminal, TypeOK
<1>25. CASE EmitError(r)
  <2>1. "error" \in TerminalEvent
    BY DEF TerminalEvent
  <2>2. events' \in [Run -> Seq(TerminalEvent)]
    BY <1>25, <2>1, EventTyped DEF EmitError, TypeOK
  <2>3. pc' \in [Run -> PcState]
    BY <1>25, <1>p, StringLabels DEF EmitError
  <2> QED
    BY <1>25, <2>2, <2>3 DEF EmitError, TypeOK
<1>26. CASE FinishRun(r)
  <2>1. pc' \in [Run -> PcState]
    BY <1>26, <1>p, StringLabels DEF FinishRun
  <2>2. RunStatusOf(local[r].outcome) \in {"complete", "suspended", "failed"}
    BY DEF RunStatusOf
  <2>3. runStatus' \in [Run -> {"none", "running", "suspended", "complete", "failed"}]
    BY <1>26, <2>2 DEF FinishRun, TypeOK
  <2> QED
    BY <1>26, <2>1, <2>3 DEF FinishRun, TypeOK
<1> QED
  BY <1>1, <1>2, <1>3, <1>4, <1>5, <1>6, <1>7, <1>8, <1>9, <1>10, <1>11, <1>12,
     <1>13, <1>14, <1>15, <1>16, <1>17, <1>18, <1>19, <1>20, <1>21, <1>22,
     <1>23, <1>24, <1>25, <1>26 DEF Step

\* The contract always has the shape the schema gives it: statuses, questions
\* and versions of their kinds, every task at a known point, whatever the
\* number of runs, the bounds and the client.
THEOREM TypeCorrect == Spec => []TypeOK
<1>1. Init => TypeOK
  BY InitTypeOK
<1>2. TypeOK /\ [Next]_vars => TypeOK'
  <2> SUFFICES ASSUME TypeOK, [Next]_vars
               PROVE  TypeOK'
    OBVIOUS
  <2>1. ASSUME NEW r \in Run, CreateContract(r)
        PROVE  TypeOK'
    <3>1. pc' \in [Run -> PcState]
      BY <2>1, GotoTyped, StringLabels DEF CreateContract
    <3>2. runStatus' \in [Run -> {"none", "running", "suspended", "complete", "failed"}]
      BY <2>1 DEF CreateContract, TypeOK
    <3> QED
      BY <2>1, <3>1, <3>2 DEF CreateContract, TypeOK, store, editor
  <2>2. ASSUME NEW r \in Run, PostAnswers(r)
        PROVE  TypeOK'
    <3>1. pc' \in [Run -> PcState]
      BY <2>2, GotoTyped, StringLabels DEF PostAnswers
    <3>2. runStatus' \in [Run -> {"none", "running", "suspended", "complete", "failed"}]
      BY <2>2 DEF PostAnswers, TypeOK
    <3>3. local' \in [Run -> Local]
      BY <2>2, BodyTyped DEF PostAnswers, TypeOK
    <3>4. posted' \in Nat
      BY <2>2 DEF PostAnswers, TypeOK
    <3> QED
      BY <2>2, <3>1, <3>2, <3>3, <3>4 DEF PostAnswers, TypeOK, store, editor
  <2>3. CASE SelectFinal
    <3>1. Finals \subseteq Nat
      BY DEF TypeOK, Finals
    <3> QED
      BY <2>3, <3>1 DEF SelectFinal, TypeOK, store
  <2>4. CASE SaveDocument
    <3>1. versions' \in Seq(Version)
      BY <2>4, EditedTyped DEF SaveDocument, TypeOK
    <3>2. finalMd' \in [attempt : Nat, text : Text]
      BY <2>4 DEF SaveDocument, TypeOK, Text
    <3> QED
      BY <2>4, <3>1, <3>2 DEF SaveDocument, TypeOK
  <2>5. CASE RenderExport
    <3>1. PICK n \in Finals :
             exporting' = [attempt |-> n,
                           text |-> IF versions[n].docx THEN "drafted" ELSE versions[n].text]
      BY <2>5 DEF RenderExport
    <3>2. versions[n].text \in Text /\ n \in Nat
      BY TextOf DEF TypeOK, Finals
    <3>3. exporting' \in [attempt : Nat, text : Text]
      BY <3>1, <3>2 DEF Text
    <3> QED
      BY <2>5, <3>3 DEF RenderExport, TypeOK, store
  <2>6. CASE CreateExport
    <3>1. exports' \subseteq [attempt : Nat, text : Text]
      BY <2>6 DEF CreateExport, TypeOK
    <3>2. exporting' \in [attempt : Nat, text : Text]
      BY <2>6 DEF CreateExport, NoFile, Text
    <3> QED
      BY <2>6, <3>1, <3>2 DEF CreateExport, TypeOK
  <2>7. CASE Crash
    <3>1. pc' \in [Run -> PcState]
      BY <2>7, StringLabels DEF Crash, TypeOK
    <3>2. crashes' \in 0 .. MaxCrashes
      BY <2>7, BoundsAssumption DEF Crash, TypeOK
    <3>3. saving' \in Nat /\ exporting' \in [attempt : Nat, text : Text]
      BY <2>7 DEF Crash, NoFile, Text
    <3> QED
      BY <2>7, <3>1, <3>2, <3>3 DEF Crash, TypeOK, store
  <2>8. CASE UNCHANGED vars
    BY <2>8 DEF vars, store, editor, TypeOK
  <2> QED
    BY <2>1, <2>2, <2>3, <2>4, <2>5, <2>6, <2>7, <2>8, StepTypeOK DEF Next
<1> QED
  BY <1>1, <1>2, PTL DEF Spec

(***************************************************************************)
(* What a step of a task leaves alone.                                     *)
(***************************************************************************)

\* Before its last write to the contract, a task is active.
Busy == Resuming \union PhaseA \union PhaseB \union {"settling", "mirroring", "stamping"}
Active(r) == pc[r] \in Busy

\* The active program points, by name.
LEMMA BusyNames ==
    Busy = {"reading", "marking", "deciding", "refusing", "resuming", "intent", "asking",
            "resolving", "seeking", "gathering", "understanding", "planning", "drafting",
            "counting", "inserting", "validating", "settling", "mirroring", "stamping"}
BY DEF Busy, Resuming, PhaseA, PhaseB

\* A task's step moves and changes that task alone and never starts it; only
\* an active task touches the contract's row, questions or versions, only the
\* four named actions touch versions or final.md, and none exports.
LEMMA StepFrame ==
    ASSUME TypeOK, NEW r \in Run, Step(r)
    PROVE  /\ \A q \in Run : q # r => pc'[q] = pc[q] /\ local'[q] = local[q]
           /\ Active(r)' => Active(r)
           /\ UNCHANGED <<posted, exports, exporting>>
           /\ Active(r) \/ UNCHANGED <<status, questions, versions>>
           /\ status # "none" => status' # "none"
           /\ \/ UNCHANGED <<versions, finalMd>>
              \/ InsertVersion(r) \/ Finalize(r) \/ MirrorDraft(r) \/ MirrorFinal(r)
<1>1. CASE ReadPending(r)
  BY <1>1, BusyNames DEF ReadPending, Leave, Goto, Active, TypeOK, store, editor
<1>2. CASE MarkAnswered(r)
  BY <1>2, BusyNames DEF MarkAnswered, Goto, Active, TypeOK, store, editor
<1>3. CASE RecordConsent(r)
  BY <1>3, BusyNames DEF RecordConsent, AfterDecision, Goto, Active, TypeOK, store, editor
<1>4. CASE Decline(r)
  BY <1>4, BusyNames DEF Decline, Leave, Goto, Active, TypeOK, store, editor
<1>5. CASE SetDrafting(r)
  BY <1>5, BusyNames DEF SetDrafting, Goto, Active, TypeOK, store, editor
<1>6. CASE DetermineIntent(r)
  BY <1>6, BusyNames DEF DetermineIntent, Goto, Active, TypeOK, store, editor
<1>7. CASE AskUser(r)
  BY <1>7, BusyNames DEF AskUser, Ask, Goto, Active, TypeOK, store, editor
<1>8. CASE Resolve(r)
  BY <1>8, BusyNames DEF Resolve, Goto, Active, TypeOK, store, editor
<1>9. CASE AskConsent(r)
  BY <1>9, BusyNames DEF AskConsent, Ask, Leave, Goto, Active, TypeOK, store, editor
<1>10. CASE Gather(r)
  BY <1>10, BusyNames DEF Gather, Goto, Active, TypeOK, store, editor
<1>11. CASE Understand(r)
  BY <1>11, BusyNames DEF Understand, Goto, Active, TypeOK, store, editor
<1>12. CASE AssertComplete(r)
  BY <1>12, BusyNames DEF AssertComplete, Leave, Goto, Active, TypeOK, store, editor
<1>13. CASE Draft(r)
  BY <1>13, BusyNames DEF Draft, Goto, Active, TypeOK, store, editor
<1>14. CASE CountAttempts(r)
  BY <1>14, BusyNames DEF CountAttempts, Goto, Active, TypeOK, store, editor
<1>15. CASE InsertVersion(r)
  BY <1>15, BusyNames DEF InsertVersion, Leave, Goto, Active, TypeOK, store, editor
<1>16. CASE Finalize(r)
  BY <1>16, BusyNames DEF Finalize, Goto, Active, TypeOK, store, editor
<1>17. CASE Fault(r)
  BY <1>17, BusyNames DEF Fault, Leave, Goto, Active, TypeOK, store, editor
<1>18. CASE SpendBudget(r)
  BY <1>18, BusyNames DEF SpendBudget, Leave, Goto, Active, TypeOK, store, editor
<1>19. CASE SetStatus(r)
  BY <1>19, BusyNames DEF SetStatus, AfterStatus, Goto, Active, TypeOK, store, editor,
     ContractStatus
<1>20. CASE ReadNewest(r)
  BY <1>20, BusyNames DEF ReadNewest, Goto, Active, TypeOK, store, editor
<1>21. CASE MirrorDraft(r)
  BY <1>21, BusyNames DEF MirrorDraft, Goto, Active, TypeOK, store, editor
<1>22. CASE MirrorFinal(r)
  BY <1>22, BusyNames DEF MirrorFinal, Goto, Active, TypeOK, store, editor
<1>23. CASE MirrorRefused(r)
  BY <1>23, BusyNames DEF MirrorRefused, Leave, Goto, Active, TypeOK, store, editor
<1>24. CASE EmitTerminal(r)
  BY <1>24, BusyNames DEF EmitTerminal, Goto, Active, TypeOK, store, editor
<1>25. CASE EmitError(r)
  BY <1>25, BusyNames DEF EmitError, Goto, Active, TypeOK, store, editor
<1>26. CASE FinishRun(r)
  BY <1>26, BusyNames DEF FinishRun, Goto, Active, TypeOK, store, editor
<1> QED
  BY <1>1, <1>2, <1>3, <1>4, <1>5, <1>6, <1>7, <1>8, <1>9, <1>10, <1>11, <1>12,
     <1>13, <1>14, <1>15, <1>16, <1>17, <1>18, <1>19, <1>20, <1>21, <1>22,
     <1>23, <1>24, <1>25, <1>26 DEF Step

(***************************************************************************)
(* A run publishes one terminal event.                                     *)
(***************************************************************************)

\* Until its task reports, a run has published nothing.
Silent(r) == pc[r] \in PcState \ {"finishing", "over", "lost"} => events[r] = <<>>

EventsInv == \A r \in Run : Silent(r) /\ Len(events[r]) <= 1

\* Only EmitTerminal and EmitError publish; the other steps of a task that has
\* not reported move it alone.
LEMMA QuietSteps ==
    ASSUME TypeOK, NEW r \in Run, Step(r)
    PROVE  \/ /\ UNCHANGED events
              /\ \E label \in PcState : Goto(r, label)
              /\ pc[r] # "finishing"
              /\ pc[r] \in PcState \ {"finishing", "over", "lost"}
           \/ EmitTerminal(r) \/ EmitError(r) \/ FinishRun(r)
<1>1. CASE ReadPending(r)
  BY <1>1, StringLabels DEF ReadPending, Leave
<1>2. CASE MarkAnswered(r)
  BY <1>2, StringLabels DEF MarkAnswered
<1>3. CASE RecordConsent(r)
  BY <1>3, StringLabels DEF RecordConsent, AfterDecision
<1>4. CASE Decline(r)
  BY <1>4, StringLabels DEF Decline, Leave
<1>5. CASE SetDrafting(r)
  BY <1>5, StringLabels DEF SetDrafting
<1>6. CASE DetermineIntent(r)
  BY <1>6, StringLabels DEF DetermineIntent
<1>7. CASE AskUser(r)
  BY <1>7, StringLabels DEF AskUser, Ask
<1>8. CASE Resolve(r)
  BY <1>8, StringLabels DEF Resolve
<1>9. CASE AskConsent(r)
  BY <1>9, StringLabels DEF AskConsent, Ask, Leave
<1>10. CASE Gather(r)
  BY <1>10, StringLabels DEF Gather
<1>11. CASE Understand(r)
  BY <1>11, StringLabels DEF Understand
<1>12. CASE AssertComplete(r)
  BY <1>12, StringLabels DEF AssertComplete, Leave
<1>13. CASE Draft(r)
  BY <1>13, StringLabels DEF Draft
<1>14. CASE CountAttempts(r)
  BY <1>14, StringLabels DEF CountAttempts
<1>15. CASE InsertVersion(r)
  BY <1>15, StringLabels DEF InsertVersion, Leave
<1>16. CASE Finalize(r)
  BY <1>16, StringLabels DEF Finalize
<1>17. CASE Fault(r)
  BY <1>17, StringLabels DEF Fault, Leave
<1>18. CASE SpendBudget(r)
  BY <1>18, StringLabels DEF SpendBudget, Leave
<1>19. CASE SetStatus(r)
  BY <1>19, StringLabels DEF SetStatus, AfterStatus
<1>20. CASE ReadNewest(r)
  BY <1>20, StringLabels DEF ReadNewest
<1>21. CASE MirrorDraft(r)
  BY <1>21, StringLabels DEF MirrorDraft
<1>22. CASE MirrorFinal(r)
  BY <1>22, StringLabels DEF MirrorFinal
<1>23. CASE MirrorRefused(r)
  BY <1>23, StringLabels DEF MirrorRefused, Leave
<1> QED
  BY <1>1, <1>2, <1>3, <1>4, <1>5, <1>6, <1>7, <1>8, <1>9, <1>10, <1>11, <1>12,
     <1>13, <1>14, <1>15, <1>16, <1>17, <1>18, <1>19, <1>20, <1>21, <1>22,
     <1>23 DEF Step

\* A step of a task keeps the runs' reports single.
LEMMA StepEventsInv ==
    ASSUME TypeOK, EventsInv, NEW r \in Run, Step(r)
    PROVE  EventsInv'
<1> SUFFICES ASSUME NEW q \in Run
             PROVE  Silent(q)' /\ Len(events[q])' <= 1
  BY DEF EventsInv
<1>0. Silent(q) /\ Silent(r) /\ Len(events[q]) <= 1
  BY DEF EventsInv
<1>1. CASE /\ UNCHANGED events
           /\ \E label \in PcState : Goto(r, label)
           /\ pc[r] \in PcState \ {"finishing", "over", "lost"}
  BY <1>0, <1>1 DEF Silent, Goto, TypeOK
<1>2. CASE EmitTerminal(r) \/ EmitError(r)
  <2>1. events[r] = <<>>
    BY <1>0, <1>2, StringLabels DEF Silent, EmitTerminal, EmitError
  <2>2. PICK e : events' = [events EXCEPT ![r] = Append(@, e)]
    BY <1>2 DEF EmitTerminal, EmitError
  <2>3. events' = [events EXCEPT ![r] = <<e>>]
    BY <2>1, <2>2
  <2>4. pc' = [pc EXCEPT ![r] = "finishing"]
    BY <1>2 DEF EmitTerminal, EmitError, Goto
  <2> QED
    BY <1>0, <2>3, <2>4 DEF Silent, TypeOK
<1>3. CASE FinishRun(r)
  BY <1>0, <1>3 DEF FinishRun, Silent, Goto, TypeOK
<1> QED
  BY <1>1, <1>2, <1>3, QuietSteps

\* EventsInv is an invariant.
LEMMA AlwaysEventsInv == Spec => []EventsInv
<1>1. Init => EventsInv
  BY DEF Init, EventsInv, Silent
<1>2. TypeOK /\ EventsInv /\ [Next]_vars => EventsInv'
  <2> SUFFICES ASSUME TypeOK, EventsInv, [Next]_vars
               PROVE  EventsInv'
    OBVIOUS
  <2>1. ASSUME NEW r \in Run, CreateContract(r) \/ PostAnswers(r)
        PROVE  EventsInv'
    <3>1. pc[r] = "idle" /\ UNCHANGED events /\ \E label \in PcState : Goto(r, label)
      BY <2>1, StringLabels DEF CreateContract, PostAnswers
    <3>2. events[r] = <<>>
      BY <3>1, StringLabels DEF EventsInv, Silent
    <3> QED
      BY <3>1, <3>2 DEF EventsInv, Silent, Goto, TypeOK
  <2>2. CASE SelectFinal \/ SaveDocument \/ RenderExport \/ CreateExport \/ UNCHANGED vars
    BY <2>2 DEF SelectFinal, SaveDocument, RenderExport, CreateExport, vars, EventsInv, Silent
  <2>3. CASE Crash
    BY <2>3 DEF Crash, EventsInv, Silent, TypeOK
  <2> QED
    BY <2>1, <2>2, <2>3, StepEventsInv DEF Next
<1> QED
  BY <1>1, <1>2, TypeCorrect, PTL DEF Spec

\* "Nothing follows them on this run": whatever clients do, and however tasks,
\* faults and crashes interleave, no run publishes a second terminal event.
THEOREM ReportsOnce == Spec => []TerminalOnce
<1>1. EventsInv => TerminalOnce
  BY DEF EventsInv, TerminalOnce
<1> QED
  BY <1>1, AlwaysEventsInv, PTL

(***************************************************************************)
(* One finalized version, and exports of its text as it stands.            *)
(***************************************************************************)

\* One version is final, and a version that still has a .docx has not been
\* edited since it was drafted.
FinalInv ==
    /\ OneFinalVersion
    /\ \A n \in DOMAIN versions : versions[n].docx => versions[n].text = "drafted"

\* A verdict or a review mark leaves the other columns alone.
LEMMA UpdatedRow ==
    ASSUME versions \in Seq(Version), NEW n \in DOMAIN versions, NEW g, NEW b
    PROVE  /\ [versions[n] EXCEPT !.gate = g].final = versions[n].final
           /\ [versions[n] EXCEPT !.gate = g].docx = versions[n].docx
           /\ [versions[n] EXCEPT !.gate = g].text = versions[n].text
           /\ [versions[n] EXCEPT !.review = b].final = versions[n].final
           /\ [versions[n] EXCEPT !.review = b].docx = versions[n].docx
           /\ [versions[n] EXCEPT !.review = b].text = versions[n].text
<1>1. versions[n] \in Version
  OBVIOUS
<1> QED
  BY <1>1 DEF Version

\* A step of a task keeps one final version.
LEMMA StepFinalInv ==
    ASSUME TypeOK, FinalInv, NEW r \in Run, Step(r)
    PROVE  FinalInv'
<1>t. versions \in Seq(Version)
  BY DEF TypeOK
<1>1. CASE UNCHANGED <<versions, finalMd>>
  BY <1>1 DEF FinalInv, OneFinalVersion, Finals
<1>2. CASE InsertVersion(r)
  <2>1. CASE UNCHANGED versions
    BY <1>2, <2>1 DEF InsertVersion, FinalInv, OneFinalVersion, Finals
  <2>2. CASE versions' = Append(versions, DraftedVersion(local[r].backed))
    BY <1>2, <1>t, <2>2 DEF InsertVersion, DraftedVersion, FinalInv, OneFinalVersion, Finals
  <2> QED
    BY <1>2, <2>1, <2>2 DEF InsertVersion
<1>3. CASE Finalize(r)
  <2>1. PICK gate : versions' = [versions EXCEPT ![local[r].attempt].gate = gate]
    BY <1>3 DEF Finalize
  <2>2. /\ DOMAIN versions' = DOMAIN versions
        /\ \A n \in DOMAIN versions : /\ versions'[n].final = versions[n].final
                                      /\ versions'[n].docx = versions[n].docx
                                      /\ versions'[n].text = versions[n].text
    BY <1>t, <2>1, UpdatedRow
  <2> QED
    BY <1>3, <2>2 DEF Finalize, FinalInv, OneFinalVersion, Finals
<1>4. CASE MirrorDraft(r)
  <2>1. versions' = [versions EXCEPT ![local[r].newest].review = local[r].review]
    BY <1>4 DEF MirrorDraft
  <2>2. /\ DOMAIN versions' = DOMAIN versions
        /\ \A n \in DOMAIN versions : /\ versions'[n].final = versions[n].final
                                      /\ versions'[n].docx = versions[n].docx
                                      /\ versions'[n].text = versions[n].text
    BY <1>t, <2>1, UpdatedRow
  <2> QED
    BY <1>4, <2>2 DEF MirrorDraft, FinalInv, OneFinalVersion, Finals
<1>5. CASE MirrorFinal(r)
  <2>2. ASSUME NEW n \in DOMAIN versions
        PROVE  /\ versions'[n].docx = versions[n].docx
               /\ versions'[n].text = versions[n].text
               /\ versions'[n].final => n = local[r].newest
    <3>1. versions[n] \in Version
      BY <1>t
    <3>2. versions[n].final => n \in local[r].prior \union {local[r].newest}
      BY <1>5 DEF MirrorFinal, Finals
    <3>3. CASE n = local[r].newest
      BY <1>5, <3>1, <3>3 DEF MirrorFinal, Version
    <3>4. CASE n # local[r].newest /\ n \in local[r].prior
      BY <1>5, <3>1, <3>4 DEF MirrorFinal, Version
    <3>5. CASE n # local[r].newest /\ n \notin local[r].prior
      BY <1>5, <3>1, <3>2, <3>5 DEF MirrorFinal
    <3> QED
      BY <3>3, <3>4, <3>5
  <2>3. DOMAIN versions' = DOMAIN versions
    BY <1>5 DEF MirrorFinal
  <2> QED
    BY <2>2, <2>3 DEF FinalInv, OneFinalVersion, Finals
<1> QED
  BY <1>1, <1>2, <1>3, <1>4, <1>5, StepFrame

\* So does every step.
LEMMA FinalInvInductive == TypeOK /\ FinalInv /\ [Next]_vars => FinalInv'
<1> SUFFICES ASSUME TypeOK, FinalInv, [Next]_vars
             PROVE  FinalInv'
  OBVIOUS
<1>1. ASSUME NEW r \in Run, CreateContract(r) \/ PostAnswers(r)
      PROVE  FinalInv'
  BY <1>1 DEF CreateContract, PostAnswers, store, FinalInv, OneFinalVersion, Finals
<1>2. CASE SaveDocument
  <2>1. versions' = [versions EXCEPT ![saving].text = "edited", ![saving].docx = FALSE]
    BY <1>2 DEF SaveDocument
  <2>2. versions \in Seq(Version)
    BY DEF TypeOK
  <2>3. ASSUME NEW m \in DOMAIN versions
        PROVE  /\ versions'[m].docx => versions'[m].text = "drafted"
               /\ versions'[m].final = versions[m].final
    <3>1. versions[m] \in Version
      BY <2>2
    <3>2. CASE m = saving
      BY <2>1, <3>1, <3>2 DEF Version
    <3>3. CASE m # saving
      BY <2>1, <3>3 DEF FinalInv
    <3> QED
      BY <3>2, <3>3
  <2>4. DOMAIN versions' = DOMAIN versions
    BY <2>1
  <2> QED
    BY <2>3, <2>4 DEF FinalInv, OneFinalVersion, Finals
<1>3. CASE SelectFinal \/ RenderExport \/ CreateExport \/ Crash \/ UNCHANGED vars
  BY <1>3 DEF SelectFinal, RenderExport, CreateExport, Crash, vars, store, FinalInv,
              OneFinalVersion, Finals
<1> QED
  BY <1>1, <1>2, <1>3, StepFinalInv DEF Next

\* FinalInv is an invariant.
LEMMA AlwaysFinalInv == Spec => []FinalInv
<1>1. Init => FinalInv
  BY DEF Init, FinalInv, OneFinalVersion, Finals
<1> QED
  BY <1>1, FinalInvInductive, TypeCorrect, PTL DEF Spec

\* However the mirrors of concurrent tasks and the edits interleave, at most
\* one version is final.
THEOREM OneFinal == Spec => []OneFinalVersion
<1>1. FinalInv => OneFinalVersion
  BY DEF FinalInv
<1> QED
  BY <1>1, AlwaysFinalInv, PTL

\* An export never renders a .docx made before the last edit.
THEOREM ExportsFollowEdits == Spec => ExportIsCurrent
<1>1. TypeOK /\ FinalInv /\ [Next]_vars =>
        [exporting' # NoFile =>
            exporting'.attempt \in Finals
            /\ exporting'.text = versions[exporting'.attempt].text]_exporting
  <2> SUFFICES ASSUME TypeOK, FinalInv, [Next]_vars, exporting' # exporting,
                      exporting' # NoFile
               PROVE  /\ exporting'.attempt \in Finals
                      /\ exporting'.text = versions[exporting'.attempt].text
    OBVIOUS
  <2>1. ASSUME NEW r \in Run, CreateContract(r) \/ PostAnswers(r) \/ Step(r)
        PROVE  UNCHANGED exporting
    BY <2>1, StepFrame DEF CreateContract, PostAnswers, editor
  <2>2. RenderExport
    BY <2>1 DEF Next, SelectFinal, SaveDocument, CreateExport, Crash, vars, editor
  <2> QED
    BY <2>2 DEF RenderExport, FinalInv, Finals
<1> QED
  BY <1>1, AlwaysFinalInv, TypeCorrect, PTL DEF Spec, ExportIsCurrent

(***************************************************************************)
(* The finalized version passed the gates, when clients answer each        *)
(* suspension once.  The argument: at most one task is between its start   *)
(* and its last write (OneActive), because the user is let in only when    *)
(* that task has suspended (TurnInv); so the version a task inserts stays  *)
(* the newest one until the task has mirrored it, and carries the verdict  *)
(* the task remembers (DraftInv).                                          *)
(***************************************************************************)

Suspending(r) == pc[r] = "settling" /\ local[r].outcome = "awaiting_input"

OneActive == \A q, r \in Run : Active(q) /\ Active(r) => q = r

TurnInv(r) ==
    Active(r) => /\ status # "none"
                 /\ posted = Len(questions) \/ Suspending(r)
                 /\ pc[r] \in PhaseA \union PhaseB \union {"settling"}
                        => status # "awaiting_input"

DraftInv(r) ==
    LET last == Len(versions)
    IN
    /\ pc[r] = "inserting" => local[r].attempt = last + 1
    /\ pc[r] = "validating" => /\ local[r].attempt = last
                               /\ last \in DOMAIN versions
                               /\ versions[last].gate = "pending"
    /\ pc[r] \in {"settling", "mirroring", "stamping"} =>
        /\ local[r].outcome \in {"complete", "blocked"} => last \in DOMAIN versions
        /\ local[r].outcome = "complete" =>
              /\ versions[last].gate \in {"clean", "flagged"}
              /\ local[r].review <=> versions[last].gate = "flagged"
        /\ local[r].outcome = "blocked" => versions[last].gate = "blocked"
    /\ pc[r] = "stamping" => local[r].newest = last

GateInv ==
    /\ OneActive
    /\ \A r \in Run : TurnInv(r) /\ DraftInv(r)
    /\ status = "none" => posted = Len(questions)
    /\ FinalizedPassedGates

\* The program points of the two phases, by name.
LEMMA PhaseNames ==
    PhaseA \union PhaseB \union {"settling"} =
        {"intent", "asking", "resolving", "seeking", "gathering", "understanding",
         "planning", "drafting", "counting", "inserting",
         "validating", "settling"}
BY DEF PhaseA, PhaseB

\* No step makes a second task active.
LEMMA StepOneActive ==
    ASSUME TypeOK, OneActive, NEW r \in Run, Step(r)
    PROVE  OneActive'
<1>1. \A q \in Run : Active(q)' => Active(q)
  BY StepFrame DEF Active
<1> QED
  BY <1>1 DEF OneActive

\* What a change of one field leaves alone.
LEMMA OutcomeField ==
    ASSUME local \in [Run -> Local], NEW r \in Run, NEW o,
           local' = [local EXCEPT ![r].outcome = o]
    PROVE  local'[r].outcome = o
BY DEF Local

LEMMA AskedField ==
    ASSUME local \in [Run -> Local], NEW r \in Run, NEW n, NEW o,
           local' = [local EXCEPT ![r].asked = n, ![r].outcome = o]
    PROVE  local'[r].outcome = o
BY DEF Local

LEMMA AttemptField ==
    ASSUME local \in [Run -> Local], NEW r \in Run, NEW n,
           local' = [local EXCEPT ![r].attempt = n]
    PROVE  local'[r].attempt = n
BY DEF Local

LEMMA NewestField ==
    ASSUME local \in [Run -> Local], NEW r \in Run, NEW n, NEW t, NEW s,
           local' = [local EXCEPT ![r].newest = n, ![r].text = t, ![r].prior = s]
    PROVE  /\ local'[r].newest = n
           /\ local'[r].outcome = local[r].outcome
           /\ local'[r].review = local[r].review
BY DEF Local

\* The task's own turn: it stays the system's until the task has suspended.
LEMMA StepTurnInv ==
    ASSUME TypeOK, NEW r \in Run, TurnInv(r), Step(r)
    PROVE  TurnInv(r)'
<1>t. local \in [Run -> Local] /\ questions \in Seq(Question) /\ pc \in [Run -> PcState]
  BY DEF TypeOK
<1>1. CASE ReadPending(r)
  BY <1>1, <1>t, BusyNames, PhaseNames DEF ReadPending, Leave, Goto, TurnInv, Active,
     Suspending, store
<1>2. CASE MarkAnswered(r)
  <2>1. Len(questions') = Len(questions)
    <3>1. questions' \in Seq(Question)
      BY StepTypeOK DEF TypeOK
    <3>2. DOMAIN questions' = DOMAIN questions
      BY <1>2 DEF MarkAnswered
    <3> QED
      BY <1>t, <3>1, <3>2
  <2> QED
    BY <1>2, <1>t, <2>1, BusyNames, PhaseNames DEF MarkAnswered, Goto, TurnInv, Active,
       Suspending
<1>3. CASE RecordConsent(r)
  BY <1>3, <1>t, BusyNames, PhaseNames DEF RecordConsent, AfterDecision, Goto, TurnInv,
     Active, Suspending, store
<1>4. CASE Decline(r)
  BY <1>4, <1>t, BusyNames, PhaseNames DEF Decline, Leave, Goto, TurnInv, Active,
     Suspending, store
<1>5. CASE SetDrafting(r)
  BY <1>5, <1>t, BusyNames, PhaseNames DEF SetDrafting, Goto, TurnInv, Active,
     Suspending, store
<1>6. CASE DetermineIntent(r)
  BY <1>6, <1>t, BusyNames, PhaseNames DEF DetermineIntent, Goto, TurnInv, Active,
     Suspending, store
<1>7. CASE AskUser(r)
  BY <1>7, <1>t, AskedField, OutcomeField, BusyNames, PhaseNames DEF AskUser, Ask, Leave,
     Goto, TurnInv, Active, Suspending
<1>8. CASE Resolve(r)
  BY <1>8, <1>t, BusyNames, PhaseNames DEF Resolve, Goto, TurnInv, Active, Suspending, store
<1>9. CASE AskConsent(r)
  <2>1. CASE Leave(r, "raised", "raising") /\ UNCHANGED questions
    BY <1>9, <2>1, <1>t, BusyNames DEF AskConsent, Leave, Goto, TurnInv, Active, Suspending
  <2>2. CASE Ask(r, "consent")
    BY <1>9, <2>2, <1>t, AskedField, BusyNames, PhaseNames DEF AskConsent, Ask, Goto,
       TurnInv, Active, Suspending
  <2> QED
    BY <1>9, <2>1, <2>2 DEF AskConsent
<1>10. CASE Gather(r)
  BY <1>10, <1>t, BusyNames, PhaseNames DEF Gather, Goto, TurnInv, Active, Suspending, store
<1>11. CASE Understand(r)
  BY <1>11, <1>t, BusyNames, PhaseNames DEF Understand, Goto, TurnInv, Active, Suspending, store
<1>12. CASE AssertComplete(r)
  BY <1>12, <1>t, BusyNames, PhaseNames DEF AssertComplete, Leave, Goto, TurnInv, Active,
     Suspending, store
<1>13. CASE Draft(r)
  BY <1>13, <1>t, BusyNames, PhaseNames DEF Draft, Goto, TurnInv, Active, Suspending, store
<1>14. CASE CountAttempts(r)
  BY <1>14, <1>t, BusyNames, PhaseNames DEF CountAttempts, Goto, TurnInv, Active,
     Suspending, store
<1>15. CASE InsertVersion(r)
  BY <1>15, <1>t, BusyNames, PhaseNames DEF InsertVersion, Leave, Goto, TurnInv, Active,
     Suspending, store
<1>16. CASE Finalize(r)
  BY <1>16, <1>t, BusyNames, PhaseNames DEF Finalize, Goto, TurnInv, Active, Suspending
<1>17. CASE Fault(r)
  BY <1>17, <1>t, BusyNames, PhaseNames DEF Fault, Leave, Goto, TurnInv, Active,
     Suspending, store
<1>18. CASE SpendBudget(r)
  BY <1>18, <1>t, BusyNames, PhaseNames DEF SpendBudget, Leave, Goto, TurnInv, Active,
     Suspending, store
<1>19. CASE SetStatus(r)
  BY <1>19, <1>t, BusyNames, PhaseNames DEF SetStatus, AfterStatus, Goto, TurnInv,
     Active, Suspending, store, ContractStatus
<1>20. CASE ReadNewest(r)
  BY <1>20, <1>t, BusyNames, PhaseNames DEF ReadNewest, Goto, TurnInv, Active,
     Suspending, store
<1>21. CASE MirrorDraft(r)
  BY <1>21, <1>t, BusyNames, PhaseNames DEF MirrorDraft, Goto, TurnInv, Active,
     Suspending, store
<1>22. CASE MirrorFinal(r)
  BY <1>22, <1>t, BusyNames, PhaseNames DEF MirrorFinal, Goto, TurnInv, Active,
     Suspending, store
<1>23. CASE MirrorRefused(r)
  BY <1>23, <1>t, BusyNames, PhaseNames DEF MirrorRefused, Leave, Goto, TurnInv, Active,
     Suspending, store
<1>24. CASE EmitTerminal(r)
  BY <1>24, <1>t, BusyNames, PhaseNames DEF EmitTerminal, Goto, TurnInv, Active,
     Suspending, store
<1>25. CASE EmitError(r)
  BY <1>25, <1>t, BusyNames, PhaseNames DEF EmitError, Goto, TurnInv, Active, Suspending,
     store
<1>26. CASE FinishRun(r)
  BY <1>26, <1>t, BusyNames, PhaseNames DEF FinishRun, Goto, TurnInv, Active, Suspending,
     store
<1> QED
  BY <1>1, <1>2, <1>3, <1>4, <1>5, <1>6, <1>7, <1>8, <1>9, <1>10, <1>11, <1>12,
     <1>13, <1>14, <1>15, <1>16, <1>17, <1>18, <1>19, <1>20, <1>21, <1>22,
     <1>23, <1>24, <1>25, <1>26 DEF Step

\* Every step of a task either stays away from the program points DraftInv
\* speaks of, or is one of these.
LEMMA StepDraftInv ==
    ASSUME TypeOK, NEW r \in Run, DraftInv(r), Step(r)
    PROVE  DraftInv(r)'
<1>t. local \in [Run -> Local] /\ versions \in Seq(Version) /\ pc \in [Run -> PcState]
  BY DEF TypeOK
<1>1. CASE ReadPending(r)
  BY <1>1, <1>t DEF ReadPending, Leave, Goto, DraftInv, store
<1>2. CASE MarkAnswered(r)
  BY <1>2, <1>t DEF MarkAnswered, Goto, DraftInv, store
<1>3. CASE RecordConsent(r)
  BY <1>3, <1>t DEF RecordConsent, AfterDecision, Goto, DraftInv, store
<1>4. CASE Decline(r)
  BY <1>4, <1>t DEF Decline, Leave, Goto, DraftInv, store
<1>5. CASE SetDrafting(r)
  BY <1>5, <1>t DEF SetDrafting, Goto, DraftInv, store
<1>6. CASE DetermineIntent(r)
  BY <1>6, <1>t DEF DetermineIntent, Goto, DraftInv, store
<1>7. CASE AskUser(r)
  BY <1>7, <1>t, AskedField, OutcomeField DEF AskUser, Ask, Leave, Goto, DraftInv
<1>8. CASE Resolve(r)
  BY <1>8, <1>t DEF Resolve, Goto, DraftInv, store
<1>9. CASE AskConsent(r)
  <2>1. CASE Leave(r, "raised", "raising")
    BY <1>9, <2>1, <1>t DEF AskConsent, Leave, Goto, DraftInv
  <2>2. CASE Ask(r, "consent")
    BY <1>9, <2>2, <1>t, AskedField DEF AskConsent, Ask, Goto, DraftInv
  <2> QED
    BY <1>9, <2>1, <2>2 DEF AskConsent
<1>10. CASE Gather(r)
  BY <1>10, <1>t DEF Gather, Goto, DraftInv, store
<1>11. CASE Understand(r)
  BY <1>11, <1>t DEF Understand, Goto, DraftInv, store
<1>12. CASE AssertComplete(r)
  BY <1>12, <1>t DEF AssertComplete, Leave, Goto, DraftInv, store
<1>13. CASE Draft(r)
  BY <1>13, <1>t DEF Draft, Goto, DraftInv, store
<1>14. CASE CountAttempts(r)
  BY <1>14, <1>t, AttemptField DEF CountAttempts, Goto, DraftInv, store
<1>15. CASE InsertVersion(r)
  <2>1. CASE Leave(r, "raised", "raising")
    BY <1>15, <1>t, <2>1 DEF InsertVersion, Leave, Goto, DraftInv
  <2>2. CASE /\ versions' = Append(versions, DraftedVersion(local[r].backed))
             /\ Goto(r, "validating")
             /\ UNCHANGED local
    <3>1. local[r].attempt = Len(versions) + 1
      BY <1>15 DEF InsertVersion, DraftInv
    <3>2. /\ Len(versions') = Len(versions) + 1
          /\ Len(versions') \in DOMAIN versions'
          /\ versions'[Len(versions')] = DraftedVersion(local[r].backed)
      BY <1>t, <2>2
    <3>3. versions'[Len(versions')].gate = "pending"
      BY <3>2 DEF DraftedVersion
    <3>4. pc'[r] = "validating" /\ local'[r] = local[r]
      BY <1>t, <2>2 DEF Goto
    <3> QED
      BY <3>1, <3>2, <3>3, <3>4 DEF DraftInv
  <2> QED
    BY <1>15, <2>1, <2>2 DEF InsertVersion
<1>16. CASE Finalize(r)
  <2>1. PICK gate \in Gate \ {"pending"} :
           /\ versions' = [versions EXCEPT ![local[r].attempt].gate = gate]
           /\ local' = [local EXCEPT ![r].outcome = Verdict(gate),
                                     ![r].review = (gate = "flagged")]
    BY <1>16, DecisionMade DEF Finalize
  <2>2. local[r].attempt = Len(versions) /\ Len(versions) \in DOMAIN versions
    BY <1>16 DEF Finalize, DraftInv
  <2>3. versions[Len(versions)] \in Version
    BY <1>t, <2>2
  <2>4. /\ Len(versions') = Len(versions)
        /\ Len(versions') \in DOMAIN versions'
        /\ versions'[Len(versions')].gate = gate
    BY <1>t, <2>1, <2>2, <2>3 DEF Version
  <2>5. local'[r].outcome = Verdict(gate) /\ (local'[r].review <=> gate = "flagged")
    <3>1. PICK flag \in BOOLEAN :
             /\ flag <=> gate = "flagged"
             /\ local' = [local EXCEPT ![r].outcome = Verdict(gate), ![r].review = flag]
      <4>1. (gate = "flagged") \in BOOLEAN
        OBVIOUS
      <4> QED
        BY <2>1, <4>1
    <3>2. local'[r].outcome = Verdict(gate) /\ local'[r].review = flag
      BY <1>t, <3>1 DEF Local
    <3> QED
      BY <3>1, <3>2
  <2>6. pc'[r] = "settling"
    BY <1>16, <1>t DEF Finalize, Goto
  <2> QED
    BY <2>4, <2>5, <2>6 DEF DraftInv, Verdict, Gate
<1>17. CASE Fault(r)
  BY <1>17, <1>t DEF Fault, Leave, Goto, DraftInv, store
<1>18. CASE SpendBudget(r)
  BY <1>18, <1>t, AskedField, OutcomeField DEF SpendBudget, Ask, Leave, Goto, DraftInv
<1>19. CASE SetStatus(r)
  BY <1>19, <1>t DEF SetStatus, AfterStatus, Goto, DraftInv, store
<1>20. CASE ReadNewest(r)
  BY <1>20, <1>t, NewestField DEF ReadNewest, Goto, DraftInv, store
<1>21. CASE MirrorDraft(r)
  BY <1>21, <1>t DEF MirrorDraft, Goto, DraftInv, store
<1>22. CASE MirrorFinal(r)
  BY <1>22, <1>t DEF MirrorFinal, Goto, DraftInv, store
<1>23. CASE MirrorRefused(r)
  BY <1>23, <1>t DEF MirrorRefused, Leave, Goto, DraftInv, store
<1>24. CASE EmitTerminal(r)
  BY <1>24, <1>t DEF EmitTerminal, Goto, DraftInv, store
<1>25. CASE EmitError(r)
  BY <1>25, <1>t DEF EmitError, Goto, DraftInv, store
<1>26. CASE FinishRun(r)
  BY <1>26, <1>t DEF FinishRun, Goto, DraftInv, store
<1> QED
  BY <1>1, <1>2, <1>3, <1>4, <1>5, <1>6, <1>7, <1>8, <1>9, <1>10, <1>11, <1>12,
     <1>13, <1>14, <1>15, <1>16, <1>17, <1>18, <1>19, <1>20, <1>21, <1>22,
     <1>23, <1>24, <1>25, <1>26 DEF Step

\* An edit leaves verdict, finality and review mark alone.
LEMMA EditedRow ==
    ASSUME versions \in Seq(Version), NEW n,
           versions' = [versions EXCEPT ![n].text = "edited", ![n].docx = FALSE]
    PROVE  /\ Len(versions') = Len(versions)
           /\ DOMAIN versions' = DOMAIN versions
           /\ \A m \in DOMAIN versions : /\ versions'[m].gate = versions[m].gate
                                         /\ versions'[m].final = versions[m].final
                                         /\ versions'[m].review = versions[m].review
<1>1. \A m \in DOMAIN versions : versions[m] \in Version
  OBVIOUS
<1>2. DOMAIN versions' = DOMAIN versions
  OBVIOUS
<1>3. versions' \in Seq(Version)
  BY EditedTyped
<1> QED
  BY <1>1, <1>2, <1>3 DEF Version

\* A step of an active task finalizes only what passed.
LEMMA StepFinalized ==
    ASSUME TypeOK, NEW r \in Run, DraftInv(r), FinalizedPassedGates, Step(r)
    PROVE  FinalizedPassedGates'
<1>t. /\ local \in [Run -> Local]
      /\ versions \in Seq(Version)
      /\ \A n \in DOMAIN versions : versions[n] \in Version
  BY DEF TypeOK
<1>1. CASE UNCHANGED <<versions, finalMd>>
  BY <1>1 DEF FinalizedPassedGates, Finals
<1>2. CASE InsertVersion(r)
  <2>1. CASE UNCHANGED versions
    BY <2>1 DEF FinalizedPassedGates, Finals
  <2>2. CASE versions' = Append(versions, DraftedVersion(local[r].backed))
    BY <1>t, <2>2 DEF DraftedVersion, FinalizedPassedGates, Finals
  <2> QED
    BY <1>2, <2>1, <2>2 DEF InsertVersion
<1>3. CASE Finalize(r)
  <2>1. PICK gate : versions' = [versions EXCEPT ![local[r].attempt].gate = gate]
    BY <1>3 DEF Finalize
  <2>2. /\ local[r].attempt \in DOMAIN versions
        /\ versions[local[r].attempt].gate = "pending"
    BY <1>3 DEF Finalize, DraftInv
  <2>3. local[r].attempt \notin Finals
    BY <2>2 DEF FinalizedPassedGates
  <2>4. \A n \in DOMAIN versions : n # local[r].attempt => versions'[n] = versions[n]
    BY <1>t, <2>1
  <2>5. versions'[local[r].attempt].final = versions[local[r].attempt].final
    BY <1>t, <2>1, <2>2 DEF Version
  <2>6. DOMAIN versions' = DOMAIN versions
    BY <2>1
  <2> QED
    BY <2>2, <2>3, <2>4, <2>5, <2>6 DEF FinalizedPassedGates, Finals
<1>4. CASE MirrorDraft(r)
  <2>1. versions' = [versions EXCEPT ![local[r].newest].review = local[r].review]
    BY <1>4 DEF MirrorDraft
  <2>2. /\ local[r].newest \in DOMAIN versions
        /\ versions[local[r].newest].gate = "blocked"
    BY <1>4 DEF MirrorDraft, DraftInv
  <2>3. local[r].newest \notin Finals
    BY <2>2 DEF FinalizedPassedGates
  <2>4. \A n \in DOMAIN versions : n # local[r].newest => versions'[n] = versions[n]
    BY <1>t, <2>1
  <2>5. versions'[local[r].newest].final = versions[local[r].newest].final
    BY <1>t, <2>1, <2>2 DEF Version
  <2>6. DOMAIN versions' = DOMAIN versions
    BY <2>1
  <2> QED
    BY <2>2, <2>3, <2>4, <2>5, <2>6 DEF FinalizedPassedGates, Finals
<1>5. CASE MirrorFinal(r)
  <2>1. /\ local[r].newest \in DOMAIN versions
        /\ versions[local[r].newest].gate \in {"clean", "flagged"}
        /\ local[r].review <=> versions[local[r].newest].gate = "flagged"
    BY <1>5 DEF MirrorFinal, DraftInv
  <2>2. DOMAIN versions' = DOMAIN versions
    BY <1>5 DEF MirrorFinal
  <2>3. ASSUME NEW n \in DOMAIN versions, versions'[n].final
        PROVE  /\ versions'[n].gate \in {"clean", "flagged"}
               /\ versions'[n].review <=> versions'[n].gate = "flagged"
    <3>1. CASE n = local[r].newest
      <4>1. versions'[n] = [versions[n] EXCEPT !.final = TRUE, !.review = local[r].review]
        BY <1>5, <3>1 DEF MirrorFinal
      <4>2. versions'[n].gate = versions[n].gate /\ versions'[n].review = local[r].review
        BY <1>t, <4>1 DEF Version
      <4> QED
        BY <2>1, <3>1, <4>2
    <3>2. CASE n # local[r].newest /\ n \in local[r].prior
      <4>1. versions'[n] = [versions[n] EXCEPT !.final = FALSE]
        BY <1>5, <3>2 DEF MirrorFinal
      <4>2. versions'[n].final = FALSE
        BY <1>t, <4>1 DEF Version
      <4> QED
        BY <2>3, <4>2
    <3>3. CASE n # local[r].newest /\ n \notin local[r].prior
      <4>1. versions'[n] = versions[n]
        BY <1>5, <3>3 DEF MirrorFinal
      <4> QED
        BY <2>3, <4>1 DEF FinalizedPassedGates, Finals
    <3> QED
      BY <3>1, <3>2, <3>3
  <2> QED
    BY <2>2, <2>3 DEF FinalizedPassedGates, Finals
<1> QED
  BY <1>1, <1>2, <1>3, <1>4, <1>5, StepFrame

\* A step of a task keeps the inductive invariant.
LEMMA StepGateInv ==
    ASSUME TypeOK, GateInv, NEW r \in Run, Step(r)
    PROVE  GateInv'
<1>1. OneActive'
  BY StepOneActive DEF GateInv
<1>2. ASSUME NEW q \in Run
      PROVE  TurnInv(q)' /\ DraftInv(q)'
  <2>1. CASE q = r
    BY <2>1, StepTurnInv, StepDraftInv DEF GateInv
  <2>2. CASE q # r /\ Active(q)
    <3>1. ~Active(r)
      BY <2>2 DEF GateInv, OneActive
    <3>2. UNCHANGED <<status, questions, versions, posted>>
      BY <3>1, StepFrame
    <3>3. pc'[q] = pc[q] /\ local'[q] = local[q]
      BY <2>2, StepFrame
    <3>4. TurnInv(q) /\ DraftInv(q)
      BY DEF GateInv
    <3> QED
      BY <3>2, <3>3, <3>4 DEF TurnInv, DraftInv, Active, Suspending
  <2>3. CASE q # r /\ ~Active(q)
    <3>1. pc'[q] \notin Busy
      BY <2>3, StepFrame DEF Active
    <3> QED
      BY <3>1, BusyNames DEF TurnInv, DraftInv, Active
  <2> QED
    BY <2>1, <2>2, <2>3
<1>3. (status = "none" => posted = Len(questions))'
  <2>1. CASE Active(r)
    <3>1. status # "none"
      BY <2>1 DEF GateInv, TurnInv
    <3>2. status' # "none"
      BY <3>1, StepFrame
    <3> QED
      BY <3>2
  <2>2. CASE ~Active(r)
    BY <2>2, StepFrame DEF GateInv
  <2> QED
    BY <2>1, <2>2
<1>4. FinalizedPassedGates'
  BY StepFinalized DEF GateInv
<1> QED
  BY <1>1, <1>2, <1>3, <1>4 DEF GateInv

\* GateInv is an invariant when clients answer each suspension once.
LEMMA AlwaysGateInv ==
    ASSUME Retries = FALSE
    PROVE  Spec => []GateInv
<1>1. Init => GateInv
  BY BusyNames DEF Init, GateInv, OneActive, TurnInv, DraftInv, Active,
     FinalizedPassedGates,
                   Finals
<1>2. TypeOK /\ GateInv /\ [Next]_vars => GateInv'
  <2> SUFFICES ASSUME TypeOK, GateInv, [Next]_vars
               PROVE  GateInv'
    OBVIOUS
  <2>t. pc \in [Run -> PcState] /\ questions \in Seq(Question) /\ versions \in Seq(Version)
    BY DEF TypeOK
  <2>1. ASSUME NEW r \in Run, CreateContract(r)
        PROVE  GateInv'
    <3>1. \A q \in Run : ~Active(q)
      BY <2>1 DEF CreateContract, GateInv, TurnInv
    <3>2. /\ pc' = [pc EXCEPT ![r] = "intent"]
          /\ posted' = Len(questions') /\ status' = "planning"
          /\ UNCHANGED <<versions, questions, local>>
      BY <2>1 DEF CreateContract, Goto, store, GateInv
    <3>3. \A q \in Run : q # r => pc'[q] \notin Busy
      BY <2>t, <3>1, <3>2 DEF Active
    <3>4. ASSUME NEW q \in Run
          PROVE  TurnInv(q)' /\ DraftInv(q)'
      <4>1. CASE q = r
        BY <2>t, <3>2, <4>1 DEF TurnInv, DraftInv, Active
      <4>2. CASE q # r
        BY <3>3, <4>2, BusyNames DEF TurnInv, DraftInv, Active
      <4> QED
        BY <4>1, <4>2
    <3> QED
      BY <3>2, <3>3, <3>4 DEF GateInv, OneActive, Active, FinalizedPassedGates, Finals
  <2>2. ASSUME NEW r \in Run, PostAnswers(r)
        PROVE  GateInv'
    <3>1. ASSUME NEW q \in Run
          PROVE  ~Active(q)
      <4>1. status = "awaiting_input" /\ posted < Len(questions)
        BY <2>2 DEF PostAnswers
      <4>2. posted # Len(questions)
        BY <2>t, <4>1 DEF TypeOK
      <4>3. ASSUME Active(q)
            PROVE  FALSE
        BY <4>1, <4>2, <4>3, PhaseNames DEF GateInv, TurnInv, Suspending
      <4> QED
        BY <4>3
    <3>2. /\ pc' = [pc EXCEPT ![r] = "reading"]
          /\ posted' = Len(questions') /\ status' = "awaiting_input"
          /\ UNCHANGED <<versions, questions>>
      BY <2>2 DEF PostAnswers, Goto, store
    <3>3. \A q \in Run : q # r => pc'[q] \notin Busy
      BY <2>t, <3>1, <3>2 DEF Active
    <3>4. ASSUME NEW q \in Run
          PROVE  TurnInv(q)' /\ DraftInv(q)'
      <4>1. CASE q = r
        BY <2>t, <3>2, <4>1, PhaseNames DEF TurnInv, DraftInv, Active
      <4>2. CASE q # r
        BY <3>3, <4>2, BusyNames DEF TurnInv, DraftInv, Active
      <4> QED
        BY <4>1, <4>2
    <3> QED
      BY <3>2, <3>3, <3>4 DEF GateInv, OneActive, Active, FinalizedPassedGates, Finals
  <2>3. CASE SaveDocument
    <3>1. versions' = [versions EXCEPT ![saving].text = "edited", ![saving].docx = FALSE]
      BY <2>3 DEF SaveDocument
    <3>2. /\ Len(versions') = Len(versions)
          /\ DOMAIN versions' = DOMAIN versions
          /\ \A m \in DOMAIN versions : /\ versions'[m].gate = versions[m].gate
                                        /\ versions'[m].final = versions[m].final
                                        /\ versions'[m].review = versions[m].review
      BY <2>t, <3>1, EditedRow
    <3>3. UNCHANGED <<status, questions, pc, local, posted>>
      BY <2>3 DEF SaveDocument
    <3>4. \A q \in Run : DraftInv(q)'
      BY <2>t, <3>2, <3>3 DEF GateInv, DraftInv
    <3>5. FinalizedPassedGates'
      BY <3>2 DEF GateInv, FinalizedPassedGates, Finals
    <3> QED
      BY <3>3, <3>4, <3>5 DEF GateInv, OneActive, TurnInv, Active, Suspending
  <2>4. CASE SelectFinal \/ RenderExport \/ CreateExport \/ UNCHANGED vars
    BY <2>4 DEF SelectFinal, RenderExport, CreateExport, vars, store, GateInv, OneActive, TurnInv, DraftInv, Active,
                Suspending, FinalizedPassedGates, Finals
  <2>5. CASE Crash
    <3>1. \A q \in Run : pc'[q] \notin Busy
      <4>1. Busy \subseteq Live
        BY DEF Busy, Live, Applying
      <4>2. "lost" \notin Busy
        BY BusyNames
      <4> QED
        BY <2>5, <2>t, <4>1, <4>2 DEF Crash
    <3>2. UNCHANGED <<status, questions, versions, posted>>
      BY <2>5 DEF Crash, store
    <3>3. \A q \in Run : TurnInv(q)' /\ DraftInv(q)'
      BY <3>1, BusyNames DEF TurnInv, DraftInv, Active
    <3> QED
      BY <3>1, <3>2, <3>3 DEF GateInv, OneActive, Active, FinalizedPassedGates, Finals
  <2> QED
    BY <2>1, <2>2, <2>3, <2>4, <2>5, StepGateInv DEF Next
<1> QED
  BY <1>1, <1>2, TypeCorrect, PTL DEF Spec

\* A version is finalized only after both gates let that very text through,
\* and is marked for review exactly when they flagged something: for any
\* number of runs, clarification rounds, faults, crashes, edits and exports,
\* provided clients answer each suspension once.
THEOREM GatesBeforeFinal ==
    ASSUME Retries = FALSE
    PROVE  Spec => []FinalizedPassedGates
<1>1. GateInv => FinalizedPassedGates
  BY DEF GateInv
<1> QED
  BY <1>1, AlwaysGateInv, PTL
=============================================================================
