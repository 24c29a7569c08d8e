------------------------- MODULE ContractTurnsProofs -------------------------
(* Proofs about the conversation one contract is: whose turn it is, what has *)
(* been asked and answered, what is on the table and what was told.  They    *)
(* are about clients that answer each suspension once (Retries = FALSE).     *)
EXTENDS ContractRunsProofs, FiniteSetTheorems, SequenceTheorems

(***************************************************************************)
(* Whose turn it is                                                        *)
(***************************************************************************)

\* The task that owes the user something, if only the question it has asked.
Owes(r) == Working(r) \/ pc[r] = "settling"

\* A run that was told how the contract ended.
Closed(r) == events[r] \in {<<"complete">>, <<"error">>}

\* The outcomes a task can have at the points that depend on it.
OutcomeInv(r) ==
    /\ pc[r] = "raising" => local[r].outcome \in {"raised", "must_ask"}
    /\ pc[r] \in {"mirroring", "stamping"} => local[r].outcome \in {"complete", "blocked"}

TurnsInv ==
    /\ \A q, r \in Run : Owes(q) /\ Owes(r) => q = r
    /\ \A r \in Run : Owes(r) => posted = Len(questions) \/ Suspending(r)
    /\ \A r \in Run : pc[r] # "idle" => status # "none"
    /\ \A r \in Run : Closed(r) =>
          status # "none" /\ posted = Len(questions) /\ \A q \in Run : ~Owes(q)
    /\ status \in {"ready", "failed"} =>
          /\ posted = Len(questions)
          /\ \A r \in Run : Active(r) => pc[r] \in {"mirroring", "stamping"}
    /\ \A r \in Run : OutcomeInv(r)

(***************************************************************************)
(* What was asked and answered                                             *)
(***************************************************************************)

AllAnswered == \A i \in DOMAIN questions : questions[i].answered
LastUnanswered == questions # <<>> /\ ~questions[Len(questions)].answered

\* A task that has committed its suspension.
Suspended(r) ==
    /\ local[r].outcome = "awaiting_input"
    /\ pc[r] \in {"emitting", "finishing", "over"} \/ events[r] # <<>>

\* What a task knows of the questions at each point.
AskInv(r) ==
    /\ pc[r] \in {"reading", "marking"} => LastUnanswered
    /\ pc[r] = "marking" => local[r].pending = {Len(questions)}
    /\ pc[r] \in (Resuming \ {"reading", "marking"}) \union PhaseA \union PhaseB => AllAnswered
    /\ pc[r] = "asking" => Len(questions) < MaxAskRounds
    /\ Suspending(r) => local[r].asked = Len(questions) /\ posted < Len(questions)
    /\ Suspended(r) => /\ local[r].asked <= Len(questions)
                       /\ posted < local[r].asked => status = "awaiting_input"

QuestionsInv ==
    /\ status = "none" => questions = <<>>
    /\ posted <= Len(questions) /\ Len(questions) <= posted + 1
    /\ \A i \in DOMAIN questions : i < Len(questions) => questions[i].answered
    /\ posted < Len(questions) => LastUnanswered
    /\ \A i \in DOMAIN questions :
          questions[i].kind = "clarification" => i <= MaxAskRounds
    /\ \A i, j \in DOMAIN questions :
          questions[i].kind = "consent" /\ questions[j].kind = "consent" => i = j
    /\ \A r \in Run : AskInv(r)

(***************************************************************************)
(* What is on the table                                                    *)
(***************************************************************************)

BeforeVersion == Resuming \union PhaseA \union {"planning", "drafting", "counting", "inserting"}
Sourced == {"gathering", "understanding", "planning", "drafting", "counting", "inserting"}

\* The task has written what its outcome is about.
Mirrored(r) == pc[r] = "emitting" \/ events[r] # <<>>

TableInv(r) ==
    /\ pc[r] \in BeforeVersion => versions = <<>>
    /\ pc[r] = "settling" /\ local[r].outcome \notin {"complete", "blocked"} => versions = <<>>
    /\ pc[r] = "refusing" => consent = "declined"
    /\ consent = "declined" /\ Active(r) => pc[r] = "refusing"
    /\ local[r].outcome = "declined" => consent = "declined"
    /\ pc[r] = "stamping" => local[r].text = versions[local[r].newest].text
    /\ Mirrored(r) /\ local[r].outcome = "complete" => Finals # {}
    /\ Mirrored(r) /\ local[r].outcome = "blocked" => local[r].newest \in draftMds
    /\ Finals # {} \/ draftMds # {} => ~Active(r)

DocumentInv ==
    /\ Len(versions) <= 1
    /\ status = "none" => versions = <<>> /\ draftMds = {} /\ consent = "none"
    /\ posted < Len(questions) => versions = <<>>
    /\ consent = "declined" => versions = <<>> /\ posted = Len(questions)
    /\ Finals # {} => finalMd = [attempt |-> 1, text |-> versions[1].text]
    /\ draftMds # {} => versions # <<>>
    /\ saving # 0 => saving \in Finals
    /\ \A r \in Run : TableInv(r)

\* No source is lost on the way.
SourceInv ==
    /\ UnbackedHasConsent
    /\ \A r \in Run : pc[r] \in Sourced => local[r].backed \/ consent = "granted"

(***************************************************************************)
(* What was told                                                           *)
(***************************************************************************)

ToldInv(r) ==
    /\ pc[r] \in {"finishing", "over"} => events[r] # <<>>
    /\ events[r] # <<>> => events[r] = <<EventOf(local[r].outcome)>>
    /\ IF pc[r] = "over" THEN runStatus[r] = RunStatusOf(local[r].outcome)
       ELSE runStatus[r] \in {"none", "running"}

ReportInv == \A r \in Run : ToldInv(r)

(***************************************************************************)
(* What a step of a task writes                                            *)
(***************************************************************************)

\* Each variable is written by the actions named here and left alone by the
\* task's other steps.
LEMMA StepWrites ==
    ASSUME NEW r \in Run, Step(r)
    PROVE  /\ UNCHANGED questions \/ MarkAnswered(r) \/ AskUser(r) \/ AskConsent(r)
           /\ UNCHANGED consent \/ RecordConsent(r)
           /\ UNCHANGED draftMds \/ MirrorDraft(r)
           /\ UNCHANGED status \/ Decline(r) \/ SetDrafting(r) \/ SetStatus(r)
           /\ UNCHANGED events \/ EmitTerminal(r) \/ EmitError(r)
           /\ UNCHANGED runStatus \/ FinishRun(r)
           /\ UNCHANGED <<saving, posted>>
BY DEF Step, store, editor,
       ReadPending, MarkAnswered, RecordConsent, Decline, SetDrafting, DetermineIntent,
       AskUser, Resolve, AskConsent, Gather, Understand, AssertComplete, Draft,
       CountAttempts, InsertVersion, Finalize, Fault, SpendBudget, SetStatus, ReadNewest,
       MirrorDraft, MirrorFinal, MirrorRefused, EmitTerminal, EmitError, FinishRun

\* The program points of a task that owes something.
LEMMA OwingNames ==
    /\ Resuming \union PhaseA \union PhaseB =
          {"reading", "marking", "deciding", "refusing", "resuming", "intent", "asking",
           "resolving", "seeking", "gathering", "understanding", "planning", "drafting",
           "counting", "inserting", "validating"}
    /\ Applying = {"settling", "mirroring", "stamping", "emitting", "raising"}
BY DEF Resuming, PhaseA, PhaseB, Applying

\* Which steps lead a task to a program point.
LEMMA StepTo ==
    ASSUME TypeOK, NEW r \in Run, Step(r)
    PROVE  /\ pc'[r] \notin {"idle", "lost", "reading"}
           /\ pc'[r] = "marking" => ReadPending(r)
           /\ pc'[r] = "deciding" => MarkAnswered(r)
           /\ pc'[r] = "refusing" => RecordConsent(r)
           /\ pc'[r] = "resuming" => MarkAnswered(r) \/ RecordConsent(r)
           /\ pc'[r] = "intent" => SetDrafting(r)
           /\ pc'[r] \in {"asking", "resolving"} => DetermineIntent(r)
           /\ pc'[r] \in {"seeking", "gathering"} => Resolve(r)
           /\ pc'[r] = "understanding" => Gather(r)
           /\ pc'[r] = "planning" => Understand(r)
           /\ pc'[r] = "drafting" => AssertComplete(r)
           /\ pc'[r] = "counting" => Draft(r)
           /\ pc'[r] = "inserting" => CountAttempts(r)
           /\ pc'[r] = "validating" => InsertVersion(r)
           /\ pc'[r] = "settling" =>
                AskUser(r) \/ (AskConsent(r) /\ Ask(r, "consent")) \/ Finalize(r) \/ SpendBudget(r)
           /\ pc'[r] = "mirroring" => SetStatus(r)
           /\ pc'[r] = "stamping" => ReadNewest(r)
           /\ pc'[r] = "emitting" =>
                Decline(r) \/ SetStatus(r) \/ MirrorDraft(r) \/ MirrorFinal(r)
           /\ pc'[r] = "raising" => Leave(r, "raised", "raising") \/ Leave(r, "must_ask", "raising")
           /\ pc'[r] = "finishing" =>
                \/ ReadPending(r) /\ Unanswered = {}
                \/ MirrorRefused(r) \/ EmitTerminal(r) \/ EmitError(r)
           /\ pc'[r] = "over" => FinishRun(r)
<1>1. CASE ReadPending(r)
  BY <1>1 DEF ReadPending, Leave, Goto, TypeOK
<1>2. CASE MarkAnswered(r)
  BY <1>2 DEF MarkAnswered, Goto, TypeOK
<1>3. CASE RecordConsent(r)
  BY <1>3 DEF RecordConsent, AfterDecision, Goto, TypeOK
<1>4. CASE Decline(r)
  BY <1>4 DEF Decline, Leave, Goto, TypeOK
<1>5. CASE SetDrafting(r)
  BY <1>5 DEF SetDrafting, Goto, TypeOK
<1>6. CASE DetermineIntent(r)
  BY <1>6 DEF DetermineIntent, Goto, TypeOK
<1>7. CASE AskUser(r)
  BY <1>7 DEF AskUser, Ask, Goto, TypeOK
<1>8. CASE Resolve(r)
  BY <1>8 DEF Resolve, Goto, TypeOK
<1>9. CASE AskConsent(r)
  BY <1>9 DEF AskConsent, Ask, Leave, Goto, TypeOK
<1>10. CASE Gather(r)
  BY <1>10 DEF Gather, Goto, TypeOK
<1>11. CASE Understand(r)
  BY <1>11 DEF Understand, Goto, TypeOK
<1>12. CASE AssertComplete(r)
  BY <1>12 DEF AssertComplete, Leave, Goto, TypeOK
<1>13. CASE Draft(r)
  BY <1>13 DEF Draft, Goto, TypeOK
<1>14. CASE CountAttempts(r)
  BY <1>14 DEF CountAttempts, Goto, TypeOK
<1>15. CASE InsertVersion(r)
  BY <1>15 DEF InsertVersion, Leave, Goto, TypeOK
<1>16. CASE Finalize(r)
  BY <1>16 DEF Finalize, Goto, TypeOK
<1>17. CASE Fault(r)
  BY <1>17 DEF Fault, Leave, Goto, TypeOK
<1>18. CASE SpendBudget(r)
  BY <1>18 DEF SpendBudget, Leave, Goto, TypeOK
<1>19. CASE SetStatus(r)
  BY <1>19 DEF SetStatus, AfterStatus, Goto, TypeOK
<1>20. CASE ReadNewest(r)
  BY <1>20 DEF ReadNewest, Goto, TypeOK
<1>21. CASE MirrorDraft(r)
  BY <1>21 DEF MirrorDraft, Goto, TypeOK
<1>22. CASE MirrorFinal(r)
  BY <1>22 DEF MirrorFinal, Goto, TypeOK
<1>23. CASE MirrorRefused(r)
  BY <1>23 DEF MirrorRefused, Leave, Goto, TypeOK
<1>24. CASE EmitTerminal(r)
  BY <1>24 DEF EmitTerminal, Goto, TypeOK
<1>25. CASE EmitError(r)
  BY <1>25 DEF EmitError, Goto, TypeOK
<1>26. CASE FinishRun(r)
  BY <1>26 DEF FinishRun, Goto, TypeOK
<1> QED
  BY <1>1, <1>2, <1>3, <1>4, <1>5, <1>6, <1>7, <1>8, <1>9, <1>10, <1>11, <1>12,
     <1>13, <1>14, <1>15, <1>16, <1>17, <1>18, <1>19, <1>20, <1>21, <1>22, <1>23,
     <1>24, <1>25, <1>26 DEF Step

\* Which steps a task can take from a program point.
LEMMA StepFrom ==
    ASSUME NEW r \in Run, Step(r)
    PROVE  /\ pc[r] = "settling" => SetStatus(r)
           /\ pc[r] = "mirroring" => ReadNewest(r)
           /\ pc[r] = "stamping" => MirrorDraft(r) \/ MirrorFinal(r) \/ MirrorRefused(r)
           /\ pc[r] = "emitting" => EmitTerminal(r)
           /\ pc[r] = "raising" => EmitError(r)
           /\ pc[r] = "finishing" => FinishRun(r)
           /\ pc[r] = "refusing" => Decline(r)
BY DEF Step,
       ReadPending, MarkAnswered, RecordConsent, Decline, SetDrafting, DetermineIntent,
       AskUser, Resolve, AskConsent, Gather, Understand, AssertComplete, Draft,
       CountAttempts, InsertVersion, Finalize, Fault, SpendBudget, SetStatus, ReadNewest,
       MirrorDraft, MirrorFinal, MirrorRefused, EmitTerminal, EmitError, FinishRun

\* A step changes what its own task owes, and never makes it owe anew.
LEMMA StepOwes ==
    ASSUME TypeOK, NEW r \in Run, Step(r)
    PROVE  /\ Owes(r)' => Owes(r)
           /\ \A q \in Run : q # r => /\ Owes(q)' <=> Owes(q)
                                      /\ Suspending(q)' <=> Suspending(q)
                                      /\ events'[q] = events[q]
                                      /\ runStatus'[q] = runStatus[q]
           /\ pc[r] \notin {"idle", "over", "lost"}
           /\ pc'[r] \notin {"idle", "lost"}
<1>1. CASE ReadPending(r)
  BY <1>1, OwingNames, BusyNames DEF ReadPending, Leave, Goto, TypeOK, Owes,
     Working, Suspending
<1>2. CASE MarkAnswered(r)
  BY <1>2, OwingNames, BusyNames DEF MarkAnswered, Goto, TypeOK, Owes, Working,
     Suspending
<1>3. CASE RecordConsent(r)
  BY <1>3, OwingNames, BusyNames DEF RecordConsent, AfterDecision, Goto, TypeOK,
     Owes, Working, Suspending
<1>4. CASE Decline(r)
  BY <1>4, OwingNames, BusyNames DEF Decline, Leave, Goto, TypeOK, Owes, Working,
     Suspending
<1>5. CASE SetDrafting(r)
  BY <1>5, OwingNames, BusyNames DEF SetDrafting, Goto, TypeOK, Owes, Working,
     Suspending
<1>6. CASE DetermineIntent(r)
  BY <1>6, OwingNames, BusyNames DEF DetermineIntent, Goto, TypeOK, Owes, Working,
     Suspending
<1>7. CASE AskUser(r)
  BY <1>7, OwingNames, BusyNames DEF AskUser, Ask, Goto, TypeOK, Owes, Working,
     Suspending
<1>8. CASE Resolve(r)
  BY <1>8, OwingNames, BusyNames DEF Resolve, Goto, TypeOK, Owes, Working,
     Suspending
<1>9. CASE AskConsent(r)
  BY <1>9, OwingNames, BusyNames DEF AskConsent, Ask, Leave, Goto, TypeOK, Owes,
     Working, Suspending
<1>10. CASE Gather(r)
  BY <1>10, OwingNames, BusyNames DEF Gather, Goto, TypeOK, Owes, Working,
     Suspending
<1>11. CASE Understand(r)
  BY <1>11, OwingNames, BusyNames DEF Understand, Goto, TypeOK, Owes, Working,
     Suspending
<1>12. CASE AssertComplete(r)
  BY <1>12, OwingNames, BusyNames DEF AssertComplete, Leave, Goto, TypeOK, Owes,
     Working, Suspending
<1>13. CASE Draft(r)
  BY <1>13, OwingNames, BusyNames DEF Draft, Goto, TypeOK, Owes, Working, Suspending
<1>14. CASE CountAttempts(r)
  BY <1>14, OwingNames, BusyNames DEF CountAttempts, Goto, TypeOK, Owes, Working,
     Suspending
<1>15. CASE InsertVersion(r)
  BY <1>15, OwingNames, BusyNames DEF InsertVersion, Leave, Goto, TypeOK, Owes,
     Working, Suspending
<1>16. CASE Finalize(r)
  BY <1>16, OwingNames, BusyNames DEF Finalize, Verdict, Goto, TypeOK, Owes,
     Working, Suspending
<1>17. CASE Fault(r)
  BY <1>17, OwingNames, BusyNames DEF Fault, Leave, Goto, TypeOK, Owes, Working,
     Suspending
<1>18. CASE SpendBudget(r)
  BY <1>18, OwingNames, BusyNames DEF SpendBudget, Leave, Goto, TypeOK, Owes,
     Working, Suspending
<1>19. CASE SetStatus(r)
  BY <1>19, OwingNames, BusyNames DEF SetStatus, AfterStatus, Goto, TypeOK, Owes,
     Working, Suspending
<1>20. CASE ReadNewest(r)
  <2>1. local'[r].outcome = local[r].outcome
    BY <1>20, NewestField DEF ReadNewest, TypeOK
  <2> QED
    BY <1>20, <2>1, OwingNames DEF ReadNewest, Goto, TypeOK, Owes, Working, Suspending
<1>21. CASE MirrorDraft(r)
  BY <1>21, OwingNames, BusyNames DEF MirrorDraft, Goto, TypeOK, Owes, Working,
     Suspending
<1>22. CASE MirrorFinal(r)
  BY <1>22, OwingNames, BusyNames DEF MirrorFinal, Goto, TypeOK, Owes, Working,
     Suspending
<1>23. CASE MirrorRefused(r)
  BY <1>23, OwingNames, BusyNames DEF MirrorRefused, Leave, Goto, TypeOK, Owes,
     Working, Suspending
<1>24. CASE EmitTerminal(r)
  BY <1>24, OwingNames, BusyNames DEF EmitTerminal, Goto, TypeOK, Owes, Working,
     Suspending
<1>25. CASE EmitError(r)
  BY <1>25, OwingNames, BusyNames DEF EmitError, Goto, TypeOK, Owes, Working,
     Suspending
<1>26. CASE FinishRun(r)
  BY <1>26, OwingNames, BusyNames DEF FinishRun, Goto, TypeOK, Owes, Working,
     Suspending
<1> QED
  BY <1>1, <1>2, <1>3, <1>4, <1>5, <1>6, <1>7, <1>8, <1>9, <1>10, <1>11, <1>12,
     <1>13, <1>14, <1>15, <1>16, <1>17, <1>18, <1>19, <1>20, <1>21, <1>22, <1>23,
     <1>24, <1>25, <1>26 DEF Step

\* A run that has told nothing has told no end.
LEMMA NothingTold == <<>> \notin {<<"complete">>, <<"error">>}
<1>1. Len(<<>>) = 0 /\ Len(<<"complete">>) = 1 /\ Len(<<"error">>) = 1
  OBVIOUS
<1> QED
  BY <1>1

\* The one event of a run that has just published is the one it published.
LEMMA OnlyEvent ==
    ASSUME NEW S, NEW s \in Seq(S), NEW e \in S, NEW x, Append(s, e) = <<x>>
    PROVE  e = x /\ s = <<>>
<1>1. Len(Append(s, e)) = Len(s) + 1
  OBVIOUS
<1>2. Len(<<x>>) = 1 /\ <<x>>[1] = x
  OBVIOUS
<1>3. Len(s) = 0
  BY <1>1, <1>2
<1>4. Append(s, e)[Len(s) + 1] = e
  BY AppendProperties
<1> QED
  BY <1>2, <1>3, <1>4

\* Marking answers what the task has read, and nothing else.
LEMMA MarkedQuestions ==
    ASSUME TypeOK, NEW r \in Run, MarkAnswered(r)
    PROVE  /\ DOMAIN questions' = DOMAIN questions
           /\ Len(questions') = Len(questions)
           /\ \A i \in DOMAIN questions :
                /\ i \notin local[r].pending => questions'[i] = questions[i]
                /\ questions'[i].kind = questions[i].kind
                /\ questions'[i].answered <=> questions[i].answered \/ i \in local[r].pending
<1>1. questions \in Seq(Question) /\ questions' \in Seq(Question)
  <2>1. TypeOK'
    BY StepTypeOK DEF Step
  <2> QED
    BY <2>1 DEF TypeOK
<1>2. DOMAIN questions' = DOMAIN questions
  BY DEF MarkAnswered
<1>3. Len(questions') = Len(questions)
  BY <1>1, <1>2
<1>4. ASSUME NEW i \in DOMAIN questions
      PROVE  /\ i \notin local[r].pending => questions'[i] = questions[i]
             /\ questions'[i].kind = questions[i].kind
             /\ questions'[i].answered <=> questions[i].answered \/ i \in local[r].pending
  <2>1. questions[i] \in Question
    BY <1>1
  <2>2. questions'[i] = IF i \in local[r].pending
                        THEN [questions[i] EXCEPT !.answered = TRUE, !.answers = local[r].body]
                        ELSE questions[i]
    BY DEF MarkAnswered
  <2> QED
    BY <2>1, <2>2 DEF Question
<1> QED
  BY <1>2, <1>3, <1>4

\* Asking adds one open question.
LEMMA AskedQuestions ==
    ASSUME TypeOK, NEW r \in Run, NEW kind \in {"clarification", "consent"}, Ask(r, kind)
    PROVE  /\ Len(questions') = Len(questions) + 1
           /\ DOMAIN questions' = DOMAIN questions \union {Len(questions) + 1}
           /\ \A i \in DOMAIN questions : questions'[i] = questions[i]
           /\ ~questions'[Len(questions) + 1].answered
           /\ questions'[Len(questions) + 1].kind = kind
           /\ local'[r].asked = Len(questions) + 1
           /\ local'[r].outcome = "awaiting_input"
           /\ pc'[r] = "settling"
<1>1. questions \in Seq(Question) /\ NewQuestion(kind) \in Question
  BY QuestionTyped DEF TypeOK
<1>2. questions' = Append(questions, NewQuestion(kind))
  BY DEF Ask
<1>3. /\ Len(questions') = Len(questions) + 1
      /\ DOMAIN questions' = DOMAIN questions \union {Len(questions) + 1}
      /\ \A i \in DOMAIN questions : questions'[i] = questions[i]
      /\ questions'[Len(questions) + 1] = NewQuestion(kind)
  BY <1>1, <1>2
<1>4. /\ local'[r].asked = Len(questions) + 1
      /\ local'[r].outcome = "awaiting_input"
  BY DEF Ask, TypeOK, Local
<1>5. pc'[r] = "settling"
  BY DEF Ask, Goto, TypeOK
<1> QED
  BY <1>3, <1>4, <1>5 DEF NewQuestion

\* Only a task that owes something is active.
LEMMA ActiveOwes ==
    ASSUME TurnsInv, NEW r \in Run, Active(r)
    PROVE  Owes(r)
<1>1. CASE pc[r] \in Resuming \union PhaseA \union PhaseB \union {"settling"}
  BY <1>1 DEF Owes, Working
<1>2. CASE pc[r] \in {"mirroring", "stamping"}
  BY <1>2, OwingNames DEF Owes, Working, TurnsInv, OutcomeInv
<1> QED
  BY <1>1, <1>2 DEF Active, Busy

\* The outcome of a task fits where it is.
LEMMA StepOutcomeInv ==
    ASSUME TypeOK, TurnsInv, NEW r \in Run, Step(r)
    PROVE  \A q \in Run : OutcomeInv(q)'
<1> SUFFICES ASSUME NEW q \in Run
             PROVE  OutcomeInv(q)'
  OBVIOUS
<1>1. CASE q # r
  BY <1>1, StepFrame DEF OutcomeInv, TurnsInv
<1>2. ASSUME pc'[r] = "raising"
      PROVE  local'[r].outcome \in {"raised", "must_ask"}
  <2>1. Leave(r, "raised", "raising") \/ Leave(r, "must_ask", "raising")
    BY <1>2, StepTo
  <2> QED
    BY <2>1, OutcomeField DEF Leave, TypeOK
<1>3. ASSUME pc'[r] \in {"mirroring", "stamping"}
      PROVE  local'[r].outcome \in {"complete", "blocked"}
  <2>1. SetStatus(r) \/ ReadNewest(r)
    BY <1>3, StepTo
  <2>2. CASE SetStatus(r)
    BY <1>3, <2>2 DEF SetStatus, AfterStatus, Goto, TypeOK
  <2>3. CASE ReadNewest(r)
    <3>1. local'[r].outcome = local[r].outcome
      BY <2>3, NewestField DEF ReadNewest, TypeOK
    <3> QED
      BY <2>3, <3>1 DEF ReadNewest, TurnsInv, OutcomeInv
  <2> QED
    BY <2>1, <2>2, <2>3
<1> QED
  BY <1>1, <1>2, <1>3 DEF OutcomeInv

\* A step of a task leaves the turn to one, and ends what it closes.
LEMMA StepTurnsInv ==
    ASSUME TypeOK, TurnsInv, NEW r \in Run, Step(r)
    PROVE  TurnsInv'
<1>t. questions \in Seq(Question) /\ local \in [Run -> Local] /\ pc \in [Run -> PcState]
  BY DEF TypeOK
<1>o. \A q \in Run : Owes(q)' => Owes(q)
  BY StepOwes
<1>w. UNCHANGED posted
  BY StepWrites
<1>1. \A p, q \in Run : Owes(p)' /\ Owes(q)' => p = q
  BY <1>o DEF TurnsInv
<1>2. ASSUME NEW q \in Run, Owes(q)'
      PROVE  posted' = Len(questions') \/ Suspending(q)'
  <2>1. CASE UNCHANGED questions
    <3>1. CASE q = r /\ Suspending(r)
      <4>1. SetStatus(r)
        BY <3>1, StepFrom DEF Suspending
      <4>2. pc'[r] = "emitting" /\ local'[r].outcome = "awaiting_input"
        BY <1>t, <3>1, <4>1 DEF SetStatus, AfterStatus, Goto, Suspending
      <4> QED
        BY <1>2, <3>1, <4>2, OwingNames DEF Owes, Working
    <3>2. CASE q = r /\ ~Suspending(r)
      BY <1>2, <1>o, <1>w, <2>1, <3>2 DEF TurnsInv
    <3>3. CASE q # r
      BY <1>2, <1>o, <1>w, <2>1, <3>3, StepOwes DEF TurnsInv
    <3> QED
      BY <3>1, <3>2, <3>3
  <2>2. CASE MarkAnswered(r)
    <3>1. Owes(r) /\ ~Suspending(r)
      BY <2>2, OwingNames DEF MarkAnswered, Owes, Working, Suspending
    <3>2. posted = Len(questions)
      BY <3>1 DEF TurnsInv
    <3>3. Len(questions') = Len(questions)
      BY <2>2, MarkedQuestions
    <3> QED
      BY <1>w, <3>2, <3>3
  <2>3. CASE (AskUser(r) /\ Ask(r, "clarification")) \/ (AskConsent(r) /\ Ask(r, "consent"))
    <3>1. Owes(r)
      BY <2>3, OwingNames DEF AskUser, AskConsent, Owes, Working
    <3>2. q = r
      BY <1>o, <1>2, <3>1 DEF TurnsInv
    <3> QED
      BY <2>3, <3>2, AskedQuestions DEF AskUser, AskConsent, Suspending
  <2> QED
    BY <2>1, <2>2, <2>3, StepWrites DEF AskUser, AskConsent
<1>3. ASSUME NEW q \in Run, pc'[q] # "idle"
      PROVE  status' # "none"
  <2>1. pc[q] # "idle"
    BY <1>3, StepFrame, StepOwes
  <2> QED
    BY <2>1, StepFrame DEF TurnsInv
<1>4. ASSUME NEW q \in Run, Closed(q)'
      PROVE  /\ status' # "none" /\ posted' = Len(questions')
             /\ \A p \in Run : ~Owes(p)'
  <2>1. CASE Closed(q)
    <3>1. status # "none" /\ posted = Len(questions) /\ \A p \in Run : ~Owes(p)
      BY <2>1 DEF TurnsInv
    <3>2. UNCHANGED questions
      BY <3>1, StepFrame, ActiveOwes
    <3> QED
      BY <1>o, <1>w, <3>1, <3>2, StepFrame
  <2>2. CASE ~Closed(q)
    <3>1. q = r /\ (EmitTerminal(r) \/ EmitError(r))
      BY <1>4, <2>2, StepWrites, StepOwes DEF Closed
    <3>2. Owes(r) /\ pc[r] # "settling"
      <4>1. CASE EmitError(r)
        BY <4>1, OwingNames DEF EmitError, TurnsInv, OutcomeInv, Owes, Working
      <4>2. CASE EmitTerminal(r)
        <5>1. events'[r] = Append(events[r], EventOf(local[r].outcome))
          BY <4>2 DEF EmitTerminal, TypeOK
        <5>2. EventOf(local[r].outcome) \in {"complete", "error"}
          <6>1. EventOf(local[r].outcome) \in TerminalEvent
            BY DEF EventOf, TerminalEvent
          <6> QED
            BY <1>4, <3>1, <5>1, <6>1, OnlyEvent DEF Closed, TypeOK
        <5> QED
          BY <4>2, <5>2, OwingNames DEF EmitTerminal, EventOf, Owes, Working
      <4> QED
        BY <3>1, <4>1, <4>2
    <3>3. posted = Len(questions) /\ status # "none"
      BY <3>1, <3>2 DEF TurnsInv, Suspending, EmitTerminal, EmitError
    <3>4. ~Owes(r)'
      BY <1>t, <3>1, OwingNames DEF EmitTerminal, EmitError, Goto, Owes, Working
    <3>5. UNCHANGED <<questions, posted, status>>
      BY <3>1 DEF EmitTerminal, EmitError, store
    <3> QED
      BY <1>o, <3>2, <3>3, <3>4, <3>5 DEF TurnsInv
  <2> QED
    BY <2>1, <2>2
<1>5. ASSUME status' \in {"ready", "failed"}
      PROVE  /\ posted' = Len(questions')
             /\ \A q \in Run : Active(q)' => pc'[q] \in {"mirroring", "stamping"}
  <2>a. \A q \in Run : Active(q)' => Active(q)
    BY StepFrame DEF Active
  <2>1. CASE UNCHANGED status
    <3>1. /\ posted = Len(questions)
          /\ \A q \in Run : Active(q) => pc[q] \in {"mirroring", "stamping"}
      BY <1>5, <2>1 DEF TurnsInv
    <3>2. UNCHANGED questions
      BY <3>1, StepWrites, BusyNames DEF MarkAnswered, AskUser, AskConsent, Active
    <3>3. ASSUME Active(r)'
          PROVE  pc'[r] \in {"mirroring", "stamping"}
      <4>1. pc[r] \in {"mirroring", "stamping"}
        BY <2>a, <3>1, <3>3
      <4>2. ReadNewest(r) \/ MirrorDraft(r) \/ MirrorFinal(r) \/ MirrorRefused(r)
        BY <4>1, StepFrom
      <4> QED
        BY <1>t, <3>3, <4>2, BusyNames DEF ReadNewest, MirrorDraft, MirrorFinal,
           MirrorRefused, Leave, Goto, Active
    <3> QED
      BY <1>w, <2>a, <3>1, <3>2, <3>3, StepFrame
  <2>2. CASE Decline(r)
    <3>1. Owes(r) /\ ~Suspending(r)
      BY <2>2, OwingNames DEF Decline, Owes, Working, Suspending
    <3>2. ~Active(r)'
      BY <1>t, <2>2, BusyNames DEF Decline, Leave, Goto, Active
    <3>3. UNCHANGED questions
      BY <2>2 DEF Decline, store
    <3> QED
      BY <1>w, <2>a, <3>1, <3>2, <3>3, ActiveOwes DEF TurnsInv
  <2>3. CASE SetDrafting(r)
    BY <1>5, <2>3 DEF SetDrafting
  <2>4. CASE SetStatus(r)
    <3>1. Owes(r) /\ ~Suspending(r)
      BY <1>5, <2>4 DEF SetStatus, ContractStatus, Owes, Suspending
    <3>2. pc'[r] \in {"mirroring", "emitting"}
      BY <1>t, <2>4 DEF SetStatus, AfterStatus, Goto
    <3>3. UNCHANGED questions
      BY <2>4 DEF SetStatus, store
    <3> QED
      BY <1>w, <2>a, <3>1, <3>2, <3>3, ActiveOwes, BusyNames DEF TurnsInv, Active
  <2> QED
    BY <2>1, <2>2, <2>3, <2>4, StepWrites
<1> QED
  BY <1>1, <1>2, <1>3, <1>4, <1>5, StepOutcomeInv DEF TurnsInv

(***************************************************************************)
(* What users and crashes do                                               *)
(***************************************************************************)

\* A task is started only when no other owes anything, and takes the turn.
LEMMA StartsAlone ==
    ASSUME TypeOK, GateInv, TurnsInv, Retries = FALSE,
           NEW r \in Run, CreateContract(r) \/ PostAnswers(r)
    PROVE  /\ pc[r] = "idle"
           /\ \A q \in Run : ~Owes(q)
           /\ \A q \in Run : q # r => pc'[q] = pc[q] /\ local'[q] = local[q]
                                      /\ runStatus'[q] = runStatus[q]
           /\ posted' = Len(questions) /\ UNCHANGED <<store, events, saving>>
           /\ \/ status = "none" /\ status' = "planning" /\ pc'[r] = "intent"
                 /\ UNCHANGED <<local, posted>>
              \/ status = "awaiting_input" /\ status' = status /\ pc'[r] = "reading"
                 /\ posted < Len(questions) /\ Unanswered # {}
                 /\ \E body \in Body : local' = [local EXCEPT ![r].body = body]
           /\ runStatus'[r] = "running"
<1>1. CASE CreateContract(r)
  <2>1. \A q \in Run : pc[q] = "idle"
    BY <1>1 DEF CreateContract, TurnsInv
  <2>2. posted = Len(questions)
    BY <1>1 DEF CreateContract, GateInv
  <2>3. \A q \in Run : ~Owes(q)
    BY <2>1, OwingNames DEF Owes, Working
  <2> QED
    BY <1>1, <2>1, <2>2, <2>3 DEF CreateContract, Goto, TypeOK, editor, store
<1>2. CASE PostAnswers(r)
  <2>1. status = "awaiting_input" /\ posted < Len(questions)
    BY <1>2 DEF PostAnswers
  <2>2. posted # Len(questions)
    BY <2>1 DEF TypeOK
  <2>3. ASSUME NEW q \in Run, Owes(q)
        PROVE  FALSE
    <3>1. Suspending(q)
      BY <2>2, <2>3 DEF TurnsInv
    <3> QED
      BY <2>1, <3>1, BusyNames DEF GateInv, TurnInv, Suspending, Active
  <2>4. \A q \in Run : q # r => local'[q] = local[q]
    BY <1>2 DEF PostAnswers, TypeOK
  <2> QED
    BY <1>2, <2>1, <2>3, <2>4 DEF PostAnswers, Goto, TypeOK, editor, store
<1> QED
  BY <1>1, <1>2

\* What the document page's requests leave alone.
LEMMA EditorFrame ==
    ASSUME SelectFinal \/ SaveDocument \/ RenderExport \/ CreateExport
    PROVE  /\ UNCHANGED <<status, questions, consent, draftMds, runStatus, events, pc,
                          local, posted>>
           /\ UNCHANGED <<versions, finalMd>> \/ SaveDocument
           /\ UNCHANGED saving \/ SelectFinal \/ SaveDocument
BY DEF SelectFinal, SaveDocument, RenderExport, CreateExport, store

\* After a crash no task is left to go on.
LEMMA CrashFrame ==
    ASSUME TypeOK, Crash
    PROVE  /\ UNCHANGED <<status, questions, consent, versions, finalMd, draftMds,
                          runStatus, events, local, posted>>
           /\ saving' = 0
           /\ \A q \in Run : /\ pc'[q] = IF pc[q] \in Live THEN "lost" ELSE pc[q]
                             /\ pc'[q] \in {"idle", "over", "lost"}
                             /\ ~Owes(q)' /\ ~Active(q)'
<1>1. \A q \in Run : pc'[q] = IF pc[q] \in Live THEN "lost" ELSE pc[q]
  BY DEF Crash, TypeOK
<1>2. \A q \in Run : pc'[q] \in {"idle", "over", "lost"}
  BY <1>1 DEF TypeOK, PcState
<1> QED
  BY <1>1, <1>2, OwingNames, BusyNames DEF Crash, store, Owes, Working, Active

\* TurnsInv is an invariant when clients answer each suspension once.
LEMMA AlwaysTurnsInv ==
    ASSUME Retries = FALSE
    PROVE  Spec => []TurnsInv
<1>1. Init => TurnsInv
  <2> SUFFICES ASSUME Init
               PROVE  TurnsInv
    OBVIOUS
  <2>1. \A r \in Run : ~Owes(r) /\ ~Active(r)
    BY OwingNames, BusyNames DEF Init, Owes, Working, Active
  <2>2. \A r \in Run : ~Closed(r)
    BY NothingTold DEF Init, Closed
  <2> QED
    BY <2>1, <2>2 DEF Init, TurnsInv, OutcomeInv
<1>2. TypeOK /\ GateInv /\ TurnsInv /\ [Next]_vars => TurnsInv'
  <2> SUFFICES ASSUME TypeOK, GateInv, TurnsInv, [Next]_vars
               PROVE  TurnsInv'
    OBVIOUS
  <2>1. ASSUME NEW r \in Run, CreateContract(r) \/ PostAnswers(r)
        PROVE  TurnsInv'
    <3>1. \A q \in Run : Owes(q)' => q = r
      BY <2>1, StartsAlone DEF Owes, Working
    <3>2. posted' = Len(questions') /\ UNCHANGED events
      BY <2>1, StartsAlone DEF store
    <3>3. ASSUME NEW q \in Run, Closed(q)
          PROVE  FALSE
      <4>1. posted = Len(questions) /\ status # "none"
        BY <3>3 DEF TurnsInv
      <4>2. ~(posted < Len(questions))
        BY <4>1 DEF TypeOK
      <4> QED
        BY <2>1, <4>1, <4>2, StartsAlone
    <3>4. \A q \in Run : OutcomeInv(q)'
      BY <2>1, StartsAlone DEF TurnsInv, OutcomeInv
    <3>5. status' \notin {"none", "ready", "failed"}
      BY <2>1, StartsAlone
    <3> QED
      BY <3>1, <3>2, <3>3, <3>4, <3>5 DEF TurnsInv, Closed
  <2>2. CASE SelectFinal \/ SaveDocument \/ RenderExport \/ CreateExport \/ UNCHANGED vars
    <3>1. UNCHANGED <<status, questions, events, pc, local, posted>>
      BY <2>2, EditorFrame DEF vars, store
    <3> QED
      BY <3>1 DEF TurnsInv, Owes, Working, Suspending, Closed, Active, OutcomeInv
  <2>3. CASE Crash
    <3>1. "idle" \notin Live
      BY OwingNames DEF Live
    <3>2. \A q \in Run :
            /\ ~Owes(q)' /\ ~Active(q)'
            /\ Closed(q)' => Closed(q)
            /\ pc[q] = "idle" => pc'[q] = "idle"
            /\ OutcomeInv(q)'
      <4> SUFFICES ASSUME NEW q \in Run
                   PROVE  /\ ~Owes(q)' /\ ~Active(q)'
                          /\ Closed(q)' => Closed(q)
                          /\ pc[q] = "idle" => pc'[q] = "idle"
                          /\ OutcomeInv(q)'
        OBVIOUS
      <4>1. /\ pc'[q] = IF pc[q] \in Live THEN "lost" ELSE pc[q]
            /\ pc'[q] \in {"idle", "over", "lost"}
            /\ ~Owes(q)' /\ ~Active(q)'
            /\ UNCHANGED events
        BY <2>3, CrashFrame
      <4> QED
        BY <3>1, <4>1 DEF Closed, OutcomeInv
    <3>3. UNCHANGED <<status, posted, questions>>
      BY <2>3, CrashFrame
    <3> QED
      BY <3>2, <3>3 DEF TurnsInv
  <2> QED
    BY <2>1, <2>2, <2>3, StepTurnsInv DEF Next
<1> QED
  BY <1>1, <1>2, AlwaysGateInv, TypeCorrect, PTL DEF Spec

\* A contract that is ready or has failed is not taken up again, by whichever
\* task, crash or request, if clients answer each suspension once.
THEOREM EndedForGood ==
    ASSUME Retries = FALSE
    PROVE  Spec => EndedStaysEnded
<1>1. TypeOK /\ GateInv /\ TurnsInv /\ [Next]_vars =>
        [(status \in {"ready", "failed"}) => (status' = status)]_status
  <2> SUFFICES ASSUME TypeOK, GateInv, TurnsInv, [Next]_vars, status \in {"ready", "failed"}
               PROVE  status' = status
    OBVIOUS
  <2>1. ASSUME NEW r \in Run, CreateContract(r) \/ PostAnswers(r)
        PROVE  status' = status
    BY <2>1 DEF CreateContract, PostAnswers
  <2>2. ASSUME NEW r \in Run, Step(r)
        PROVE  status' = status
    <3>1. pc[r] \notin {"refusing", "resuming", "settling"}
      BY BusyNames DEF TurnsInv, Active
    <3> QED
      BY <2>2, <3>1, StepWrites DEF Decline, SetDrafting, SetStatus
  <2> QED
    BY <2>1, <2>2, EditorFrame, CrashFrame DEF Next, vars
<1> QED
  BY <1>1, AlwaysTurnsInv, AlwaysGateInv, TypeCorrect, PTL DEF Spec, EndedStaysEnded

\* The outstanding questions and the answered ones, when all is answered or
\* all but the last.
LEMMA OutstandingOnes ==
    ASSUME TypeOK, QuestionsInv
    PROVE  /\ LastUnanswered => Unanswered = {Len(questions)}
           /\ AllAnswered => Unanswered = {} /\ Cardinality(Answered) = Len(questions)
<1>1. questions \in Seq(Question) /\ DOMAIN questions = 1 .. Len(questions)
      /\ Len(questions) \in Nat
  BY DEF TypeOK
<1>2. ASSUME LastUnanswered
      PROVE  Unanswered = {Len(questions)}
  <2>1. Len(questions) \in DOMAIN questions
    BY <1>1, <1>2 DEF LastUnanswered
  <2> QED
    BY <1>1, <1>2, <2>1 DEF LastUnanswered, Unanswered, QuestionsInv
<1>3. ASSUME AllAnswered
      PROVE  Unanswered = {} /\ Cardinality(Answered) = Len(questions)
  <2>1. Unanswered = {} /\ Answered = 1 .. Len(questions)
    BY <1>1, <1>3 DEF AllAnswered, Unanswered, Answered
  <2>2. Cardinality(1 .. Len(questions)) = Len(questions)
    BY <1>1, FS_Interval
  <2> QED
    BY <2>1, <2>2
<1> QED
  BY <1>2, <1>3

\* A step that asks and answers nothing keeps what other tasks know.
LEMMA StepAskInvOther ==
    ASSUME TypeOK, TurnsInv, QuestionsInv, UNCHANGED questions,
           NEW r \in Run, Step(r), NEW q \in Run, q # r
    PROVE  AskInv(q)'
<1>1. pc'[q] = pc[q] /\ local'[q] = local[q] /\ events'[q] = events[q] /\ posted' = posted
  BY StepFrame, StepOwes
<1>2. ASSUME Suspended(q), posted < local[q].asked, status' # status
      PROVE  status' = "awaiting_input"
  <2>1. posted # Len(questions)
    BY <1>2, LocalOf DEF QuestionsInv, AskInv, TypeOK
  <2>2. Decline(r) \/ SetDrafting(r) \/ SetStatus(r)
    BY <1>2, StepWrites
  <2>3. Owes(r)
    BY <2>2, OwingNames DEF Decline, SetDrafting, SetStatus, Owes, Working
  <2>4. Suspending(r)
    BY <2>1, <2>3 DEF TurnsInv
  <2> QED
    BY <2>2, <2>4 DEF Decline, SetDrafting, SetStatus, Suspending, ContractStatus
<1>3. AskInv(q)
  BY DEF QuestionsInv
<1>4. /\ LastUnanswered' <=> LastUnanswered
      /\ AllAnswered' <=> AllAnswered
  BY DEF LastUnanswered, AllAnswered
<1>5. /\ Suspending(q)' <=> Suspending(q)
      /\ Suspended(q)' <=> Suspended(q)
  BY <1>1 DEF Suspending, Suspended
<1> QED
  BY <1>1, <1>2, <1>3, <1>4, <1>5 DEF AskInv

\* The gates leave a verdict.
LEMMA VerdictField ==
    ASSUME local \in [Run -> Local], NEW r \in Run, NEW o, NEW b,
           local' = [local EXCEPT ![r].outcome = o, ![r].review = b]
    PROVE  local'[r].outcome = o
BY DEF Local

\* A task commits its suspension in SetStatus and keeps to it.
LEMMA StepSuspended ==
    ASSUME TypeOK, EventsInv, TurnsInv, NEW r \in Run, Step(r), Suspended(r)'
    PROVE  SetStatus(r) \/ EmitTerminal(r) \/ FinishRun(r)
<1>t. local \in [Run -> Local] /\ pc \in [Run -> PcState]
  BY DEF TypeOK
<1>1. local'[r].outcome = "awaiting_input"
  BY DEF Suspended
<1>2. CASE pc'[r] \in {"emitting", "finishing", "over"}
  <2>1. \/ Decline(r) \/ SetStatus(r) \/ MirrorDraft(r) \/ MirrorFinal(r)
        \/ (ReadPending(r) /\ Unanswered = {}) \/ MirrorRefused(r) \/ EmitTerminal(r)
        \/ EmitError(r) \/ FinishRun(r)
    BY <1>2, StepTo
  <2>2. ~Decline(r)
    BY <1>t, <1>1, OutcomeField DEF Decline, Leave
  <2>3. ~MirrorDraft(r) /\ ~MirrorFinal(r)
    BY <1>1 DEF MirrorDraft, MirrorFinal
  <2>4. ~(ReadPending(r) /\ Unanswered = {}) /\ ~MirrorRefused(r)
    BY <1>t, <1>1, OutcomeField DEF ReadPending, MirrorRefused, Leave
  <2>5. ~EmitError(r)
    BY <1>1 DEF EmitError, TurnsInv, OutcomeInv
  <2> QED
    BY <2>1, <2>2, <2>3, <2>4, <2>5
<1>3. CASE events'[r] # <<>>
  <2>1. CASE UNCHANGED events
    <3>1. pc[r] \in {"finishing", "over", "lost"}
      BY <1>t, <1>3, <2>1 DEF EventsInv, Silent
    <3> QED
      BY <3>1, StepOwes, StepFrom
  <2>2. ~EmitError(r)
    BY <1>1 DEF EmitError, TurnsInv, OutcomeInv
  <2> QED
    BY <2>1, <2>2, StepWrites
<1> QED
  BY <1>2, <1>3 DEF Suspended

\* Nor does it disturb what its own task knows.
LEMMA StepAskInvOwn ==
    ASSUME TypeOK, EventsInv, TurnsInv, QuestionsInv, UNCHANGED questions, NEW r \in Run, Step(r)
    PROVE  AskInv(r)'
<1>t. /\ local \in [Run -> Local] /\ pc \in [Run -> PcState] /\ questions \in Seq(Question)
      /\ posted' = posted /\ posted \in Nat
      /\ AskInv(r)
  BY StepWrites DEF TypeOK, QuestionsInv
<1>u. /\ LastUnanswered' <=> LastUnanswered
      /\ AllAnswered' <=> AllAnswered
  BY DEF LastUnanswered, AllAnswered
<1>1. ASSUME pc'[r] \in {"reading", "marking"}
      PROVE  LastUnanswered' /\ (pc'[r] = "marking" => local'[r].pending = {Len(questions')})
  <2>1. ReadPending(r) /\ pc'[r] = "marking"
    BY <1>1, StepTo
  <2>2. LastUnanswered
    BY <1>t, <2>1 DEF ReadPending, AskInv
  <2>3. local'[r].pending = Unanswered
    BY <1>t, <2>1 DEF ReadPending, Leave, Goto, Local
  <2> QED
    BY <1>u, <2>2, <2>3, OutstandingOnes
<1>m. ~MarkAnswered(r)
  <2> SUFFICES ASSUME MarkAnswered(r)
               PROVE  FALSE
    OBVIOUS
  <2>1. LastUnanswered /\ local[r].pending = {Len(questions)}
    BY <1>t DEF MarkAnswered, AskInv
  <2>2. Len(questions) \in DOMAIN questions
    BY <1>t, <2>1 DEF LastUnanswered
  <2>3. questions'[Len(questions)].answered
    BY <2>1, <2>2, MarkedQuestions
  <2> QED
    BY <2>1, <2>3 DEF LastUnanswered
<1>2. ASSUME pc'[r] \in (Resuming \ {"reading", "marking"}) \union PhaseA \union PhaseB
      PROVE  AllAnswered'
  <2>1. pc[r] \in (Resuming \ {"reading", "marking"}) \union PhaseA \union PhaseB
    <3>1. pc'[r] \in {"deciding", "refusing", "resuming", "intent", "asking", "resolving",
                      "seeking", "gathering", "understanding", "planning", "drafting",
                      "counting", "inserting", "validating"}
      BY <1>2 DEF Resuming, PhaseA, PhaseB
    <3>2. \/ RecordConsent(r) \/ SetDrafting(r) \/ DetermineIntent(r) \/ Resolve(r)
          \/ Gather(r) \/ Understand(r) \/ AssertComplete(r) \/ Draft(r)
          \/ CountAttempts(r) \/ InsertVersion(r)
      BY <1>m, <3>1, StepTo
    <3> QED
      BY <3>2 DEF Resuming, PhaseA, PhaseB, RecordConsent, SetDrafting, DetermineIntent,
         Resolve, Gather, Understand, AssertComplete, Draft, CountAttempts, InsertVersion
  <2> QED
    BY <1>t, <1>u, <2>1 DEF AskInv
<1>3. ASSUME pc'[r] = "asking"
      PROVE  Len(questions') < MaxAskRounds
  <2>1. DetermineIntent(r) /\ ~AskedEnough
    BY <1>t, <1>3, StepTo DEF DetermineIntent, Goto
  <2>2. AllAnswered
    BY <1>t, <2>1 DEF DetermineIntent, AskInv, PhaseA
  <2>3. ~(Len(questions) >= MaxAskRounds)
    BY <2>1, <2>2, OutstandingOnes DEF AskedEnough
  <2> QED
    BY <1>t, <2>3, BoundsAssumption
<1>4. ~Suspending(r)'
  <2> SUFFICES ASSUME pc'[r] = "settling", local'[r].outcome = "awaiting_input"
               PROVE  FALSE
    BY DEF Suspending
  <2>1. \/ Ask(r, "clarification") \/ Ask(r, "consent") \/ Finalize(r) \/ SpendBudget(r)
    BY StepTo DEF AskUser
  <2>2. CASE Ask(r, "clarification") \/ Ask(r, "consent")
    <3>1. Len(questions') = Len(questions) + 1
      BY <2>2, AskedQuestions
    <3> QED
      BY <1>t, <3>1
  <2>3. CASE Finalize(r)
    <3>1. PICK gate, b : local' = [local EXCEPT ![r].outcome = Verdict(gate), ![r].review = b]
      BY <2>3 DEF Finalize
    <3>2. local'[r].outcome = Verdict(gate)
      BY <1>t, <3>1, VerdictField
    <3> QED
      BY <3>2 DEF Verdict
  <2>4. CASE SpendBudget(r)
    BY <1>t, <2>4, OutcomeField DEF SpendBudget, Leave
  <2> QED
    BY <2>1, <2>2, <2>3, <2>4
<1>5. ASSUME Suspended(r)'
      PROVE  /\ local'[r].asked <= Len(questions')
             /\ posted' < local'[r].asked => status' = "awaiting_input"
  <2>1. SetStatus(r) \/ EmitTerminal(r) \/ FinishRun(r)
    BY <1>5, StepSuspended
  <2>2. CASE SetStatus(r)
    <3>1. UNCHANGED local
      BY <2>2 DEF SetStatus
    <3>2. Suspending(r)
      BY <1>5, <2>2, <3>1 DEF SetStatus, Suspended, Suspending
    <3>3. status' = "awaiting_input"
      BY <2>2, <3>2 DEF SetStatus, ContractStatus, Suspending
    <3>4. local[r].asked = Len(questions)
      BY <1>t, <3>2 DEF AskInv
    <3> QED
      BY <1>t, <3>1, <3>3, <3>4
  <2>3. CASE EmitTerminal(r) \/ FinishRun(r)
    <3>1. UNCHANGED <<local, status>>
      BY <2>3 DEF EmitTerminal, FinishRun
    <3>2. Suspended(r)
      BY <1>5, <2>3, <3>1 DEF EmitTerminal, FinishRun, Suspended
    <3> QED
      BY <1>t, <3>1, <3>2 DEF AskInv
  <2> QED
    BY <2>1, <2>2, <2>3
<1> QED
  BY <1>1, <1>2, <1>3, <1>4, <1>5 DEF AskInv

\* Marking answers the last question, which was the only one outstanding.
LEMMA MarkQuestionsInv ==
    ASSUME TypeOK, TypeOK', TurnsInv, GateInv, QuestionsInv, NEW r \in Run, MarkAnswered(r)
    PROVE  QuestionsInv' /\ AllAnswered'
<1>t. /\ local \in [Run -> Local] /\ pc \in [Run -> PcState] /\ questions \in Seq(Question)
      /\ questions' \in Seq(Question) /\ Len(questions) \in Nat
      /\ posted \in Nat
  BY DEF TypeOK
<1>w. UNCHANGED <<posted, local, status, events>>
  BY DEF MarkAnswered
<1>1. /\ Owes(r) /\ ~Suspending(r) /\ Active(r)
      /\ pc[r] = "marking"
  BY OwingNames, BusyNames DEF MarkAnswered, Owes, Working, Suspending, Active
<1>2. posted = Len(questions)
  BY <1>1 DEF TurnsInv
<1>3. local[r].pending = {Len(questions)}
  BY <1>1 DEF QuestionsInv, AskInv
<1>4. /\ DOMAIN questions' = DOMAIN questions
      /\ Len(questions') = Len(questions)
      /\ \A i \in DOMAIN questions : questions'[i].kind = questions[i].kind
  BY MarkedQuestions
<1>5. \A i \in DOMAIN questions : questions'[i].answered
  <2> SUFFICES ASSUME NEW i \in DOMAIN questions
               PROVE  questions'[i].answered
    OBVIOUS
  <2>1. questions'[i].answered <=> questions[i].answered \/ i \in local[r].pending
    BY MarkedQuestions
  <2>2. i \in 1 .. Len(questions)
    BY <1>t
  <2>3. CASE i = Len(questions)
    BY <1>3, <2>1, <2>3
  <2>4. CASE i # Len(questions)
    <3>1. i < Len(questions)
      BY <1>t, <2>2, <2>4
    <3> QED
      BY <2>1, <3>1 DEF QuestionsInv
  <2> QED
    BY <2>3, <2>4
<1>6. AllAnswered'
  BY <1>4, <1>5 DEF AllAnswered
<1>7. ASSUME NEW q \in Run, q # r
      PROVE  AskInv(q)'
  <2>1. pc'[q] = pc[q]
    BY <1>7 DEF MarkAnswered, Goto, TypeOK
  <2>2. ~Owes(q)
    BY <1>1, <1>7 DEF TurnsInv
  <2>3. ~Owes(q)' /\ pc'[q] \notin Resuming \union PhaseA \union PhaseB
    BY <1>w, <2>1, <2>2 DEF Owes, Working
  <2>4. /\ ~Suspending(q)'
        /\ Suspended(q)' => Suspended(q)
    BY <1>w, <2>1, <2>3 DEF Owes, Suspending, Suspended
  <2> QED
    BY <1>w, <1>4, <2>3, <2>4, OwingNames DEF QuestionsInv, AskInv
<1>8. AskInv(r)'
  <2>1. pc'[r] \in {"resuming", "deciding"}
    BY DEF MarkAnswered, Goto, TypeOK
  <2>2. ~Suspending(r)'
    BY <2>1 DEF Suspending
  <2>3. Suspended(r)' => Suspended(r)
    BY <1>w, <2>1 DEF Suspended
  <2> QED
    BY <1>w, <1>4, <1>6, <2>1, <2>2, <2>3 DEF QuestionsInv, AskInv
<1>9. \A q \in Run : AskInv(q)'
  BY <1>7, <1>8
<1>10. ~(posted' < Len(questions'))
  BY <1>t, <1>w, <1>2, <1>4
<1>11. /\ posted' <= Len(questions') /\ Len(questions') <= posted' + 1
       /\ \A i \in DOMAIN questions' : i < Len(questions') => questions'[i].answered
       /\ \A i \in DOMAIN questions' : questions'[i].kind = "clarification" => i <= MaxAskRounds
       /\ \A i, j \in DOMAIN questions' :
            questions'[i].kind = "consent" /\ questions'[j].kind = "consent" => i = j
  BY <1>w, <1>4, <1>5 DEF QuestionsInv
<1>12. status' # "none"
  BY <1>w, <1>1 DEF TurnsInv
<1> QED
  BY <1>6, <1>9, <1>10, <1>11, <1>12 DEF QuestionsInv

\* A question is asked when every other is answered: a clarification while
\* rounds are left, and consent once.
LEMMA AskQuestionsInv ==
    ASSUME TypeOK, TypeOK', TurnsInv, GateInv, EventsInv, QuestionsInv, NEW r \in Run,
           \/ AskUser(r) /\ Ask(r, "clarification")
           \/ AskConsent(r) /\ Ask(r, "consent")
    PROVE  QuestionsInv' /\ UNCHANGED <<status, posted, events>> /\ Suspending(r)'
<1>t. /\ local \in [Run -> Local] /\ pc \in [Run -> PcState] /\ questions \in Seq(Question)
      /\ questions' \in Seq(Question) /\ Len(questions) \in Nat /\ posted \in Nat
      /\ DOMAIN questions = 1 .. Len(questions)
      /\ DOMAIN questions' = 1 .. Len(questions')
  BY DEF TypeOK
<1>w. UNCHANGED <<posted, status, events>>
  BY DEF AskUser, AskConsent
<1>1. /\ Owes(r) /\ ~Suspending(r) /\ Active(r)
      /\ pc[r] \in {"asking", "seeking"}
  BY OwingNames, BusyNames DEF AskUser, AskConsent, Owes, Working, Suspending, Active
<1>2. posted = Len(questions)
  BY <1>1 DEF TurnsInv
<1>3. PICK kind \in {"clarification", "consent"} :
          /\ Ask(r, kind)
          /\ kind = "clarification" => AskUser(r)
          /\ kind = "consent" => AskConsent(r) /\ \A i \in DOMAIN questions : questions[i].kind # "consent"
  <2>1. CASE AskUser(r) /\ Ask(r, "clarification")
    BY <2>1
  <2>2. CASE AskConsent(r) /\ Ask(r, "consent")
    <3>a. Len(questions') = Len(questions) + 1
      BY <2>2, AskedQuestions
    <3>b. Len(questions) \in Nat
      BY <1>t
    <3>1. Len(questions') # Len(questions)
      BY <3>a, <3>b
    <3>2. \A i \in DOMAIN questions : questions[i].kind # "consent"
      BY <2>2, <3>1 DEF AskConsent
    <3> QED
      BY <2>2, <3>2
  <2> QED
    BY <2>1, <2>2
<1>4. /\ Len(questions') = Len(questions) + 1
      /\ \A i \in DOMAIN questions : questions'[i] = questions[i]
      /\ ~questions'[Len(questions) + 1].answered
      /\ questions'[Len(questions) + 1].kind = kind
      /\ local'[r].asked = Len(questions) + 1
      /\ local'[r].outcome = "awaiting_input"
      /\ pc'[r] = "settling"
  BY <1>3, AskedQuestions
<1>5. AllAnswered
  BY <1>1, OwingNames DEF QuestionsInv, AskInv, PhaseA
<1>6. \A i \in DOMAIN questions' : i < Len(questions') => questions'[i].answered
  BY <1>t, <1>4, <1>5 DEF AllAnswered
<1>7. LastUnanswered'
  BY <1>t, <1>4 DEF LastUnanswered
<1>8. posted' <= Len(questions') /\ Len(questions') <= posted' + 1 /\ posted' < Len(questions')
  BY <1>t, <1>w, <1>2, <1>4
<1>9. ASSUME NEW i \in DOMAIN questions', questions'[i].kind = "clarification"
      PROVE  i <= MaxAskRounds
  <2>1. CASE i \in DOMAIN questions
    BY <1>4, <1>9, <2>1 DEF QuestionsInv
  <2>2. CASE i \notin DOMAIN questions
    <3>1. i = Len(questions) + 1
      BY <1>t, <1>4, <2>2
    <3>2. pc[r] = "asking"
      BY <1>3, <1>4, <1>9, <3>1 DEF AskUser
    <3>3. Len(questions) < MaxAskRounds
      BY <3>2 DEF QuestionsInv, AskInv
    <3> QED
      BY <1>t, <3>1, <3>3, BoundsAssumption
  <2> QED
    BY <2>1, <2>2
<1>10. ASSUME NEW i \in DOMAIN questions', NEW j \in DOMAIN questions',
              questions'[i].kind = "consent", questions'[j].kind = "consent"
       PROVE  i = j
  <2>1. CASE i \in DOMAIN questions /\ j \in DOMAIN questions
    BY <1>4, <1>10, <2>1 DEF QuestionsInv
  <2>2. CASE i \notin DOMAIN questions /\ j \notin DOMAIN questions
    BY <1>t, <1>4, <2>2
  <2>3. ASSUME NEW m \in DOMAIN questions, NEW n \in DOMAIN questions' \ DOMAIN questions,
               questions'[m].kind = "consent", questions'[n].kind = "consent"
        PROVE  FALSE
    <3>1. n = Len(questions) + 1
      BY <1>t, <1>4, <2>3
    <3>2. questions[m].kind # "consent"
      BY <1>3, <1>4, <2>3, <3>1
    <3> QED
      BY <1>4, <2>3, <3>2
  <2> QED
    BY <1>10, <2>1, <2>2, <2>3
<1>11. ASSUME NEW q \in Run, q # r
       PROVE  AskInv(q)'
  <2>1. pc'[q] = pc[q] /\ local'[q] = local[q]
    BY <1>3, <1>11 DEF Ask, Goto, TypeOK
  <2>2. ~Owes(q)
    BY <1>1, <1>11 DEF TurnsInv
  <2>3. ~Owes(q)' /\ pc'[q] \notin Resuming \union PhaseA \union PhaseB
    BY <1>w, <2>1, <2>2 DEF Owes, Working
  <2>4. /\ ~Suspending(q)'
        /\ Suspended(q)' => Suspended(q)
    BY <1>w, <2>1, <2>3 DEF Owes, Suspending, Suspended
  <2>5. Suspended(q) => local[q].asked <= Len(questions) /\ local[q].asked \in Nat
    BY <1>t, LocalOf DEF QuestionsInv, AskInv
  <2>6. Suspended(q) => local'[q].asked <= Len(questions') /\ ~(posted' < local'[q].asked)
    BY <1>t, <1>w, <1>2, <1>4, <2>1, <2>5
  <2> QED
    BY <2>3, <2>4, <2>6, OwingNames DEF AskInv
<1>12. AskInv(r)'
  <2>1. events[r] = <<>>
    BY <1>1 DEF EventsInv, Silent, PcState, Live, PhaseA
  <2>2. ~Suspended(r)'
    BY <1>w, <1>4, <2>1 DEF Suspended
  <2> QED
    BY <1>4, <1>8, <2>2, OwingNames DEF AskInv
<1>13. \A q \in Run : AskInv(q)'
  BY <1>11, <1>12
<1>14. Suspending(r)'
  BY <1>4 DEF Suspending
<1>15. status' # "none"
  BY <1>w, <1>1 DEF TurnsInv
<1> QED
  BY <1>w, <1>6, <1>7, <1>8, <1>9, <1>10, <1>13, <1>14, <1>15 DEF QuestionsInv

\* A step of a task keeps what was asked and answered in order.
LEMMA StepQuestionsInv ==
    ASSUME TypeOK, TypeOK', EventsInv, GateInv, TurnsInv, QuestionsInv, NEW r \in Run, Step(r)
    PROVE  QuestionsInv'
<1>1. CASE UNCHANGED questions
  <2>1. \A q \in Run : AskInv(q)'
    BY <1>1, StepAskInvOther, StepAskInvOwn
  <2>2. UNCHANGED posted
    BY StepWrites
  <2>3. status' = "none" => status = "none"
    BY StepFrame
  <2> QED
    BY <1>1, <2>1, <2>2, <2>3 DEF QuestionsInv, LastUnanswered
<1>2. CASE MarkAnswered(r)
  BY <1>2, MarkQuestionsInv
<1>3. CASE \/ AskUser(r) /\ Ask(r, "clarification")
           \/ AskConsent(r) /\ Ask(r, "consent")
  BY <1>3, AskQuestionsInv
<1> QED
  BY <1>1, <1>2, <1>3, StepWrites DEF AskUser, AskConsent

\* Answering is for the question that is outstanding; it leaves the others' be.
LEMMA StartQuestionsInv ==
    ASSUME TypeOK, EventsInv, GateInv, TurnsInv, QuestionsInv, Retries = FALSE,
           NEW r \in Run, CreateContract(r) \/ PostAnswers(r)
    PROVE  QuestionsInv'
<1>t. /\ local \in [Run -> Local] /\ questions \in Seq(Question)
      /\ Len(questions) \in Nat /\ posted \in Nat
  BY DEF TypeOK
<1>w. UNCHANGED <<questions, events>> /\ posted' = Len(questions)
  BY StartsAlone DEF store
<1>1. ASSUME NEW q \in Run
      PROVE  AskInv(q)'
  <2>1. ~Suspending(q)' /\ pc'[q] \notin {"marking", "asking"}
    BY StartsAlone DEF Suspending, Owes, Working, Resuming, PhaseA
  <2>2. Suspended(q)' => q # r /\ Suspended(q)
    <3>1. events[r] = <<>>
      BY StartsAlone DEF EventsInv, Silent, PcState, Live
    <3>2. pc'[r] \in {"intent", "reading"}
      BY StartsAlone
    <3> QED
      BY <1>w, <3>1, <3>2, StartsAlone DEF Suspended
  <2>3. Suspended(q)' => local'[q].asked <= Len(questions) /\ ~(posted' < local'[q].asked)
    <3>1. Suspended(q) => local[q].asked <= Len(questions) /\ local[q].asked \in Nat
      BY <1>t, LocalOf DEF QuestionsInv, AskInv
    <3>2. Suspended(q)' => Suspended(q) /\ local'[q] = local[q]
      BY <2>2, StartsAlone
    <3> QED
      BY <1>t, <1>w, <3>1, <3>2
  <2>4. pc'[q] = "reading" => LastUnanswered'
    <3>1. pc'[q] = "reading" => posted < Len(questions)
      BY StartsAlone DEF Owes, Working, Resuming
    <3> QED
      BY <1>w, <3>1 DEF QuestionsInv, LastUnanswered
  <2>5. pc'[q] \in (Resuming \ {"reading", "marking"}) \union PhaseA \union PhaseB
            => AllAnswered'
    <3>1. pc'[q] \in (Resuming \ {"reading", "marking"}) \union PhaseA \union PhaseB
            => status = "none"
      BY StartsAlone DEF Owes, Working, Resuming, PhaseA, PhaseB
    <3> QED
      BY <1>w, <3>1 DEF QuestionsInv, AllAnswered
  <2> QED
    BY <1>w, <2>1, <2>3, <2>4, <2>5 DEF AskInv
<1>2. ~(posted' < Len(questions')) /\ posted' <= Len(questions') /\ Len(questions') <= posted' + 1
  BY <1>t, <1>w
<1>3. status' # "none"
  BY StartsAlone
<1> QED
  BY <1>w, <1>1, <1>2, <1>3 DEF QuestionsInv, LastUnanswered

\* QuestionsInv is an invariant when clients answer each suspension once.
LEMMA AlwaysQuestionsInv ==
    ASSUME Retries = FALSE
    PROVE  Spec => []QuestionsInv
<1>1. Init => QuestionsInv
  <2> SUFFICES ASSUME Init
               PROVE  QuestionsInv
    OBVIOUS
  <2>1. \A r \in Run : AskInv(r)
    <3> SUFFICES ASSUME NEW r \in Run
                 PROVE  AskInv(r)
      OBVIOUS
    <3>1. pc[r] = "idle" /\ local[r].outcome = "none"
      BY DEF Init
    <3> QED
      BY <3>1, OwingNames DEF AskInv, Suspending, Suspended
  <2>2. Len(questions) = 0 /\ DOMAIN questions = {}
    BY DEF Init
  <2> QED
    BY <2>1, <2>2 DEF Init, QuestionsInv
<1>2. TypeOK /\ TypeOK' /\ EventsInv /\ GateInv /\ TurnsInv /\ QuestionsInv /\ [Next]_vars
        => QuestionsInv'
  <2> SUFFICES ASSUME TypeOK, TypeOK', EventsInv, GateInv, TurnsInv, QuestionsInv, [Next]_vars
               PROVE  QuestionsInv'
    OBVIOUS
  <2>1. ASSUME NEW r \in Run, CreateContract(r) \/ PostAnswers(r)
        PROVE  QuestionsInv'
    BY <2>1, StartQuestionsInv
  <2>2. ASSUME NEW r \in Run, Step(r)
        PROVE  QuestionsInv'
    BY <2>2, StepQuestionsInv
  <2>3. CASE SelectFinal \/ SaveDocument \/ RenderExport \/ CreateExport \/ UNCHANGED vars
    <3>1. UNCHANGED <<status, questions, events, pc, local, posted>>
      BY <2>3, EditorFrame DEF vars, store
    <3> QED
      BY <3>1 DEF QuestionsInv, AskInv, LastUnanswered, AllAnswered, Suspending, Suspended
  <2>4. CASE Crash
    <3>1. UNCHANGED <<status, questions, events, local, posted>>
      BY <2>4, CrashFrame
    <3>2. ASSUME NEW q \in Run
          PROVE  AskInv(q)'
      <4>1. pc'[q] \in {"idle", "over", "lost"} /\ (pc'[q] = "over" => pc[q] = "over")
        BY <2>4, CrashFrame
      <4>2. ~Suspending(q)' /\ (Suspended(q)' => Suspended(q))
        BY <3>1, <4>1 DEF Suspending, Suspended
      <4> QED
        BY <3>1, <4>1, <4>2, OwingNames DEF QuestionsInv, AskInv
    <3> QED
      BY <3>1, <3>2 DEF QuestionsInv, LastUnanswered
  <2> QED
    BY <2>1, <2>2, <2>3, <2>4 DEF Next
<1> QED
  BY <1>1, <1>2, AlwaysTurnsInv, AlwaysGateInv, AlwaysEventsInv, TypeCorrect, PTL DEF Spec

\* One contract stops for clarification at most max_ask_rounds times, and once
\* more for consent, however many slices it takes and wherever they crash.
THEOREM AskingIsBounded ==
    ASSUME Retries = FALSE
    PROVE  Spec => []AskRoundsBounded
<1>1. TypeOK /\ QuestionsInv => AskRoundsBounded
  <2> SUFFICES ASSUME TypeOK, QuestionsInv
               PROVE  AskRoundsBounded
    OBVIOUS
  <2> DEFINE Clarifications == {i \in DOMAIN questions : questions[i].kind = "clarification"}
  <2>t. /\ Len(questions) \in Nat /\ DOMAIN questions = 1 .. Len(questions)
        /\ \A i \in DOMAIN questions : questions[i].kind \in {"clarification", "consent"}
        /\ MaxAskRounds \in Nat
    <3>1. questions \in Seq(Question)
      BY DEF TypeOK
    <3>2. \A i \in DOMAIN questions : questions[i].kind \in {"clarification", "consent"}
      <4>1. \A i \in DOMAIN questions : questions[i] \in Question
        BY <3>1
      <4> QED
        BY <4>1 DEF Question
    <3> QED
      BY <3>1, <3>2, BoundsAssumption
  <2>1. Cardinality(Clarifications) <= MaxAskRounds
    <3>1. Clarifications \subseteq 1 .. MaxAskRounds
      BY <2>t DEF QuestionsInv
    <3>2. IsFiniteSet(1 .. MaxAskRounds) /\ Cardinality(1 .. MaxAskRounds) = MaxAskRounds
      BY <2>t, FS_Interval
    <3> QED
      BY <3>1, <3>2, FS_Subset
  <2>2. Len(questions) <= MaxAskRounds + 1
    <3> SUFFICES ASSUME ~(Len(questions) <= MaxAskRounds + 1)
                 PROVE  FALSE
      OBVIOUS
    <3> DEFINE a == MaxAskRounds + 1
               b == MaxAskRounds + 2
    <3>1. a \in DOMAIN questions /\ b \in DOMAIN questions /\ a # b
      BY <2>t
    <3>2. ~(a <= MaxAskRounds) /\ ~(b <= MaxAskRounds)
      BY <2>t
    <3>3. questions[a].kind # "clarification" /\ questions[b].kind # "clarification"
      BY <3>1, <3>2 DEF QuestionsInv
    <3>4. questions[a].kind = "consent" /\ questions[b].kind = "consent"
      BY <2>t, <3>1, <3>3
    <3> QED
      BY <3>1, <3>4 DEF QuestionsInv
  <2> QED
    BY <2>1, <2>2 DEF AskRoundsBounded
<1> QED
  BY <1>1, AlwaysQuestionsInv, TypeCorrect, PTL

\* What a user has answered is never overwritten by a later POST.
THEOREM AnswersAreKept ==
    ASSUME Retries = FALSE
    PROVE  Spec => AnswersKept
<1>1. TypeOK /\ QuestionsInv /\ [Next]_vars =>
        [\A i \in Answered : questions'[i] = questions[i]]_questions
  <2> SUFFICES ASSUME TypeOK, QuestionsInv, [Next]_vars, questions' # questions
               PROVE  \A i \in Answered : questions'[i] = questions[i]
    OBVIOUS
  <2>1. PICK r \in Run : Step(r)
    <3>1. ~(\E r \in Run : CreateContract(r) \/ PostAnswers(r))
      BY DEF CreateContract, PostAnswers, store
    <3> QED
      BY <3>1, EditorFrame, CrashFrame DEF Next, vars, store
  <2>2. CASE MarkAnswered(r)
    <3>1. LastUnanswered /\ local[r].pending = {Len(questions)}
      BY <2>2 DEF MarkAnswered, QuestionsInv, AskInv
    <3>2. Len(questions) \notin Answered
      BY <3>1 DEF Answered, LastUnanswered
    <3> QED
      BY <2>2, <3>1, <3>2, MarkedQuestions DEF Answered
  <2>3. CASE Ask(r, "clarification") \/ Ask(r, "consent")
    BY <2>3, AskedQuestions DEF Answered
  <2> QED
    BY <2>1, <2>2, <2>3, StepWrites DEF AskUser, AskConsent
<1> QED
  BY <1>1, AlwaysQuestionsInv, TypeCorrect, PTL DEF Spec, AnswersKept

(***************************************************************************)
(* What is on the table                                                    *)
(***************************************************************************)

\* The program points TableInv speaks of are those of an active task.
LEMMA TableNames ==
    /\ BeforeVersion = Busy \ {"validating", "settling", "mirroring", "stamping"}
    /\ Sourced \subseteq BeforeVersion
BY BusyNames DEF BeforeVersion, Sourced, Resuming, PhaseA

\* A task that is not active is only bound by what it has left.
LEMMA LeftTable ==
    ASSUME NEW q \in Run, ~Active(q),
           local[q].outcome = "declined" => consent = "declined",
           Mirrored(q) /\ local[q].outcome = "complete" => Finals # {},
           Mirrored(q) /\ local[q].outcome = "blocked" => local[q].newest \in draftMds
    PROVE  TableInv(q)
BY TableNames, BusyNames DEF TableInv, Active

\* A step that reports or moves towards a report leaves its outcome written.
LEMMA StepMirrored ==
    ASSUME TypeOK, EventsInv, TurnsInv, NEW r \in Run, Step(r), Mirrored(r)',
           local'[r].outcome \in {"complete", "blocked"}
    PROVE  MirrorDraft(r) \/ MirrorFinal(r) \/ (Mirrored(r) /\ UNCHANGED local)
<1>t. local \in [Run -> Local] /\ pc \in [Run -> PcState]
  BY DEF TypeOK
<1>1. CASE pc'[r] = "emitting"
  <2>1. Decline(r) \/ SetStatus(r) \/ MirrorDraft(r) \/ MirrorFinal(r)
    BY <1>1, StepTo
  <2>2. ~Decline(r)
    BY <1>t, OutcomeField DEF Decline, Leave
  <2>3. ~SetStatus(r)
    BY <1>t, <1>1 DEF SetStatus, AfterStatus, Goto
  <2> QED
    BY <2>1, <2>2, <2>3
<1>2. CASE events'[r] # <<>>
  <2>1. CASE UNCHANGED events
    <3>1. pc[r] \in {"finishing", "over", "lost"}
      BY <1>t, <1>2, <2>1 DEF EventsInv, Silent
    <3>2. FinishRun(r)
      BY <3>1, StepOwes, StepFrom
    <3> QED
      BY <1>2, <2>1, <3>2 DEF FinishRun, Mirrored
  <2>2. CASE EmitTerminal(r)
    BY <2>2 DEF EmitTerminal, Mirrored
  <2>3. ~EmitError(r)
    BY DEF EmitError, TurnsInv, OutcomeInv
  <2> QED
    BY <2>1, <2>2, <2>3, StepWrites
<1> QED
  BY <1>1, <1>2 DEF Mirrored

\* Only _declined ends in a refusal.
LEMMA StepDeclined ==
    ASSUME TypeOK, TurnsInv, NEW r \in Run, Step(r), local'[r].outcome = "declined"
    PROVE  Decline(r) \/ local[r].outcome = "declined"
<1>t. local \in [Run -> Local]
  BY DEF TypeOK
<1>1. CASE \/ MarkAnswered(r) \/ RecordConsent(r) \/ SetDrafting(r) \/ Understand(r)
           \/ Draft(r) \/ SetStatus(r) \/ MirrorDraft(r) \/ MirrorFinal(r)
           \/ EmitTerminal(r) \/ EmitError(r) \/ FinishRun(r)
  BY <1>1 DEF MarkAnswered, RecordConsent, SetDrafting, Understand, Draft, SetStatus,
     MirrorDraft, MirrorFinal, EmitTerminal, EmitError, FinishRun
<1>2. CASE \/ DetermineIntent(r) \/ Resolve(r) \/ Gather(r) \/ CountAttempts(r)
           \/ ReadNewest(r)
  BY <1>t, <1>2 DEF DetermineIntent, Resolve, Gather, CountAttempts, ReadNewest, Local
<1>3. CASE AskUser(r) \/ AskConsent(r)
  <2>1. \/ local' = [local EXCEPT ![r].outcome = "raised"]
        \/ local' = [local EXCEPT ![r].asked = Len(questions) + 1,
                                  ![r].outcome = "awaiting_input"]
    BY <1>3 DEF AskUser, AskConsent, Ask, Leave
  <2>2. CASE local' = [local EXCEPT ![r].outcome = "raised"]
    BY <1>t, <2>2, OutcomeField
  <2>3. CASE local' = [local EXCEPT ![r].asked = Len(questions) + 1,
                                    ![r].outcome = "awaiting_input"]
    BY <1>t, <2>3, AskedField
  <2> QED
    BY <2>1, <2>2, <2>3
<1>4. CASE Finalize(r)
  <2>1. PICK gate, b : local' = [local EXCEPT ![r].outcome = Verdict(gate), ![r].review = b]
    BY <1>4 DEF Finalize
  <2>2. local'[r].outcome = Verdict(gate)
    BY <1>t, <2>1, VerdictField
  <2> QED
    BY <2>2 DEF Verdict
<1>5. CASE \/ ReadPending(r) \/ AssertComplete(r) \/ InsertVersion(r) \/ Fault(r)
           \/ SpendBudget(r) \/ MirrorRefused(r)
  <2>1. \/ UNCHANGED local
        \/ \E o \in {"raised", "must_ask", "over_budget"} :
              local' = [local EXCEPT ![r].outcome = o]
        \/ local' = [local EXCEPT ![r].pending = Unanswered]
    BY <1>5 DEF ReadPending, AssertComplete, InsertVersion, Fault, SpendBudget,
       MirrorRefused, Leave
  <2>2. ASSUME NEW o \in {"raised", "must_ask", "over_budget"},
               local' = [local EXCEPT ![r].outcome = o]
        PROVE  FALSE
    BY <1>t, <2>2, OutcomeField
  <2> QED
    BY <1>t, <2>1, <2>2 DEF Local
<1> QED
  BY <1>1, <1>2, <1>3, <1>4, <1>5 DEF Step

\* The active task is alone, and what it has not finished is not on the table.
LEMMA WriterAlone ==
    ASSUME TypeOK, GateInv, TurnsInv, DocumentInv, NEW r \in Run, Active(r)
    PROVE  /\ \A q \in Run : q # r => ~Active(q)
           /\ Finals = {} /\ draftMds = {} /\ saving = 0
           /\ status # "none"
           /\ Suspending(r) \/ posted = Len(questions)
           /\ consent = "declined" => pc[r] = "refusing"
           /\ \A q \in Run : /\ Mirrored(q) => local[q].outcome \notin {"complete", "blocked"}
                             /\ local[q].outcome = "declined" => consent = "declined"
<1>1. TableInv(r)
  BY DEF DocumentInv
<1>2. Finals = {} /\ draftMds = {} /\ (consent = "declined" => pc[r] = "refusing")
  BY <1>1 DEF TableInv
<1>3. saving = 0
  BY <1>2 DEF DocumentInv
<1>4. \A q \in Run : TableInv(q)
  BY DEF DocumentInv
<1>5. \A q \in Run : /\ Mirrored(q) => local[q].outcome \notin {"complete", "blocked"}
                     /\ local[q].outcome = "declined" => consent = "declined"
  BY <1>2, <1>4 DEF TableInv
<1> QED
  BY <1>2, <1>3, <1>5 DEF GateInv, OneActive, TurnInv

\* What a task is about to mirror.
LEMMA NewestTextField ==
    ASSUME local \in [Run -> Local], NEW r \in Run, NEW n, NEW t, NEW p,
           local' = [local EXCEPT ![r].newest = n, ![r].text = t, ![r].prior = p]
    PROVE  local'[r].newest = n /\ local'[r].text = t
BY DEF Local

\* A task's step that leaves the versions, the mirrors and the decision alone
\* keeps what is on the table.
LEMMA StepElsewhere ==
    ASSUME TypeOK, TypeOK', EventsInv, GateInv, TurnsInv, DocumentInv, NEW r \in Run, Step(r),
           UNCHANGED <<versions, finalMd, draftMds, consent>>,
           ~MirrorDraft(r), ~MirrorFinal(r), ~RecordConsent(r), ~Finalize(r)
    PROVE  DocumentInv'
<1>t. /\ local \in [Run -> Local] /\ pc \in [Run -> PcState]
      /\ questions \in Seq(Question) /\ versions \in Seq(Version)
  BY DEF TypeOK
<1>w. UNCHANGED <<saving, posted, Finals>>
  BY StepWrites DEF Finals
<1>1. ASSUME posted' < Len(questions')
      PROVE  versions' = <<>>
  <2>1. CASE UNCHANGED questions
    BY <1>1, <1>w, <2>1 DEF DocumentInv
  <2>2. CASE MarkAnswered(r)
    BY <1>1, <1>w, <2>2, MarkedQuestions DEF DocumentInv
  <2>3. CASE AskUser(r) \/ AskConsent(r)
    BY <2>3 DEF AskUser, AskConsent, DocumentInv, TableInv, BeforeVersion, PhaseA
  <2> QED
    BY <2>1, <2>2, <2>3, StepWrites
<1>2. ASSUME consent' = "declined"
      PROVE  versions' = <<>> /\ posted' = Len(questions')
  <2>1. versions = <<>> /\ posted = Len(questions)
    BY <1>2 DEF DocumentInv
  <2>2. ~MarkAnswered(r) /\ ~AskUser(r) /\ ~AskConsent(r)
    BY <1>2, WriterAlone, BusyNames DEF Active, MarkAnswered, AskUser, AskConsent
  <2> QED
    BY <1>w, <2>1, <2>2, StepWrites
<1>3. ASSUME NEW q \in Run, q # r
      PROVE  TableInv(q)'
  <2>1. pc'[q] = pc[q] /\ local'[q] = local[q] /\ events'[q] = events[q]
    BY <1>3, StepFrame, StepOwes
  <2>2. /\ Active(q)' <=> Active(q)
        /\ Mirrored(q)' <=> Mirrored(q)
    BY <2>1 DEF Active, Mirrored
  <2>3. TableInv(q)
    BY DEF DocumentInv
  <2> QED
    BY <1>w, <2>1, <2>2, <2>3 DEF TableInv
<1>4. TableInv(r)'
  <2>t. TableInv(r)
    BY DEF DocumentInv
  <2>1. ASSUME pc'[r] \in BeforeVersion
        PROVE  versions' = <<>>
    <3>1. pc'[r] \in {"marking", "deciding", "refusing", "resuming", "intent", "asking",
                      "resolving", "seeking", "gathering", "understanding", "planning",
                      "drafting", "counting", "inserting"}
      BY <2>1, StepTo DEF BeforeVersion, Resuming, PhaseA
    <3>2. \/ ReadPending(r) \/ MarkAnswered(r) \/ SetDrafting(r) \/ DetermineIntent(r)
          \/ Resolve(r) \/ Gather(r) \/ Understand(r) \/ AssertComplete(r) \/ Draft(r)
          \/ CountAttempts(r)
      BY <3>1, StepTo
    <3>3. pc[r] \in BeforeVersion
      BY <3>2 DEF ReadPending, MarkAnswered, SetDrafting, DetermineIntent, Resolve, Gather,
         Understand, AssertComplete, Draft, CountAttempts, BeforeVersion, Resuming, PhaseA
    <3> QED
      BY <2>t, <3>3 DEF TableInv
  <2>2. ASSUME pc'[r] = "settling"
        PROVE  versions' = <<>>
    <3>1. AskUser(r) \/ AskConsent(r) \/ SpendBudget(r)
      BY <2>2, StepTo
    <3>2. pc[r] \in BeforeVersion
      BY <3>1 DEF AskUser, AskConsent, SpendBudget, BeforeVersion, PhaseA
    <3> QED
      BY <2>t, <3>2 DEF TableInv
  <2>3. pc'[r] # "refusing"
    BY StepTo
  <2>4. ~(consent' = "declined" /\ Active(r)')
    <3> SUFFICES ASSUME consent' = "declined", Active(r)'
                 PROVE  FALSE
      OBVIOUS
    <3>1. pc[r] = "refusing"
      BY StepFrame, WriterAlone
    <3> QED
      BY <1>t, <3>1, StepFrom, BusyNames DEF Decline, Leave, Goto, Active
  <2>5. ASSUME local'[r].outcome = "declined"
        PROVE  consent' = "declined"
    <3>1. CASE Decline(r)
      BY <2>t, <3>1 DEF Decline, TableInv
    <3> QED
      BY <2>5, <2>t, <3>1, StepDeclined DEF TableInv
  <2>6. ASSUME pc'[r] = "stamping"
        PROVE  local'[r].text = versions'[local'[r].newest].text
    <3>1. local' = [local EXCEPT ![r].newest = Len(versions),
                                 ![r].text = versions[Len(versions)].text,
                                 ![r].prior = Finals \ {Len(versions)}]
      BY <2>6, StepTo DEF ReadNewest
    <3> QED
      BY <1>t, <3>1, NewestTextField
  <2>7. ASSUME Mirrored(r)', local'[r].outcome \in {"complete", "blocked"}
        PROVE  Mirrored(r) /\ UNCHANGED local
    BY <2>7, StepMirrored
  <2>8. Active(r)' => Active(r)
    BY StepFrame
  <2> QED
    BY <1>w, <2>t, <2>1, <2>2, <2>3, <2>4, <2>5, <2>6, <2>7, <2>8 DEF TableInv
<1>5. \A q \in Run : TableInv(q)'
  BY <1>3, <1>4
<1>6. status' = "none" => status = "none"
  BY StepFrame
<1> QED
  BY <1>w, <1>1, <1>2, <1>5, <1>6 DEF DocumentInv

\* The decision is recorded before anything is drafted.
LEMMA ConsentDocumentInv ==
    ASSUME TypeOK, GateInv, TurnsInv, DocumentInv, NEW r \in Run, RecordConsent(r)
    PROVE  DocumentInv'
<1>t. local \in [Run -> Local] /\ pc \in [Run -> PcState]
  BY DEF TypeOK
<1>w. UNCHANGED <<status, questions, versions, finalMd, draftMds, events, local, saving,
                  posted, Finals>>
  BY DEF RecordConsent, editor, Finals
<1>1. pc[r] = "deciding" /\ Active(r) /\ ~Suspending(r)
  BY BusyNames DEF RecordConsent, Active, Suspending
<1>2. versions = <<>> /\ posted = Len(questions) /\ status # "none"
  BY <1>1, WriterAlone DEF DocumentInv, TableInv, BeforeVersion, Resuming
<1>3. \A q \in Run : local[q].outcome # "declined"
  BY <1>1, WriterAlone
<1>4. pc' = [pc EXCEPT ![r] = AfterDecision(consent')]
      /\ (pc'[r] = "refusing" <=> consent' = "declined")
      /\ (pc'[r] \in {"refusing", "resuming"})
  <2>1. local[r].body \in {"granted", "declined"}
    BY <1>t, LocalOf DEF RecordConsent, Body
  <2>2. consent' = local[r].body /\ pc' = [pc EXCEPT ![r] = AfterDecision(consent')]
    BY DEF RecordConsent, Goto
  <2> QED
    BY <1>t, <2>1, <2>2 DEF AfterDecision
<1>5. \A q \in Run : Mirrored(q)' => local[q].outcome \notin {"complete", "blocked"}
  <2>1. \A q \in Run : Mirrored(q)' => Mirrored(q)
    BY <1>t, <1>w, <1>4 DEF Mirrored
  <2> QED
    BY <1>1, <2>1, WriterAlone
<1>6. ASSUME NEW q \in Run, q # r
      PROVE  TableInv(q)'
  <2>1. ~Active(q)'
    BY <1>t, <1>1, <1>4, <1>6, WriterAlone DEF Active
  <2> QED
    BY <1>w, <1>3, <1>5, <2>1, TableNames, BusyNames DEF TableInv, Active
<1>7. TableInv(r)'
  BY <1>w, <1>1, <1>2, <1>3, <1>4, <1>5, WriterAlone DEF TableInv
<1>8. \A q \in Run : TableInv(q)'
  BY <1>6, <1>7
<1> QED
  BY <1>w, <1>1, <1>2, <1>8, WriterAlone DEF DocumentInv

\* A number that is at most one and bounds another from above is one, as is the other.
LEMMA OneOnly ==
    ASSUME NEW n \in Nat, NEW m \in 1 .. n, n <= 1
    PROVE  n = 1 /\ m = 1
OBVIOUS

\* The columns the gates and the mirrors write leave the others alone.
LEMMA WrittenVersions ==
    ASSUME TypeOK, TypeOK', NEW r \in Run,
           Finalize(r) \/ MirrorDraft(r) \/ MirrorFinal(r)
    PROVE  /\ DOMAIN versions' = DOMAIN versions /\ Len(versions') = Len(versions)
           /\ \A n \in DOMAIN versions : /\ versions'[n].text = versions[n].text
                                         /\ versions'[n].backed = versions[n].backed
           /\ ~MirrorFinal(r) =>
                \A n \in DOMAIN versions : versions'[n].final <=> versions[n].final
           /\ MirrorFinal(r) /\ local[r].newest \in DOMAIN versions =>
                versions'[local[r].newest].final
<1>t. versions \in Seq(Version) /\ versions' \in Seq(Version)
  BY DEF TypeOK
<1>v. \A n \in DOMAIN versions : versions[n] \in Version
  BY <1>t
<1>1. CASE Finalize(r)
  <2>1. PICK g : versions' = [versions EXCEPT ![local[r].attempt].gate = g]
    BY <1>1 DEF Finalize
  <2>2. ~MirrorFinal(r)
    BY <1>1 DEF Finalize, MirrorFinal
  <2>3. DOMAIN versions' = DOMAIN versions
    BY <2>1
  <2>4. Len(versions') = Len(versions)
    BY <1>t, <2>3
  <2> QED
    BY <1>v, <2>1, <2>2, <2>3, <2>4 DEF Version
<1>2. CASE MirrorDraft(r)
  <2>1. versions' = [versions EXCEPT ![local[r].newest].review = local[r].review]
    BY <1>2 DEF MirrorDraft
  <2>2. ~MirrorFinal(r)
    BY <1>2 DEF MirrorDraft, MirrorFinal
  <2>3. DOMAIN versions' = DOMAIN versions
    BY <2>1
  <2>4. Len(versions') = Len(versions)
    BY <1>t, <2>3
  <2> QED
    BY <1>v, <2>1, <2>2, <2>3, <2>4 DEF Version
<1>3. CASE MirrorFinal(r)
  <2>1. versions' = [n \in DOMAIN versions |->
                       IF n = local[r].newest
                       THEN [versions[n] EXCEPT !.final = TRUE, !.review = local[r].review]
                       ELSE IF n \in local[r].prior
                            THEN [versions[n] EXCEPT !.final = FALSE]
                            ELSE versions[n]]
    BY <1>3 DEF MirrorFinal
  <2>3. DOMAIN versions' = DOMAIN versions
    BY <2>1
  <2>4. Len(versions') = Len(versions)
    BY <1>t, <2>3
  <2> QED
    BY <1>3, <1>v, <2>1, <2>3, <2>4 DEF Version
<1> QED
  BY <1>1, <1>2, <1>3

\* A draft is written, judged and mirrored by the one task that is active.
LEMMA WriteDocumentInv ==
    ASSUME TypeOK, TypeOK', EventsInv, GateInv, TurnsInv, DocumentInv, NEW r \in Run, Step(r),
           (InsertVersion(r) /\ versions' # versions)
              \/ Finalize(r) \/ MirrorDraft(r) \/ MirrorFinal(r)
    PROVE  DocumentInv'
<1>t. /\ local \in [Run -> Local] /\ pc \in [Run -> PcState] /\ local' \in [Run -> Local]
      /\ versions \in Seq(Version) /\ versions' \in Seq(Version)
  BY DEF TypeOK
<1>w. UNCHANGED <<status, questions, consent, events, saving, posted>>
  BY DEF InsertVersion, Finalize, MirrorDraft, MirrorFinal, editor
<1>1. /\ Active(r) /\ pc[r] # "refusing" /\ pc[r] \in {"inserting", "validating", "stamping"}
      /\ ~Suspending(r)
  BY BusyNames DEF InsertVersion, Finalize, MirrorDraft, MirrorFinal, Active, Suspending
<1>2. /\ \A q \in Run : q # r => ~Active(q)
      /\ Finals = {} /\ draftMds = {} /\ saving = 0
      /\ status # "none" /\ posted = Len(questions) /\ consent # "declined"
      /\ \A q \in Run : /\ Mirrored(q) => local[q].outcome \notin {"complete", "blocked"}
                        /\ local[q].outcome # "declined"
  BY <1>1, WriterAlone
<1>3. TableInv(r) /\ DraftInv(r)
  BY DEF DocumentInv, GateInv
<1>4. ~(posted < Len(questions))
  BY <1>2 DEF TypeOK
<1>5. ASSUME NEW q \in Run, q # r
      PROVE  TableInv(q)'
  <2>1. pc'[q] = pc[q] /\ local'[q] = local[q]
    BY <1>5, StepFrame
  <2>2. ~Active(q)' /\ (Mirrored(q)' => Mirrored(q))
    BY <1>2, <1>5, <1>w, <2>1 DEF Active, Mirrored
  <2> QED
    BY <1>2, <1>5, <2>1, <2>2, TableNames, BusyNames DEF TableInv, Active
<1>6. CASE InsertVersion(r) /\ versions' # versions
  <2>1. versions = <<>>
    BY <1>3, <1>6 DEF InsertVersion, TableInv, BeforeVersion
  <2>2. /\ versions' = Append(versions, DraftedVersion(local[r].backed))
        /\ pc'[r] = "validating" /\ UNCHANGED <<local, finalMd, draftMds>>
    BY <1>t, <1>6 DEF InsertVersion, Goto
  <2>3. /\ Len(versions') = 1
        /\ \A n \in DOMAIN versions' : versions'[n] = DraftedVersion(local[r].backed)
    <3>1. DraftedVersion(local[r].backed) \in Version
      BY <1>t, LocalOf DEF DraftedVersion, Version, Gate, Text
    <3> QED
      BY <2>1, <2>2, <3>1
  <2>4. Finals' = {}
    BY <2>3 DEF Finals, DraftedVersion
  <2>5. TableInv(r)'
    <3>1. ~Mirrored(r)' \/ local[r].outcome \notin {"complete", "blocked"}
      BY <1>2, <1>w, <2>2 DEF Mirrored
    <3> QED
      BY <1>2, <1>w, <2>2, <2>4, <3>1 DEF TableInv, BeforeVersion, Resuming, PhaseA
  <2>6. \A q \in Run : TableInv(q)'
    BY <1>5, <2>5
  <2> QED
    BY <1>2, <1>4, <1>w, <2>2, <2>3, <2>4, <2>6 DEF DocumentInv
<1>7. CASE Finalize(r)
  <2>1. UNCHANGED <<finalMd, draftMds>> /\ pc'[r] = "settling"
    BY <1>t, <1>7 DEF Finalize, Goto
  <2>2. local'[r].outcome \in {"complete", "blocked"}
    <3>1. PICK gate, b : local' = [local EXCEPT ![r].outcome = Verdict(gate), ![r].review = b]
      BY <1>7 DEF Finalize
    <3>2. local'[r].outcome = Verdict(gate)
      BY <1>t, <3>1, VerdictField
    <3> QED
      BY <3>2 DEF Verdict
  <2>3. Finals' = {}
    BY <1>2, <1>7, WrittenVersions DEF Finals, Finalize, MirrorFinal
  <2>4. ~Mirrored(r)'
    <3>1. events[r] = <<>>
      BY <1>1 DEF EventsInv, Silent, PcState, Live, PhaseB, Applying
    <3> QED
      BY <1>w, <2>1, <3>1 DEF Mirrored
  <2>5. TableInv(r)'
    BY <1>2, <1>w, <2>1, <2>2, <2>3, <2>4 DEF TableInv, BeforeVersion, Resuming, PhaseA
  <2>6. \A q \in Run : TableInv(q)'
    BY <1>5, <2>5
  <2>7. Len(versions') <= 1
    BY <1>7, WrittenVersions DEF DocumentInv
  <2> QED
    BY <1>2, <1>4, <1>w, <2>1, <2>3, <2>6, <2>7 DEF DocumentInv
<1>8. CASE MirrorDraft(r) \/ MirrorFinal(r)
  <2>1. /\ pc'[r] = "emitting" /\ UNCHANGED local /\ local[r].outcome \in {"complete", "blocked"}
        /\ pc[r] = "stamping"
    BY <1>t, <1>8 DEF MirrorDraft, MirrorFinal, Goto
  <2>2. local[r].newest = Len(versions) /\ Len(versions) \in DOMAIN versions
    BY <1>3, <2>1 DEF DraftInv
  <2>3. Len(versions) = 1 /\ versions # <<>>
    <3>1. Len(versions) \in Nat /\ Len(versions) \in 1 .. Len(versions)
      BY <1>t, <2>2
    <3>2. Len(versions) <= 1
      BY DEF DocumentInv
    <3>3. Len(versions) = 1
      BY <3>1, <3>2, OneOnly
    <3> QED
      BY <3>3
  <2>4. Len(versions') = 1 /\ versions' # <<>> /\ DOMAIN versions' = {1} /\ DOMAIN versions = {1}
    BY <1>8, <1>t, <2>3, WrittenVersions
  <2>5. ~Active(r)'
    BY <2>1, BusyNames DEF Active
  <2>6. CASE MirrorDraft(r)
    <3>1. Finals' = {}
      BY <1>2, <2>6, WrittenVersions DEF Finals, MirrorDraft, MirrorFinal
    <3>2. draftMds' = {1} /\ UNCHANGED finalMd /\ local[r].outcome = "blocked"
      BY <1>2, <2>2, <2>3, <2>6 DEF MirrorDraft
    <3>3. TableInv(r)'
      BY <1>2, <1>w, <2>1, <2>2, <2>3, <2>5, <3>2 DEF TableInv, BeforeVersion, Resuming, PhaseA
    <3>4. \A q \in Run : TableInv(q)'
      BY <1>5, <3>3
    <3> QED
      BY <1>2, <1>4, <1>w, <2>4, <3>1, <3>2, <3>4 DEF DocumentInv
  <2>7. CASE MirrorFinal(r)
    <3>1. Finals' = {1}
      BY <2>2, <2>3, <2>4, <2>7, WrittenVersions DEF Finals
    <3>2. versions'[1].text = versions[1].text
      BY <2>4, <2>7, WrittenVersions
    <3>3. finalMd' = [attempt |-> 1, text |-> versions'[1].text]
          /\ UNCHANGED draftMds /\ local[r].outcome = "complete"
      BY <1>3, <2>1, <2>2, <2>3, <2>7, <3>2 DEF MirrorFinal, TableInv
    <3>4. TableInv(r)'
      BY <1>2, <1>w, <2>1, <2>5, <3>1, <3>3 DEF TableInv, BeforeVersion, Resuming, PhaseA
    <3>5. \A q \in Run : TableInv(q)'
      BY <1>5, <3>4
    <3> QED
      BY <1>2, <1>4, <1>w, <2>4, <3>1, <3>3, <3>5 DEF DocumentInv
  <2> QED
    BY <1>8, <2>6, <2>7
<1> QED
  BY <1>6, <1>7, <1>8

\* A step of a task keeps what is on the table.
LEMMA StepDocumentInv ==
    ASSUME TypeOK, TypeOK', EventsInv, GateInv, TurnsInv, DocumentInv, NEW r \in Run, Step(r)
    PROVE  DocumentInv'
<1>1. CASE RecordConsent(r)
  BY <1>1, ConsentDocumentInv
<1>2. CASE \/ InsertVersion(r) /\ versions' # versions
           \/ Finalize(r) \/ MirrorDraft(r) \/ MirrorFinal(r)
  BY <1>2, WriteDocumentInv
<1>3. CASE /\ ~RecordConsent(r) /\ ~Finalize(r) /\ ~MirrorDraft(r) /\ ~MirrorFinal(r)
           /\ ~(InsertVersion(r) /\ versions' # versions)
  <2>1. UNCHANGED <<consent, draftMds>>
    BY <1>3, StepWrites
  <2>2. UNCHANGED <<versions, finalMd>>
    BY <1>3, StepFrame DEF InsertVersion
  <2> QED
    BY <1>3, <2>1, <2>2, StepElsewhere
<1> QED
  BY <1>1, <1>2, <1>3

\* The answers a task is given leave its other locals alone.
LEMMA BodyField ==
    ASSUME local \in [Run -> Local], NEW r \in Run, NEW b,
           local' = [local EXCEPT ![r].body = b], NEW q \in Run
    PROVE  local'[q].outcome = local[q].outcome
BY DEF Local

\* A task that starts has nothing on the table.
LEMMA StartDocumentInv ==
    ASSUME TypeOK, EventsInv, GateInv, TurnsInv, QuestionsInv, DocumentInv, Retries = FALSE,
           NEW r \in Run, CreateContract(r) \/ PostAnswers(r)
    PROVE  DocumentInv'
<1>t. local \in [Run -> Local] /\ Len(questions) \in Nat /\ posted \in Nat
  BY DEF TypeOK
<1>w. UNCHANGED <<questions, consent, versions, finalMd, draftMds, events, saving, Finals>>
      /\ posted' = Len(questions)
  BY StartsAlone DEF store, Finals
<1>1. versions = <<>> /\ consent # "declined" /\ draftMds = {} /\ Finals = {}
  <2>1. status = "none" \/ posted < Len(questions)
    BY StartsAlone
  <2>2. versions = <<>> /\ consent # "declined"
    BY <1>t, <2>1 DEF DocumentInv
  <2> QED
    BY <2>2 DEF DocumentInv, Finals
<1>2. \A q \in Run : /\ local'[q].outcome = local[q].outcome
                     /\ Mirrored(q)' => Mirrored(q)
  <2> SUFFICES ASSUME NEW q \in Run
               PROVE  /\ local'[q].outcome = local[q].outcome
                      /\ Mirrored(q)' => Mirrored(q)
    OBVIOUS
  <2>1. UNCHANGED local \/ \E body \in Body : local' = [local EXCEPT ![r].body = body]
    BY StartsAlone
  <2>2. local'[q].outcome = local[q].outcome
    BY <1>t, <2>1, BodyField
  <2>3. pc'[q] = "emitting" => pc[q] = "emitting"
    BY StartsAlone
  <2> QED
    BY <1>w, <2>2, <2>3 DEF Mirrored
<1>3. ASSUME NEW q \in Run
      PROVE  TableInv(q)'
  <2>1. TableInv(q)
    BY DEF DocumentInv
  <2>2. pc'[q] \notin {"refusing", "stamping"}
    BY StartsAlone, OwingNames DEF Owes, Working, TurnsInv, OutcomeInv
  <2>3. local[q].outcome # "declined"
    BY <1>1, <2>1 DEF TableInv
  <2>4. Mirrored(q) => local[q].outcome \notin {"complete", "blocked"}
    BY <1>1, <2>1 DEF TableInv
  <2> QED
    BY <1>w, <1>1, <1>2, <2>2, <2>3, <2>4 DEF TableInv
<1>4. ~(posted' < Len(questions')) 
  BY <1>t, <1>w
<1>5. status' # "none"
  BY StartsAlone
<1> QED
  BY <1>w, <1>1, <1>3, <1>4, <1>5 DEF DocumentInv

\* An edit is of the one version that is final.
LEMMA SaveDocumentInv ==
    ASSUME TypeOK, TypeOK', DocumentInv, SaveDocument
    PROVE  DocumentInv'
<1>t. versions \in Seq(Version) /\ versions' \in Seq(Version)
  BY DEF TypeOK
<1>w. UNCHANGED <<status, questions, consent, draftMds, events, pc, local, posted>>
  BY EditorFrame
<1>1. saving \in Finals
  BY DEF SaveDocument, DocumentInv
<1>2. saving = 1 /\ DOMAIN versions = {1} /\ Len(versions) = 1
  <2>1. saving \in 1 .. Len(versions) /\ Len(versions) \in Nat
    BY <1>t, <1>1 DEF Finals
  <2>2. Len(versions) <= 1
    BY DEF DocumentInv
  <2>3. saving = 1 /\ Len(versions) = 1
    BY <2>1, <2>2, OneOnly
  <2> QED
    BY <1>t, <2>3
<1>3. versions' = [versions EXCEPT ![1].text = "edited", ![1].docx = FALSE]
      /\ finalMd' = [attempt |-> 1, text |-> "edited"] /\ saving' = 0
  BY <1>2 DEF SaveDocument
<1>4. /\ Len(versions') = 1 /\ DOMAIN versions' = {1}
      /\ versions'[1].text = "edited" /\ versions'[1].final
  <2>1. versions[1] \in Version
    BY <1>t, <1>2
  <2>2. DOMAIN versions' = DOMAIN versions
    BY <1>3
  <2>3. Len(versions') = 1
    BY <1>t, <1>2, <2>2
  <2>4. versions'[1].text = "edited" /\ versions'[1].final = versions[1].final
    BY <1>2, <1>3, <2>1 DEF Version
  <2> QED
    BY <1>1, <1>2, <2>2, <2>3, <2>4 DEF Finals
<1>5. Finals' = {1} /\ Finals = {1}
  BY <1>1, <1>2, <1>4 DEF Finals
<1>6. ASSUME NEW q \in Run
      PROVE  TableInv(q)'
  <2>1. TableInv(q)
    BY DEF DocumentInv
  <2>2. ~Active(q)'
    BY <1>w, <1>5, <2>1 DEF TableInv, Active
  <2> QED
    BY <1>w, <1>5, <2>1, <2>2, TableNames, BusyNames DEF TableInv, Active, Mirrored
<1>7. versions # <<>> /\ versions' # <<>>
  BY <1>2, <1>4
<1> QED
  BY <1>w, <1>3, <1>4, <1>5, <1>6, <1>7 DEF DocumentInv

\* DocumentInv is an invariant when clients answer each suspension once.
LEMMA AlwaysDocumentInv ==
    ASSUME Retries = FALSE
    PROVE  Spec => []DocumentInv
<1>1. Init => DocumentInv
  <2> SUFFICES ASSUME Init
               PROVE  DocumentInv
    OBVIOUS
  <2>1. Finals = {} /\ Len(versions) = 0
    BY DEF Init, Finals
  <2>2. ASSUME NEW r \in Run
        PROVE  TableInv(r)
    <3>1. pc[r] = "idle" /\ local[r].outcome = "none" /\ consent = "none" /\ draftMds = {}
      BY <2>2 DEF Init
    <3> QED
      BY <2>1, <3>1, TableNames, BusyNames DEF TableInv, Active
  <2> QED
    BY <2>1, <2>2 DEF Init, DocumentInv
<1>2. TypeOK /\ TypeOK' /\ EventsInv /\ GateInv /\ TurnsInv /\ QuestionsInv /\ DocumentInv
        /\ [Next]_vars => DocumentInv'
  <2> SUFFICES ASSUME TypeOK, TypeOK', EventsInv, GateInv, TurnsInv, QuestionsInv,
                      DocumentInv, [Next]_vars
               PROVE  DocumentInv'
    OBVIOUS
  <2>1. ASSUME NEW r \in Run, CreateContract(r) \/ PostAnswers(r)
        PROVE  DocumentInv'
    BY <2>1, StartDocumentInv
  <2>2. ASSUME NEW r \in Run, Step(r)
        PROVE  DocumentInv'
    BY <2>2, StepDocumentInv
  <2>3. CASE SaveDocument
    BY <2>3, SaveDocumentInv
  <2>4. CASE SelectFinal \/ RenderExport \/ CreateExport \/ UNCHANGED vars
    <3>1. /\ UNCHANGED <<status, questions, consent, versions, finalMd, draftMds, events,
                         pc, local, posted>>
          /\ saving' = saving \/ saving' \in Finals
      BY <2>4 DEF SelectFinal, RenderExport, CreateExport, vars, store, editor
    <3>2. Finals' = Finals
      BY <3>1 DEF Finals
    <3>3. \A q \in Run : TableInv(q)'
      BY <3>1, <3>2 DEF DocumentInv, TableInv, Mirrored, Active
    <3> QED
      BY <3>1, <3>2, <3>3 DEF DocumentInv
  <2>5. CASE Crash
    <3>1. UNCHANGED <<status, questions, consent, versions, finalMd, draftMds, events, local,
                      posted, Finals>> /\ saving' = 0
      BY <2>5, CrashFrame DEF Finals
    <3>2. ASSUME NEW q \in Run
          PROVE  TableInv(q)'
      <4>1. pc'[q] \in {"idle", "over", "lost"} /\ ~Active(q)'
        BY <2>5, CrashFrame
      <4>2. Mirrored(q)' => Mirrored(q)
        BY <3>1, <4>1 DEF Mirrored
      <4> QED
        BY <3>1, <4>1, <4>2, TableNames, BusyNames DEF DocumentInv, TableInv, Active
    <3> QED
      BY <3>1, <3>2 DEF DocumentInv
  <2> QED
    BY <2>1, <2>2, <2>3, <2>4, <2>5 DEF Next
<1> QED
  BY <1>1, <1>2, AlwaysQuestionsInv, AlwaysTurnsInv, AlwaysGateInv, AlwaysEventsInv,
     TypeCorrect, PTL DEF Spec

(***************************************************************************)
(* What a draft rests on                                                   *)
(***************************************************************************)

\* An edit leaves what a draft rests on alone.
LEMMA EditedBacked ==
    ASSUME versions \in Seq(Version), NEW n,
           versions' = [versions EXCEPT ![n].text = "edited", ![n].docx = FALSE]
    PROVE  \A m \in DOMAIN versions' : m \in DOMAIN versions
                                       /\ versions'[m].backed = versions[m].backed
<1>1. \A m \in DOMAIN versions : versions[m] \in Version
  OBVIOUS
<1> QED
  BY <1>1 DEF Version

\* A plan that is settled has a source or the user's agreement.
LEMMA StepSourced ==
    ASSUME TypeOK, GateInv, TurnsInv, DocumentInv, SourceInv, Lossy = FALSE,
           NEW r \in Run, Step(r), pc'[r] \in Sourced
    PROVE  local'[r].backed \/ consent' = "granted"
<1>t. local \in [Run -> Local] /\ pc \in [Run -> PcState]
      /\ consent \in {"none", "granted", "declined"}
  BY DEF TypeOK
<1>1. \/ Resolve(r) \/ Gather(r) \/ Understand(r) \/ AssertComplete(r) \/ Draft(r)
      \/ CountAttempts(r)
  BY StepTo DEF Sourced
<1>2. UNCHANGED consent
  BY <1>1 DEF Resolve, Gather, Understand, AssertComplete, Draft, CountAttempts, store
<1>3. CASE Resolve(r)
  <2>1. PICK backed \in BOOLEAN :
            /\ local' = [local EXCEPT ![r].backed = backed]
            /\ Goto(r, IF backed \/ consent # "none" THEN "gathering" ELSE "seeking")
    BY <1>3 DEF Resolve
  <2>2. local'[r].backed = backed
    BY <1>t, <2>1 DEF Local
  <2>3. backed \/ consent # "none"
    BY <1>t, <2>1 DEF Goto, Sourced
  <2>4. consent # "declined"
    BY <1>3, WriterAlone, BusyNames DEF Resolve, Active
  <2> QED
    BY <1>t, <1>2, <2>2, <2>3, <2>4
<1>4. CASE ~Resolve(r)
  <2>1. pc[r] \in Sourced
    BY <1>1, <1>4 DEF Gather, Understand, AssertComplete, Draft, CountAttempts, Sourced
  <2>2. UNCHANGED local \/ local' = [local EXCEPT ![r].attempt = Len(versions) + 1]
    BY <1>1, <1>4, <1>t DEF Gather, Understand, AssertComplete, Draft, CountAttempts, Leave,
       Goto, Sourced
  <2>3. local'[r].backed = local[r].backed
    BY <1>t, <2>2 DEF Local
  <2> QED
    BY <1>2, <2>1, <2>3 DEF SourceInv
<1> QED
  BY <1>3, <1>4

\* A step of a task drafts nothing without a source or the user's agreement.
LEMMA StepSourceInv ==
    ASSUME TypeOK, TypeOK', EventsInv, GateInv, TurnsInv, DocumentInv, SourceInv,
           Lossy = FALSE, NEW r \in Run, Step(r)
    PROVE  SourceInv'
<1>t. local \in [Run -> Local] /\ pc \in [Run -> PcState] /\ versions \in Seq(Version)
  BY DEF TypeOK
<1>1. ASSUME NEW q \in Run, pc'[q] \in Sourced
      PROVE  local'[q].backed \/ consent' = "granted"
  <2>1. CASE q = r
    BY <1>1, <2>1, StepSourced
  <2>2. CASE q # r
    <3>1. pc'[q] = pc[q] /\ local'[q] = local[q]
      BY <2>2, StepFrame
    <3>2. local[q].backed \/ consent = "granted"
      BY <1>1, <3>1 DEF SourceInv
    <3>3. Active(q)
      BY <1>1, <3>1, TableNames DEF Active
    <3>4. ~RecordConsent(r)
      BY <2>2, <3>3, BusyNames DEF RecordConsent, Active, GateInv, OneActive
    <3> QED
      BY <3>1, <3>2, <3>4, StepWrites
  <2> QED
    BY <2>1, <2>2
<1>2. UnbackedHasConsent'
  <2>1. CASE RecordConsent(r)
    <3>1. versions = <<>>
      BY <2>1 DEF RecordConsent, DocumentInv, TableInv, BeforeVersion, Resuming
    <3>2. UNCHANGED versions
      BY <2>1 DEF RecordConsent
    <3> QED
      BY <3>1, <3>2 DEF UnbackedHasConsent
  <2>2. CASE InsertVersion(r) /\ versions' # versions
    <3>1. versions = <<>> /\ (local[r].backed \/ consent = "granted") /\ UNCHANGED consent
      BY <2>2 DEF InsertVersion, DocumentInv, TableInv, BeforeVersion, SourceInv, Sourced
    <3>2. versions' = Append(versions, DraftedVersion(local[r].backed))
      BY <2>2 DEF InsertVersion
    <3>3. DraftedVersion(local[r].backed) \in Version
      BY <1>t, LocalOf DEF DraftedVersion, Version, Gate, Text
    <3>4. \A n \in DOMAIN versions' : versions'[n] = DraftedVersion(local[r].backed)
      BY <3>1, <3>2, <3>3
    <3> QED
      BY <3>1, <3>4 DEF UnbackedHasConsent, DraftedVersion
  <2>3. CASE Finalize(r) \/ MirrorDraft(r) \/ MirrorFinal(r)
    <3>1. UNCHANGED consent
      BY <2>3 DEF Finalize, MirrorDraft, MirrorFinal
    <3> QED
      BY <2>3, <3>1, WrittenVersions DEF SourceInv, UnbackedHasConsent
  <2>4. CASE UNCHANGED <<versions, consent>>
    BY <2>4 DEF SourceInv, UnbackedHasConsent
  <2> QED
    BY <2>1, <2>2, <2>3, <2>4, StepWrites, StepFrame DEF InsertVersion
<1> QED
  BY <1>1, <1>2 DEF SourceInv

\* No draft rests on the model's knowledge alone unless the user agreed, if no
\* source is lost between the plan and the gathering.
THEOREM NothingUnsourced ==
    ASSUME Retries = FALSE, Lossy = FALSE
    PROVE  Spec => []UnbackedHasConsent
<1>1. Init => SourceInv
  BY DEF Init, SourceInv, UnbackedHasConsent, Sourced
<1>2. TypeOK /\ TypeOK' /\ EventsInv /\ GateInv /\ TurnsInv /\ DocumentInv /\ SourceInv
        /\ [Next]_vars => SourceInv'
  <2> SUFFICES ASSUME TypeOK, TypeOK', EventsInv, GateInv, TurnsInv, DocumentInv, SourceInv,
                      [Next]_vars
               PROVE  SourceInv'
    OBVIOUS
  <2>1. ASSUME NEW r \in Run, CreateContract(r) \/ PostAnswers(r)
        PROVE  SourceInv'
    <3>1. UNCHANGED <<versions, consent>>
      BY <2>1, StartsAlone DEF store
    <3>2. \A q \in Run : pc'[q] \notin Sourced
      BY <2>1, StartsAlone, OwingNames DEF Owes, Working, Sourced
    <3> QED
      BY <3>1, <3>2 DEF SourceInv, UnbackedHasConsent
  <2>2. ASSUME NEW r \in Run, Step(r)
        PROVE  SourceInv'
    BY <2>2, StepSourceInv
  <2>3. CASE SaveDocument
    <3>1. UNCHANGED <<consent, pc, local>>
      BY <2>3, EditorFrame
    <3>2. \A n \in DOMAIN versions' : n \in DOMAIN versions
                                      /\ versions'[n].backed = versions[n].backed
      BY <2>3, EditedBacked DEF SaveDocument, TypeOK
    <3> QED
      BY <3>1, <3>2 DEF SourceInv, UnbackedHasConsent
  <2>4. CASE SelectFinal \/ RenderExport \/ CreateExport \/ UNCHANGED vars
    <3>1. UNCHANGED <<consent, pc, local, versions>>
      BY <2>4 DEF SelectFinal, RenderExport, CreateExport, vars, store
    <3> QED
      BY <3>1 DEF SourceInv, UnbackedHasConsent
  <2>5. CASE Crash
    BY <2>5, CrashFrame DEF SourceInv, UnbackedHasConsent, Sourced
  <2> QED
    BY <2>1, <2>2, <2>3, <2>4, <2>5 DEF Next
<1>3. SourceInv => UnbackedHasConsent
  BY DEF SourceInv
<1> QED
  BY <1>1, <1>2, <1>3, AlwaysDocumentInv, AlwaysTurnsInv, AlwaysGateInv, AlwaysEventsInv,
     TypeCorrect, PTL DEF Spec

(***************************************************************************)
(* What was told                                                           *)
(***************************************************************************)

\* The one version there is cannot be refused, and the outstanding question of
\* a task that resumes is there: no task ends without an event.
LEMMA NeverSilent ==
    ASSUME TypeOK, GateInv, TurnsInv, QuestionsInv, DocumentInv, NEW r \in Run
    PROVE  ~MirrorRefused(r) /\ ~(ReadPending(r) /\ Unanswered = {})
<1>1. ASSUME MirrorRefused(r)
      PROVE  FALSE
  <2>1. local[r].newest = Len(versions) /\ Len(versions) \in DOMAIN versions
    BY <1>1 DEF MirrorRefused, GateInv, DraftInv
  <2>2. Active(r)
    BY <1>1, BusyNames DEF MirrorRefused, Active
  <2>3. Finals = {}
    BY <2>2, WriterAlone
  <2> QED
    BY <1>1, <2>3 DEF MirrorRefused
<1>2. ASSUME ReadPending(r), Unanswered = {}
      PROVE  FALSE
  <2>1. LastUnanswered
    BY <1>2 DEF ReadPending, QuestionsInv, AskInv
  <2> QED
    BY <1>2, <2>1, OutstandingOnes
<1> QED
  BY <1>1, <1>2

\* What a task tells is what its outcome says.
LEMMA StepReportInv ==
    ASSUME TypeOK, EventsInv, GateInv, TurnsInv, QuestionsInv, DocumentInv, ReportInv,
           NEW r \in Run, Step(r)
    PROVE  ReportInv'
<1>t. /\ local \in [Run -> Local] /\ pc \in [Run -> PcState]
      /\ events \in [Run -> Seq(TerminalEvent)]
      /\ runStatus \in [Run -> {"none", "running", "suspended", "complete", "failed"}]
  BY DEF TypeOK
<1>1. ASSUME NEW q \in Run, q # r
      PROVE  ToldInv(q)'
  BY <1>1, StepFrame, StepOwes DEF ReportInv, ToldInv
<1>2. CASE EmitTerminal(r) \/ EmitError(r)
  <2>1. pc[r] \in {"emitting", "raising"} /\ pc'[r] = "finishing"
        /\ UNCHANGED <<local, runStatus>>
    BY <1>t, <1>2 DEF EmitTerminal, EmitError, Goto
  <2>2. events[r] = <<>>
    BY <2>1 DEF EventsInv, Silent, PcState, Live, Applying
  <2>3. events'[r] = <<EventOf(local[r].outcome)>>
    <3>1. CASE EmitTerminal(r)
      BY <1>t, <2>2, <3>1 DEF EmitTerminal
    <3>2. CASE EmitError(r)
      <4>1. EventOf(local[r].outcome) = "error"
        BY <3>2 DEF EmitError, TurnsInv, OutcomeInv, EventOf
      <4> QED
        BY <1>t, <2>2, <3>2, <4>1 DEF EmitError
    <3> QED
      BY <1>2, <3>1, <3>2
  <2>4. events'[r] # <<>>
    <3>1. Len(<<EventOf(local[r].outcome)>>) = 1 /\ Len(<<>>) = 0
      OBVIOUS
    <3> QED
      BY <2>3, <3>1
  <2>5. runStatus[r] \in {"none", "running"}
    BY <2>1 DEF ReportInv, ToldInv
  <2> QED
    BY <1>1, <2>1, <2>3, <2>4, <2>5 DEF ReportInv, ToldInv
<1>3. CASE FinishRun(r)
  <2>1. pc[r] = "finishing" /\ pc'[r] = "over" /\ UNCHANGED <<local, events>>
        /\ runStatus'[r] = RunStatusOf(local[r].outcome)
    BY <1>t, <1>3 DEF FinishRun, Goto
  <2> QED
    BY <1>1, <2>1 DEF ReportInv, ToldInv
<1>4. CASE ~EmitTerminal(r) /\ ~EmitError(r) /\ ~FinishRun(r)
  <2>1. UNCHANGED <<events, runStatus>>
    BY <1>4, StepWrites
  <2>2. pc'[r] \notin {"finishing", "over"}
    BY <1>4, StepTo, NeverSilent
  <2>3. pc[r] \notin {"finishing", "over", "lost"}
    BY <1>4, StepFrom, StepOwes
  <2>4. events[r] = <<>>
    BY <1>t, <2>3 DEF EventsInv, Silent
  <2> QED
    BY <1>1, <2>1, <2>2, <2>3, <2>4 DEF ReportInv, ToldInv
<1> QED
  BY <1>2, <1>3, <1>4

\* ReportInv is an invariant when clients answer each suspension once.
LEMMA AlwaysReportInv ==
    ASSUME Retries = FALSE
    PROVE  Spec => []ReportInv
<1>1. Init => ReportInv
  BY DEF Init, ReportInv, ToldInv
<1>2. TypeOK /\ EventsInv /\ GateInv /\ TurnsInv /\ QuestionsInv /\ DocumentInv /\ ReportInv
        /\ [Next]_vars => ReportInv'
  <2> SUFFICES ASSUME TypeOK, EventsInv, GateInv, TurnsInv, QuestionsInv, DocumentInv,
                      ReportInv, [Next]_vars
               PROVE  ReportInv'
    OBVIOUS
  <2>1. ASSUME NEW r \in Run, CreateContract(r) \/ PostAnswers(r)
        PROVE  ReportInv'
    <3>1. UNCHANGED events /\ events[r] = <<>>
      BY <2>1, StartsAlone DEF EventsInv, Silent, PcState, Live
    <3>2. ASSUME NEW q \in Run
          PROVE  ToldInv(q)'
      <4>1. CASE q = r
        BY <2>1, <3>1, <4>1, StartsAlone DEF ToldInv
      <4>2. CASE q # r
        BY <2>1, <3>1, <4>2, StartsAlone DEF ReportInv, ToldInv
      <4> QED
        BY <4>1, <4>2
    <3> QED
      BY <3>2 DEF ReportInv
  <2>2. ASSUME NEW r \in Run, Step(r)
        PROVE  ReportInv'
    BY <2>2, StepReportInv
  <2>3. CASE SelectFinal \/ SaveDocument \/ RenderExport \/ CreateExport \/ UNCHANGED vars
    <3>1. UNCHANGED <<runStatus, events, pc, local>>
      BY <2>3, EditorFrame DEF vars
    <3> QED
      BY <3>1 DEF ReportInv, ToldInv
  <2>4. CASE Crash
    <3>1. UNCHANGED <<runStatus, events, local>>
          /\ \A q \in Run : pc'[q] = (IF pc[q] \in Live THEN "lost" ELSE pc[q])
                            /\ pc'[q] \in {"idle", "over", "lost"}
      BY <2>4, CrashFrame
    <3>2. "over" \notin Live
      BY OwingNames DEF Live
    <3> QED
      BY <3>1, <3>2 DEF ReportInv, ToldInv
  <2> QED
    BY <2>1, <2>2, <2>3, <2>4 DEF Next
<1> QED
  BY <1>1, <1>2, AlwaysDocumentInv, AlwaysQuestionsInv, AlwaysTurnsInv, AlwaysGateInv,
     AlwaysEventsInv, TypeCorrect, PTL DEF Spec

\* The events of one publication differ when what was published does.
LEMMA OneEvent == \A x, y : <<x>> = <<y>> => x = y
<1>1. \A x : <<x>>[1] = x
  OBVIOUS
<1> QED
  BY <1>1

\* A finished run has told its client how it ended, once and truthfully:
\* whatever failed, a task never ends in silence and never reports one thing
\* and records another.
THEOREM ReportsAreTrue ==
    ASSUME Retries = FALSE
    PROVE  Spec => []RunMatchesEvents
<1>1. TypeOK /\ ReportInv => RunMatchesEvents
  <2> SUFFICES ASSUME TypeOK, ReportInv, NEW r \in Run
               PROVE  /\ runStatus[r] = "complete" => events[r] = <<"complete">>
                      /\ runStatus[r] = "suspended" => events[r] = <<"input_required">>
                      /\ runStatus[r] = "failed" => events[r] = <<"error">>
    BY DEF RunMatchesEvents
  <2>1. ToldInv(r)
    BY DEF ReportInv
  <2>2. ASSUME runStatus[r] \in {"complete", "suspended", "failed"}
        PROVE  /\ events[r] = <<EventOf(local[r].outcome)>>
               /\ runStatus[r] = RunStatusOf(local[r].outcome)
    BY <2>1, <2>2 DEF ToldInv
  <2> QED
    BY <2>2 DEF EventOf, RunStatusOf
<1> QED
  BY <1>1, AlwaysReportInv, TypeCorrect, PTL

\* What a client that has been told "complete" was told of is there: the
\* finalized text in final.md, the blocked draft in its file, or the refusal.
THEOREM CompletionsArePreviewable ==
    ASSUME Retries = FALSE
    PROVE  Spec => []CompleteIsPreviewable
<1>1. TypeOK /\ DocumentInv /\ ReportInv => CompleteIsPreviewable
  <2> SUFFICES ASSUME TypeOK, DocumentInv, ReportInv, NEW r \in Run,
                      events[r] = <<"complete">>
               PROVE  CASE local[r].outcome = "complete" ->
                              \E n \in Finals :
                                  finalMd = [attempt |-> n, text |-> versions[n].text]
                        [] local[r].outcome = "blocked" -> local[r].newest \in draftMds
                        [] OTHER -> consent = "declined" /\ versions = <<>>
    BY DEF CompleteIsPreviewable
  <2>1. events[r] # <<>>
    BY NothingTold
  <2>2. EventOf(local[r].outcome) = "complete"
    BY <2>1, OneEvent DEF ReportInv, ToldInv
  <2>3. local[r].outcome \in {"complete", "blocked", "declined"}
    BY <2>2 DEF EventOf
  <2>4. TableInv(r) /\ Mirrored(r)
    BY <2>1 DEF DocumentInv, Mirrored
  <2>5. CASE local[r].outcome = "complete"
    <3>1. PICK n \in Finals : TRUE
      BY <2>4, <2>5 DEF TableInv
    <3>2. n = 1
      <4>1. Len(versions) \in Nat /\ n \in 1 .. Len(versions)
        BY <3>1 DEF Finals, TypeOK
      <4> QED
        BY <4>1, OneOnly DEF DocumentInv
    <3>3. finalMd = [attempt |-> 1, text |-> versions[1].text]
      BY <3>1 DEF DocumentInv
    <3> QED
      BY <2>5, <3>1, <3>2, <3>3
  <2>6. CASE local[r].outcome = "blocked"
    BY <2>4, <2>6 DEF TableInv
  <2>7. CASE local[r].outcome = "declined"
    BY <2>4, <2>7 DEF TableInv, DocumentInv
  <2> QED
    BY <2>3, <2>5, <2>6, <2>7
<1> QED
  BY <1>1, AlwaysDocumentInv, AlwaysReportInv, TypeCorrect, PTL

\* A client that has been told "input_required" can answer: until it does, the
\* contract awaits input and exactly that run's question is outstanding.
THEOREM SuspensionsAreAnswerable ==
    ASSUME Retries = FALSE
    PROVE  Spec => []InputRequiredIsAnswerable
<1>1. TypeOK /\ QuestionsInv /\ ReportInv => InputRequiredIsAnswerable
  <2> SUFFICES ASSUME TypeOK, QuestionsInv, ReportInv, NEW r \in Run,
                      events[r] = <<"input_required">>, posted < local[r].asked
               PROVE  status = "awaiting_input" /\ Unanswered = {local[r].asked}
    BY DEF InputRequiredIsAnswerable
  <2>t. /\ local[r].asked \in Nat /\ posted \in Nat /\ Len(questions) \in Nat
    BY LocalOf DEF TypeOK
  <2>1. events[r] # <<>>
    <3>1. Len(<<"input_required">>) = 1 /\ Len(<<>>) = 0
      OBVIOUS
    <3> QED
      BY <3>1
  <2>2. EventOf(local[r].outcome) = "input_required"
    BY <2>1, OneEvent DEF ReportInv, ToldInv
  <2>3. Suspended(r)
    BY <2>1, <2>2 DEF EventOf, Suspended
  <2>4. status = "awaiting_input" /\ local[r].asked <= Len(questions)
    BY <2>3 DEF QuestionsInv, AskInv
  <2>5. posted < Len(questions)
    BY <2>t, <2>4
  <2>6. Len(questions) <= posted + 1
    BY DEF QuestionsInv
  <2>7. local[r].asked = Len(questions)
    BY <2>t, <2>4, <2>6
  <2> QED
    BY <2>4, <2>5, <2>7, OutstandingOnes DEF QuestionsInv
<1> QED
  BY <1>1, AlwaysQuestionsInv, AlwaysReportInv, TypeCorrect, PTL

(***************************************************************************)
(* The conversation in turns: the tasks, transactions and crashes of        *)
(* ContractRuns implement, step by step, what Conversation describes.  That *)
(* the system keeps the conversation going is left to the model checker.    *)
(***************************************************************************)

\* The invariants the refinement rests on.
TalkInv ==
    /\ TypeOK /\ EventsInv /\ GateInv /\ TurnsInv
    /\ QuestionsInv /\ DocumentInv /\ ReportInv /\ AskRoundsBounded

\* They hold together.
LEMMA AlwaysTalkInv ==
    ASSUME Retries = FALSE
    PROVE  Spec => []TalkInv
<1>1. TypeOK /\ EventsInv /\ GateInv /\ TurnsInv /\ QuestionsInv /\ DocumentInv /\ ReportInv
        /\ AskRoundsBounded => TalkInv
  BY DEF TalkInv
<1> QED
  BY <1>1, TypeCorrect, AlwaysEventsInv, AlwaysGateInv, AlwaysTurnsInv, AlwaysQuestionsInv,
     AlwaysDocumentInv, AlwaysReportInv, AskingIsBounded, PTL

(***************************************************************************)
(* What the conversation is in a state of the contract                     *)
(***************************************************************************)

\* It is the system's turn while a task owes something, and the user's while a
\* question waits: never both.
LEMMA TurnOf ==
    TalkInv =>
    /\ (\E r \in Run : Owes(r)) =>
          /\ Turn = "system" /\ status # "none"
          /\ ~(status = "awaiting_input" /\ posted < Len(questions))
    /\ status = "none" => Turn = "nobody"
    /\ status = "awaiting_input" /\ posted < Len(questions) => Turn = "user"
    /\ /\ status # "none" /\ ~(\E r \in Run : Owes(r))
       /\ ~(status = "awaiting_input" /\ posted < Len(questions))
       => Turn = "over"
<1> SUFFICES ASSUME TalkInv
             PROVE  /\ (\E r \in Run : Owes(r)) =>
                          /\ Turn = "system" /\ status # "none"
                          /\ ~(status = "awaiting_input" /\ posted < Len(questions))
                    /\ status = "none" => Turn = "nobody"
                    /\ status = "awaiting_input" /\ posted < Len(questions) => Turn = "user"
                    /\ /\ status # "none" /\ ~(\E r \in Run : Owes(r))
                       /\ ~(status = "awaiting_input" /\ posted < Len(questions))
                       => Turn = "over"
  OBVIOUS
<1>1. (\E r \in Run : Working(r) \/ pc[r] = "settling") <=> \E r \in Run : Owes(r)
  BY DEF Owes
<1>2. ASSUME NEW r \in Run, Owes(r)
      PROVE  /\ status # "none"
             /\ ~(status = "awaiting_input" /\ posted < Len(questions))
  <2>1. status # "none"
    BY <1>2, OwingNames DEF Owes, Working, TalkInv, TurnsInv
  <2>2. CASE posted = Len(questions)
    <3>1. ~(posted < Len(questions))
      BY <2>2 DEF TalkInv, TypeOK
    <3> QED
      BY <2>1, <3>1
  <2>3. CASE Suspending(r)
    <3>1. Active(r) /\ pc[r] = "settling"
      BY <2>3, BusyNames DEF Suspending, Active
    <3>2. status # "awaiting_input"
      BY <3>1 DEF TalkInv, GateInv, TurnInv
    <3> QED
      BY <2>1, <3>2
  <2> QED
    BY <1>2, <2>2, <2>3 DEF TalkInv, TurnsInv
<1>3. ASSUME \E r \in Run : Owes(r)
      PROVE  Turn = "system"
  BY <1>1, <1>2, <1>3 DEF Turn
<1>4. ASSUME status = "none"
      PROVE  Turn = "nobody"
  <2>1. ~(\E r \in Run : Owes(r))
    BY <1>2, <1>4
  <2> QED
    BY <1>1, <1>4, <2>1 DEF Turn
<1>5. ASSUME status = "awaiting_input", posted < Len(questions)
      PROVE  Turn = "user"
  <2>1. ~(\E r \in Run : Owes(r))
    BY <1>2, <1>5
  <2> QED
    BY <1>1, <1>5, <2>1 DEF Turn
<1>6. ASSUME status # "none", ~(\E r \in Run : Owes(r)),
             ~(status = "awaiting_input" /\ posted < Len(questions))
      PROVE  Turn = "over"
  BY <1>1, <1>6 DEF Turn
<1> QED
  BY <1>2, <1>3, <1>4, <1>5, <1>6

\* What is on the table is the final document, or the draft, or nothing.
LEMMA DocumentOf ==
    /\ Finals # {} => Document \in {"draft", "final"}
    /\ Finals # {} /\ draftMds = {} => Document = "final"
    /\ Finals = {} /\ draftMds # {} => Document = "draft"
    /\ Finals = {} /\ draftMds = {} => Document = "none"
BY DEF Document

\* What is told stays so unless a run is told the end.
LEMMA ToldKept ==
    ASSUME \A r \in Run : /\ events'[r] = <<"complete">> <=> events[r] = <<"complete">>
                          /\ events'[r] = <<"error">> <=> events[r] = <<"error">>
    PROVE  Told' = Told
BY DEF Told

\* A step between two states of the contract keeps the turn when it keeps what
\* the turn is read from.
LEMMA TurnKept ==
    ASSUME TalkInv, TalkInv', UNCHANGED status,
           posted' < Len(questions') <=> posted < Len(questions),
           (\E r \in Run : Owes(r)') <=> \E r \in Run : Owes(r)
    PROVE  Turn' = Turn
<1>1. \/ status = "none" \/ (\E r \in Run : Owes(r))
      \/ status = "awaiting_input" /\ posted < Len(questions)
      \/ /\ status # "none" /\ ~(\E r \in Run : Owes(r))
         /\ ~(status = "awaiting_input" /\ posted < Len(questions))
  OBVIOUS
<1>2. (TalkInv =>
        /\ (\E r \in Run : Owes(r)) =>
              /\ Turn = "system" /\ status # "none"
              /\ ~(status = "awaiting_input" /\ posted < Len(questions))
        /\ status = "none" => Turn = "nobody"
        /\ status = "awaiting_input" /\ posted < Len(questions) => Turn = "user"
        /\ /\ status # "none" /\ ~(\E r \in Run : Owes(r))
           /\ ~(status = "awaiting_input" /\ posted < Len(questions))
           => Turn = "over")'
  BY TurnOf, PTL
<1> QED
  BY <1>1, <1>2, TurnOf

\* The turns after a step.
LEMMA TurnAfter ==
    ASSUME TalkInv'
    PROVE  /\ (\E r \in Run : Owes(r)') => Turn' = "system"
           /\ status' = "awaiting_input" /\ posted' < Len(questions') => Turn' = "user"
           /\ /\ status' # "none" /\ ~(\E r \in Run : Owes(r)')
              /\ ~(status' = "awaiting_input" /\ posted' < Len(questions'))
              => Turn' = "over"
<1>1. (TalkInv =>
        /\ (\E r \in Run : Owes(r)) =>
              /\ Turn = "system" /\ status # "none"
              /\ ~(status = "awaiting_input" /\ posted < Len(questions))
        /\ status = "none" => Turn = "nobody"
        /\ status = "awaiting_input" /\ posted < Len(questions) => Turn = "user"
        /\ /\ status # "none" /\ ~(\E r \in Run : Owes(r))
           /\ ~(status = "awaiting_input" /\ posted < Len(questions))
           => Turn = "over")'
  BY TurnOf, PTL
<1> QED
  BY <1>1

\* A task stops owing when it commits its suspension or publishes its end.
LEMMA StepEnds ==
    ASSUME TalkInv, TalkInv', NEW r \in Run, Step(r), Owes(r), ~Owes(r)'
    PROVE  \/ SetStatus(r) /\ Suspending(r)
           \/ EmitTerminal(r) /\ local[r].outcome # "awaiting_input"
           \/ EmitError(r)
<1>i. /\ TypeOK /\ EventsInv /\ GateInv /\ TurnsInv /\ QuestionsInv /\ DocumentInv
      /\ TypeOK' /\ TurnsInv'
  BY DEF TalkInv
<1>1. pc'[r] \in {"mirroring", "stamping", "raising", "emitting", "finishing", "over"}
  <2>1. pc'[r] \in PcState
    BY <1>i DEF TypeOK
  <2>2. pc'[r] \notin {"idle", "lost"}
    BY <1>i, StepOwes
  <2> QED
    BY <2>1, <2>2, OwingNames DEF PcState, Live, Owes, Working
<1>2. pc'[r] \notin {"mirroring", "stamping", "raising"}
  BY <1>i, OwingNames DEF TurnsInv, OutcomeInv, Owes, Working
<1>3. CASE pc'[r] = "emitting"
  <2>1. local'[r].outcome = "awaiting_input"
    BY <1>3, OwingNames DEF Owes, Working
  <2>2. Suspended(r)'
    BY <1>3, <2>1 DEF Suspended
  <2>3. SetStatus(r)
    <3>1. ~EmitTerminal(r) /\ ~FinishRun(r)
      BY <1>i, <1>3 DEF EmitTerminal, FinishRun, Goto, TypeOK
    <3> QED
      BY <1>i, <2>2, <3>1, StepSuspended
  <2> QED
    BY <2>1, <2>3 DEF SetStatus, Suspending
<1>4. CASE pc'[r] = "finishing"
  <2>1. EmitTerminal(r) \/ EmitError(r)
    BY <1>i, <1>4, StepTo, NeverSilent
  <2>2. EmitTerminal(r) => local[r].outcome # "awaiting_input"
    BY OwingNames DEF EmitTerminal, Owes, Working
  <2> QED
    BY <2>1, <2>2
<1>5. CASE pc'[r] = "over"
  BY <1>i, <1>5, StepTo, OwingNames DEF FinishRun, Owes, Working
<1> QED
  BY <1>1, <1>2, <1>3, <1>4, <1>5

\* A step of a task that owes something before and after takes down a
\* decision, puts the document on the table, or is the system's own business.
LEMMA StepWorks ==
    ASSUME TalkInv, TalkInv', NEW r \in Run, Step(r), Owes(r), Owes(r)'
    PROVE  Talk!TakeDown \/ Talk!Publish \/ UNCHANGED Talk!talk
<1>i. /\ TypeOK /\ EventsInv /\ GateInv /\ TurnsInv /\ QuestionsInv /\ DocumentInv
      /\ TypeOK' /\ TurnsInv'
  BY DEF TalkInv
<1>1. Turn = "system" /\ Turn' = "system" /\ posted' = posted
  BY <1>i, TurnOf, TurnAfter, StepWrites
<1>2. Told' = Told
  <2>1. ~EmitTerminal(r) /\ ~EmitError(r)
    BY <1>i, OwingNames DEF EmitTerminal, EmitError, Goto, TypeOK, Owes, Working
  <2>2. UNCHANGED events
    BY <2>1, StepWrites
  <2> QED
    BY <2>2, ToldKept
<1>3. CASE RecordConsent(r)
  <2>1. Active(r) /\ pc[r] = "deciding"
    BY <1>3, BusyNames DEF RecordConsent, Active
  <2>2. Finals = {} /\ draftMds = {} /\ consent # "declined"
    BY <1>i, <2>1, WriterAlone
  <2>3. UNCHANGED <<versions, draftMds>>
    BY <1>3 DEF RecordConsent
  <2>4. Document = "none" /\ Document' = "none"
    BY <2>2, <2>3 DEF Document, Finals
  <2>5. consent' \in {"granted", "declined"}
    BY <1>i, <1>3, LocalOf DEF RecordConsent, Body, TypeOK
  <2> QED
    BY <1>1, <1>2, <2>2, <2>4, <2>5 DEF Talk!TakeDown
<1>4. CASE MirrorDraft(r) \/ MirrorFinal(r)
  <2>1. Active(r) /\ pc[r] = "stamping"
    BY <1>4, BusyNames DEF MirrorDraft, MirrorFinal, Active
  <2>2. Finals = {} /\ draftMds = {} /\ consent # "declined"
    BY <1>i, <2>1, WriterAlone
  <2>3. UNCHANGED consent
    BY <1>4 DEF MirrorDraft, MirrorFinal
  <2>4. Finals' # {} \/ draftMds' # {}
    <3>1. CASE MirrorDraft(r)
      BY <3>1 DEF MirrorDraft
    <3>2. CASE MirrorFinal(r)
      <4>1. local[r].newest \in DOMAIN versions
        BY <1>i, <2>1, <3>2 DEF GateInv, DraftInv, MirrorFinal
      <4> QED
        BY <1>i, <3>2, <4>1, WrittenVersions DEF Finals
    <3> QED
      BY <1>4, <3>1, <3>2
  <2>5. Document = "none" /\ Document' \in {"draft", "final"}
    BY <2>2, <2>4 DEF Document
  <2> QED
    BY <1>1, <1>2, <2>2, <2>3, <2>5 DEF Talk!Publish
<1>5. CASE ~RecordConsent(r) /\ ~MirrorDraft(r) /\ ~MirrorFinal(r)
  <2>1. UNCHANGED <<consent, draftMds>>
    BY <1>5, StepWrites
  <2>2. Finals' = Finals
    <3>1. CASE UNCHANGED versions
      BY <3>1 DEF Finals
    <3>2. CASE InsertVersion(r) /\ versions' # versions
      <4>1. versions' = Append(versions, DraftedVersion(local[r].backed))
        BY <3>2 DEF InsertVersion
      <4>2. DraftedVersion(local[r].backed) \in Version /\ versions \in Seq(Version)
        BY <1>i, LocalOf DEF DraftedVersion, Version, Gate, Text, TypeOK
      <4>3. ~DraftedVersion(local[r].backed).final
        BY DEF DraftedVersion
      <4>4. /\ DOMAIN versions' = DOMAIN versions \union {Len(versions) + 1}
            /\ \A n \in DOMAIN versions : versions'[n] = versions[n]
            /\ versions'[Len(versions) + 1] = DraftedVersion(local[r].backed)
            /\ Len(versions) + 1 \notin DOMAIN versions
        BY <4>1, <4>2
      <4> QED
        BY <4>3, <4>4 DEF Finals
    <3>3. CASE Finalize(r)
      BY <1>i, <1>5, <3>3, WrittenVersions DEF Finals
    <3> QED
      BY <1>i, <1>5, <3>1, <3>2, <3>3, StepFrame
  <2>3. Document' = Document
    BY <2>1, <2>2 DEF Document
  <2> QED
    BY <1>1, <1>2, <2>1, <2>3 DEF Talk!talk
<1> QED
  BY <1>3, <1>4, <1>5

\* What a task that reports or suspends leaves alone.
LEMMA StepLeaves ==
    ASSUME NEW r \in Run, SetStatus(r) \/ EmitTerminal(r) \/ EmitError(r) \/ FinishRun(r)
    PROVE  UNCHANGED <<posted, consent, questions, Document>>
BY DEF SetStatus, EmitTerminal, EmitError, FinishRun, store, Document, Finals

\* A run publishes its first event.
LEMMA FirstEvent ==
    ASSUME TalkInv, NEW r \in Run, EmitTerminal(r) \/ EmitError(r)
    PROVE  /\ events[r] = <<>>
           /\ events'[r] = <<EventOf(local[r].outcome)>>
           /\ \A q \in Run : q # r => events'[q] = events[q]
<1>i. /\ EventsInv /\ TurnsInv /\ events \in [Run -> Seq(TerminalEvent)]
      /\ pc \in [Run -> PcState]
  BY DEF TalkInv, TypeOK
<1>1. events[r] = <<>>
  BY <1>i DEF EventsInv, Silent, PcState, Live, Applying, EmitTerminal, EmitError
<1>2. CASE EmitTerminal(r)
  BY <1>i, <1>1, <1>2 DEF EmitTerminal
<1>3. CASE EmitError(r)
  <2>1. EventOf(local[r].outcome) = "error"
    BY <1>i, <1>3 DEF EmitError, TurnsInv, OutcomeInv, EventOf
  <2> QED
    BY <1>i, <1>1, <1>3, <2>1 DEF EmitError
<1> QED
  BY <1>2, <1>3

\* The one event of a run, whichever it is, is not that of a silent run.
LEMMA SilentOrTold == \A x : <<>> # <<x>>
<1>1. \A x : Len(<<x>>) = 1
  OBVIOUS
<1>2. Len(<<>>) = 0
  OBVIOUS
<1> QED
  BY <1>1, <1>2

\* A task that stops owing asks back or closes.
LEMMA StepHandsOver ==
    ASSUME TalkInv, TalkInv', NEW r \in Run, Step(r), Owes(r), ~Owes(r)'
    PROVE  Talk!AskBack \/ Talk!Close
<1>i. /\ TypeOK /\ EventsInv /\ GateInv /\ TurnsInv /\ QuestionsInv /\ DocumentInv
      /\ TypeOK'
  BY DEF TalkInv
<1>1. Turn = "system"
  BY TurnOf
<1>2. \A q \in Run : ~Owes(q)'
  BY <1>i, StepOwes DEF TurnsInv
<1>3. CASE SetStatus(r) /\ Suspending(r)
  <2>1. Active(r) /\ pc[r] = "settling"
    BY <1>3, BusyNames DEF Suspending, Active
  <2>2. Finals = {} /\ draftMds = {} /\ consent # "declined"
    BY <1>i, <2>1, WriterAlone
  <2>3. status' = "awaiting_input" /\ posted < Len(questions) /\ UNCHANGED <<posted, questions>>
    BY <1>i, <1>3, StepWrites DEF SetStatus, ContractStatus, Suspending, QuestionsInv, AskInv,
       store
  <2>4. Turn' = "user"
    BY <2>3, TurnAfter
  <2>5. Document = "none"
    BY <2>2 DEF Document
  <2>6. UNCHANGED <<posted, consent, Document, Told>>
    BY <1>3, StepLeaves, ToldKept DEF SetStatus
  <2> QED
    BY <1>1, <2>2, <2>4, <2>5, <2>6 DEF Talk!AskBack
<1>4. CASE \/ EmitTerminal(r) /\ local[r].outcome # "awaiting_input"
           \/ EmitError(r)
  <2>1. /\ events[r] = <<>> /\ events'[r] = <<EventOf(local[r].outcome)>>
        /\ \A q \in Run : q # r => events'[q] = events[q]
    BY <1>4, FirstEvent
  <2>2. \A q \in Run : ~Closed(q)
    BY <1>i DEF TurnsInv
  <2>3. EventOf(local[r].outcome) \in {"complete", "error"}
    BY <1>i, <1>4 DEF EventOf, EmitError, TurnsInv, OutcomeInv
  <2>4. /\ Told' = EventOf(local[r].outcome)
    <3>1. \A q \in Run : q # r => /\ events'[q] # <<"complete">>
                                  /\ events'[q] # <<"error">>
      BY <2>1, <2>2 DEF Closed
    <3>2. CASE EventOf(local[r].outcome) = "complete"
      <4>1. \E q \in Run : events'[q] = <<"complete">>
        BY <2>1, <3>2
      <4>2. events'[r] # <<"error">>
        BY <2>1, <3>2, OneEvent
      <4>3. ~ \E q \in Run : events'[q] = <<"error">>
        BY <3>1, <4>2
      <4> QED
        BY <3>2, <4>1, <4>3 DEF Told
    <3>3. CASE EventOf(local[r].outcome) = "error"
      <4>1. \E q \in Run : events'[q] = <<"error">>
        BY <2>1, <3>3
      <4>2. events'[r] # <<"complete">>
        BY <2>1, <3>3, OneEvent
      <4>3. ~ \E q \in Run : events'[q] = <<"complete">>
        BY <3>1, <4>2
      <4> QED
        BY <3>3, <4>1, <4>3 DEF Told
    <3> QED
      BY <2>3, <3>2, <3>3
  <2>5. ASSUME EventOf(local[r].outcome) = "complete"
        PROVE  Document # "none" \/ consent = "declined"
    <3>1. EmitTerminal(r)
      BY <1>i, <1>4, <2>5 DEF EventOf, EmitError, TurnsInv, OutcomeInv
    <3>2. Mirrored(r) /\ local[r].outcome \in {"complete", "blocked", "declined"}
      BY <2>5, <3>1 DEF EventOf, EmitTerminal, Mirrored
    <3>3. Finals # {} \/ draftMds # {} \/ consent = "declined"
      BY <1>i, <3>2 DEF DocumentInv, TableInv
    <3> QED
      BY <3>3 DEF Document
  <2>6. UNCHANGED <<posted, consent, Document, questions, status>>
    BY <1>4, StepLeaves DEF EmitTerminal, EmitError
  <2>7. Turn' = "over"
    <3>1. status # "none" /\ ~(status = "awaiting_input" /\ posted < Len(questions))
      BY TurnOf
    <3> QED
      BY <1>2, <2>6, <3>1, TurnAfter
  <2> QED
    BY <1>1, <2>3, <2>4, <2>5, <2>6, <2>7 DEF Talk!Close
<1> QED
  BY <1>3, <1>4, StepEnds

\* A task that owes nothing says nothing more than that it has asked.
LEMMA StepAfterwards ==
    ASSUME TalkInv, TalkInv', NEW r \in Run, Step(r), ~Owes(r)
    PROVE  UNCHANGED Talk!talk
<1>i. /\ TypeOK /\ EventsInv /\ TurnsInv /\ TypeOK'
  BY DEF TalkInv
<1>1. (EmitTerminal(r) /\ local[r].outcome = "awaiting_input") \/ FinishRun(r)
  <2>1. pc[r] \in {"mirroring", "stamping", "emitting", "raising", "finishing"}
    <3>1. pc[r] \in PcState \ {"idle", "over", "lost"}
      BY <1>i, StepOwes DEF TypeOK
    <3> QED
      BY <3>1, OwingNames DEF PcState, Live, Owes, Working
  <2>2. pc[r] \notin {"mirroring", "stamping", "raising"}
    BY <1>i, OwingNames DEF Owes, Working, TurnsInv, OutcomeInv
  <2>3. EmitTerminal(r) \/ FinishRun(r)
    BY <2>1, <2>2, StepFrom
  <2> QED
    BY <2>3, OwingNames DEF EmitTerminal, Owes, Working
<1>2. Told' = Told
  <2>1. CASE FinishRun(r)
    BY <2>1, ToldKept DEF FinishRun
  <2>2. CASE EmitTerminal(r) /\ local[r].outcome = "awaiting_input"
    <3>1. /\ events[r] = <<>> /\ events'[r] = <<EventOf(local[r].outcome)>>
          /\ \A q \in Run : q # r => events'[q] = events[q]
      BY <2>2, FirstEvent
    <3>2. EventOf(local[r].outcome) = "input_required"
      BY <2>2 DEF EventOf
    <3>3. events[r] \notin {<<"complete">>, <<"error">>}
          /\ events'[r] \notin {<<"complete">>, <<"error">>}
      BY <3>1, <3>2, OneEvent, SilentOrTold
    <3> QED
      BY <3>1, <3>3, ToldKept
  <2> QED
    BY <1>1, <2>1, <2>2
<1>3. UNCHANGED <<posted, consent, questions, Document, status>>
  BY <1>1, StepLeaves DEF EmitTerminal, FinishRun
<1>4. (\E q \in Run : Owes(q)') <=> \E q \in Run : Owes(q)
  BY <1>i, StepOwes
<1>5. Turn' = Turn
  BY <1>3, <1>4, TurnKept
<1> QED
  BY <1>2, <1>3, <1>5 DEF Talk!talk

\* The first request begins, and each answer hands the turn back.
LEMMA StartTalks ==
    ASSUME TalkInv, TalkInv', Retries = FALSE, NEW r \in Run,
           CreateContract(r) \/ PostAnswers(r)
    PROVE  Talk!Begin \/ Talk!Answer
<1>i. /\ TypeOK /\ GateInv /\ TurnsInv /\ QuestionsInv /\ AskRoundsBounded
  BY DEF TalkInv
<1>t. Len(questions) \in Nat /\ posted \in Nat /\ MaxAskRounds \in Nat
  BY <1>i, BoundsAssumption DEF TypeOK
<1>1. Turn' = "system"
  <2>1. Owes(r)'
    BY <1>i, StartsAlone DEF Owes, Working, Resuming, PhaseA
  <2> QED
    BY <2>1, TurnAfter
<1>2. UNCHANGED <<consent, Document, Told>> /\ posted' = Len(questions)
  <2>1. UNCHANGED <<store, events>> /\ posted' = Len(questions)
    BY <1>i, StartsAlone
  <2> QED
    BY <2>1, ToldKept DEF store, Document, Finals
<1>3. CASE status = "none"
  <2>1. Turn = "nobody"
    BY <1>3, TurnOf
  <2>2. UNCHANGED posted
    BY <1>i, <1>3, StartsAlone
  <2> QED
    BY <1>1, <1>2, <2>1, <2>2 DEF Talk!Begin
<1>4. CASE status # "none"
  <2>1. status = "awaiting_input" /\ posted < Len(questions)
    BY <1>i, <1>4, StartsAlone
  <2>2. Turn = "user"
    BY <2>1, TurnOf
  <2>3. Len(questions) <= posted + 1 /\ Len(questions) <= MaxAskRounds + 1
    BY <1>i DEF QuestionsInv, AskRoundsBounded
  <2>4. posted' = posted + 1 /\ posted < MaxAskRounds + 1
    BY <1>t, <1>2, <2>1, <2>3
  <2> QED
    BY <1>1, <1>2, <2>2, <2>4 DEF Talk!Answer
<1> QED
  BY <1>3, <1>4

\* Reading and editing the document says nothing.
LEMMA EditorKeepsTalk ==
    ASSUME TalkInv, TalkInv', SelectFinal \/ SaveDocument \/ RenderExport \/ CreateExport
    PROVE  UNCHANGED Talk!talk
<1>1. UNCHANGED <<status, questions, consent, draftMds, events, pc, local, posted>>
  BY EditorFrame
<1>2. Finals' = Finals
  <2>1. CASE UNCHANGED versions
    BY <2>1 DEF Finals
  <2>2. CASE SaveDocument
    BY <2>2, EditedRow DEF SaveDocument, Finals, TalkInv, TypeOK
  <2> QED
    BY <2>1, <2>2, EditorFrame
<1>3. Document' = Document /\ Told' = Told
  BY <1>1, <1>2, ToldKept DEF Document
<1>4. Turn' = Turn
  BY <1>1, TurnKept DEF Owes, Working
<1> QED
  BY <1>1, <1>3, <1>4 DEF Talk!talk

\* A crash is silence: the system has vanished, or it was not its turn.
LEMMA CrashVanishes ==
    ASSUME TalkInv, TalkInv', Crash
    PROVE  Talk!Vanish \/ UNCHANGED Talk!talk
<1>i. TypeOK
  BY DEF TalkInv
<1>1. UNCHANGED <<status, questions, consent, versions, draftMds, events, posted>>
      /\ \A q \in Run : ~Owes(q)'
  BY <1>i, CrashFrame
<1>2. Document' = Document /\ Told' = Told
  BY <1>1, ToldKept DEF Document, Finals
<1>3. CASE \E q \in Run : Owes(q)
  <2>1. /\ Turn = "system" /\ status # "none"
        /\ ~(status = "awaiting_input" /\ posted < Len(questions))
    BY <1>3, TurnOf
  <2>2. Turn' = "over"
    BY <1>1, <2>1, TurnAfter
  <2> QED
    BY <1>1, <1>2, <2>1, <2>2 DEF Talk!Vanish
<1>4. CASE ~ \E q \in Run : Owes(q)
  <2>1. Turn' = Turn
    BY <1>1, <1>4, TurnKept
  <2> QED
    BY <1>1, <1>2, <2>1 DEF Talk!talk
<1> QED
  BY <1>3, <1>4

\* The contract's life is a conversation in turns: begun once, answered as
\* often as asked, nothing on the table twice or after a refusal, closed as
\* complete only over a document or a refusal.  This is all of
\* ImplementsConversation but its fairness.
THEOREM TalksInTurns ==
    ASSUME Retries = FALSE
    PROVE  Spec => Talk!Init /\ [][Talk!Next]_(Talk!talk)
<1>1. Init => Talk!Init
  <2> SUFFICES ASSUME Init
               PROVE  Talk!Init
    OBVIOUS
  <2>1. Finals = {} /\ draftMds = {}
    BY DEF Init, Finals
  <2>2. \A r \in Run : events[r] # <<"complete">> /\ events[r] # <<"error">>
    BY SilentOrTold DEF Init
  <2>3. Told = "nothing"
    BY <2>2 DEF Told
  <2>4. Turn = "nobody"
    <3>1. ~ \E r \in Run : Working(r) \/ pc[r] = "settling"
      BY OwingNames DEF Init, Working
    <3> QED
      BY <3>1 DEF Turn, Init
  <2> QED
    BY <2>1, <2>3, <2>4 DEF Init, Talk!Init, Document
<1>2. Retries = FALSE /\ TalkInv /\ TalkInv' /\ [Next]_vars => [Talk!Next]_(Talk!talk)
  <2> SUFFICES ASSUME Retries = FALSE, TalkInv, TalkInv', [Next]_vars
               PROVE  Talk!Next \/ UNCHANGED Talk!talk
    OBVIOUS
  <2>1. ASSUME NEW r \in Run, CreateContract(r) \/ PostAnswers(r)
        PROVE  Talk!Next
    BY <2>1, StartTalks DEF Talk!Next
  <2>2. ASSUME NEW r \in Run, Step(r)
        PROVE  Talk!Next \/ UNCHANGED Talk!talk
    <3>1. CASE ~Owes(r)
      BY <2>2, <3>1, StepAfterwards
    <3>2. CASE Owes(r) /\ Owes(r)'
      BY <2>2, <3>2, StepWorks DEF Talk!Next
    <3>3. CASE Owes(r) /\ ~Owes(r)'
      BY <2>2, <3>3, StepHandsOver DEF Talk!Next
    <3> QED
      BY <3>1, <3>2, <3>3
  <2>3. CASE SelectFinal \/ SaveDocument \/ RenderExport \/ CreateExport
    BY <2>3, EditorKeepsTalk
  <2>4. CASE Crash
    BY <2>4, CrashVanishes DEF Talk!Next
  <2>5. CASE UNCHANGED vars
    <3>1. UNCHANGED <<status, questions, consent, versions, draftMds, events, pc, local, posted>>
      BY <2>5 DEF vars, store
    <3> QED
      BY <3>1 DEF Talk!talk, Turn, Document, Told, Finals, Working
  <2> QED
    BY <2>1, <2>2, <2>3, <2>4, <2>5 DEF Next
<1> QED
  BY <1>1, <1>2, AlwaysTalkInv, PTL DEF Spec
=============================================================================
