---------------------------- MODULE ContractRuns ----------------------------
(***************************************************************************)
(* One contract and the run slices that work on it.                        *)
(*                                                                         *)
(* POST /contracts and POST /answers each insert a `runs` row and spawn an *)
(* asyncio task (api/runner.py).  The task runs the pipeline adapter,      *)
(* which opens one database transaction after another with awaits between  *)
(* them: every action below is one such transaction (or the agent call     *)
(* that precedes it), so two tasks of the same contract interleave here    *)
(* exactly where they can interleave in the process.                       *)
(*                                                                         *)
(* What an agent answers, which providers are available and what the gates *)
(* find are nondeterministic.  Texts are reduced to "as drafted" and       *)
(* "edited by the user"; of an answers body only what it says about the    *)
(* consent question matters.                                               *)
(***************************************************************************)
EXTENDS Naturals, Sequences, FiniteSets

CONSTANTS
    Run,            \* the runs this contract can have: a bound on POSTs
    MaxAskRounds,   \* settings.max_ask_rounds
    MaxCrashes,     \* bound on process crashes
    MaxExports,     \* bound on exported documents
    Retries,        \* may a client post answers again before it is asked again?
    Lossy           \* may a source that was available contribute nothing?

ASSUME RunsAssumption == IsFiniteSet(Run)
ASSUME BoundsAssumption == MaxAskRounds \in Nat /\ MaxCrashes \in Nat /\ MaxExports \in Nat
ASSUME FlagsAssumption == Retries \in BOOLEAN /\ Lossy \in BOOLEAN

VARIABLES
    status,     \* contracts.status, "none" before the row exists
    questions,  \* pending_questions of the contract, in created_at order
    consent,    \* consent/model-knowledge.json
    versions,   \* contract_versions; the attempt number is the index
    finalMd,    \* final.md: whose text it holds
    draftMds,   \* the attempts mirrored as draft_v{n}.md
    exports,    \* the exported documents
    runStatus,  \* runs.status of every run
    events,     \* the terminal events each run has published
    pc,         \* where each run's task is
    local,      \* the locals of each run's task
    saving,     \* the version a POST /document/save has selected, 0 if none runs
    exporting,  \* what a POST /export has rendered, NoFile if none runs
    posted,     \* how many questions existed at the last accepted POST /answers
    crashes     \* process crashes so far

store == <<questions, consent, versions, finalMd, draftMds, exports>>
editor == <<saving, exporting>>
vars == <<status, store, runStatus, events, pc, local, editor, posted, crashes>>

-----------------------------------------------------------------------------
(* Types *)

Body == {"omitted", "granted", "declined"}
Gate == {"pending", "clean", "flagged", "blocked"}
Text == {"drafted", "edited"}
TerminalEvent == {"input_required", "complete", "error"}
Outcome == {"none", "complete", "blocked", "awaiting_input", "over_budget",
            "declined", "raised", "must_ask"}

Question == [kind : {"clarification", "consent"}, answered : BOOLEAN,
             answers : Body \union {"none"}]
Version == [backed : BOOLEAN, gate : Gate, final : BOOLEAN, review : BOOLEAN,
            text : Text, docx : BOOLEAN]
Local == [body : Body, pending : SUBSET Nat, unclear : BOOLEAN, backed : BOOLEAN,
          asked : Nat, attempt : Nat, outcome : Outcome, review : BOOLEAN,
          newest : Nat, text : Text, prior : SUBSET Nat]

\* The program points of resume_run, run_pipeline, _apply and _drive.
Resuming  == {"reading", "marking", "deciding", "refusing", "resuming"}
PhaseA    == {"intent", "asking", "resolving", "seeking", "gathering", "understanding"}
PhaseB    == {"planning", "drafting", "counting", "inserting", "validating"}
Applying  == {"settling", "mirroring", "stamping", "emitting", "raising"}
Live      == Resuming \union PhaseA \union PhaseB \union Applying \union {"finishing"}
PcState   == Live \union {"idle", "over", "lost"}

NoFile == [attempt |-> 0, text |-> "drafted"]

TypeOK ==
    /\ status \in {"none", "planning", "awaiting_input", "drafting", "ready", "failed"}
    /\ questions \in Seq(Question)
    /\ consent \in {"none", "granted", "declined"}
    /\ versions \in Seq(Version)
    /\ finalMd \in [attempt : Nat, text : Text]
    /\ draftMds \subseteq Nat
    /\ exports \subseteq [attempt : Nat, text : Text]
    /\ runStatus \in [Run -> {"none", "running", "suspended", "complete", "failed"}]
    /\ events \in [Run -> Seq(TerminalEvent)]
    /\ pc \in [Run -> PcState]
    /\ local \in [Run -> Local]
    /\ saving \in Nat
    /\ exporting \in [attempt : Nat, text : Text]
    /\ posted \in Nat
    /\ crashes \in 0 .. MaxCrashes

-----------------------------------------------------------------------------
(* Helpers *)

\* Mutant: the filter on answered_at is lost.
AllQuestions == DOMAIN questions

Unanswered == {i \in DOMAIN questions : ~questions[i].answered}
Answered   == {i \in DOMAIN questions : questions[i].answered}
Finals     == {n \in DOMAIN versions : versions[n].final}

\* Mutant: off by one.
AskedMoreThanEnough == Cardinality(Answered) > MaxAskRounds

\* ledger.count_answered_ask_rounds against settings.max_ask_rounds.
AskedEnough == Cardinality(Answered) >= MaxAskRounds

NewQuestion(kind) == [kind |-> kind, answered |-> FALSE, answers |-> "none"]

\* Mutants of _MAP: the run's status written to the contract, a suspension
\* recorded as a failure, an exhausted budget reported as a completion.
RunStatusForContract(outcome) ==
    CASE outcome \in {"complete", "blocked", "declined"} -> "complete"
      [] outcome = "awaiting_input" -> "suspended"
      [] OTHER -> "failed"
SuspendedAsFailed(outcome) ==
    IF outcome \in {"complete", "blocked", "declined"} THEN "ready" ELSE "failed"
OverBudgetAsComplete(outcome) ==
    CASE outcome \in {"complete", "blocked", "declined", "over_budget"} -> "complete"
      [] outcome = "awaiting_input" -> "input_required"
      [] OTHER -> "error"

\* _MAP: the contract status and the terminal event of a slice's outcome.
ContractStatus(outcome) ==
    CASE outcome \in {"complete", "blocked", "declined"} -> "ready"
      [] outcome = "awaiting_input" -> "awaiting_input"
      [] OTHER -> "failed"

EventOf(outcome) ==
    CASE outcome \in {"complete", "blocked", "declined"} -> "complete"
      [] outcome = "awaiting_input" -> "input_required"
      [] OTHER -> "error"

\* runner._STATUS, and "failed" for a slice that raised.
RunStatusOf(outcome) ==
    CASE outcome \in {"complete", "blocked", "declined"} -> "complete"
      [] outcome = "awaiting_input" -> "suspended"
      [] OTHER -> "failed"

Goto(r, label) == pc' = [pc EXCEPT ![r] = label]

\* The slice moves on with an outcome.
Leave(r, outcome, label) ==
    /\ local' = [local EXCEPT ![r].outcome = outcome]
    /\ Goto(r, label)

-----------------------------------------------------------------------------
Init ==
    /\ status = "none"
    /\ questions = <<>>
    /\ consent = "none"
    /\ versions = <<>>
    /\ finalMd = NoFile
    /\ draftMds = {}
    /\ exports = {}
    /\ runStatus = [r \in Run |-> "none"]
    /\ events = [r \in Run |-> <<>>]
    /\ pc = [r \in Run |-> "idle"]
    /\ local = [r \in Run |->
                   [body |-> "omitted", pending |-> {}, unclear |-> FALSE,
                    backed |-> FALSE, asked |-> 0, attempt |-> 0, outcome |-> "none",
                    review |-> FALSE, newest |-> 0, text |-> "drafted", prior |-> {}]]
    /\ saving = 0
    /\ exporting = NoFile
    /\ posted = 0
    /\ crashes = 0

(***************************************************************************)
(* The API                                                                 *)
(***************************************************************************)

\* POST /contracts: the row, its run, and the task of the first slice.
CreateContract(r) ==
    /\ status = "none"
    /\ pc[r] = "idle"
    /\ status' = "planning"
    /\ runStatus' = [runStatus EXCEPT ![r] = "running"]
    /\ Goto(r, "intent")
    /\ UNCHANGED <<store, events, local, editor, posted, crashes>>

\* POST /contracts/{id}/answers: 409 unless the contract awaits input and a
\* question is outstanding.  The body may or may not decide on consent.
PostAnswers(r) ==
    /\ pc[r] = "idle"
    /\ status = "awaiting_input"
    /\ Unanswered # {}
    /\ Retries \/ posted < Len(questions)
    /\ posted' = Len(questions)
    /\ runStatus' = [runStatus EXCEPT ![r] = "running"]
    /\ \E body \in Body : local' = [local EXCEPT ![r].body = body]
    /\ Goto(r, "reading")
    /\ UNCHANGED <<status, store, events, editor, crashes>>

\* POST /document/save selects the finalized version without a lock,
SelectFinal ==
    /\ saving = 0
    /\ saving' \in Finals
    /\ UNCHANGED <<status, store, runStatus, events, pc, local, exporting, posted, crashes>>

\* Mutant: the stored .docx outlives the edit.
SaveKeepingDocx ==
    /\ saving # 0
    /\ versions' = [versions EXCEPT ![saving].text = "edited"]
    /\ finalMd' = [attempt |-> saving, text |-> "edited"]
    /\ saving' = 0
    /\ UNCHANGED <<status, questions, consent, draftMds, exports, runStatus, events,
                   pc, local, exporting, posted, crashes>>

\* then writes the edited text to final.md and to that version, and drops the
\* version's stored .docx.
SaveDocument ==
    /\ saving # 0
    /\ versions' = [versions EXCEPT ![saving].text = "edited", ![saving].docx = FALSE]
    /\ finalMd' = [attempt |-> saving, text |-> "edited"]
    /\ saving' = 0
    /\ UNCHANGED <<status, questions, consent, draftMds, exports, runStatus, events,
                   pc, local, exporting, posted, crashes>>

\* POST /export renders the finalized version: its stored .docx if it has one,
\* else its markdown,
RenderExport ==
    /\ exporting = NoFile
    /\ Cardinality(exports) < MaxExports
    /\ \E n \in Finals :
        exporting' = [attempt |-> n,
                      text |-> IF versions[n].docx THEN "drafted" ELSE versions[n].text]
    /\ UNCHANGED <<status, store, runStatus, events, pc, local, saving, posted, crashes>>

\* then records it, whatever has been saved meanwhile.
CreateExport ==
    /\ exporting # NoFile
    /\ exports' = exports \union {exporting}
    /\ exporting' = NoFile
    /\ UNCHANGED <<status, questions, consent, versions, finalMd, draftMds, runStatus,
                   events, pc, local, saving, posted, crashes>>

(***************************************************************************)
(* resume_run                                                              *)
(***************************************************************************)

\* The outstanding questions are selected without a row lock; none raises
\* before any event is published.
ReadPending(r) ==
    /\ pc[r] = "reading"
    /\ \/ /\ Unanswered = {}
          /\ Leave(r, "raised", "finishing")
       \/ /\ Unanswered # {}
          /\ local' = [local EXCEPT ![r].pending = Unanswered]
          /\ Goto(r, "marking")
    /\ UNCHANGED <<status, store, runStatus, events, editor, posted, crashes>>

\* Each question that was selected gets this body, whatever it holds by now.
MarkAnswered(r) ==
    /\ pc[r] = "marking"
    /\ questions' = [i \in DOMAIN questions |->
                        IF i \in local[r].pending
                        THEN [questions[i] EXCEPT !.answered = TRUE,
                                                  !.answers = local[r].body]
                        ELSE questions[i]]
    /\ Goto(r, IF local[r].body = "omitted" THEN "resuming" ELSE "deciding")
    /\ UNCHANGED <<status, consent, versions, finalMd, draftMds, exports, runStatus,
                   events, local, editor, posted, crashes>>

\* Mutant: the decision is recorded and not looked at.
AfterAnyDecision(body) == "resuming"
AfterDecision(body) == IF body = "granted" THEN "resuming" ELSE "refusing"

RecordConsent(r) ==
    /\ pc[r] = "deciding"
    /\ local[r].body # "omitted"
    /\ consent' = local[r].body
    /\ Goto(r, AfterDecision(local[r].body))
    /\ UNCHANGED <<status, questions, versions, finalMd, draftMds, exports, runStatus,
                   events, local, editor, posted, crashes>>

\* Mutant: the early return after _declined is lost.
DeclineAndDraft(r) ==
    /\ pc[r] = "refusing"
    /\ status' = "ready"
    /\ Goto(r, "resuming")
    /\ UNCHANGED <<store, runStatus, events, local, editor, posted, crashes>>

\* _declined: the run ends without a draft.
Decline(r) ==
    /\ pc[r] = "refusing"
    /\ status' = "ready"
    /\ Leave(r, "declined", "emitting")
    /\ UNCHANGED <<store, runStatus, events, editor, posted, crashes>>

SetDrafting(r) ==
    /\ pc[r] = "resuming"
    /\ status' = "drafting"
    /\ Goto(r, "intent")
    /\ UNCHANGED <<store, runStatus, events, local, editor, posted, crashes>>

(***************************************************************************)
(* Phase A                                                                 *)
(***************************************************************************)

\* The intent agent is confident, doubtful, or reports open questions; after
\* MaxAskRounds answered rounds the run proceeds whatever it said.
DetermineIntent(r) ==
    /\ pc[r] = "intent"
    /\ \E intent \in {"clear", "doubtful", "unclear"} :
        /\ local' = [local EXCEPT ![r].unclear = (intent = "unclear")]
        /\ Goto(r, IF intent = "clear" \/ AskedEnough THEN "resolving" ELSE "asking")
    /\ UNCHANGED <<status, store, runStatus, events, editor, posted, crashes>>

\* SuspendingGateway.ask: commit the question, then unwind the slice.
Ask(r, kind) ==
    /\ questions' = Append(questions, NewQuestion(kind))
    /\ local' = [local EXCEPT ![r].asked = Len(questions) + 1,
                              ![r].outcome = "awaiting_input"]
    /\ Goto(r, "settling")

\* Under a fresh call id.
AskUser(r) ==
    /\ pc[r] = "asking"
    /\ Ask(r, "clarification")
    /\ UNCHANGED <<status, consent, versions, finalMd, draftMds, exports, runStatus,
                   events, editor, posted, crashes>>

\* The plan is backed when the clause library or a template says it can take
\* part.  An unbacked one needs a recorded decision; a refusal is one too.
Resolve(r) ==
    /\ pc[r] = "resolving"
    /\ \E backed \in BOOLEAN :
        /\ local' = [local EXCEPT ![r].backed = backed]
        /\ Goto(r, IF backed \/ consent # "none" THEN "gathering" ELSE "seeking")
    /\ UNCHANGED <<status, store, runStatus, events, editor, posted, crashes>>

\* The consent question is always asked under call id "", which is unique
\* per contract: a second one is refused by the database.
AskConsent(r) ==
    /\ pc[r] = "seeking"
    /\ \/ /\ \E i \in DOMAIN questions : questions[i].kind = "consent"
          /\ Leave(r, "raised", "raising")
          /\ UNCHANGED questions
       \/ /\ \A i \in DOMAIN questions : questions[i].kind # "consent"
          /\ Ask(r, "consent")
    /\ UNCHANGED <<status, consent, versions, finalMd, draftMds, exports, runStatus,
                   events, editor, posted, crashes>>

\* Every provider of the plan contributes at once.  One that raises, even for
\* the budget, contributes nothing, and so does a library whose clauses of
\* this type were deleted since it said it was available: gathering itself
\* does not fail.
Gather(r) ==
    /\ pc[r] = "gathering"
    /\ \/ UNCHANGED local
       \/ Lossy /\ local' = [local EXCEPT ![r].backed = FALSE]
    /\ Goto(r, "understanding")
    /\ UNCHANGED <<status, store, runStatus, events, editor, posted, crashes>>

\* Three agents read a template that takes part, and what is known is joined.
Understand(r) ==
    /\ pc[r] = "understanding"
    /\ Goto(r, "planning")
    /\ UNCHANGED <<status, store, runStatus, events, local, editor, posted, crashes>>

(***************************************************************************)
(* Phase B                                                                 *)
(***************************************************************************)

\* The phase gate refuses an intent that still must ask, before any agent of
\* Phase B is called.  What else it may refuse is a Fault.
AssertComplete(r) ==
    /\ pc[r] = "planning"
    /\ \/ local[r].unclear /\ Leave(r, "must_ask", "raising")
       \/ ~local[r].unclear /\ Goto(r, "drafting") /\ UNCHANGED local
    /\ UNCHANGED <<status, store, runStatus, events, editor, posted, crashes>>

\* The sections are planned and classified, and the text is written.
Draft(r) ==
    /\ pc[r] = "drafting"
    /\ Goto(r, "counting")
    /\ UNCHANGED <<status, store, runStatus, events, local, editor, posted, crashes>>

CountAttempts(r) ==
    /\ pc[r] = "counting"
    /\ local' = [local EXCEPT ![r].attempt = Len(versions) + 1]
    /\ Goto(r, "inserting")
    /\ UNCHANGED <<status, store, runStatus, events, editor, posted, crashes>>

DraftedVersion(backed) ==
    [backed |-> backed, gate |-> "pending", final |-> FALSE, review |-> FALSE,
     text |-> "drafted", docx |-> TRUE]

\* The attempt number is unique per contract.
InsertVersion(r) ==
    /\ pc[r] = "inserting"
    /\ \/ /\ local[r].attempt \in DOMAIN versions
          /\ Leave(r, "raised", "raising")
          /\ UNCHANGED versions
       \/ /\ local[r].attempt \notin DOMAIN versions
          /\ versions' = Append(versions, DraftedVersion(local[r].backed))
          /\ Goto(r, "validating")
          /\ UNCHANGED local
    /\ UNCHANGED <<status, questions, consent, finalMd, draftMds, exports, runStatus,
                   events, editor, posted, crashes>>

\* Mutant: no gate refuses.
NoVerdict(gate) == "complete"

\* Only a blocker refuses the document.
Verdict(gate) == IF gate = "blocked" THEN "blocked" ELSE "complete"

\* A blocker of either gate blocks; a lesser finding of either flags.
Decision(legal, document) ==
    IF "blocked" \in {legal, document} THEN "blocked"
    ELSE IF "flagged" \in {legal, document} THEN "flagged"
    ELSE "clean"

\* Both gates run over the text this slice drafted.  Their decision is kept
\* with the version so that properties can refer to it; the code keeps it in
\* the outcome.
Finalize(r) ==
    /\ pc[r] = "validating"
    /\ \E legal, document \in Gate \ {"pending"} :
        LET gate == Decision(legal, document) IN
        /\ versions' = [versions EXCEPT ![local[r].attempt].gate = gate]
        /\ local' = [local EXCEPT
                        ![r].outcome = Verdict(gate),
                        ![r].review = (gate = "flagged")]
    /\ Goto(r, "settling")
    /\ UNCHANGED <<status, questions, consent, finalMd, draftMds, exports, runStatus,
                   events, editor, posted, crashes>>

\* An agent, a parser, the phase gate or a database statement raises.
Fault(r) ==
    /\ pc[r] \in {"intent", "resolving", "understanding", "planning", "drafting",
                 "inserting", "validating"}
    /\ Leave(r, "raised", "raising")
    /\ UNCHANGED <<status, store, runStatus, events, editor, posted, crashes>>

\* _check_budget refuses an agent call once the slice has spent its tokens:
\* never its first call, which is the intent agent's.
SpendBudget(r) ==
    /\ pc[r] \in {"understanding", "drafting"}
    /\ Leave(r, "over_budget", "settling")
    /\ UNCHANGED <<status, store, runStatus, events, editor, posted, crashes>>

(***************************************************************************)
(* _apply and _drive                                                       *)
(***************************************************************************)

\* Mutant: only a finalized draft is mirrored.
AfterStatusOfComplete(outcome) == IF outcome = "complete" THEN "mirroring" ELSE "emitting"

\* A draft is mirrored before anyone is told of it.
AfterStatus(outcome) ==
    IF outcome \in {"complete", "blocked"} THEN "mirroring" ELSE "emitting"

SetStatus(r) ==
    /\ pc[r] = "settling"
    /\ status' = ContractStatus(local[r].outcome)
    /\ Goto(r, AfterStatus(local[r].outcome))
    /\ UNCHANGED <<store, runStatus, events, local, editor, posted, crashes>>

\* _mirror_markdown selects the newest version, whoever drafted it, and the
\* other finalized ones.  There is a version: this slice inserted one.
ReadNewest(r) ==
    /\ pc[r] = "mirroring"
    /\ versions # <<>>
    /\ local' = [local EXCEPT ![r].newest = Len(versions),
                              ![r].text = versions[Len(versions)].text,
                              ![r].prior = Finals \ {Len(versions)}]
    /\ Goto(r, "stamping")
    /\ UNCHANGED <<status, store, runStatus, events, editor, posted, crashes>>

\* A blocked draft is mirrored as draft_v{n}.md.
MirrorDraft(r) ==
    /\ pc[r] = "stamping"
    /\ local[r].outcome = "blocked"
    /\ versions' = [versions EXCEPT ![local[r].newest].review = local[r].review]
    /\ draftMds' = draftMds \union {local[r].newest}
    /\ Goto(r, "emitting")
    /\ UNCHANGED <<status, questions, consent, finalMd, exports, runStatus, events,
                   local, editor, posted, crashes>>

\* Mutant: the other finalized versions are not cleared.
StampOnly(r) ==
    LET newest == local[r].newest
    IN
    /\ pc[r] = "stamping"
    /\ local[r].outcome = "complete"
    /\ versions' = [versions EXCEPT ![newest].final = TRUE, ![newest].review = local[r].review]
    /\ finalMd' = [attempt |-> newest, text |-> local[r].text]
    /\ Goto(r, "emitting")
    /\ UNCHANGED <<status, questions, consent, draftMds, exports, runStatus, events,
                   local, editor, posted, crashes>>

\* A completed one becomes final.md: the others are cleared, this one stamped.
MirrorFinal(r) ==
    LET newest == local[r].newest
    IN
    /\ pc[r] = "stamping"
    /\ local[r].outcome = "complete"
    /\ Finals \subseteq local[r].prior \union {newest}
    /\ versions' = [n \in DOMAIN versions |->
                       IF n = newest
                       THEN [versions[n] EXCEPT !.final = TRUE, !.review = local[r].review]
                       ELSE IF n \in local[r].prior
                            THEN [versions[n] EXCEPT !.final = FALSE]
                            ELSE versions[n]]
    /\ finalMd' = [attempt |-> newest, text |-> local[r].text]
    /\ Goto(r, "emitting")
    /\ UNCHANGED <<status, questions, consent, draftMds, exports, runStatus, events,
                   local, editor, posted, crashes>>

\* The unit of work updates the rows in primary-key order, which is random:
\* stamping may come before clearing, and the one-final index refuses it.  It
\* also refuses when another task finalized a version after ReadNewest.
MirrorRefused(r) ==
    /\ pc[r] = "stamping"
    /\ local[r].outcome = "complete"
    /\ ~(Finals \subseteq {local[r].newest})
    /\ Leave(r, "raised", "finishing")
    /\ UNCHANGED <<status, store, runStatus, events, editor, posted, crashes>>

EmitTerminal(r) ==
    /\ pc[r] = "emitting"
    /\ events' = [events EXCEPT ![r] = Append(@, EventOf(local[r].outcome))]
    /\ Goto(r, "finishing")
    /\ UNCHANGED <<status, store, runStatus, local, editor, posted, crashes>>

\* Mutant: a fault propagates without being reported.
PropagateOnly(r) ==
    /\ pc[r] = "raising"
    /\ Goto(r, "finishing")
    /\ UNCHANGED <<status, store, runStatus, events, local, editor, posted, crashes>>

\* run_pipeline reports a genuine fault, then lets it propagate.
EmitError(r) ==
    /\ pc[r] = "raising"
    /\ events' = [events EXCEPT ![r] = Append(@, "error")]
    /\ Goto(r, "finishing")
    /\ UNCHANGED <<status, store, runStatus, local, editor, posted, crashes>>

\* Mutant: the runner reports a fault the pipeline has reported already.
FinishAndReport(r) ==
    /\ pc[r] = "finishing"
    /\ runStatus' = [runStatus EXCEPT ![r] = RunStatusOf(local[r].outcome)]
    /\ events' = IF local[r].outcome = "raised"
                 THEN [events EXCEPT ![r] = Append(@, "error")]
                 ELSE events
    /\ Goto(r, "over")
    /\ UNCHANGED <<status, store, local, editor, posted, crashes>>

\* _finish_run.
FinishRun(r) ==
    /\ pc[r] = "finishing"
    /\ runStatus' = [runStatus EXCEPT ![r] = RunStatusOf(local[r].outcome)]
    /\ Goto(r, "over")
    /\ UNCHANGED <<status, store, events, local, editor, posted, crashes>>

\* The process dies and takes every task and request with it; nothing
\* restarts them.
Crash ==
    /\ crashes < MaxCrashes
    /\ \E r \in Run : pc[r] \in Live
    /\ crashes' = crashes + 1
    /\ pc' = [r \in Run |-> IF pc[r] \in Live THEN "lost" ELSE pc[r]]
    /\ saving' = 0
    /\ exporting' = NoFile
    /\ UNCHANGED <<status, store, runStatus, events, local, posted>>

-----------------------------------------------------------------------------
\* The next step of a run's task.
Step(r) ==
    \/ ReadPending(r) \/ MarkAnswered(r) \/ RecordConsent(r) \/ Decline(r) \/ SetDrafting(r)
    \/ DetermineIntent(r) \/ AskUser(r) \/ Resolve(r) \/ AskConsent(r) \/ Gather(r)
    \/ Understand(r) \/ AssertComplete(r) \/ Draft(r) \/ CountAttempts(r) \/ InsertVersion(r) \/ Finalize(r)
    \/ Fault(r) \/ SpendBudget(r)
    \/ SetStatus(r) \/ ReadNewest(r) \/ MirrorDraft(r) \/ MirrorFinal(r) \/ MirrorRefused(r)
    \/ EmitTerminal(r) \/ EmitError(r) \/ FinishRun(r)

Next ==
    \/ \E r \in Run : CreateContract(r) \/ PostAnswers(r) \/ Step(r)
    \/ SelectFinal \/ SaveDocument
    \/ RenderExport \/ CreateExport
    \/ Crash

Spec == Init /\ [][Next]_vars

\* The event loop schedules every task that can go on, and an agent call
\* returns or raises (its turns are capped).  Users owe nothing.
FairSpec == Spec /\ \A r \in Run : WF_vars(Step(r))

-----------------------------------------------------------------------------
(***************************************************************************)
(* Properties.  Those of the first group assume a client that answers each *)
(* suspension once (Retries = FALSE).                                      *)
(***************************************************************************)

\* The finalized version is one both gates let through, and it is marked for
\* review exactly when they flagged something: _mirror_markdown stamps "the
\* newest version", which must be the one whose verdict the slice carries.
FinalizedPassedGates ==
    \A n \in Finals : /\ versions[n].gate \in {"clean", "flagged"}
                      /\ versions[n].review <=> versions[n].gate = "flagged"

\* No draft rests on the model's knowledge alone unless the user agreed, as
\* long as sources keep what they offer (Lossy = FALSE): the gate only asks
\* whether a decision file exists, not what it says, so the early return of
\* resume_run has to keep every refused slice out of Phase A.
UnbackedHasConsent ==
    \A n \in DOMAIN versions : versions[n].backed \/ consent = "granted"

\* One contract stops for clarification at most max_ask_rounds times, and once
\* more for consent, over all the slices it is drafted in.
AskRoundsBounded ==
    /\ Cardinality({i \in DOMAIN questions : questions[i].kind = "clarification"})
          <= MaxAskRounds
    /\ Len(questions) <= MaxAskRounds + 1

\* Once a client has been told "complete", what it was told of is there: the
\* finalized text in final.md, the blocked draft in its file, or the refusal.
CompleteIsPreviewable ==
    \A r \in Run : events[r] = <<"complete">> =>
        CASE local[r].outcome = "complete" ->
                \E n \in Finals : finalMd = [attempt |-> n, text |-> versions[n].text]
          [] local[r].outcome = "blocked" -> local[r].newest \in draftMds
          [] OTHER -> consent = "declined" /\ versions = <<>>

\* A client that has been told "input_required" can answer: until it does, the
\* contract awaits input and exactly this run's question is outstanding.
InputRequiredIsAnswerable ==
    \A r \in Run : events[r] = <<"input_required">> /\ posted < local[r].asked =>
        status = "awaiting_input" /\ Unanswered = {local[r].asked}

\* A finished run has told its client how it ended, once and truthfully.
RunMatchesEvents ==
    \A r \in Run :
        /\ runStatus[r] = "complete" => events[r] = <<"complete">>
        /\ runStatus[r] = "suspended" => events[r] = <<"input_required">>
        /\ runStatus[r] = "failed" => events[r] = <<"error">>

\* An answer, once recorded, is never overwritten by a later POST: the
\* transcript every later slice is told of rests on it.
AnswersKept == [][\A i \in Answered : questions'[i] = questions[i]]_questions

\* A contract that is ready or has failed stays so: no task is left that
\* would take it back to drafting.
EndedStaysEnded == [][(status \in {"ready", "failed"}) => (status' = status)]_status

\* Every run that was started tells its client how it ended, unless the
\* process dies under it.
EveryRunReports ==
    \A r \in Run : pc[r] \in Live ~> (events[r] # <<>> \/ pc[r] = "lost")

(* The second group holds for any client. *)

\* At most one version is final: the mirrors of two tasks clear each other's.
OneFinalVersion == \A m, n \in Finals : m = n

\* Nothing follows a terminal event on its run.
TerminalOnce == \A r \in Run : Len(events[r]) <= 1

\* An export renders the finalized text as it stands, never the .docx of a
\* text that has been edited since.
ExportIsCurrent ==
    [][exporting' # NoFile =>
          exporting'.attempt \in Finals
          /\ exporting'.text = versions[exporting'.attempt].text]_exporting

(* The third group states what the repository says and the code does not do. *)

\* After max_ask_rounds the contract "must draft with what it has"
\* (core/config.py): the phase gate never refuses it for open questions.
ExhaustedRoundsDraft == \A r \in Run : local[r].outcome # "must_ask"

-----------------------------------------------------------------------------
(***************************************************************************)
(* The conversation these tasks implement.                                 *)
(***************************************************************************)

\* The tasks that still owe the user something.
Working(r) == \/ pc[r] \in Resuming \union PhaseA \union PhaseB
              \/ pc[r] \in Applying /\ local[r].outcome # "awaiting_input"

Turn ==
    CASE status = "none" -> "nobody"
      [] status = "awaiting_input" /\ posted < Len(questions) -> "user"
      [] \E r \in Run : Working(r) \/ pc[r] = "settling" -> "system"
      [] OTHER -> "over"

Document ==
    CASE Finals # {} -> "final"
      [] draftMds # {} -> "draft"
      [] OTHER -> "none"

Told ==
    CASE \E r \in Run : events[r] = <<"complete">> -> "complete"
      [] \E r \in Run : events[r] = <<"error">> -> "error"
      [] OTHER -> "nothing"

Talk == INSTANCE Conversation WITH
            MaxQuestions <- MaxAskRounds + 1, turn <- Turn, answered <- posted,
            decision <- consent, document <- Document, told <- Told

\* With a client that answers each suspension once, the tasks, transactions
\* and crashes above are a conversation in turns that the system keeps going.
ImplementsConversation == Talk!Spec
=============================================================================
