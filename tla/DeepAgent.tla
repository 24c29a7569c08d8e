------------------------------ MODULE DeepAgent ------------------------------
(***************************************************************************)
(* The supervisor agent of one contract (subagents/orchestrator/           *)
(* deep_agent.py) and the tools it calls: clauses are rendered into the    *)
(* workspace, a sub-agent drafts, another judges, one draft is finalized    *)
(* and exported, and a question to the user ends the slice.  Which tool is  *)
(* called next is the model's choice; what a call may do is the code's.     *)
(*                                                                         *)
(* A slice's calls come one after the other; a call that waits for a        *)
(* sub-agent, or commits in a second transaction, takes two steps, and the  *)
(* slices of a client that answers twice overlap.  A run of a sub-agent     *)
(* costs one unit of the budget, the supervisor's own turns are below one.  *)
(* The files agents write for each other are left out: a draft is any text. *)
(***************************************************************************)
EXTENDS DraftGates, Sequences, SequencesExt

CONSTANTS
    Slice,          \* start_run and the resume_runs that may follow
    ContractType,
    Clause,
    ClausesOf,      \* the library: the clauses of each contract type, ...
    RequiredOf,     \* ... and those it cannot do without
    Value,          \* what the clauses are rendered with
    Text,           \* what a draft may say
    JudgePoints,
    MaxAttempts,    \* settings.max_draft_attempts
    MaxTurns,       \* settings.max_turns
    MaxTokens,      \* settings.max_total_tokens
    Retries         \* may a client post the answers again while a slice runs?

ASSUME LimitsAssumption ==
    /\ MaxAttempts \in Nat \ {0} /\ MaxTurns \in Nat \ {0} /\ MaxTokens \in Nat
    /\ JudgePoints \subseteq 0 .. JudgeMax /\ Retries \in BOOLEAN
ASSUME LibraryAssumption ==
    /\ IsFiniteSet(Clause)
    /\ ClausesOf \in [ContractType -> (SUBSET Clause) \ {{}}]
    /\ \A type \in ContractType : RequiredOf[type] \subseteq ClausesOf[type]
    /\ Text \subseteq [body : [Clause -> {"absent", "reworded"} \cup Value], blanks : BOOLEAN]

VARIABLES
    status,     \* Contract.status
    type,       \* Contract.contract_type, "none" before the first rendering
    clauses,    \* the read-only area: the values each clause was rendered with
    versions,   \* contract_versions, by attempt
    question,   \* pending_questions, by the slice that has asked
    slice,      \* each slice: where it is, and what it keeps in its RunContext
    told,       \* the terminal event each has published
    exports,    \* export rows: the attempt, and the clauses its appendix lists
    spent       \* units the contract's slices have counted, all in all

vars == <<status, type, clauses, versions, question, slice, told, exports, spent>>

Version == [text : Text, score : {NotJudged} \cup 0 .. 100, final : BOOLEAN,
            review : BOOLEAN, tokens : {1}]
NoClauses == [c \in {} |-> "none"]
Rendered == UNION {[subset -> Value] : subset \in SUBSET Clause}

\* RunContext: contract_type, tokens, the calls render_clauses has had; the
\* turns taken; and the call under way, with what it has read
Idle == [at |-> "idle"]
Calling(s, call) == slice[s].at = call

TypeOK ==
    /\ status \in {"intake", "drafting", "awaiting_input", "ready", "failed"}
    /\ type \in {"none"} \cup ContractType
    /\ clauses \in Rendered
    /\ versions \in Seq(Version)
    /\ question \in [Slice -> {"none", "open", "answered"}]
    /\ \A s \in Slice : slice[s].at \in {"idle", "resuming", "rehydrating", "choosing",
            "drafting", "judging", "committing", "stopping", "reporting", "over"}
    /\ told \in [Slice -> {"nothing", "complete", "input_required", "error"}]
    /\ \A e \in exports : e.attempt \in DOMAIN versions /\ e.appendix \in Rendered
    /\ spent \in Nat

-----------------------------------------------------------------------------
Init ==
    /\ status = "intake"
    /\ type = "none"
    /\ clauses = NoClauses
    /\ versions = <<>>
    /\ question = [s \in Slice |-> "none"]
    /\ slice = [s \in Slice |-> Idle]
    /\ told = [s \in Slice |-> "nothing"]
    /\ exports = {}
    /\ spent = 0

Move(s, to) == slice' = [slice EXCEPT ![s] = to]
Alive(s) == slice[s].at \notin {"idle", "over"}

\* start_run, once for a contract
StartRun(s) ==
    /\ slice = [q \in Slice |-> Idle]
    /\ Move(s, [at |-> "rehydrating"])
    /\ UNCHANGED <<status, type, clauses, versions, question, told, exports, spent>>

Open == {q \in Slice : question[q] = "open"}

\* A client that was asked answers, and resume_run reads the open questions; it
\* locks nothing, so another may have read them too.
ReadPending(s) ==
    /\ slice[s] = Idle
    /\ \E q \in Open : told[q] = "input_required"
    /\ Retries \/ \A q \in Slice : ~Alive(q)
    /\ Move(s, [at |-> "resuming", found |-> Open])
    /\ UNCHANGED <<status, type, clauses, versions, question, told, exports, spent>>

MarkAnswered(s) ==
    /\ Calling(s, "resuming")
    /\ question' = [q \in Slice |-> IF q \in slice[s].found THEN "answered" ELSE question[q]]
    /\ status' = "drafting"
    /\ Move(s, [at |-> "rehydrating"])
    /\ UNCHANGED <<type, clauses, versions, told, exports, spent>>

LedgerTokens == FoldLeft(LAMBDA sum, v : sum + v.tokens, 0, versions)

\* rehydrate_counters, at the start of _run_slice
Rehydrate(s) ==
    /\ Calling(s, "rehydrating")
    /\ Move(s, [at |-> "choosing", type |-> type, tokens |-> LedgerTokens,
                log |-> [call \in ContractType \X Value |-> 0], turns |-> 0])
    /\ UNCHANGED <<status, type, clauses, versions, question, told, exports, spent>>

\* The supervisor's next turn: it calls a tool, which does `change` to its
\* context, or answers.
Turn(s) == Calling(s, "choosing") /\ slice[s].turns < MaxTurns
Taken(s) == [slice[s] EXCEPT !.turns = @ + 1]
Waiting(s, call, found) == [at |-> call, context |-> Taken(s), found |-> found]
Back(s) == slice[s].context
Stop(as, event) == [at |-> "stopping", status |-> as, event |-> event]

\* loop_guard: the third identical call within a slice is refused.
GuardAllows(s, call) == slice[s].log[call] < 2

\* render_clauses: every clause of the type into the read-only area, and the
\* type on the contract; the clauses of another type stay where they are.
RenderClauses(s) ==
    /\ Turn(s)
    /\ \E t \in ContractType, v \in Value :
        /\ GuardAllows(s, <<t, v>>)
        /\ clauses' = [c \in DOMAIN clauses \cup ClausesOf[t] |->
                            IF c \in ClausesOf[t] THEN v ELSE clauses[c]]
        /\ type' = t
        /\ Move(s, [Taken(s) EXCEPT !.type = t, !.log[<<t, v>>] = @ + 1])
    /\ UNCHANGED <<status, versions, question, told, exports, spent>>

\* A turn that changes nothing: a tool that reads, or one that refuses
NothingDone(s) ==
    /\ Turn(s)
    /\ Move(s, Taken(s))
    /\ UNCHANGED <<status, type, clauses, versions, question, told, exports, spent>>

OverBudget(s) == slice[s].tokens >= MaxTokens

\* _check_budget, in front of every run of a sub-agent: the signal ends the slice.
RunSubAgent(s, call, found) ==
    /\ Move(s, IF OverBudget(s) THEN Stop("failed", "error") ELSE Waiting(s, call, found))
    /\ UNCHANGED <<status, type, clauses, versions, question, told, exports, spent>>

NextAttempt == Len(versions) + 1

\* Mutant: the limit is off by one.
DraftOnceMore(s) ==
    /\ Turn(s)
    /\ Len(versions) <= MaxAttempts
    /\ RunSubAgent(s, "drafting", NextAttempt)

\* run_drafting_agent: the attempt is counted in the ledger, ...
DraftBegin(s) ==
    /\ Turn(s)
    /\ NextAttempt <= MaxAttempts
    /\ RunSubAgent(s, "drafting", NextAttempt)

NewVersion(text) == [text |-> text, score |-> NotJudged, final |-> FALSE,
                     review |-> FALSE, tokens |-> 1]
Charged(context) == [context EXCEPT !.tokens = @ + 1]

\* ... and what the sub-agent has written is inserted, unless another slice has
\* used the number (uq_contract_versions_attempt).
DraftEnd(s) ==
    /\ Calling(s, "drafting")
    /\ \E text \in Text :
        versions' = IF slice[s].found = NextAttempt
                    THEN Append(versions, NewVersion(text)) ELSE versions
    /\ Move(s, Charged(Back(s)))
    /\ spent' = spent + 1
    /\ UNCHANGED <<status, type, clauses, question, told, exports>>

\* A sub-agent that leaves no draft, or one that fails: nobody counts its tokens.
SubAgentFails(s) ==
    /\ slice[s].at \in {"drafting", "judging"}
    /\ slice[s].at = "judging" => slice[s].found.runs
    /\ \/ /\ Calling(s, "drafting")
          /\ Move(s, Charged(Back(s)))
          /\ spent' = spent + 1
       \/ /\ Move(s, Back(s))
          /\ UNCHANGED spent
    /\ UNCHANGED <<status, type, clauses, versions, question, told, exports>>

\* load_rendered_clauses and required_clause_ids; both fail before a rendering.
Ready(s) == slice[s].type # "none" /\ clauses # NoClauses
Required(s) == RequiredOf[slice[s].type]

\* run_judge_agent: the gates on the newest version; a blocked one costs nothing.
JudgeBegin(s) ==
    /\ Turn(s) /\ Ready(s) /\ versions # <<>>
    /\ LET text == Last(versions).text
           blocked == ~Passes(text, clauses, Required(s))
           points == {ScoreDraft(text, clauses, Required(s), p) : p \in JudgePoints}
       IN IF blocked
          THEN /\ Move(s, Waiting(s, "judging",
                        [runs |-> FALSE, scores |-> {ScoreDraft(text, clauses, Required(s), 0)}]))
               /\ UNCHANGED <<status, type, clauses, versions, question, told, exports, spent>>
          ELSE RunSubAgent(s, "judging", [runs |-> TRUE, scores |-> points])

\* _record: whichever version is the newest now gets the score.
RecordScore(s) ==
    /\ Calling(s, "judging")
    /\ \E score \in slice[s].found.scores :
        versions' = [versions EXCEPT ![Len(versions)].score = score]
    /\ Move(s, IF slice[s].found.runs THEN Charged(Back(s)) ELSE Back(s))
    /\ spent' = IF slice[s].found.runs THEN spent + 1 ELSE spent
    /\ UNCHANGED <<status, type, clauses, question, told, exports>>

Finals == {a \in DOMAIN versions : versions[a].final}

Choice(s) ==
    LET a == SelectFinalizable(versions, clauses, Required(s)) IN
    [attempt |-> a, score |-> ScoreOf(versions[a], clauses, Required(s))]

\* finalize_contract: nothing is final yet, and a draft passes the gates anew ...
SelectDraft(s) ==
    /\ Turn(s) /\ Ready(s) /\ Finals = {}
    /\ Eligible(versions, clauses, Required(s)) # {}
    /\ Move(s, Waiting(s, "committing", Choice(s)))
    /\ UNCHANGED <<status, type, clauses, versions, question, told, exports, spent>>

\* Mutant: no partial unique index.
MayAnyBeFinal(a) == a \in DOMAIN versions

MayBeFinal(a) == Finals \subseteq {a}

\* ... and _commit stamps it, unless another version is final by now
\* (uq_contract_versions_one_final): the tool then reports an error.
CommitFinal(s) ==
    /\ Calling(s, "committing")
    /\ LET chosen == slice[s].found IN
        IF MayBeFinal(chosen.attempt)
        THEN /\ versions' = [versions EXCEPT ![chosen.attempt] =
                    [@ EXCEPT !.final = TRUE, !.score = chosen.score,
                              !.review = chosen.score < PassScore]]
             /\ status' = "ready"
        ELSE UNCHANGED <<versions, status>>
    /\ Move(s, Back(s))
    /\ UNCHANGED <<type, clauses, question, told, exports, spent>>

\* export_docx of the version finalize_contract has named; the same bytes are
\* stored once.
ExportDocx(s) ==
    /\ Turn(s) /\ clauses # NoClauses
    /\ \E a \in Finals : exports' = exports \cup {[attempt |-> a, appendix |-> clauses]}
    /\ Move(s, Taken(s))
    /\ UNCHANGED <<status, type, clauses, versions, question, told, spent>>

\* Mutant: the status takes the name of the event.
AskUserByEvent(s) ==
    /\ Turn(s)
    /\ question' = [question EXCEPT ![s] = "open"]
    /\ Move(s, Stop("input_required", "input_required"))
    /\ UNCHANGED <<status, type, clauses, versions, told, exports, spent>>

\* ask_user: the question is committed before the signal unwinds the slice.
AskUser(s) ==
    /\ Turn(s)
    /\ question' = [question EXCEPT ![s] = "open"]
    /\ Move(s, Stop("awaiting_input", "input_required"))
    /\ UNCHANGED <<status, type, clauses, versions, told, exports, spent>>

\* The supervisor answers without calling a tool: the slice is complete.
Answer(s) ==
    /\ Turn(s)
    /\ Move(s, Stop("ready", "complete"))
    /\ UNCHANGED <<status, type, clauses, versions, question, told, exports, spent>>

\* MaxTurnsExceeded, or any other exception out of the runner
Break(s) ==
    /\ Calling(s, "choosing")
    /\ Move(s, Stop("failed", "error"))
    /\ UNCHANGED <<status, type, clauses, versions, question, told, exports, spent>>

\* _set_status ...
SetStatus(s) ==
    /\ Calling(s, "stopping")
    /\ status' = slice[s].status
    /\ Move(s, [at |-> "reporting", event |-> slice[s].event])
    /\ UNCHANGED <<type, clauses, versions, question, told, exports, spent>>

\* ... and _finish, which publishes the terminal event
Finish(s) ==
    /\ Calling(s, "reporting")
    /\ told' = [told EXCEPT ![s] = slice[s].event]
    /\ Move(s, [at |-> "over"])
    /\ UNCHANGED <<status, type, clauses, versions, question, exports, spent>>

Work(s) ==
    \/ MarkAnswered(s) \/ Rehydrate(s)
    \/ RenderClauses(s) \/ NothingDone(s)
    \/ DraftBegin(s) \/ DraftEnd(s) \/ SubAgentFails(s)
    \/ JudgeBegin(s) \/ RecordScore(s)
    \/ SelectDraft(s) \/ CommitFinal(s) \/ ExportDocx(s)
    \/ AskUser(s) \/ Answer(s) \/ Break(s)
    \/ SetStatus(s) \/ Finish(s)

Next == \E s \in Slice : StartRun(s) \/ ReadPending(s) \/ Work(s)

Spec == Init /\ [][Next]_vars
-----------------------------------------------------------------------------
(***************************************************************************)
(* Properties                                                              *)
(***************************************************************************)

\* The ledger outlives every slice: however often the user is asked, and however
\* slices overlap, no more drafts are recorded than max_draft_attempts, and what
\* was recorded is never rewritten (workspace/ledger.py).
AttemptsBounded ==
    [][/\ Len(versions') <= MaxAttempts
       /\ \A a \in DOMAIN versions :
            a \in DOMAIN versions' /\ versions'[a].text = versions[a].text]_vars

\* Once a version is final it stays the only one, and how it was flagged changes
\* only when a slice that had selected the same attempt commits it once more
\* (finalize_tool.py, uq_contract_versions_one_final).  Its score may change: a
\* judge scores whichever version is the newest, final or not.
FinalStays ==
    [][\A a \in Finals :
        /\ Finals' = {a}
        /\ versions'[a].review # versions[a].review =>
            \E s \in Slice : Calling(s, "committing") /\ slice[s].found.attempt = a]_vars

\* Whatever slices render, judge and finalize, a final document has no
\* placeholder left and holds, word for word, every clause some contract type
\* cannot do without (finalize_tool.py, "The only way to produce a contract").
FinalIsComplete ==
    \A a \in Finals :
        /\ ~versions[a].text.blanks
        /\ \E t \in ContractType : \A c \in RequiredOf[t] : versions[a].text.body[c] \in Value

\* What a contract's slices count stays within one ceiling, however often the
\* run is suspended: a judge's run is not in the ledger, and neither is a
\* draft's that was not recorded. "the budget is rehydrated from the ledger, so a
\* resume cannot reset it" (tests/test_orchestrator.py).
BudgetSurvivesResume == spent <= MaxTokens
=============================================================================
