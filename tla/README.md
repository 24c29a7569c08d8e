# Clause-Craft: specification of the drafting service

Clause-Craft turns a request into a contract. A FastAPI backend runs a pipeline
of agent calls in asyncio tasks, keeps everything it knows in Postgres, and
streams each run's events to a browser. These modules specify what those tasks,
transactions, retries and reconnects do together. Paths below are relative to
`backend/` unless they say otherwise.

- [The system](#the-system): components, state, interactions, what is hard
- [The modules](#the-modules): state and actions against the code
- [The runs](#the-runs): what each checks, bounds, fairness
- [The proofs](#the-proofs): theorems, assumptions, the argument
- [Where the repository disagrees with itself](#where-the-repository-disagrees-with-itself)
- [Not modelled](#not-modelled) and [the plan](#the-plan)

## The system

| component | state it keeps | operations | what makes it correct |
|---|---|---|---|
| **API of a contract** `api/routers/contracts.py`, `exports.py` | rows `contracts`, `contract_versions`, `exports` | create, answer, save document, patch variables, export | answers are accepted only when asked for; an export shows the finalized text as it stands |
| **Run slices** `api/runner.py`, `api/pipeline_adapter.py`, `pipeline.py` | row `runs`, one asyncio task per run | `launch_*`, `start_run`, `resume_run`, `_apply`, `_mirror_markdown`, `_finish_run` | every run ends, is told of once and truthfully; what is finalized passed the gates |
| **Run events** `api/events.py`, `routers/runs.py`, `frontend/lib/api.ts` | row per event in `run_events`, in-process doorbells, the client's `lastSeq` | `emit`, `replay`, `stream_run_events`, `streamRun` | everyone reads one log, in order, each event once, to its end |
| **Phase A** `phase_a/` | artifacts `01`-`04`, `pending_questions`, the consent file | `determine_intent`, `resolve`, `_require_consent_if_unbacked`, `gather`, `aggregate` | it asks boundedly often; nothing unbacked is drafted without consent; precedence decides conflicts |
| **Phase B** `phase_b/` | artifacts `05`-`09`, `contract_versions` | `plan_draft`, `plan_transformation`, `draft`, `validate_*`, `finalize` | an attempt number is used once; one blocker refuses the document |
| **Workspace and ledger** `workspace/` | `workspace_files`, counts over versions and questions | `write`, `edit`, `put_clause`, `count_*` | writers of a contract are serialised; approved clauses are read-only; counters survive a slice |
| **Runtime** `runtime/`, `core/run_context.py` | token counters of one slice | `run`, `run_many`, `GATEWAY.ask` | spending stops at the ceiling; a question is durable before the slice unwinds |
| **Clause library** `clauselib/`, `routers/clauses.py` | Markdown files, a process-wide cache | load, upsert, delete | the cache never outlives a write; versions grow |
| **Playbook** `routers/playbook.py`, `knowledge/providers/playbook.py` | one YAML file, a process-wide cache | put, add, edit, remove, contribute | what a run is handed is what is in force |
| **Memory** `memory/` | `memory_facts`, append-only | remember, supersede, forget | the history of a key can be followed; a conflict is never overwritten |
| **Contract intelligence** `phase_b/intelligence.py` | an in-process cache with a TTL | `analyze`, `invalidate_cache` | no stale analysis after an edit |
| **Deep-agent path** `subagents/orchestrator/`, `tools/finalize_tool.py` | the same rows, an SDK session | `_run_slice`, `finalize_contract` | best passing draft wins, once |
| **Pure invariants** `invariants/`, `phase_a/aggregator.py`, `knowledge/` | none | selection, ranking, precedence, text and DOCX checks | their definitions |
| **Frontend pages, prompts, schemas, storage, migrations** | - | - | - |

### How they interact

`POST /contracts` and `POST /contracts/{id}/answers` insert a `runs` row, spawn a
task and return at once. The task (`_drive`) calls `start_run` or `resume_run`,
which open **one transaction after another with awaits between them**. Phase A
may stop the slice: the gateway commits a `pending_questions` row and raises
`SuspendRun`; `run_pipeline` turns it into the outcome `awaiting_input`. An
answered contract starts *from the beginning* in a new slice, which knows of the
earlier ones only what the database says: the questions answered, the consent
file, the versions. `_apply` writes the contract's status, mirrors the draft into
the workspace, and publishes the terminal event; `_finish_run` closes the row.
Meanwhile the browser follows `run_events` through SSE and the user may save and
export the finalized document.

### What is hard

- *Interleaving.* Nothing locks a contract for a slice. The 409 check of POST
  answers and the marking of the questions are different transactions, so two
  posts can both be accepted and two slices of one contract overlap, each reading
  state ("the newest version", "the finalized ones", "the next attempt") that the
  other changes before it is used. The memory table and the variables column are
  read and written back the same way.
- *Crashes.* Tasks live in memory only. A crash between any two transactions
  leaves the rows as they are, and nothing resumes them.
- *Partial failure.* A slice can fail before, in or after the pipeline; only the
  middle one reports itself. A clause is promoted before the load that refuses it.
- *Caches.* The library, the playbook and the analysis of a document are cached in
  the process, and each writer has to remember to drop them.
- *Delivery.* Doorbells reach one process; connections drop with frames under way.
- *Limits.* Ask rounds, tokens, attempts are counted over the ledger, or per slice.
- *Order.* What drafting makes of its inputs must not depend on the order providers
  answer in, on ties, or on which block of an uploaded document is edited first.

`PROJECT.json` lists every such hazard at its line, with the properties that
would catch it.

## The modules

| module | what it is |
|---|---|
| `Conversation` | abstract: a contract as a conversation in turns between user and system |
| `ContractRuns` | the contract, its run slices, the editor's endpoints; refines `Conversation` |
| `MCContractRuns` | `ContractRuns` for TLC: symmetry of runs, or runs that start in order |
| `ContractRunsProofs`, `ContractTurnsProofs` | theorems about `ContractRuns`: what holds under retries, what a careful client adds, and the refinement |
| `EventFeed` | abstract: a log that each client reads in order to its terminal event |
| `RunEvents`, `RunEventsProofs` | publisher, doorbells, streams, reconnecting clients; refines `EventFeed`, and is proved to |
| `ClauseLibrary` | the clause files, their cache, their editors, and a draft made from them |
| `Playbook` | the rules file, its four edits and the provider's cache |
| `MemoryFacts` | the append-only facts, under overlapping requests |
| `ReviewDesk` | the variables of a contract under review and the cached analysis of its document |
| `Stores`, `StoresProofs` | composes the four stores above into one specification; theorems about it |
| `DraftGates` | the deterministic gates, the score and the choice of the final draft, as operators |
| `DeepAgent`, `MCDeepAgent`, `DeepAgentProofs` | the supervisor agent's slices and tools, on `DraftGates`; its instance for TLC; theorems |
| `Knowledge` | resolution, gathering, the template's understanding and the merge by authority |
| `ClauseChoice` | the recommendation of a clause for each slot |
| `ContractDocument`, `MCContractDocument` | a contract built without a template, and its two renderings; its instance for TLC |
| `TemplateEdit` | the edit of an uploaded document in place, and the fidelity comparison |
| `LeakGate` | words shared with reference documents |
| `DraftingSteps` | composes the five drafting steps above into one specification |
| `DocumentProofs`, `DraftingProofs` | theorems about `DraftingSteps`: the two ways to a document; the merge, the ranking, the copied words and the types |
| `Lists`, `ListsProofs` | Python's `sorted()` and the comprehension that keeps some elements; what they, folds and insertions do to lists of every length |

### ContractRuns

One contract; `Run` is the set of runs it can have. Each action is one database
transaction of one task, or an agent call up to its next transaction.

| variable | code |
|---|---|
| `status` | `contracts.status` (`"none"` before the row exists) |
| `questions` | `pending_questions` of the contract in `created_at` order: kind, whether answered, what the body said about consent |
| `consent` | the file `consent/model-knowledge.json` |
| `versions` | `contract_versions`, attempt = index: backed by reviewed text or not, `finalized_at`, `needs_human_review`, whose text, `docx_storage_key` set or not. `gate` is the verdict on that draft; the code keeps it in the outcome, the model keeps it with the draft so that a property can compare them |
| `finalMd`, `draftMds` | `final.md` and the `draft_v{n}.md` files |
| `exports` | rows of `exports` (by version and text; an equal digest is reused) |
| `runStatus`, `events` | `runs.status`; the terminal events of each run (the others are in `RunEvents`) |
| `pc`, `local` | where each task is, and its locals: the pending rows it selected, the attempt it counted, its outcome, the version it is mirroring |
| `saving`, `exporting` | a save or export request between its select and its commit |
| `posted`, `crashes` | bookkeeping of the environment: questions at the last accepted POST, crashes so far |

| actions | code |
|---|---|
| `CreateContract`, `PostAnswers` | the two POSTs with their 409s, `new_run`, `_spawn` |
| `ReadPending`, `MarkAnswered`, `RecordConsent`, `Decline`, `SetDrafting` | `resume_run`, statement by statement; `ReadPending` raises when nothing is pending |
| `DetermineIntent`, `AskUser` | `determine_intent`: clear, doubtful or unclear; `_asked_enough` over the ledger; `SuspendingGateway.ask` |
| `Resolve`, `AskConsent` | resolution (backed or not), the consent gate with its fixed call id |
| `Gather`, `Understand` | the providers, of which one that raises is dropped, so that a backed plan may be left without its backing (`Lossy`); the template's agents and the aggregation |
| `AssertComplete`, `Draft` | the phase gate, before any agent of Phase B; the two plans and the text |
| `CountAttempts`, `InsertVersion` | `_record`: its count, and its insert under the unique attempt |
| `Finalize`, `Decision` | both gates, each clean, flagged or blocked |
| `Fault`, `SpendBudget` | an exception out of an agent, a parser, the phase gate or a statement; `CostCeilingExceeded`, which the first call of a slice (the intent agent's) never meets and which `gather` swallows |
| `SetStatus`, `ReadNewest`, `MirrorDraft`, `MirrorFinal`, `MirrorRefused`, `EmitTerminal` | `_apply` and `_mirror_markdown`. `MirrorFinal` needs that no version was finalized since it selected; `MirrorRefused` is the unique violation, from another task or from the unit of work's own (random) update order |
| `EmitError`, `FinishRun` | `run_pipeline`'s report of a genuine fault; `_finish_run` |
| `SelectFinal`/`SaveDocument`, `RenderExport`/`CreateExport` | the two endpoints, each at its await |
| `Crash` | the process dies: every task and request is lost, every row stays |

The agents' answers, provider availability and gate findings are
nondeterministic, so the properties hold whatever a model returns. `Retries`
says whether a client may post answers again before it is asked again: the
frontend disables its form after one, the API does not. `Lossy` says whether a
source that was available may contribute nothing.

### RunEvents

The publisher commits (`Commit`) and then rings (`Ring`), and may end in between
(`EndSilently`). A stream subscribes and replays (`Connect`, `Replay`), yields
frame by frame (`Yield`), and waits (`StartTailing`, `Wake`: a ring **or** the
idle timeout). A client reads (`Read`), skips what it has, stops at a terminal
event, loses its connection with the frames under way (`Drop`), or leaves
(`Abort`). Clients in `Remote` are served by a process where the doorbell never
rings. The rendezvous of `queue.get` with the next replay is one step of `Wake`;
the number of waiting rings is kept, as in the queue.

### The stores: ClauseLibrary, Playbook, MemoryFacts, ReviewDesk

The four share no state, so a behaviour of `Stores` picks one and the others rest:
the run explores the sum of their behaviours and not the product. Each is a
module with its own specification, and can be checked alone.

| variable | code |
|---|---|
| `files`, `cache` | `clauses/<type>/*.md`; the `lru_cache` of `load_library`. A clause is its version, order and required flag |
| `draft` | a drafting run: the clauses it rendered, whether its draft is blocked, selected or final; and, of the model, the clauses editors have written since it was selected |
| `rules`, `loaded`, `gathered` | `playbook.yaml`; the provider's cache; what a run was handed, with the file at that moment |
| `facts`, `request` | rows of `memory_facts`; what each request under way has read |
| `variables` | `contracts.variables`, by canonical name |
| `page`, `recording` | PATCH and intelligence requests, and `_record_contract_variables`, between their read and their write |
| `analysis`, `cached` | the intelligence cache. `overtaken` is the model's: the values changed while the answer was awaited |

| actions | code |
|---|---|
| `LookUp`, `CreateClause`, `UpdateClause`, `RemoveClause` | `routers/clauses.py`, with the 404, 409 and 422 as a `LookUp`. A create may name an existing clause in another spelling, since it is looked up before it is lower-cased |
| `WriteClause` | `upsert_clause` from the version to the re-read: no await, hence one step |
| `RenderClauses`, `SelectDraft`, `CommitFinal` | the tools of a drafting run that reads the library twice. A handler of `routers/clauses.py` does not await, but `finalize_contract` does, between its check and its commit |
| `PutPlaybook`, `AddRule`, `EditRule`, `RemoveRule`, `GatherRules` | `routers/playbook.py` and the provider |
| `ReadLive`, `ReadAll` | the select of remember, supersede, forget, forget_all |
| `RememberNew`, `RememberKnown`, `Supersede`, `Forget` | their writes; `InsertFact` is the insert under `uq_memory_facts_live` |
| `PatchRead`, `PatchCommit`, `InvalidateCache`; `RecordRead`, `RecordCommit` | the two writers of the variables; only the first drops the cache |
| `AnalyseMiss`, `Analysed`, `ExpireCache` | `analyze` around its model call; the time to live |

### DeepAgent

The older path (`subagents/orchestrator/`): `api/runner.py` no longer starts it,
its code, tools and tests are all there. Which tool the supervisor calls is free;
what a call does is the code's.

| variable | code |
|---|---|
| `status`, `type` | columns of `contracts` |
| `clauses` | the read-only area `clauses/`: the values each clause was rendered with |
| `versions` | `contract_versions` with score, final, review flag, tokens; `text` says what the draft makes of each clause |
| `question` | `pending_questions` |
| `slice` | each task: where it is; its `RunContext` (`type`, `tokens`, the loop guard's `log`) and turns; the call under way with what it has read |
| `told`, `exports` | terminal events; rows of `exports` with the clauses their appendix lists |
| `spent` | bookkeeping: what all slices have counted |

`StartRun`, `ReadPending`, `MarkAnswered`, `Rehydrate` are `start_run`,
`resume_run` and `rehydrate_counters`; `RenderClauses`, `DraftBegin`/`DraftEnd`,
`JudgeBegin`/`RecordScore`, `SelectDraft`/`CommitFinal`, `ExportDocx`, `AskUser`
are the tools, in two steps where they wait for a sub-agent or commit twice;
`SubAgentFails`, `Break` are the ways out; `Answer`, `SetStatus`, `Finish` end a
slice. The agents' files and todo lists, and the supervisor's own tokens, are
left out; the judge's two reads of the rendered clauses are one step.

### The drafting steps

Each step takes what it is handed and keeps nothing, so `DraftingSteps` picks one
at the start, over all inputs within the bounds.

| module | state | actions | code |
|---|---|---|---|
| `Knowledge` | what is `available` and `states` what; the artifacts `plan`, `contributions`, `cko`; whether the template was ever `parsed` | `Resolve`, `Gather` (any provider but the model may raise), `Understand`, `BuildCko` | `resolver.py`, `gather.py`, `phase_a/pipeline.py`, `aggregator.py` |
| `ClauseChoice` | the `candidates` in the order of the knowledge object, the `recommended` set | `RecommendClauses` | `knowledge/providers/clause_library.py`, `recommendation.py`, `ranking.py` |
| `ContractDocument` | `draftPlan`, the sections to `add`, the `document`, both `rendered` forms | `PlanTransformation`, `BuildContractDocument` (any sections left undrafted, any clauses gone from the library), `DraftModeOne` | `planning.py`, `document.py`, `docx_build.py` |
| `TemplateEdit` | the `source` blocks, the `decisions`, the `edited` blocks, the `report` | `PlanDecisions` (any of the agent's), `ApplyTransformation` | `docx_parse.py`, `docx_edit.py`, `docx_fidelity.py` |
| `LeakGate` | `draft`, `references`, `findings` | `ReferenceLeakage` | `leakage.py`, `validation_legal.py` |

`sorted()` is stated by what it promises: `Sorted` puts each element after as many
as are ahead of it, those with an equal key by their place, and `Kept` is the same
for the elements that stay. `Knowledge` ranks all providers at once (`Ranking`): those of
`PRECEDENCE` and after them the registered `Extensions`, by name, which is the key
`(precedence_of(name), name)` of the registry, of the plan and of the merge.

A value "no tuple, or one" is a set of at most one element. A section's name
stands for its heading and its text, a block for its style, text and number; a
word is a word. Runs of characters, list markers and page layout are left out.

## The runs

| run | question | bounds | distinct states |
|---|---|---|---|
| `contract_runs` | safety, termination and refinement with a client that answers each suspension once, saves and exports | 3 runs started in order, 1 ask round, 1 export, 1 crash | 58,694 |
| `contract_runs_retries` | what survives overlapping slices and saves | 3 runs, 1 ask round, retries, symmetry | 1,614,702 |
| `run_events` | delivery under drops, two processes, a dying publisher | 2 clients, 3 events, 2 drops | 57,788 |
| `stores` | the stores under their editors and readers | 3 clauses, 2 orders, 2 versions; 2 rules; 2 requests, 2 keys, 3 rows; 2 page requests; symmetry of the drafted clauses, the orders and the page requests | 1,523,695 |
| `deep_agent` | slices of the supervisor that overlap, suspend and fail | 3 slices of 3 turns, 2 types, 2 attempts | 1,434,894 |
| `drafting_steps` | the drafting steps against their definitions | 2 fields and 2 values of 6 providers; 4 library clauses and 2 classified; 3 sections; 3 blocks and 1 added; 5 words against 2 texts of 4 | 1,212,653 |
| `retry_finalizes_blocked`, `ask_rounds_exhausted`, `lost_source_unasked`, `clause_library_unreadable`, `deep_agent_spend`, `bespoke_section_jumps` | violations, see below | as above | until found |

Why the bounds are enough.

- *Contract runs.* With one clarification round and the consent question a
  contract stops at most twice, so three runs are the longest honest
  conversation: create, answer, answer. Under retries three runs give two slices
  that overlap, which is what every race here needs: each is between one slice's
  read and another's write. Runs are interchangeable, so starting them in order loses
  no behaviour but its renamings. One crash suffices since a crash takes every task and
  nothing restarts them.
- *Run events.* Three events put a drop before, between and after frames, two drops
  let a reconnect fail again, and two clients put one in each process.
- *Stores.* Two clauses of the drafted type can collide in their order, the third is
  of another type and may share it; two versions are an edit. Two rules can repeat
  an id. Two requests of each kind are a race; three rows are a fact, its
  replacement and the replacement of that; with three requests and five rows
  `HistoryLeadsOn` holds as well.
- *Deep agent.* Two types with one required clause each make a rendering of the
  second visible in the first; two attempts and three slices put a resumed and an
  overlapping slice at the limit. Three turns are a rendering, a draft and a
  finalization in one slice, and the slices share the rows.
- *Drafting steps.* Two values are a conflict and two fields keep two of them apart;
  every set of providers is taken, with one that has no rank. Three blocks are a
  donor, a removed and a kept one, twins included. Shards of two words and runs of
  three are the smallest at which a run is longer than a shard, and five words hold
  overlapping runs of both references.

What `contract_runs` checks:

- `FinalizedPassedGates`: a final version passed *its own* gates and carries their review flag.
- `UnbackedHasConsent`: no draft from model knowledge alone unless the user agreed, while sources keep what they offer.
- `AskRoundsBounded`: at most `MaxAskRounds` clarifications, one consent question, over all slices.
- `CompleteIsPreviewable`: when a client is told "complete", the file is there and agrees with the row.
- `InputRequiredIsAnswerable`: when it is told "input_required", POST answers accepts exactly that question.
- `RunMatchesEvents`: the run's final status and its one terminal event agree.
- `ExportIsCurrent`: an export is rendered from the finalized text as it stands.
- `AnswersKept`, `EndedStaysEnded`: recorded answers are not overwritten, a closed contract does not reopen.
- `EveryRunReports` (liveness): every run publishes how it ended, unless the process died.
- `ImplementsConversation`: all of it is the conversation of `Conversation`, liveness included.

`AnswersKept`, `RunMatchesEvents` and `EveryRunReports` are about the client that answers
each suspension once: what two posts at a time do is the next run's, and that of
`retry_finalizes_blocked`.

What `contract_runs_retries` checks: `OneFinalVersion`, and `TerminalOnce` of the
pipeline's report and the end of a run's row, which overlapping slices do not share.

What `run_events` checks: `NoMissedRing` (a stream that waits without a ring has
yielded the whole log, unless its publisher is gone or in another process),
`ImplementsFeed`, and `EveryClientTold` (liveness: a client that stays learns how the run ended, if it ever did).

What `stores` checks:

- `CacheIsDisk`, `PolicyInForce`: no write, refused or not, leaves an older library
  or playbook with its readers, and no rule with clause text reaches a run.
- `DraftOrderTotal`, `FinalHasRequired`: a draft never comes from a library whose
  order is ambiguous, and what becomes final has what is required at that moment, but
  for the clauses written while `_commit` awaits the database. The exemption is the
  code's: `finalize_contract` does not look again.
- `EditsBumpVersion`: while the library loads, every replacement of a clause raises its
  version by one.
- `HistoryLeadsOn`, `RetiredStaysRetired`, `ReplacedKnowingly`: a superseded fact points
  at a later one of its key, past another only if a fact in between was forgotten, and
  what is recalled was told last; a stale request revives nothing and replaces only what
  it has read.
- `StaleOnlyIfOvertaken`, `RunKeepsConfirmed`: only a change *during* the model call
  or the run's own record leaves a stale analysis; a confirmed value survives the
  run's record unless the two overlap. Neither says anything of the overlap itself,
  which loses the value or caches what is stale (see
  [below](#where-the-repository-disagrees-with-itself)).

What `deep_agent` checks: `AttemptsBounded` over all slices; `FinalStays`, that the
attempt which became final stays the only final one and its review flag changes only
when a slice that selected the same attempt commits it (its score may change: a judge
scores the newest version, final or not); and `FinalIsComplete`: whatever is rendered, judged and finalized in whichever order, a
final document has no placeholder and has verbatim what some type requires. It need
not be the type the contract now has: a rendering between selection and commit
changes that.

What `drafting_steps` checks:

- `KnowledgeMerged`: the highest authority that states a field wins, each dissent is
  recorded once, lists come in order of authority.
- `ChoiceIsBest`: nothing is lost, the best score is chosen, ties do not depend on
  the order of the library.
- `NothingDropped`: every planned section comes out once, and the text the gates
  read is the DOCX's.
- `KeptAsTheyWere`, `ReportedIsDone`: an edit leaves what is to be kept as it was,
  in order, save for the numbers after the execution page, which the fidelity gate
  sees exactly; and it did what it reports, save for additions beside a removed donor.
- `CopiedRunsReported`: any copied run as long as the limit lies in one reported
  passage, and nothing is reported that is not in shared shards.

Fairness. `FairSpec` (and `InOrder`, its instance for TLC) is weakly fair to each
run's task: the event loop schedules what is ready, and an agent call ends since
its turns are capped and the SDK's HTTP calls time out. Users and crashes get none. `RunEvents` is weakly fair to
each client's chain of steps: a wait of `stream_run_events` times out by
construction, and `streamRun` retries after a second, forever. Drops are bounded,
which stands for "the network is up long enough eventually". The publisher gets
none: a run may stay silent. `Stores`, `DeepAgent` and `DraftingSteps` state
safety only and assume no fairness: people edit when they like, and the supervisor
may stop calling tools at any time.

`CHECK_DEADLOCK FALSE`: a contract that is ready, a run all clients have read, a
crashed process, a slice that is over and a drafting step that is done really stop.
The stores never do, and `Stores.cfg` checks it.

## The proofs

TLAPS (SMT, Zenon, PTL) proves the following for **every** value of the constants,
not only for those of the runs: any finite set of runs, requests, clients or slices,
any bounds, texts of any length.

| module | theorem | states | assumes |
|---|---|---|---|
| `ContractRunsProofs` | `TypeCorrect` | `[]TypeOK` | |
| | `OneFinal` | `[]OneFinalVersion` | |
| | `ReportsOnce` | `[]TerminalOnce` | |
| | `ExportsFollowEdits` | `ExportIsCurrent` | |
| | `GatesBeforeFinal` | `[]FinalizedPassedGates` | `Retries = FALSE` |
| `ContractTurnsProofs` | `EndedForGood` | `EndedStaysEnded` | `Retries = FALSE` |
| | `AskingIsBounded` | `[]AskRoundsBounded` | `Retries = FALSE` |
| | `AnswersAreKept` | `AnswersKept` | `Retries = FALSE` |
| | `NothingUnsourced` | `[]UnbackedHasConsent` | `Retries = FALSE`, `Lossy = FALSE` |
| | `ReportsAreTrue` | `[]RunMatchesEvents` | `Retries = FALSE` |
| | `CompletionsArePreviewable` | `[]CompleteIsPreviewable` | `Retries = FALSE` |
| | `SuspensionsAreAnswerable` | `[]InputRequiredIsAnswerable` | `Retries = FALSE` |
| | `TalksInTurns` | `Conversation`'s `Init` and `[][Next]` under the mapping | `Retries = FALSE` |
| `RunEventsProofs` | `TypeCorrect` | `[]TypeOK` | |
| | `NoRingMissed` | `[]NoMissedRing` | |
| | `FeedsInOrder` | `ImplementsFeed` | |
| `DeepAgentProofs` | `TypeCorrect` | `[]TypeOK` | |
| | `FinalsAreComplete` | `[]FinalIsComplete` | |
| | `AttemptsAreBounded` | `AttemptsBounded` | |
| | `FinalsStay` | `FinalStays` | |
| `StoresProofs` | `StoresTyped` | `[]TypeOK` | |
| | `CacheFollowsDisk`, `DraftsAreOrdered` | `[]CacheIsDisk`, `[]DraftOrderTotal` | |
| | `EditsBump`, `FinalsHaveRequired` | `EditsBumpVersion`, `FinalHasRequired` | |
| | `RunsFollowPolicy` | `[]PolicyInForce` | |
| | `HistoryIsKept`, `RetiredForGood` | `[]HistoryLeadsOn`, `RetiredStaysRetired` | |
| | `ReplacedOnlyKnowingly` | `ReplacedKnowingly` | |
| | `StaleOnlyWhenOvertaken`, `ConfirmedIsKept` | `[]StaleOnlyIfOvertaken`, `RunKeepsConfirmed` | |
| `DraftingProofs` | `DraftingTyped` | `[]TypeOK` | |
| | `AuthorityDecides` | `[]KnowledgeMerged` | |
| | `TheBestIsChosen` | `[]ChoiceIsBest` | |
| | `PassagesAreInTheDraft` | `[]LeakTypeOK` | |
| | `CopiesAreReported` | `[]CopiedRunsReported` | |
| `DocumentProofs` | `NoSectionIsDropped` | `[]NothingDropped` | |
| | `KeptBlocksComeBack` | `[]KeptAsTheyWere` | |
| | `TheReportIsTrue` | `[]ReportedIsDone` | |

With them every safety invariant and every action property that a passing run checks is
proved.

All use the named assumptions of the modules: bounds are natural numbers, the sets of
clauses, of requests and of metadata fields are finite, a limit on copied words is no
shorter than a shard, no name of a provider is registered twice, the library's orders
are positive. Each holds of the code by a constant, a type or a registry's refusal.
`Retries = FALSE` is the client the frontend is (its form is disabled after one
answer); without it these need not hold, and `retry_finalizes_blocked` shows one of
them failing. `Lossy = FALSE` is what `lost_source_unasked` shows to be needed.

### ContractRuns

- *TypeCorrect* has one step per action; the store's sequences need that
  `ReadNewest` never meets an empty `versions` and that attempts are appended.
- *OneFinal* and *ExportsFollowEdits* share `FinalInv`: one version at most is
  final, and a version that still has its `.docx` has the drafted text. Only
  `MirrorFinal` finalizes, and its guard (the unique index) says that what is
  final by then is among what it clears. Drafting sets text and `.docx`, saving
  changes both.
- *ReportsOnce*: `EventsInv` adds that a run's log is empty until its task is past
  publishing ("finishing", "over" or "lost").
- *GatesBeforeFinal* is false with retries, so its invariant `GateInv` has to say why
  one careful client is enough. `OneActive`: at most one task is between its start
  and its last write. `TurnInv`: while it is, nothing can be posted, since every
  question has been posted for, or the task is about to write the status of a
  question it has just asked. `DraftInv`: a task past its insert owns the last
  version, that version's gate is pending until the task's own gates report, and its
  outcome and review flag are that version's from then on. So "the newest version"
  of `_mirror_markdown` is the task's own.
- *EndedForGood* strengthens the turns (`TurnsInv`): a task that owes the user
  something, if only the status of a question it has asked, is the only one, and a
  run that was told of the end has none beside it that is still working. What is left
  over a closed contract is a mirror, which writes no status.
- *AskingIsBounded*, *AnswersAreKept* and *SuspensionsAreAnswerable* rest on
  `QuestionsInv`: questions are answered in order and at most one is not; a
  clarification is among the first `MaxAskRounds` questions, because it is asked only
  when fewer were answered and nothing is unanswered then; and a task that has
  suspended knows its question as the last until the next POST. The bound alone is
  not inductive: it needs that no task asks while another question waits.
- *NothingUnsourced* and *CompletionsArePreviewable* rest on `DocumentInv` and
  `SourceInv`: there is no version before the one that is drafted, none after a
  refusal, a save finds a final version only, and whoever mirrors writes a file that
  agrees with the row, also with a save in flight. `SourceInv` carries "backed or
  consented" from the plan to the insert.
- *ReportsAreTrue*: `ReportInv` ties a run's event, outcome and row together at each
  point after the outcome is known.
- *TalksInTurns* shows each action to be a step of `Conversation` or a stutter under
  the mapping (`Turn`, `Document`, `Told`), from all of the above. It is
  `ImplementsConversation` without its fairness, which TLC checks.

### RunEvents

`LogInv` numbers the log and puts its terminal event last. `StreamInv` says that what
a page has rendered, what is on the wire and what is in the replayed batch are three
consecutive pieces of the log, so that `Last-Event-ID` is the length of the first:
a drop loses the second and third, and a reconnect replays from where the page is.
`RingInv` is the doorbell's: while the publisher works, a local stream that has not
replayed everything has a ring waiting, also one that is in the middle of its batch,
since `stream_run_events` subscribes before it replays. `FeedsInOrder` is the whole
refinement of `EventFeed`, which states no fairness.

### DeepAgent

`AgentInv` adds to the types what a slice that waits in a tool call relies on when it
continues (`SliceInv`): a call that judges has found versions, one about to commit has
chosen an attempt that exists, has a score in 0..100 and *whole*: without
placeholders and verbatim in what some type requires. Since `versions` are only added
to and their texts never rewritten, that still holds when it commits, whatever the
others have rendered, judged or finalized. `LedgerInv` bounds the attempts: overlapping
slices may count the same attempt, but each has counted one within the limit, and the
unique attempt number refuses any insert but the next. It also has at most one attempt
final, which is what `FinalsStay` needs: a commit finds the final attempt to be its own,
or none. The lemmas on `DraftGates` (`ScoreBounded`, `ChoosesEligible`)
are about every finite library and every verdict of the gates.

### The stores

`LibraryInv`: the cache, if any, is the files; a draft's clauses came from files
that loaded; and a selected draft has what the files require, but for the clauses written
since (`SelectedHasRequired`), which a write extends by the one clause it touches and a
removal only makes easier. `PolicyInv`: the same of the rules, and what is in the file was accepted.
`MemoryInv`: the history; of each request that will insert, that it has read at most one
row of its one key (a live row is the last of its key, `LiveIsLast`); and *room*: the rows
and the requests that may still insert one fit the bound. The rest is one fact
about every step (`FactStep`): rows are appended or retired, never rewritten, one row at
most is pointed elsewhere, and a row that replaces a live one comes from a supersede that
has read it. `HistoryIsKept` turns on `ForgottenBetween`: a stale supersede may point a row
past others of its key; the last of those is not live, or the insert would have been
refused, and not superseded, or it would not be the last, so it was forgotten. `DeskInv`: a
request that is not marked overtaken has read what the variables now are, and the
cached analysis is of the current values or marked.

`StoresTyped` needs, beyond the types themselves, that removing rules from a list of at
most `MaxRules` leaves such a list (`RulesRemoved`), from what `Kept` is.

### Lists of every length

The drafting steps sort, keep, fold, flatten and insert, and what they promise is about
lists of any length. Induction over data being out of reach, `ListsProofs` gets there
by three ways around it.

- *Counting.* `Arranged` is not a recursion: the k-th element is the one with k - 1 ahead
  of it. When "ahead" is a strict total order of the places, counting is a bijection
  (`PlacesTaken`, `TakesEach`), so `Sorting` and `Keeping` give back a list of the same elements,
  each as often as before (`TakenCounts`), in the order asked for.
- *A least counterexample.* `Upwards`: if something holds at 0 and each step keeps it, it
  holds up to n, by the least number where it would not. It takes a *set* of numbers, hence no
  operator as a parameter.
- *Functions for folds.* `FoldLeft` is defined by a recursive function over sets of
  places. `Folding` shows that such a function exists and `Looping` does so for a loop's, step by
  step; each fold of the models then gets a lemma that names its intermediate results
  (`MergesFieldByField`, `AddsOneByOne`, `Flattening`), and `Upwards` carries what is to hold
  from one to the next.

### The drafting steps

Each step computes its result in one action, so what is hard is not that the invariant is
inductive but that the result has the property. The invariants say that a result is what
the operator makes of inputs that have not changed since, and what those inputs are.

- *AuthorityDecides*: `KnowledgeInv` adds that the plan names a provider once and that of
  two contributions of one provider at most one states metadata: the template contributes
  twice, but its first contribution has read structure only. Without it two statements of
  equal rank could disagree, and "the highest authority" would name none of them. `FieldMerged` is the
  loop invariant of the merge for one field: the value is the first one stated so far, and
  the conflicts recorded for the field are, one by one, the later places that say something
  else, against the winner's name. `MergeFieldThis` carries it over one contribution,
  `MergeFieldOthers` says that another field's turn does not disturb it, `MergeAll` is the fold over
  the sorted contributions.
- *TheBestIsChosen*: `ChoiceInv`. Score and id order the candidates, and the order of the
  places settles the rest, so `RankingReorders` has `Sorting`'s conditions; counts then go
  through the slot and through the ranking (`SlotCounts`).
- *NoSectionIsDropped*: `DocumentInv`. Both sortings keep how often each name occurs
  (`AddedOnce`, `ClauseForEach`), and `TextIsDocx` shows that the counter of `document_to_text`
  runs as Word's numbering does, whatever of the clauses was drafted.
- *KeptBlocksComeBack*, *TheReportIsTrue*: `TemplateInv` keeps, for an edited list, how it
  came about (`Results`): the elements of the source that were left are in it in their order
  (`Carries`), among them the added ones, and a number was only taken behind the execution page.
  `AddingCarries` is the step for one ADD, and counts those that find their donor. `IdsDiffer` and
  `GateReportsChanges` are about the fidelity gate: ids are unique in every document, and
  where no block has a twin each id still leads to the same block after the edit. With
  twins this is false, see below.
- *CopiesAreReported*: `LeakInv` says that a finding is `FindLeaks` of the two texts. The lemmas
  are the argument for scanning in shards: words that are copied are covered shard by shard,
  the last one by a shard that ends with the run (`CopiesAreCovered`); covered places that lie
  together are within one maximal run (`RunAround`, from the least start and the greatest end);
  and a shard that meets a maximal run lies within it (`RunHolds`).
- *DraftingTyped* follows from these invariants.

### Only model-checked

- *Liveness and fairness*: `EveryRunReports`, `EveryClientTold`, and the fairness of
  `Conversation`. The prover has no ENABLED.
- The six runs that end in a violation are counterexamples and have nothing to prove.

## Where the repository disagrees with itself

Each of these is a run that TLC must find violated.

1. **`retry_finalizes_blocked`.** `resume_run`'s docstring promises that a retried
   POST "does not start a second run". Two accepted posts start two slices, and
   the one whose draft passed finalizes the newest version, which the other's
   gates have just refused (`api/pipeline_adapter.py:161`).
2. **`ask_rounds_exhausted`.** After `max_ask_rounds` a contract "must draft with
   what it has" (`core/config.py:62`). If the intent agent still reports open
   questions the phase gate refuses the run (`invariants/phase_gate.py:35`).
3. **`lost_source_unasked`.** Phase A promises to ask "before drafting a contract
   nothing but the model can vouch for" (`phase_a/pipeline.py:79`). It asks when
   nothing was *available*; a source that contributes nothing afterwards (its
   clauses deleted meanwhile, or dropped by `gather` for raising) goes unnoticed.
4. **`clause_library_unreadable`.** "the library on disk is always one the drafting
   engine can read" (`api/routers/clauses.py:82`). A new clause is parsed alone; the
   order it shares with another is noticed by the load *after* it is in place
   (`clauselib/writer.py:146`), and from then on no load succeeds.
5. **`deep_agent_spend`.** "a resume cannot reset" the budget
   (`tests/test_orchestrator.py:368`). The ledger has the drafts' tokens, not the
   judge's (`workspace/ledger.py:58`): a suspended contract gets those back.
6. **`bespoke_section_jumps`.** Sections without library backing "don't jump around
   unpredictably" (`phase_b/document.py:111`). They are keyed 0, 1, 2 among library
   orders of 10, 20, 30, so all of them move to the front, although the plan
   (`phase_b/planning.py:125`) has just put them behind.

Seen while modelling, without a run of their own:

- A saved edit is exportable without having passed a gate, where
  `workspace/models.py:225` says no such row can exist.
- "It cannot emit a contract that is missing a required clause" (the repository's
  `README.md:9`): a clause that becomes required while `_commit` awaits the database is
  not looked for (`tools/finalize_tool.py:104`). `FinalHasRequired` exempts exactly those.
- A slice's exception is "already emitted as an `error` event" (`api/runner.py:64`).
  `resume_run` raises before the pipeline, which would emit it, when no question is left
  to mark (`api/pipeline_adapter.py:287`): with `Retries`, the second of two accepted
  posts fails and its client is told nothing.
- `superseded_by` is "never updated in place" (`memory/models.py:78`). A supersede updates
  the row it has read, by its id (`memory/store.py:165`): if that row has been superseded
  meanwhile and its replacement forgotten, the pointer moves on to a third row.
  `HistoryLeadsOn` bounds where to.
- "existing values win" (`api/pipeline_adapter.py:147`), unless a PATCH commits them
  between the read and the write of the run's own record.
- The cached analysis is dropped "whenever the document changes", a variable update
  included (`phase_b/intelligence.py:119`). One that was under way is cached afterwards,
  and the run's own record of the variables drops nothing.
- A final version that scored below the pass mark is flagged, "never silently"
  (`workspace/models.py:199`). The judge scores the newest version also when it is final
  (`subagents/judge/judge_agent.py:160`), and leaves the flag.
- `term_end_date`, once derived, is stored and does not follow a later change of the
  duration (`core/variable_aliases.py:109`).
- `EditRule` compares the new id with nothing, and PUT playbook accepts a repeated id;
  a later delete of that id takes both.
- A forget that raced a supersede tombstones the old row; the new value stays.
- `_donor` promises "the nearest preceding paragraph" and takes the last of the whole
  document with that style (`invariants/docx_edit.py:101`); a section added beside a
  donor that was removed is reported as added and is in no document.
- "signature page" anywhere in a clause starts the execution block
  (`invariants/docx_edit.py:121`), and every later number is stripped.
- A block's id counts its twins before it, so removing one twin renames the next:
  `KeptAsTheyWere` speaks of the fidelity gate only where there are no twins.
- The fidelity gate is never called: `finalize` gets no documents (`phase_b/engine.py:78`).
- A candidate without a clause id, that is a template's, wins every tie against the
  library's (`invariants/ranking.py:117`), against the order of precedence. An NDA's
  `confidentiality` and `obligations` clauses, both required, share one slot.
- A template provider that fails on a retry leaves the template parsed earlier: its
  understanding is merged but there is no `source_storage_key`.

## Not modelled

- *Database or connection errors* outside the pipeline's own try (a fourth way to end
  without an event); cancellation of a request between a row's commit and the
  spawned task.
- *The workspace store's lock and `edit`*: agents' files are read by agents only, and
  no property depends on their contents. *`run_many`*: the understanding and the
  reference provider use it; that a batch overshoots the ceiling by at most itself is
  documented at `runner.py:184` as intended.
- *The structure gates* (`invariants/structure.py`, `export.py`, `dates.py`): functions
  of one text. `ContractRuns` has every verdict they can give.
- *Replicate and uploads*: several contracts that share nothing, and blobs.
- *The clause assistant's endpoints* write nothing.
- *Prompts, schemas, settings, storage, migrations, pages.*

Text is data throughout. In `ContractRuns` `versions[n].text` has two values since a
save overwrites any earlier one; in `DraftGates` a draft says of each clause whether
it is absent, reworded or verbatim; in `TemplateEdit` a block's text is untouched,
drafted, or mentions the execution page.

## The plan

1. *Done.* The models: `Conversation`, `ContractRuns`, `EventFeed`, `RunEvents`, the four
   stores, the deep agent, the five drafting steps.
2. *Done.* The proofs: `ContractRuns` and its refinement, `RunEvents`, the deep agent, the
   stores, the drafting steps. No safety property of a passing run is left without a theorem.
3. *Out of the prover's reach*: liveness, and fairness under refinement. They stay with TLC.
4. *If the model is to grow*: the hazards of `PROJECT.json` that have a note instead of a
   property, of which the workspace's `edit`, which reads before it takes the contract's lock,
   comes first.
