----------------------------- MODULE ReviewDesk -----------------------------
(***************************************************************************)
(* A drafted contract on the review page (routers/contracts.py): the       *)
(* values known about it, which the run records (pipeline_adapter), the    *)
(* page updates and every clause is rendered with; and the analysis of its *)
(* document (phase_b/intelligence.py), a model call whose answer is cached *)
(* until the values change.                                                *)
(*                                                                         *)
(* A request reads the contract's row, may wait for a model, and writes the*)
(* whole `variables` column back: nothing is locked in between.            *)
(***************************************************************************)
EXTENDS Naturals

CONSTANTS
    Page,       \* the requests under way at a time
    Date,       \* effective dates, in years
    Years       \* durations

ASSUME DateAssumption == Date \subseteq Nat \ {0} /\ Years \subseteq Nat \ {0}

VARIABLES
    variables,  \* Contract.variables, by canonical name; 0 where a name is unset
    page,       \* what each request does, and the values it has read
    recording,  \* the run's own write of what it has extracted
    analysis,   \* the cached analysis: the values it saw, and whether they changed
                \* while the model was asked or by the run's own record
    cached      \* is there one?

deskVars == <<variables, page, recording, analysis, cached>>

Name == {"effective_date", "duration_years", "term_end_date"}
TermEnd == {date + years : date \in Date, years \in Years}
Variables ==
    {v \in [Name -> {0} \cup Date \cup Years \cup TermEnd] :
        /\ v["effective_date"] \in {0} \cup Date
        /\ v["duration_years"] \in {0} \cup Years
        /\ v["term_end_date"] \in {0} \cup TermEnd}
Unset == [n \in Name |-> 0]

\* Two maps merged; the first wins where it says something.
Over(first, second) == [n \in Name |-> IF first[n] # 0 THEN first[n] ELSE second[n]]

\* Mutant: the term ends where it begins.
ResolveToStart(v) ==
    IF v["term_end_date"] = 0 /\ v["effective_date"] # 0 /\ v["duration_years"] # 0
    THEN [v EXCEPT !["term_end_date"] = v["effective_date"]]
    ELSE v

\* resolve_variables: the end of the term is derived when it is not stored and
\* both of what it follows from are.
ResolveVariables(v) ==
    IF v["term_end_date"] = 0 /\ v["effective_date"] # 0 /\ v["duration_years"] # 0
    THEN [v EXCEPT !["term_end_date"] = v["effective_date"] + v["duration_years"]]
    ELSE v

\* What anyone states: a date, a duration or both, never the end of the term.
Stated == {v \in Variables : v["term_end_date"] = 0 /\ v # Unset}

AtRest == [doing |-> "idle"]

DeskTypeOK ==
    /\ variables \in Variables
    /\ page \in [Page -> {AtRest}
            \cup [doing : {"patching"}, read : Variables, values : Variables]
            \cup [doing : {"cleared"}]
            \cup [doing : {"analysing"}, read : Variables, overtaken : BOOLEAN]]
    /\ recording \in {AtRest}
            \cup [doing : {"recording"}, read : Variables, values : Variables,
                  overtaken : BOOLEAN]
    /\ analysis \in [saw : Variables, overtaken : BOOLEAN]
    /\ cached \in BOOLEAN

-----------------------------------------------------------------------------
DeskInit ==
    /\ variables = Unset
    /\ page = [p \in Page |-> AtRest]
    /\ recording = AtRest
    /\ analysis = [saw |-> Unset, overtaken |-> FALSE]
    /\ cached = FALSE

\* update_contract_variables reads the contract ...
PatchRead(p) ==
    /\ page[p] = AtRest
    /\ \E values \in Stated :
        page' = [page EXCEPT ![p] =
            [doing |-> "patching", read |-> variables,
             values |-> ResolveVariables(values)]]
    /\ UNCHANGED <<variables, recording, analysis, cached>>

Overtake(p) == IF page[p].doing = "analysing" THEN [page[p] EXCEPT !.overtaken = TRUE]
               ELSE page[p]

\* Mutant: the cache is not dropped.
PatchOnly(p) ==
    /\ page[p].doing = "patching"
    /\ variables' = Over(page[p].values, page[p].read)
    /\ page' = [q \in Page |-> IF q = p THEN AtRest ELSE Overtake(q)]
    /\ recording' = IF recording = AtRest THEN AtRest ELSE [recording EXCEPT !.overtaken = TRUE]
    /\ UNCHANGED <<analysis, cached>>

\* ... and commits what it has read under what it was given, ...
PatchCommit(p) ==
    /\ page[p].doing = "patching"
    /\ variables' = Over(page[p].values, page[p].read)
    /\ page' = [q \in Page |-> IF q = p THEN [doing |-> "cleared"] ELSE Overtake(q)]
    /\ recording' = IF recording = AtRest THEN AtRest ELSE [recording EXCEPT !.overtaken = TRUE]
    /\ UNCHANGED <<analysis, cached>>

\* ... then drops every cached analysis.
InvalidateCache(p) ==
    /\ page[p].doing = "cleared"
    /\ page' = [page EXCEPT ![p] = AtRest]
    /\ cached' = FALSE
    /\ analysis' = [saw |-> Unset, overtaken |-> FALSE]
    /\ UNCHANGED <<variables, recording>>

\* _record_contract_variables: what is stored wins over what the run extracted.
RecordRead ==
    /\ recording = AtRest
    /\ \E values \in Stated :
        recording' = [doing |-> "recording", read |-> variables,
                      values |-> ResolveVariables(values), overtaken |-> FALSE]
    /\ UNCHANGED <<variables, page, analysis, cached>>

\* Mutant: what the run extracted wins.
RecordOver ==
    /\ recording # AtRest
    /\ variables' = Over(recording.values, recording.read)
    /\ recording' = AtRest
    /\ page' = [p \in Page |-> Overtake(p)]
    /\ analysis' = [analysis EXCEPT !.overtaken = cached]
    /\ UNCHANGED cached

\* The cache is not dropped here.
RecordCommit ==
    /\ recording # AtRest
    /\ variables' = Over(recording.read, recording.values)
    /\ recording' = AtRest
    /\ page' = [p \in Page |-> Overtake(p)]
    /\ analysis' = [analysis EXCEPT !.overtaken = cached]
    /\ UNCHANGED cached

\* analyze, when the document has no analysis: the model is asked.
AnalyseMiss(p) ==
    /\ page[p] = AtRest /\ ~cached
    /\ page' = [page EXCEPT ![p] =
            [doing |-> "analysing", read |-> ResolveVariables(variables),
             overtaken |-> FALSE]]
    /\ UNCHANGED <<variables, recording, analysis, cached>>

\* The answer is cached and served; a failed call serves nothing (502).
Analysed(p) ==
    /\ page[p].doing = "analysing"
    /\ \/ /\ cached' = TRUE
          /\ analysis' = [saw |-> page[p].read, overtaken |-> page[p].overtaken]
       \/ UNCHANGED <<analysis, cached>>
    /\ page' = [page EXCEPT ![p] = AtRest]
    /\ UNCHANGED <<variables, recording>>

\* The time to live passes.
ExpireCache ==
    /\ cached
    /\ cached' = FALSE
    /\ analysis' = [saw |-> Unset, overtaken |-> FALSE]
    /\ UNCHANGED <<variables, page, recording>>

DeskNext ==
    \/ \E p \in Page :
        \/ PatchRead(p) \/ PatchCommit(p) \/ InvalidateCache(p)
        \/ AnalyseMiss(p) \/ Analysed(p)
    \/ RecordRead \/ RecordCommit
    \/ ExpireCache

DeskSpec == DeskInit /\ [][DeskNext]_deskVars
-----------------------------------------------------------------------------
(***************************************************************************)
(* Properties                                                              *)
(***************************************************************************)

\* The cached analysis is of the contract's current values once every update has
\* dropped the cache, unless they changed while the model was asked or were
\* recorded by the run: no other order of the calls leaves a stale one
\* (intelligence.invalidate_cache).
StaleOnlyIfOvertaken ==
    cached /\ analysis.saw # ResolveVariables(variables) =>
        analysis.overtaken \/ \E p \in Page : page[p].doing = "cleared"

\* A value the user has confirmed outlives the run's own record of what it
\* extracted, unless the two overlapped (_record_contract_variables, "existing
\* values win").
RunKeepsConfirmed ==
    [][recording # AtRest /\ recording' = AtRest /\ ~recording.overtaken =>
        \A n \in Name : variables[n] # 0 => variables'[n] = variables[n]]_deskVars
=============================================================================
