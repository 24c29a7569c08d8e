----------------------------- MODULE Knowledge -----------------------------
(***************************************************************************)
(* How Phase A learns what is known about a contract: the providers that    *)
(* have something to offer are resolved (phase_a/resolver.py), each         *)
(* contributes (phase_a/gather.py), an uploaded template is read by agents  *)
(* whose understanding is a second contribution of the template's           *)
(* (phase_a/pipeline.py), and all of it is merged into the knowledge object *)
(* Phase B drafts from (phase_a/aggregator.py).                             *)
(*                                                                         *)
(* A contribution is the metadata it states and the items it adds to the    *)
(* lists, of which only their provider matters here.                        *)
(***************************************************************************)
EXTENDS Lists

CONSTANTS
    Field,      \* the metadata fields two sources may both state
    Value,      \* what they may state
    Extensions  \* providers that are registered but have no rank, by name

Unstated == "unstated"
Precedence == <<"playbook", "clause_library", "template", "reference", "llm">>

\* The order precedence is given in: a provider without a rank sorts after all
\* that have one, and among those by its name.
Ranking == Precedence \o Extensions
Provider == ToSet(Ranking)

ASSUME KnowledgeAssumption ==
    /\ IsFiniteSet(Field)
    /\ Unstated \notin Value
    /\ Extensions \in Seq(ToSet(Extensions))
    /\ \A i, j \in DOMAIN Ranking : Ranking[i] = Ranking[j] => i = j

PrecedenceOf(name) == CHOOSE i \in DOMAIN Ranking : Ranking[i] = name

Statement == [Field -> Value \cup {Unstated}]
Nothing == [f \in Field |-> Unstated]

\* The providers that may state metadata.  What the template states, its
\* understanding does.
Stating == {"template", "llm"} \cup ToSet(Extensions)

VARIABLES
    available,      \* the providers that have something to offer
    states,         \* the metadata each of them states
    parsed,         \* 02-template.json is there: this attempt's or an earlier one's
    phase,          \* the step Phase A is at
    plan,           \* the resolution plan
    contributions,
    cko             \* no tuple, or the knowledge object

knowledgeVars == <<available, states, parsed, phase, plan, contributions, cko>>

Contribution ==
    [provider : Provider, metadata : Statement, items : Seq(Provider), source : BOOLEAN]

Conflict == [field : Field, winner : Provider, loser : Provider, losing : Value]

KnowledgeTypeOK ==
    /\ available \subseteq Provider
    /\ states \in [Provider -> Statement]
    /\ parsed \in BOOLEAN
    /\ phase \in {"intent", "resolved", "gathered", "understood", "complete", "failed"}
    /\ plan \in Seq(Provider)
    /\ contributions \in Seq(Contribution)
    /\ \A known \in cko :
           /\ known.metadata \in Statement
           /\ known.conflicts \in Seq(Conflict)
           /\ known.items \in Seq(Provider)
           /\ known.source \in BOOLEAN

KnowledgeStart(available0, states0, parsed0) ==
    /\ available = available0 /\ states = states0 /\ parsed = parsed0
    /\ phase = "intent"
    /\ plan = <<>> /\ contributions = <<>> /\ cko = {}

\* The llm provider is always available.  A run that is retried finds the
\* parsed template of an earlier attempt.
KnowledgeInit ==
    \E with \in SUBSET Provider, parsed0 \in BOOLEAN :
        /\ "llm" \in with
        /\ parsed0 => "template" \in with
        /\ \E said \in [with \cap Stating -> Statement] :
               KnowledgeStart(with,
                   [p \in Provider |-> IF p \in DOMAIN said THEN said[p] ELSE Nothing], parsed0)

-----------------------------------------------------------------------------
\* available_providers and order_by_precedence; validate_plan accepts the result.
Resolve ==
    /\ phase = "intent"
    /\ phase' = "resolved"
    /\ plan' = Sorted(SetToSeq(available), LAMBDA p, q : PrecedenceOf(p) < PrecedenceOf(q))
    /\ UNCHANGED <<available, states, parsed, contributions, cko>>

\* What a provider's contribute returns.  The template's has read structure
\* only, so it states nothing and adds to no list.
Contributes(p) ==
    [provider |-> p,
     metadata |-> IF p = "template" THEN Nothing ELSE states[p],
     items    |-> IF p \in {"template", "llm"} THEN <<>> ELSE <<p>>,
     source   |-> p = "template"]

ByAuthority(list) ==
    Sorted(list, LAMBDA c, d : PrecedenceOf(c.provider) < PrecedenceOf(d.provider))

\* All are asked at once, and one that raises is left out.  The template
\* provider saves what it parsed.
Gather ==
    /\ phase = "resolved"
    /\ phase' = "gathered"
    /\ \E failing \in SUBSET (available \ {"llm"}) :
           LET answered == Kept(plan, {i \in DOMAIN plan : plan[i] \notin failing})
           IN  /\ contributions' =
                      ByAuthority([i \in DOMAIN answered |-> Contributes(answered[i])])
               /\ parsed' = (parsed \/ "template" \in available \ failing)
    /\ UNCHANGED <<available, states, plan, cko>>

\* _understand_template_if_present: without the parsed template the run fails.
Understand ==
    /\ phase = "gathered"
    /\ IF "template" \notin ToSet(plan)
       THEN /\ phase' = "understood"
            /\ UNCHANGED contributions
       ELSE IF parsed
       THEN /\ phase' = "understood"
            /\ contributions' = Append(contributions,
                   [provider |-> "template", metadata |-> states["template"],
                    items |-> <<"template">>, source |-> FALSE])
       ELSE /\ phase' = "failed"
            /\ UNCHANGED contributions
    /\ UNCHANGED <<available, states, parsed, plan, cko>>

\* _merge_metadata for one field of one contribution: the first to state it
\* wins, and a later statement of something else is recorded.
MergeField(merged, f, c) ==
    IF c.metadata[f] = Unstated THEN merged
    ELSE IF merged.metadata[f] = Unstated
    THEN [merged EXCEPT !.metadata[f] = c.metadata[f], !.winner[f] = {c.provider}]
    ELSE IF merged.metadata[f] = c.metadata[f] THEN merged
    ELSE [merged EXCEPT !.conflicts = Append(@,
             [field |-> f, winner |-> CHOOSE p \in merged.winner[f] : TRUE,
              loser |-> c.provider, losing |-> c.metadata[f]])]

\* One contribution, field by field
MergeOne(merged, c) == FoldLeft(LAMBDA m, f : MergeField(m, f, c), merged, SetToSeq(Field))

MergeMetadata(ordered) ==
    FoldLeft(MergeOne,
             [metadata |-> Nothing, winner |-> [f \in Field |-> {}], conflicts |-> <<>>],
             ordered)

\* Mutant: the order of arrival is trusted.
AggregateAsGiven(list) ==
    LET merged == MergeMetadata(list)
    IN  [metadata  |-> merged.metadata,
         conflicts |-> merged.conflicts,
         items     |-> FlattenSeq([i \in DOMAIN list |-> list[i].items]),
         source    |-> \E i \in DOMAIN list : list[i].source]

Aggregate(list) ==
    LET ordered == ByAuthority(list)
        merged == MergeMetadata(ordered)
    IN  [metadata  |-> merged.metadata,
         conflicts |-> merged.conflicts,
         items     |-> FlattenSeq([i \in DOMAIN ordered |-> ordered[i].items]),
         source    |-> \E i \in DOMAIN ordered : ordered[i].source]

BuildCko ==
    /\ phase = "understood"
    /\ phase' = "complete"
    /\ cko' = {Aggregate(contributions)}
    /\ UNCHANGED <<available, states, parsed, plan, contributions>>

KnowledgeNext == Resolve \/ Gather \/ Understand \/ BuildCko

-----------------------------------------------------------------------------
\* The places in contributions of those that state the field
StatingField(f) == {i \in DOMAIN contributions : contributions[i].metadata[f] # Unstated}

\* Whoever was asked, failed or was understood late, the knowledge object holds
\* for each field what the source of the highest authority says, records each
\* dissent once and against the value that won, and lists the items of the
\* higher authority first (aggregator.py: the winner "does not depend on the
\* caller having ordered its input correctly").
KnowledgeMerged ==
    \A known \in cko :
        /\ \A f \in Field :
               LET said(i) == contributions[i].metadata[f]
                   rank(i) == PrecedenceOf(contributions[i].provider)
                   dissenting == {i \in StatingField(f) : said(i) # known.metadata[f]}
                   recorded == {k \in DOMAIN known.conflicts : known.conflicts[k].field = f}
               IN  /\ StatingField(f) = {} => known.metadata[f] = Unstated
                   /\ \A i \in dissenting : \E j \in StatingField(f) \ dissenting :
                          /\ rank(j) < rank(i)
                          /\ \A k \in recorded :
                                 known.conflicts[k].winner = contributions[j].provider
                   /\ Cardinality(recorded) = Cardinality(dissenting)
                   /\ {<<known.conflicts[k].loser, known.conflicts[k].losing>> : k \in recorded} =
                          {<<contributions[i].provider, said(i)>> : i \in dissenting}
        /\ \A i, j \in DOMAIN known.items :
               i < j => PrecedenceOf(known.items[i]) <= PrecedenceOf(known.items[j])
=============================================================================
