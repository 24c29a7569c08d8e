------------------------------ MODULE Playbook ------------------------------
(***************************************************************************)
(* The playbook: one YAML file of rules, edited as text or rule by rule     *)
(* (routers/playbook.py), validated before every write, and cached by the   *)
(* provider that hands its requirements to a run                            *)
(* (knowledge/providers/playbook.py).  A rule is its id and whether it      *)
(* carries clause text, which load_rules refuses.                           *)
(***************************************************************************)
EXTENDS Naturals, Sequences, Lists

CONSTANTS
    RuleId,     \* the ids rules are given
    MaxRules    \* bound on the rules of the playbook

ASSUME MaxRulesAssumption == MaxRules \in Nat \ {0}

VARIABLES
    rules,      \* the rules in the file, in order
    loaded,     \* what load_playbook has cached: no tuple or one
    gathered    \* the rules a run was handed, with the file they came from

playbookVars == <<rules, loaded, gathered>>

Rule == [id : RuleId, prose : BOOLEAN]
RuleList == UNION {[1 .. n -> Rule] : n \in 0 .. MaxRules}

\* load_rules: a rule that carries clause text is refused.
Accepted(list) == \A i \in DOMAIN list : ~list[i].prose

PlaybookTypeOK ==
    /\ rules \in RuleList
    /\ loaded \in {{}} \cup {{list} : list \in RuleList}
    /\ gathered \in [rules : RuleList, file : RuleList]

PlaybookInit ==
    /\ rules \in {list \in RuleList : Accepted(list)}
    /\ loaded = {}
    /\ gathered = [rules |-> <<>>, file |-> <<>>]

\* Mutant: the cache is not reset.
WriteRulesCached(list) ==
    /\ Accepted(list)
    /\ rules' = list
    /\ UNCHANGED <<loaded, gathered>>

\* The validation, the write and the reset of the cache, in that order: a list
\* that is refused changes nothing.
WriteRules(list) ==
    /\ Accepted(list)
    /\ rules' = list
    /\ loaded' = {}
    /\ UNCHANGED gathered

\* put_playbook: any text, so also one that repeats an id.
PutPlaybook == \E list \in RuleList : WriteRules(list)

Ids == {rules[i].id : i \in DOMAIN rules}

\* The first rule with this id, which is the one edit_rule replaces.
IndexOf(id) ==
    CHOOSE i \in DOMAIN rules :
        rules[i].id = id /\ \A j \in 1 .. i - 1 : rules[j].id # id

AddRule ==
    \E rule \in Rule :
        /\ rule.id \notin Ids
        /\ Len(rules) < MaxRules
        /\ WriteRules(Append(rules, rule))

\* The new rule carries an id of its own, which nothing compares with the rest.
EditRule ==
    \E id \in Ids, rule \in Rule :
        WriteRules([rules EXCEPT ![IndexOf(id)] = rule])

\* remove_rule takes every rule with the id.
RemoveRule ==
    \E id \in Ids :
        WriteRules(Kept(rules, {i \in DOMAIN rules : rules[i].id # id}))

\* load_playbook under functools.cache
LoadPlaybook == IF loaded = {} THEN rules ELSE CHOOSE list \in loaded : TRUE

\* The provider's available and contribute: the run is handed what is cached.
GatherRules ==
    /\ loaded' = {LoadPlaybook}
    /\ gathered' = [rules |-> LoadPlaybook, file |-> rules]
    /\ UNCHANGED rules

PlaybookNext == PutPlaybook \/ AddRule \/ EditRule \/ RemoveRule \/ GatherRules

PlaybookSpec == PlaybookInit /\ [][PlaybookNext]_playbookVars

-----------------------------------------------------------------------------
\* A run is handed the rules that are in the file, none of which carries clause
\* text: whatever editors send, no write reaches the disk unvalidated or leaves
\* the cache behind (the provider: "a gate, not advice").
PolicyInForce ==
    /\ gathered.rules = gathered.file
    /\ Accepted(gathered.rules)
=============================================================================
