---------------------------- MODULE DraftingSteps ----------------------------
(***************************************************************************)
(* The steps of drafting that no model decides: merging what the sources    *)
(* know, choosing a clause for each slot, assembling a document or editing  *)
(* the uploaded one, and looking for copied words.  Each takes what is      *)
(* handed to it and shares no state with the others, so a behaviour works   *)
(* on one of them, which it chooses at the start.                           *)
(***************************************************************************)
EXTENDS Knowledge, ClauseChoice, MCContractDocument, TemplateEdit, LeakGate, TLC

VARIABLE step       \* the one that is worked on

Init ==
    /\ step \in {"knowledge", "choice", "document", "template", "leaks"}
    /\ IF step = "knowledge" THEN KnowledgeInit
       ELSE KnowledgeStart({"llm"}, [p \in Provider |-> Nothing], FALSE)
    /\ IF step = "choice" THEN ChoiceInit ELSE candidates = <<>> /\ recommended = {}
    /\ IF step = "document" THEN DocumentInit ELSE DocumentStart(<<>>)
    /\ IF step = "template" THEN TemplateInit ELSE TemplateStart(<<>>)
    /\ IF step = "leaks" THEN LeakInit
       ELSE draft = <<>> /\ references = [r \in Ref |-> <<>>] /\ findings = {}

Next ==
    /\ UNCHANGED step
    /\ \/ /\ step = "knowledge" /\ KnowledgeNext
          /\ UNCHANGED <<choiceVars, documentVars, templateVars, leakVars>>
       \/ /\ step = "choice" /\ ChoiceNext
          /\ UNCHANGED <<knowledgeVars, documentVars, templateVars, leakVars>>
       \/ /\ step = "document" /\ DocumentNext
          /\ UNCHANGED <<knowledgeVars, choiceVars, templateVars, leakVars>>
       \/ /\ step = "template" /\ TemplateNext
          /\ UNCHANGED <<knowledgeVars, choiceVars, documentVars, leakVars>>
       \/ /\ step = "leaks" /\ LeakNext
          /\ UNCHANGED <<knowledgeVars, choiceVars, documentVars, templateVars>>

Spec ==
    Init /\ [][Next]_<<step, knowledgeVars, choiceVars, documentVars, templateVars, leakVars>>

TypeOK ==
    KnowledgeTypeOK /\ ChoiceTypeOK /\ DocumentTypeOK /\ TemplateTypeOK /\ LeakTypeOK

-----------------------------------------------------------------------------
\* What sources state, and words, are interchangeable.
Symmetry == Permutations(Value) \cup Permutations(Word)

\* One provider without a rank
OneExtension == <<"regulation">>

\* The merits of a template's clause: some of a library clause's score, some not.
SomeMerits == {{"industry"}, {"jurisdiction", "low_risk", "confident"},
               {"jurisdiction", "mandatory", "industry"}}
=============================================================================
