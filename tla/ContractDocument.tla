-------------------------- MODULE ContractDocument --------------------------
(***************************************************************************)
(* A contract drafted without a template: the draft plan becomes a          *)
(* transformation plan in which every section is added                      *)
(* (phase_b/planning.py), the sections and the facts of the knowledge       *)
(* object become one document (phase_b/document.py), and that is rendered   *)
(* twice, as DOCX and as the text the gates read (invariants/docx_build.py). *)
(*                                                                         *)
(* A section's name stands for its heading and, as the reference the        *)
(* drafting agent answers to, for its text.                                 *)
(***************************************************************************)
EXTENDS Lists

CONSTANTS
    Name,           \* the names sections are planned with
    LibraryOrder,   \* the library's order of each name that is a clause's title
    MaxSections     \* bound on the sections of a draft plan

ASSUME LibraryOrderAssumption ==
    /\ DOMAIN LibraryOrder \subseteq Name
    /\ \A name \in DOMAIN LibraryOrder : LibraryOrder[name] \in Nat \ {0}
ASSUME MaxSectionsAssumption == MaxSections \in Nat

VARIABLES
    draftPlan,      \* the planned sections with the agent's guess at their order
    add,            \* no tuple, or the transformation plan: the sections to add
    document,       \* no tuple, or the assembled document
    rendered        \* the paragraphs of the DOCX and the lines of the text

documentVars == <<draftPlan, add, document, rendered>>

Section == [name : Name, order : 0 .. MaxSections]
SectionList == UNION {[1 .. n -> Section] : n \in 0 .. MaxSections}

\* What of a clause, of the envelope and of the parties there is to print
Clause == [heading : Name, drafted : BOOLEAN]
Part == {"title", "preamble", "recital", "heading", "body", "execution", "signatory"}

DocumentTypeOK ==
    /\ draftPlan \in SectionList
    /\ \A names \in add : names \in Seq(Name)
    /\ \A doc \in document :
           /\ doc.clauses \in Seq(Clause)
           /\ doc.recitals \in BOOLEAN /\ doc.parties \in BOOLEAN
    /\ \A form \in {rendered.docx, rendered.text} : \A i \in DOMAIN form :
           form[i].part \in Part /\ form[i].number \in 0 .. MaxSections

NotRendered == [docx |-> <<>>, text |-> <<>>]

DocumentStart(plan) ==
    /\ draftPlan = plan
    /\ add = {} /\ document = {} /\ rendered = NotRendered

DocumentInit == \E plan \in SectionList : DocumentStart(plan)

-----------------------------------------------------------------------------
Names(list) == [i \in DOMAIN list |-> list[i].name]

\* _position: the library's clauses first, in its order, and then the others in
\* the order the plan guesses.
Precedes(s, t) ==
    LET known(u) == u.name \in DOMAIN LibraryOrder
        position(u) == IF known(u) THEN LibraryOrder[u.name] ELSE u.order
    IN  \/ known(s) /\ ~known(t)
        \/ known(s) = known(t) /\ position(s) < position(t)

\* Mutant: sections are collected by their name.
TransformByName(plan) ==
    LET firsts == {i \in DOMAIN plan : \A j \in 1 .. i - 1 : plan[j].name # plan[i].name}
    IN  Names(Sorted(Kept(plan, firsts), Precedes))

\* _transformation_for_generation: each section is added, a library clause with
\* a reference to it.
TransformationForGeneration(plan) == Names(Sorted(plan, Precedes))

PlanTransformation ==
    /\ add = {}
    /\ add' = {TransformationForGeneration(draftPlan)}
    /\ UNCHANGED <<draftPlan, document, rendered>>

\* _clause_order: the library's order for a clause that is still in it, and for
\* any other section its place in the plan, counted from zero.
ClauseOrder(name, place, library) ==
    IF name \in library THEN LibraryOrder[name] ELSE place - 1

\* _clauses: in the order of those keys.  A section the agent wrote nothing
\* for is a clause without a text.
Clauses(names, drafted, library) ==
    LET keyed == [i \in DOMAIN names |->
                    [name |-> names[i], order |-> ClauseOrder(names[i], i, library)]]
        ordered == Sorted(keyed, LAMBDA s, t : s.order < t.order)
    IN  [i \in DOMAIN ordered |->
            [heading |-> ordered[i].name, drafted |-> ordered[i].name \in drafted]]

\* build_contract_document, with the text the agent returned for some of the
\* references, and without the clauses that left the library since the plan.
\* Without parties there is no preamble and nobody to sign.
BuildContractDocument ==
    /\ document = {}
    /\ \E names \in add, library \in SUBSET DOMAIN LibraryOrder,
          recitals, parties \in BOOLEAN :
       \E drafted \in SUBSET ToSet(names) :
           document' = {[clauses |-> Clauses(names, drafted, library),
                         recitals |-> recitals, parties |-> parties]}
    /\ UNCHANGED <<draftPlan, add, rendered>>

Piece(part, what, number) == [part |-> part, what |-> what, number |-> number]
When(condition, pieces) == IF condition THEN pieces ELSE <<>>
Body(clause) == When(clause.drafted, <<Piece("body", clause.heading, 0)>>)

Opening(doc) ==
    <<Piece("title", "", 0)>>
      \o When(doc.parties, <<Piece("preamble", "", 0)>>)
      \o When(doc.recitals, <<Piece("recital", "", 0)>>)
Closing(doc) ==
    When(doc.parties, <<Piece("execution", "", 0), Piece("signatory", "", 0)>>)

\* render_contract: the headings carry the numbering definition, and Word
\* counts them.  Spacing and page breaks are left out.
RenderContract(doc) ==
    LET clause(i) == <<Piece("heading", doc.clauses[i].heading, i)>> \o Body(doc.clauses[i])
    IN  Opening(doc) \o FlattenSeq([i \in DOMAIN doc.clauses |-> clause(i)]) \o Closing(doc)

\* document_to_text: _clause_text writes the numbers out, from a counter.
DocumentToText(doc) ==
    LET write(state, c) ==
            [counter |-> state.counter + 1,
             out |-> state.out \o <<Piece("heading", c.heading, state.counter + 1)>> \o Body(c)]
        end == FoldLeft(write, [counter |-> 0, out |-> Opening(doc)], doc.clauses)
    IN  end.out \o Closing(doc)

DraftModeOne ==
    /\ rendered = NotRendered
    /\ \E doc \in document :
           rendered' = [docx |-> RenderContract(doc), text |-> DocumentToText(doc)]
    /\ UNCHANGED <<draftPlan, add, document>>

\* _planned_sections_present, on the text: the planned names it does not have
SectionsMissing(lines) ==
    {draftPlan[i].name : i \in DOMAIN draftPlan} \ {lines[k].what : k \in DOMAIN lines}

DocumentNext == PlanTransformation \/ BuildContractDocument \/ DraftModeOne

DocumentSpec == DocumentInit /\ [][DocumentNext]_documentVars

-----------------------------------------------------------------------------
Times(s, e) == Cardinality({i \in DOMAIN s : s[i] = e})
Headings(doc) == [i \in DOMAIN doc.clauses |-> doc.clauses[i].heading]

\* Through both sortings no planned section is lost or doubled, the gate that
\* looks for the planned sections finds them, and the text the gates read says
\* what the DOCX says in the same order with the same numbers (planning.py:
\* the other sections "were computed and then silently dropped"; docx_build.py:
\* "it must contain everything the DOCX contains").
NothingDropped ==
    /\ \A doc \in document : \A name \in Name :
           Times(Headings(doc), name) = Times(Names(draftPlan), name)
    /\ rendered # NotRendered =>
           /\ rendered.text = rendered.docx
           /\ SectionsMissing(rendered.text) = {}

\* A section that is in no library stays where the plan has it
\* (document.py:_clause_order: "fall back to their original position in the
\* concatenated list, so they don't jump around unpredictably").
BespokeStaysPut ==
    \A doc \in document, names \in add : \A i \in DOMAIN names :
        names[i] \notin DOMAIN LibraryOrder => Headings(doc)[i] = names[i]
=============================================================================
