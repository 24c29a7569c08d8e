---------------------------- MODULE TemplateEdit ----------------------------
(***************************************************************************)
(* A contract drafted on an uploaded template: the document is parsed into  *)
(* blocks with an identity of their own (invariants/docx_parse.py), the     *)
(* transformation plan says which to keep, modify and remove and what to    *)
(* add (schemas/plan.py), and the document is edited in place               *)
(* (invariants/docx_edit.py).  The fidelity gate compares the two           *)
(* (invariants/docx_fidelity.py).                                           *)
(*                                                                         *)
(* A block is a paragraph or a table, with its style, its text and whether  *)
(* it is numbered.  `origin` is the element it is: its place in the         *)
(* uploaded document, or 0 for a paragraph that was added.                  *)
(***************************************************************************)
EXTENDS Naturals, Sequences, Lists, FiniteSets, FiniteSetsExt

CONSTANTS
    MaxBlocks,      \* bound on the blocks of the uploaded document
    MaxAdded        \* bound on the sections a plan adds

ASSUME BlockBounds == MaxBlocks \in Nat /\ MaxAdded \in Nat

Plain == "none"     \* no style
Execution == "execution"    \* a text that mentions the execution page
Drafted == "drafted"        \* a text the drafting agent wrote

\* What can be uploaded: a table has neither style nor number of its own.
Blocks ==
    [kind : {"paragraph"}, style : {"clause", Plain}, numbered : BOOLEAN,
     text : {"words", Execution}]
      \cup [kind : {"table"}, style : {Plain}, numbered : {FALSE}, text : {"words"}]

VARIABLES
    source,         \* the blocks of the uploaded document
    decisions,      \* no tuple, or the transformation plan
    edited,         \* no tuple, or the blocks of the edited document
    report          \* what the edit says it did

templateVars == <<source, decisions, edited, report>>

Element == [kind : {"paragraph", "table"}, style : {"clause", Plain}, numbered : BOOLEAN,
            text : {"words", Execution, Drafted}, origin : 0 .. MaxBlocks]
NoReport == [modified |-> {}, removed |-> {}, added |-> 0, unstyled |-> 0, failed |-> FALSE]

TemplateTypeOK ==
    /\ source \in Seq(Element)
    /\ \A list \in edited : list \in Seq(Element)
    /\ report.modified \subseteq DOMAIN source /\ report.removed \subseteq DOMAIN source
    /\ report.added \in 0 .. MaxAdded /\ report.unstyled \in 0 .. report.added
    /\ report.failed \in BOOLEAN

\* A block, as the element at its place in the document
Placed(block, i) ==
    [kind |-> block.kind, style |-> block.style, numbered |-> block.numbered,
     text |-> block.text, origin |-> i]

TemplateStart(blocks) ==
    /\ source = [i \in DOMAIN blocks |-> Placed(blocks[i], i)]
    /\ decisions = {} /\ edited = {} /\ report = NoReport

TemplateInit ==
    \E n \in 0 .. MaxBlocks : \E blocks \in [1 .. n -> Blocks] : TemplateStart(blocks)

-----------------------------------------------------------------------------
\* block_ids: style and text, and how many of the same came before.  The place
\* in the document is not part of it.
BlockIds(list) ==
    [i \in DOMAIN list |->
        <<list[i].style, list[i].text,
          Cardinality({j \in 1 .. i - 1 :
              list[j].style = list[i].style /\ list[j].text = list[i].text})>>]

NoBlock == <<>>     \* an added section without a block beside it

\* The plan an agent makes of the blocks: one decision for some of them, by
\* their ids, and sections to add, some beside a block.  The references to
\* answer to are all covered, or one is forgotten.
PlanDecisions ==
    /\ decisions = {}
    /\ \E verdict \in [DOMAIN source -> {"keep", "modify", "remove"}],
          n \in 0 .. MaxAdded, covered \in BOOLEAN :
       \E beside \in [1 .. n -> {NoBlock} \cup ToSet(BlockIds(source))] :
           LET ids(v) == {BlockIds(source)[i] : i \in {j \in DOMAIN source : verdict[j] = v}}
           IN  /\ covered \/ n > 0 \/ ids("modify") # {}
               /\ decisions' = {[keep |-> ids("keep"), modify |-> ids("modify"),
                                 remove |-> ids("remove"), add |-> beside,
                                 covered |-> covered]}
    /\ UNCHANGED <<source, edited, report>>

\* The places in a list of blocks that have one of these ids
PlacesOf(list, ids) == {i \in DOMAIN list : BlockIds(list)[i] \in ids}

\* The element of the source an added section stands beside, or 0
Anchor(id) == IF id = NoBlock THEN 0 ELSE CHOOSE i \in DOMAIN source : BlockIds(source)[i] = id

\* _donor, and the anchor where it finds none: the last paragraph of the whole
\* source, removed or not, with the style the anchor has.
Donor(anchor) ==
    IF anchor = 0 THEN 0
    ELSE IF source[anchor].style = Plain THEN anchor
    ELSE SelectLastInSeq(source,
            LAMBDA b : b.kind = "paragraph" /\ b.style = source[anchor].style)

\* The place of an element in the document, or 0
PlaceOf(list, origin) == SelectInSeq(list, LAMBDA b : b.origin = origin)

\* Mutant: the donor is rewritten, not a clone of it.
AddInPlace(state, id) ==
    LET place == PlaceOf(state.list, Donor(Anchor(id)))
    IN  IF place = 0 THEN state ELSE [state EXCEPT !.list[place].text = Drafted]

\* One ADD: a clone of the donor right after it, which is nowhere when the
\* donor was removed; at the end, without style, when there is no paragraph to
\* clone.
AddOne(state, id) ==
    LET donor == Donor(Anchor(id))
        clone == [source[donor] EXCEPT !.text = Drafted, !.origin = 0]
        unstyled == [kind |-> "paragraph", style |-> Plain, numbered |-> FALSE,
                     text |-> Drafted, origin |-> 0]
        place == PlaceOf(state.list, donor)
    IN  IF donor = 0 \/ source[donor].kind = "table"
        THEN [list |-> Append(state.list, unstyled), unstyled |-> state.unstyled + 1]
        ELSE IF place = 0 THEN state
        ELSE [state EXCEPT !.list = InsertAt(@, place + 1, clone)]

\* Mutant: the decision applies to every paragraph.
StripAllNumbers(list) ==
    [i \in DOMAIN list |->
        IF list[i].kind = "paragraph" THEN [list[i] EXCEPT !.numbered = FALSE] ELSE list[i]]

\* _unnumber_execution_block: from the first paragraph that mentions the
\* execution page to the end
UnnumberExecutionBlock(list) ==
    [i \in DOMAIN list |->
        IF /\ list[i].kind = "paragraph"
           /\ \E j \in 1 .. i : list[j].kind = "paragraph" /\ list[j].text = Execution
        THEN [list[i] EXCEPT !.numbered = FALSE] ELSE list[i]]

\* The elements whose text is replaced; a table is skipped with a warning.
Modified(plan) ==
    {i \in PlacesOf(source, plan.modify) : source[i].kind = "paragraph"}

\* apply_transformation: the coverage, then the removals, the replacements, the
\* additions, and the numbers of the execution page.
ApplyTransformation ==
    /\ edited = {} /\ ~report.failed
    /\ \E plan \in decisions :
           LET removed == PlacesOf(source, plan.remove)
               left == Kept(source, DOMAIN source \ removed)
               modified == Modified(plan)
               rewritten == [i \in DOMAIN left |->
                   IF left[i].origin \in modified THEN [left[i] EXCEPT !.text = Drafted]
                   ELSE left[i]]
               end == FoldLeft(AddOne, [list |-> rewritten, unstyled |-> 0], plan.add)
           IN  IF plan.covered
               THEN /\ edited' = {UnnumberExecutionBlock(end.list)}
                    /\ report' = [modified |-> modified, removed |-> removed,
                                  added |-> Len(plan.add), unstyled |-> end.unstyled,
                                  failed |-> FALSE]
               ELSE /\ report' = [report EXCEPT !.failed = TRUE]
                    /\ UNCHANGED edited
    /\ UNCHANGED <<source, decisions>>

TemplateNext == PlanDecisions \/ ApplyTransformation

-----------------------------------------------------------------------------
Formatting(b) == <<b.kind, b.style, b.numbered>>

\* compare, with the blocks to keep as the ids that must be unchanged, or all
\* when there are none: the ids that are gone and those whose formatting differs.
Disturbed(list, keep) ==
    {id \in IF keep = {} THEN ToSet(BlockIds(source)) ELSE keep :
        LET old == CHOOSE i \in DOMAIN source : BlockIds(source)[i] = id
            new == PlacesOf(list, {id})
        IN  \A j \in new : Formatting(list[j]) # Formatting(source[old])}

\* Where the element is in the edited document
At(list, i) == PlaceOf(list, i)
MentionsExecution(list, k) ==
    \E j \in 1 .. k : list[j].kind = "paragraph" /\ list[j].text = Execution
\* No two blocks of the source have the same style and the same text.
NoTwins == \A i \in DOMAIN source : BlockIds(source)[i][3] = 0

\* What the plan keeps comes back: each kept block is in the edited document,
\* in the order of the source, with its text, its style and, before the
\* execution page is mentioned, its number; and in a document without twins the
\* fidelity gate reports exactly the blocks that lost their number
\* (drafting.py: "their formatting survives by construction").
KeptAsTheyWere ==
    \A plan \in decisions, list \in edited :
        LET kept == PlacesOf(source, plan.keep)
        IN  /\ \A i \in kept :
                   /\ At(list, i) # 0
                   /\ LET b == list[At(list, i)]
                      IN  \/ b = source[i]
                          \/ /\ b = [source[i] EXCEPT !.numbered = FALSE]
                             /\ MentionsExecution(list, At(list, i))
            /\ \A i, j \in kept : i < j => At(list, i) < At(list, j)
            /\ NoTwins /\ plan.keep # {} =>
                   Disturbed(list, plan.keep) =
                       {BlockIds(source)[i] : i \in {k \in kept : list[At(list, k)] # source[k]}}

\* What the edit reports is what it did, and the plan is carried out: the
\* removed blocks are gone, each paragraph to modify has its new text, and the
\* added sections are there, except those whose donor paragraph was removed.
ReportedIsDone ==
    \A plan \in decisions, list \in edited :
        LET lost == {k \in DOMAIN plan.add :
                        /\ Donor(Anchor(plan.add[k])) \in report.removed
                        /\ source[Donor(Anchor(plan.add[k]))].kind = "paragraph"}
        IN  /\ report.removed = PlacesOf(source, plan.remove)
            /\ {i \in DOMAIN source : At(list, i) = 0} = report.removed
            /\ \A i \in PlacesOf(source, plan.modify) :
                   source[i].kind = "paragraph"
                   <=> i \in report.modified /\ list[At(list, i)].text = Drafted
            /\ Cardinality({k \in DOMAIN list : list[k].origin = 0}) =
                   report.added - Cardinality(lost)
=============================================================================
