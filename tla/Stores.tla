------------------------------- MODULE Stores -------------------------------
(***************************************************************************)
(* The stores that people edit while contracts are drafted: the clause      *)
(* library, the playbook, the memory, and the values of a contract under    *)
(* review.  They share no state, so a behaviour works on one of them, which *)
(* it chooses at the start, and the others stay as they are.                *)
(***************************************************************************)
EXTENDS ClauseLibrary, Playbook, MemoryFacts, ReviewDesk, TLC

VARIABLE store      \* the one that is worked on

Init ==
    /\ store \in {"library", "playbook", "memory", "desk"}
    /\ IF store = "library" THEN LibraryInit
       ELSE files = <<>> /\ cache = NoLibrary /\ draft = Untouched
    /\ IF store = "playbook" THEN PlaybookInit
       ELSE rules = <<>> /\ loaded = {} /\ gathered = [rules |-> <<>>, file |-> <<>>]
    /\ MemoryInit
    /\ DeskInit

Next ==
    /\ UNCHANGED store
    /\ \/ /\ store = "library" /\ LibraryNext
          /\ UNCHANGED <<playbookVars, memoryVars, deskVars>>
       \/ /\ store = "playbook" /\ PlaybookNext
          /\ UNCHANGED <<libraryVars, memoryVars, deskVars>>
       \/ /\ store = "memory" /\ MemoryNext
          /\ UNCHANGED <<libraryVars, playbookVars, deskVars>>
       \/ /\ store = "desk" /\ DeskNext
          /\ UNCHANGED <<libraryVars, playbookVars, memoryVars>>

Spec == Init /\ [][Next]_<<store, libraryVars, playbookVars, memoryVars, deskVars>>

TypeOK == LibraryTypeOK /\ PlaybookTypeOK /\ MemoryTypeOK /\ DeskTypeOK

\* Clauses of one type, the places in their order (which are only told apart),
\* and requests to the page are interchangeable.
Symmetry == Permutations(NDA) \cup Permutations(Position) \cup Permutations(Page)
=============================================================================
