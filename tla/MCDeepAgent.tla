---------------------------- MODULE MCDeepAgent ----------------------------
(***************************************************************************)
(* Two contract types with a required clause each; drafts that hold one of  *)
(* them, reword it, or leave a placeholder.                                 *)
(***************************************************************************)
EXTENDS DeepAgent

MCClause == {"parties", "services"}
MCClausesOf == [nda |-> {"parties"}, service |-> {"services"}]
Says(parties, services, blanks) ==
    [body |-> [parties |-> parties, services |-> services], blanks |-> blanks]
MCText ==
    {Says("acme", "absent", FALSE), Says("reworded", "absent", FALSE),
     Says("acme", "acme", TRUE)}

\* Slices are interchangeable.
Symmetry == Permutations(Slice)
=============================================================================
