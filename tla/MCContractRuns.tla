--------------------------- MODULE MCContractRuns ---------------------------
(***************************************************************************)
(* ContractRuns for TLC.  Its runs are interchangeable: a check of safety   *)
(* alone uses the symmetry; one of liveness numbers the runs and starts     *)
(* them in order, which every behaviour does up to a renaming.              *)
(***************************************************************************)
EXTENDS ContractRuns, TLC

RunSymmetry == Permutations(Run)

Start(r) ==
    /\ \A q \in 1 .. r - 1 : pc[q] # "idle"
    /\ CreateContract(r) \/ PostAnswers(r)

NextInOrder ==
    \/ \E r \in Run : Start(r) \/ Step(r)
    \/ SelectFinal \/ SaveDocument \/ RenderExport \/ CreateExport
    \/ Crash

InOrder == Init /\ [][NextInOrder]_vars /\ \A r \in Run : WF_vars(Step(r))
=============================================================================
