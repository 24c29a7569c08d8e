------------------------ MODULE MCContractDocument ------------------------
(***************************************************************************)
(* ContractDocument with a library of two clauses.                          *)
(***************************************************************************)
EXTENDS ContractDocument

\* The library numbers its clauses in steps of ten.
TitleOrders == [definitions |-> 10, liability |-> 20]
=============================================================================
