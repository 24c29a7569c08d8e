------------------------------- MODULE Lists -------------------------------
(***************************************************************************)
(* What Python makes of a list: sorted(), where what is neither before nor  *)
(* after keeps its order, and the comprehension that keeps some elements.   *)
(***************************************************************************)
EXTENDS Naturals, Sequences, SequencesExt, FiniteSets

\* Each element comes after as many as are ahead of it.
Arranged(list, ahead) ==
    [k \in 1 .. Cardinality(DOMAIN ahead) |->
        list[CHOOSE i \in DOMAIN ahead : Cardinality(ahead[i]) = k - 1]]

Sorted(list, Before(_, _)) ==
    Arranged(list, [i \in DOMAIN list |->
        {j \in DOMAIN list : Before(list[j], list[i]) \/ (j < i /\ ~Before(list[i], list[j]))}])

\* The elements at these places, in their order
Kept(list, places) == Arranged(list, [i \in places |-> {j \in places : j < i}])
=============================================================================
