---------------------------- MODULE MCBlockSync -----------------------------
(***************************************************************************)
(* Model checking of BlockSync.  The peers are interchangeable, which the  *)
(* invariants may use; the run with fairness does not.                     *)
(***************************************************************************)
EXTENDS BlockSync

\* The order by rank is the order of a sort, and the filter that keeps it is SelectSeq.
ASSUME InOrderIsSorted ==
    /\ \A S \in SUBSET Block : InOrder(S) = SetToSortSeq(S, <)
    /\ \A s \in BoundedSeq(Block, 3), best \in 0 .. Top :
          NotPromoted(s, best) = SelectSeq(s, LAMBDA o : o > best)

Symmetry == Permutations(Peer)

=============================================================================
