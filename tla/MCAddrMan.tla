----------------------------- MODULE MCAddrMan -----------------------------
(***************************************************************************)
(* Small address tables.  a1 and a2 are two ports of one address.  Source  *)
(* s1 leads to bucket n1; source s2 to n2.                                 *)
(***************************************************************************)
EXTENDS AddrMan, TLC

MCnetaddr == [a \in Service |-> IF a = "a2" THEN "a1" ELSE a]
MCGetNewBucket == [x \in Service \X Source |-> IF x[2] = "s1" THEN "n1" ELSE "n2"]
MCGetTriedBucket == [a \in Service |-> "t1"]
MCBucketOrder == "n1" :> 0 @@ "n2" :> 1

=============================================================================
