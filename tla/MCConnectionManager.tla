-------------------------- MODULE MCConnectionManager --------------------------
(* Instances of ConnectionManager for TLC.                                  *)
EXTENDS ConnectionManager
BothWays == {<<1, 2>>, <<2, 1>>}

(* Peers that dial each other in any order, and one that dials the other in time. *)
MCPlans ==
  {[discovered |-> BothWays, breaks |-> 1, stops |-> 1, reuse |-> FALSE, prompt |-> FALSE],
   [discovered |-> {<<1, 2>>}, breaks |-> 2, stops |-> 0, reuse |-> TRUE, prompt |-> TRUE]}

(* Peers that dial each other, and nothing else happens.                     *)
MCDials == {[discovered |-> BothWays, breaks |-> 0, stops |-> 0, reuse |-> FALSE, prompt |-> TRUE]}
=============================================================================
