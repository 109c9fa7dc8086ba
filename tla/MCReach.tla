------------------------------- MODULE MCReach -------------------------------
(* Undirected trails over every graph of up to two edges on two nodes. *)
EXTENDS Reachability

MCLinksOf(n) == [1 .. n -> [from : Stops, to : Stops]]
MCQuestions ==
    [links : MCLinksOf(1) \cup MCLinksOf(2), src : {<<1>>, <<2, 1>>}, dir : {"both"},
     mode : {"trail"}, min : {1}, max : {1, AnyLength}]
=============================================================================
