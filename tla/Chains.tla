------------------------------- MODULE Chains -------------------------------
(***************************************************************************)
(* Lists of linked nodes: what is found from a node on.  It is the least   *)
(* set that has the node and is closed under the links, so that it is      *)
(* defined for any links, those of a circle too, without recursion.        *)
(***************************************************************************)

Closed(L, link, S) == \A k \in S : link[k] \in L => link[k] \in S

(* The nodes of L that are found from n on, link by link.                  *)
Reach(L, link, n) ==
    LET closed == {S \in SUBSET L : n \in S /\ Closed(L, link, S)}
    IN  IF n \in L THEN {k \in L : \A S \in closed : k \in S} ELSE {}
=============================================================================
