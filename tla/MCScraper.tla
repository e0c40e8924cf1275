------------------------------ MODULE MCScraper ------------------------------
(* Two policies and two pods: in one instance one pod is selected by both  *)
(* policies, in the other one each policy has a pod of its own.            *)
EXTENDS ScraperProps

Some(S) == CHOOSE x \in S : TRUE

Overlapping == [q \in Policy |-> IF q = Some(Policy) THEN Pod ELSE Pod \ {Some(Pod)}]
Separate == [q \in Policy |-> IF q = Some(Policy) THEN {Some(Pod)} ELSE Pod \ {Some(Pod)}]

Default == [q \in Policy |-> {[start |-> 100, end |-> 399]}]
=============================================================================
