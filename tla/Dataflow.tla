------------------------------ MODULE Dataflow -------------------------------
(***************************************************************************)
(* What a graph execution promises its callers, with no statement of how:  *)
(* a node is released once all its predecessors have settled, it settles   *)
(* once it has been released, and the graph reports that it is done when   *)
(* every node has settled, or that it failed because some node failed.     *)
(***************************************************************************)
EXTENDS Naturals

CONSTANTS Node, Edge, From, To

VARIABLES
    released,   \* nodes that may run or have run
    settled,    \* nodes that have completed or failed at least once
    failed,     \* nodes that have failed at least once
    outcome     \* outcomes reported so far

vars == <<released, settled, failed, outcome>>

Preds(n) == {From[e] : e \in {f \in Edge : To[f] = n /\ From[f] # n}}

\* A graph whose nodes all have predecessors has nowhere to start.
Rootless == \A n \in Node : Preds(n) # {}

Init == released = {} /\ settled = {} /\ failed = {} /\ outcome = {}

Release(n) ==
    /\ n \notin released
    /\ Preds(n) \subseteq settled
    /\ released' = released \cup {n}
    /\ UNCHANGED <<settled, failed, outcome>>

Settle(n) ==
    /\ n \in released
    /\ settled' = settled \cup {n}
    /\ failed' \in {failed, failed \cup {n}}
    /\ UNCHANGED <<released, outcome>>

ReportDone ==
    /\ settled = Node \/ Rootless
    /\ outcome' = outcome \cup {"done"}
    /\ UNCHANGED <<released, settled, failed>>

ReportFailed ==
    /\ failed # {}
    /\ outcome' = outcome \cup {"failed"}
    /\ UNCHANGED <<released, settled, failed>>

Next == ReportDone \/ ReportFailed \/ \E n \in Node : Release(n) \/ Settle(n)

Spec == Init /\ [][Next]_vars
=============================================================================
