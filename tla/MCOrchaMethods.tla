---------------------------- MODULE MCOrchaMethods ----------------------------
(***************************************************************************)
(* Instances of OrchaSessions, GraphTree and Gates.  A task with its       *)
(* session, a team of agents with theirs, a client that counts its own     *)
(* retries, a graph with the graphs that it plans, and one with            *)
(* validations and a review share nothing, so a behaviour is of one of     *)
(* them: `part' says which.                                                *)
(***************************************************************************)
EXTENDS OrchaSessions, GraphTree, Gates, TLC

CONSTANTS a, b, j, g, v, x, r, d

VARIABLE part

vars == <<part, sessionVars, treeVars, gateVars>>

KindOf == a :> "task" @@ b :> "task" @@ j :> "gather" @@ g :> "subgraph" @@ v :> "validate" @@ x :> "validate"
            @@ r :> "review" @@ d :> "synthesize"
RetriesOf == a :> 0 @@ b :> 0 @@ j :> 0 @@ g :> 0 @@ v :> 2 @@ x :> 1 @@ r :> 0 @@ d :> 1

\* A validated join; a chain of two tasks, judged twice; two validations of one
\* task; a task judged across a graph of its own; a validation with nothing before
\* it; and no node, in the behaviours of the other parts.
ShapesOf ==
    {a :> {} @@ b :> {} @@ j :> {a, b} @@ v :> {j} @@ d :> {v},
     a :> {} @@ b :> {a} @@ v :> {b} @@ r :> {b} @@ x :> {v, r},
     a :> {} @@ v :> {a} @@ x :> {a} @@ d :> {v, x},
     a :> {} @@ g :> {a} @@ v :> {g},
     v :> {}, <<>>}

Init ==
    /\ part \in {"task", "team", "client", "graphs", "gates"} /\ SessionsInit /\ TreeInit /\ GatesInit
    /\ part = "gates" \/ shape = <<>>

Tasks == SessionsNext /\ (\A s \in Team : job'[s].pc = "off") /\ UNCHANGED <<treeVars, gateVars>>
Teams ==
    /\ SessionsNext /\ UNCHANGED <<treeVars, gateVars>>
    /\ \A t \in Task : job'[t].pc = "off"
    /\ \A s \in DOMAIN table' : table'[s].retries = 0
Clients ==
    /\ SessionsNext /\ UNCHANGED <<treeVars, gateVars>>
    /\ \A y \in Task \cup Agent : job'[y].pc = "off"
Graphs == TreeNext /\ UNCHANGED <<sessionVars, gateVars>>
Judges == GatesNext /\ UNCHANGED <<sessionVars, treeVars>>

Next ==
    /\ part' = part
    /\ \/ part = "task" /\ Tasks
       \/ part = "team" /\ Teams
       \/ part = "client" /\ Clients
       \/ part = "graphs" /\ Graphs
       \/ part = "gates" /\ Judges

Spec == Init /\ [][Next]_vars /\ SessionsFairness /\ TreeFairness /\ GatesFairness
=============================================================================
