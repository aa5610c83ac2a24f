--------------------------------- MODULE Gates ---------------------------------
(***************************************************************************)
(* The nodes of an orcha graph that judge the work of others, validations  *)
(* and reviews, beside the workers (tasks and syntheses) that they judge   *)
(* (src/activations/orcha/graph_runner.rs).  A validation whose command    *)
(* fails runs the workers upstream of it once more, behind the back of the *)
(* lattice: their nodes are complete, and stay so.                         *)
(***************************************************************************)
EXTENDS Naturals, FiniteSets

CONSTANTS
    Kind,           \* each node's: task, synthesize, validate, review, gather, subgraph
    Shapes,         \* graphs: for each node of one the nodes with an edge to it
    Retries,        \* max_retries of each node
    MaxHangs        \* chats that never end by themselves

ASSUME GatesAssumption ==
    /\ \A n \in DOMAIN Kind : Kind[n] \in {"task", "synthesize", "validate", "review", "gather", "subgraph"}
    /\ \A s \in Shapes : /\ IsFiniteSet(DOMAIN s) /\ DOMAIN s \subseteq DOMAIN Kind
                         /\ \A n \in DOMAIN s : s[n] \subseteq DOMAIN s
    /\ Retries \in [DOMAIN Kind -> Nat]

VARIABLES
    shape,          \* the graph
    at,             \* where each node is
    tries,          \* its retries so far
    told,           \* the workers that the prompt of a synthesis describes
    work,           \* how many texts each worker has produced; the last is its work
    outs,           \* the text that each validation has of each worker upstream of it
    todo,           \* the workers that a validation has yet to run again
    redone,         \* history: those it has run since its command failed
    answers,        \* what people have made of the reviews: complete, failed, or none
    hung,           \* <<n, w>>: the chat of node n with worker w will not end
    sender,         \* the sender of the cancel signal: live, fired or gone
    over            \* the graph has reported that it is done, or has failed

gateVars == <<shape, at, tries, told, work, outs, todo, redone, answers, hung, sender, over>>

Node == DOMAIN shape
Worker == {n \in Node : Kind[n] \in {"task", "synthesize"}}
Working(n) == at[n] \in {"chat", "child", "command", "rerun", "review"}
Reported(n) == at[n] \in {"complete", "failed"}
Move(n, place) == at' = [at EXCEPT ![n] = place]
-----------------------------------------------------------------------------
\* find_upstream_tasks: back from n through every node that is not a worker.  The order
\* of the walk, which is that of the rows, is left open.
Through_Tasks(m) == shape[m]
Through(m) == IF m \in Worker THEN {} ELSE shape[m]

Upstream(n) ==
    LET seen[k \in Nat] ==
            IF k = 0 THEN shape[n] ELSE seen[k - 1] \cup UNION {Through(m) : m \in seen[k - 1]}
    IN  seen[Cardinality(Node)] \cap Worker

\* The join context of a synthesis.
Describe(n) == told' = IF Kind[n] = "synthesize" THEN [told EXCEPT ![n] = Upstream(n)] ELSE told

\* What the lattice has stored: the text of the run that completed the node.
Stored(n) == [w \in DOMAIN Kind |-> IF w \in Upstream(n) /\ at[w] = "complete" THEN 1 ELSE 0]

Start(n) ==
    CASE Kind[n] = "validate" -> /\ Move(n, "command")
                                 /\ outs' = [outs EXCEPT ![n] = Stored(n)] /\ told' = told
      [] Kind[n] = "review"   -> Move(n, "review") /\ UNCHANGED <<outs, told>>
      [] Kind[n] = "subgraph" -> Move(n, "child") /\ UNCHANGED <<outs, told>>
      [] Kind[n] = "gather"   -> Move(n, "complete") /\ UNCHANGED <<outs, told>>
      [] OTHER                -> Move(n, "chat") /\ Describe(n) /\ outs' = outs

\* The engine completes a gather itself; any other node gets a task.
Begin(n) ==
    /\ at[n] = "pending" /\ ~over
    /\ \A m \in shape[n] : at[m] = "complete"
    /\ Start(n)
    /\ UNCHANGED <<shape, tries, work, todo, redone, answers, hung, sender, over>>
-----------------------------------------------------------------------------
(***************************************************************************)
(* dispatch_task, for the node of a worker or for a validation.  A chat    *)
(* looks at the signal before it starts and listens to it while it lasts.  *)
(***************************************************************************)
Chat(n) == CASE at[n] \in {"chat", "child"} -> {n} [] at[n] = "rerun" -> todo[n] [] OTHER -> {}
Stops_Deaf == FALSE
Stops == sender = "fired"

Answers(n, w) ==
    /\ w \in Chat(n) /\ <<n, w>> \notin hung /\ ~Stops
    /\ work' = [work EXCEPT ![w] = @ + 1]
    /\ hung' = hung

Errs(n, w) ==
    /\ w \in Chat(n) /\ (<<n, w>> \in hung => Stops)
    /\ hung' = hung \ {<<n, w>>}
    /\ work' = work

Hang(n, w) ==
    /\ w \in Chat(n) /\ <<n, w>> \notin hung /\ ~Stops
    /\ Cardinality(hung) < MaxHangs
    /\ \A v \in Node : <<n, v>> \notin hung
    /\ hung' = hung \cup {<<n, w>>}
    /\ UNCHANGED <<shape, at, tries, told, work, outs, todo, redone, answers, sender, over>>

\* dispatch_synthesize_with_retry; an empty answer is an error.
Work(n) ==
    /\ at[n] = "chat"
    /\ \/ Answers(n, n) /\ Move(n, "complete") /\ UNCHANGED <<tries, told>>
       \/ /\ Errs(n, n)
          /\ IF tries[n] < Retries[n]
             THEN tries' = [tries EXCEPT ![n] = @ + 1] /\ Describe(n) /\ at' = at
             ELSE Move(n, "failed") /\ UNCHANGED <<tries, told>>
    /\ UNCHANGED <<shape, outs, todo, redone, answers, sender, over>>

\* dispatch_subgraph: the graph of the node, here of one chat, which hears the same
\* signal; it is done, or it has failed.
Child(n) ==
    /\ at[n] = "child"
    /\ \/ Answers(n, n) /\ Move(n, "complete")
       \/ Errs(n, n) /\ Move(n, "failed")
    /\ UNCHANGED <<shape, tries, told, outs, todo, redone, answers, sender, over>>
-----------------------------------------------------------------------------
(***************************************************************************)
(* dispatch_validate_with_retry.  Nothing stops a command, which has no    *)
(* timeout; a cancel stops the chats between two of them, one by one.      *)
(***************************************************************************)
Passes(n) ==
    /\ at[n] = "command"
    /\ Move(n, "complete")
    /\ UNCHANGED <<tries, todo, redone>>

Again(n) == Upstream(n)

Refused(n) ==
    /\ at[n] = "command"
    /\ IF tries[n] < Retries[n] /\ Again(n) # {}
       THEN /\ Move(n, "rerun")
            /\ tries' = [tries EXCEPT ![n] = @ + 1]
            /\ todo' = [todo EXCEPT ![n] = Again(n)]
            /\ redone' = [redone EXCEPT ![n] = {}]
       ELSE Move(n, "failed") /\ UNCHANGED <<tries, todo, redone>>

Command(n) ==
    /\ Passes(n) \/ Refused(n)
    /\ UNCHANGED <<shape, told, work, outs, answers, hung, sender, over>>

\* One worker at a time.  The answer replaces its text; an error is passed over.
Obtained_Stored(n, w) == outs' = outs
Obtained(n, w) == outs' = [outs EXCEPT ![n][w] = work'[w]]

Rerun(n) ==
    /\ at[n] = "rerun"
    /\ \E w \in todo[n] :
        /\ \A v \in todo[n] : <<n, v>> \in hung => v = w
        /\ \/ Answers(n, w) /\ Obtained(n, w)
           \/ Errs(n, w) /\ outs' = outs
        /\ todo' = [todo EXCEPT ![n] = @ \ {w}]
        /\ redone' = [redone EXCEPT ![n] = @ \cup {w}]
        /\ IF todo[n] = {w} THEN Move(n, "command") ELSE at' = at
    /\ UNCHANGED <<shape, tries, told, answers, sender, over>>
-----------------------------------------------------------------------------
(***************************************************************************)
(* dispatch_review.  The approval is polled when a second passes without   *)
(* the signal changing.  Once its sender is gone, changed() returns at     *)
(* once, every time: the second never passes.                              *)
(***************************************************************************)
Answer(n, verdict) ==
    /\ at[n] = "review" /\ answers[n] = "none"
    /\ answers' = [answers EXCEPT ![n] = verdict]
    /\ UNCHANGED <<shape, at, tries, told, work, outs, todo, redone, hung, sender, over>>

Review(n) ==
    /\ at[n] = "review"
    /\ \/ Stops /\ Move(n, "failed")
       \/ sender = "live" /\ answers[n] # "none" /\ Move(n, answers[n])
    /\ UNCHANGED <<shape, tries, told, work, outs, todo, redone, answers, hung, sender, over>>
-----------------------------------------------------------------------------
(***************************************************************************)
(* The graph.  A node that fails fails it, and whoever runs it drops the   *)
(* sender; the tasks of the other nodes go on.                             *)
(***************************************************************************)
Cancel ==
    /\ sender = "live" /\ ~over
    /\ sender' = "fired"
    /\ UNCHANGED <<shape, at, tries, told, work, outs, todo, redone, answers, hung, over>>

End ==
    /\ ~over
    /\ (\E n \in Node : at[n] = "failed") \/ (\A n \in Node : at[n] = "complete")
    /\ over' = TRUE
    /\ sender' = IF Stops THEN sender ELSE "gone"
    /\ UNCHANGED <<shape, at, tries, told, work, outs, todo, redone, answers, hung>>

GatesInit ==
    LET All(value) == [n \in DOMAIN Kind |-> value]
    IN  /\ shape \in Shapes
        /\ at = All("pending") /\ tries = All(0) /\ told = All({})
        /\ work = All(0) /\ outs = All(All(0)) /\ todo = All({}) /\ redone = All({})
        /\ answers = All("none") /\ hung = {} /\ sender = "live" /\ over = FALSE

NodeStep(n) == Begin(n) \/ Work(n) \/ Child(n) \/ Command(n) \/ Rerun(n) \/ Review(n)

GatesNext ==
    \/ \E n \in Node : NodeStep(n) \/ (\E verdict \in {"complete", "failed"} : Answer(n, verdict))
    \/ \E n, w \in Node : Hang(n, w)
    \/ Cancel \/ End

\* The tasks of the nodes do not all stop at once: one that can go on does.  (None can go
\* on for ever.)  Commands end; so does a chat that Hang has not picked; people need not
\* answer, and nobody has to cancel.
GatesFairness == WF_gateVars(\E n \in Node : NodeStep(n))

GatesSpec == GatesInit /\ [][GatesNext]_gateVars /\ GatesFairness
-----------------------------------------------------------------------------
(***************************************************************************)
(* Properties.                                                             *)
(***************************************************************************)
\* The workers from which a path leads to n that passes no other worker: those in every
\* set that holds the nodes before n and is closed under going back from a gate.
Contributors(n) ==
    {w \in Worker : \A S \in SUBSET Node :
        shape[n] \subseteq S /\ (\A m \in S \ Worker : shape[m] \subseteq S) => w \in S}

\* "All of them are re-run on each retry so the validation has the latest work from
\* every contributing agent" (graph_runner.rs:943): a command is never tried again
\* before each of them has been, across gathers, validations and reviews; and a
\* synthesis is told about all the workers whose branches it joins.
AskedAll ==
    \A n \in Node :
        /\ at[n] = "command" /\ tries[n] > 0 => redone[n] = Contributors(n)
        /\ at[n] = "chat" /\ Kind[n] = "synthesize" => told[n] = Contributors(n)

Shares(n, m, w) == m # n /\ Kind[m] = "validate" /\ at[m] # "pending" /\ w \in Contributors(m)

\* The token of a validation carries the latest text of every contributor
\* (graph_runner.rs:948), however many retries there were, unless another validation
\* had the contributor run again too.
TokenIsLatest ==
    \A n \in Node : Kind[n] = "validate" /\ at[n] = "complete" =>
        \A w \in Contributors(n) : (\E m \in Node : Shares(n, m, w)) \/ outs[n][w] = work[w]

\* What may keep a node from reporting as long as nobody cancels: a chat without end, a
\* review without an answer, or one whose graph has ended without it.
Stuck(n) ==
    /\ ~Stops
    /\ \/ \E w \in Node : <<n, w>> \in hung
       \/ at[n] = "review" /\ (answers[n] = "none" \/ sender = "gone")

\* The tasks of a graph come to rest: each has reported, or is stuck, whatever chats and
\* commands fail and whether or not the graph has ended.  After a cancel none is stuck:
\* the chats of a validation's retries hear of it too (graph_runner.rs:401).
TasksRest == []<>(\A n \in Node : Working(n) => Stuck(n))
=============================================================================
