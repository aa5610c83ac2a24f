---------------------------------- MODULE Cone ---------------------------------
(***************************************************************************)
(* Cones (src/activations/cone): an agent whose context is a branch of an  *)
(* arbor tree.  A turn reads its cone and the branch below the head, sends *)
(* the messages of the branch and the question to the model, and adds the  *)
(* question and the answer below the head it read.  set_head moves the     *)
(* head anywhere at any time.  A turn lives as long as its client listens. *)
(***************************************************************************)
EXTENDS Trees

CONSTANTS
    ConeId,      \* ids of cones, numbers taken in order; a cone's tree has its id
    ConeName,    \* names that callers give; none is a prefix of another
    Turn,        \* chats, each made at most once
    Quick        \* those that may be ephemeral

ASSUME ConeAssumption ==
    /\ ConeId \subseteq Nat /\ Quick \subseteq Turn
    /\ \A s \in ConeId : <<s>> # NoNode
    /\ \A t \in Turn, i \in {0, 1} : <<t, i>> # NoNode

VARIABLES
    cones,       \* rows of cones
    coneMessages,\* rows of cone_messages, by turn and role: the cone
    coneNodes,   \* rows of arbor's nodes
    turns        \* chats: control point and local variables

coneVars == <<cones, coneMessages, coneNodes, turns>>

Trunk(s) == <<s>>
Question(t) == <<t, 0>>
Reply(t) == <<t, 1>>
Finished == {"off", "done", "failed", "gone"}
RoleOf(n) == IF n[2] = 0 THEN "user" ELSE "assistant"
-----------------------------------------------------------------------------
(***************************************************************************)
(* Cones and their heads.                                                  *)
(***************************************************************************)
\* resolve_cone_identifier: the exact name, or else the only name that starts so.
Named(n) == {s \in DOMAIN cones : cones[s].name = <<n>>}
Beginning(n) == {s \in DOMAIN cones : cones[s].name[1] = n}
Identified(n) == IF Named(n) # {} THEN Named(n)
                 ELSE IF Cardinality(Beginning(n)) = 1 THEN Beginning(n) ELSE {}

ConeCreate(s, n) ==
    /\ Trunk(s) \notin DOMAIN coneNodes
    /\ \A u \in ConeId : u < s => Trunk(u) \in DOMAIN coneNodes
    /\ coneNodes' = Add(coneNodes, Trunk(s), s, NoNode, "root")
    /\ cones' = [u \in DOMAIN cones \cup {s} |->
                    IF u \in DOMAIN cones THEN cones[u]
                    ELSE [name |-> IF Named(n) = {} THEN <<n>> ELSE <<n, s>>,
                          tree |-> s, head |-> Trunk(s)]]
    /\ UNCHANGED <<coneMessages, turns>>

\* The tree is kept; the messages go with the row.
ConeDelete(s) ==
    /\ s \in DOMAIN cones
    /\ cones' = [u \in DOMAIN cones \ {s} |-> cones[u]]
    /\ coneMessages' = [m \in {x \in DOMAIN coneMessages : coneMessages[x] # s} |-> coneMessages[m]]
    /\ UNCHANGED <<coneNodes, turns>>

\* set_head takes any id: of another tree, or of no node at all (NoNode).
SetHead(s, n) ==
    /\ s \in DOMAIN cones
    /\ cones' = [cones EXCEPT ![s].head = n]
    /\ UNCHANGED <<coneMessages, coneNodes, turns>>
-----------------------------------------------------------------------------
(***************************************************************************)
(* A turn: one step per statement that reads or writes a table.            *)
(***************************************************************************)
At(t, pc) == turns[t].pc = pc
Step(t, pc) == turns' = [turns EXCEPT ![t].pc = pc]

Begin(t, s, quick) ==
    /\ At(t, "off") /\ (quick => t \in Quick)
    /\ turns' = [turns EXCEPT ![t] = [pc |-> "read", quick |-> quick, cone |-> s,
                                      tree |-> 0, head |-> NoNode, sent |-> <<>>]]
    /\ UNCHANGED <<cones, coneMessages, coneNodes>>
\* An id is taken as it is; a name is resolved in a statement of its own.
BeginById(t, s, quick) == Begin(t, s, quick)
BeginByName(t, n, quick) == \E s \in Identified(n) : Begin(t, s, quick)

ReadCone(t) ==
    LET s == turns[t].cone
    IN  /\ At(t, "read")
        /\ turns' = IF s \notin DOMAIN cones THEN [turns EXCEPT ![t].pc = "failed"]
                    ELSE [turns EXCEPT ![t].pc = "context", ![t].tree = cones[s].tree,
                                       ![t].head = cones[s].head]
        /\ UNCHANGED <<cones, coneMessages, coneNodes>>

\* context_get_path, then resolve_context_to_messages: a root is empty and is
\* skipped, and every handle must resolve.
Spoken(path) ==
    LET said[i \in 0 .. Len(path)] == IF i = 0 THEN <<>>
                                      ELSE IF Len(path[i]) = 2 THEN Append(said[i - 1], path[i])
                                      ELSE said[i - 1]
    IN  said[Len(path)]
Messages(t) == Spoken(Path(coneNodes, turns[t].head))
Resolves(n) == <<n[1], RoleOf(n)>> \in DOMAIN coneMessages

\* Without the tree in the query, a head in another tree would be read.
ReadContext(t) ==
    /\ At(t, "context")
    /\ turns' = IF Readable(coneNodes, turns[t].tree, turns[t].head)
                   /\ \A i \in DOMAIN Messages(t) : Resolves(Messages(t)[i])
                THEN [turns EXCEPT ![t].pc = "ask", ![t].sent = Messages(t)]
                ELSE [turns EXCEPT ![t].pc = "failed"]
    /\ UNCHANGED <<cones, coneMessages, coneNodes>>

\* message_create: the foreign key refuses a message of a deleted cone.
Keep(t, role, pc) ==
    LET s == turns[t].cone
    IN  IF s \in DOMAIN cones
        THEN /\ coneMessages' = [m \in DOMAIN coneMessages \cup {<<t, role>>} |->
                                    IF m = <<t, role>> THEN s ELSE coneMessages[m]]
             /\ Step(t, pc)
        ELSE UNCHANGED coneMessages /\ Step(t, "failed")

AskCone(t) ==
    /\ At(t, "ask") /\ Keep(t, "user", "question")
    /\ UNCHANGED <<cones, coneNodes>>

Lasting(t, role) == IF turns[t].quick THEN "ephemeral" ELSE role

\* Below the head as it is by now, instead of the one the context was read from.
AddQuestion_Reread(t) ==
    /\ At(t, "question") /\ Step(t, "answer")
    /\ coneNodes' = Add(coneNodes, Question(t), turns[t].tree,
                        IF turns[t].cone \in DOMAIN cones THEN cones[turns[t].cone].head
                        ELSE turns[t].head, Lasting(t, "user"))
    /\ UNCHANGED <<cones, coneMessages>>
AddQuestion(t) ==
    /\ At(t, "question") /\ Step(t, "answer")
    /\ coneNodes' = Add(coneNodes, Question(t), turns[t].tree, turns[t].head, Lasting(t, "user"))
    /\ UNCHANGED <<cones, coneMessages>>

\* The model refuses, or its stream breaks: the question stays.
ModelFails(t) ==
    /\ At(t, "answer") /\ Step(t, "failed")
    /\ UNCHANGED <<cones, coneMessages, coneNodes>>

KeepAnswer(t) ==
    /\ At(t, "answer") /\ Keep(t, "assistant", "reply")
    /\ UNCHANGED <<cones, coneNodes>>

AddReply(t) ==
    /\ At(t, "reply") /\ Step(t, "advance")
    /\ coneNodes' = Add(coneNodes, Reply(t), turns[t].tree, Question(t), Lasting(t, "assistant"))
    /\ UNCHANGED <<cones, coneMessages>>

AdvanceHead(t) ==
    LET s == turns[t].cone
    IN  /\ At(t, "advance")
        /\ IF turns[t].quick THEN UNCHANGED cones /\ Step(t, "done")
           ELSE IF s \in DOMAIN cones
           THEN cones' = [cones EXCEPT ![s].head = Reply(t)] /\ Step(t, "done")
           ELSE UNCHANGED cones /\ Step(t, "failed")
        /\ UNCHANGED <<coneMessages, coneNodes>>

\* The client goes away, or the process stops.
Drop(t) ==
    /\ turns[t].pc \notin Finished /\ Step(t, "gone")
    /\ UNCHANGED <<cones, coneMessages, coneNodes>>

TurnStep(t) ==
    \/ ReadCone(t) \/ ReadContext(t) \/ AskCone(t) \/ AddQuestion(t) \/ ModelFails(t)
    \/ KeepAnswer(t) \/ AddReply(t) \/ AdvanceHead(t)
-----------------------------------------------------------------------------
ConeInit ==
    /\ cones = <<>> /\ coneMessages = <<>> /\ coneNodes = <<>>
    /\ turns = [t \in Turn |-> [pc |-> "off", quick |-> FALSE]]

ConeNext ==
    \/ \E s \in ConeId : \/ \E n \in ConeName : ConeCreate(s, n)
                         \/ ConeDelete(s)
                         \/ \E n \in DOMAIN coneNodes \cup {NoNode} : SetHead(s, n)
    \/ \E t \in Turn :
          \/ \E quick \in BOOLEAN : \/ \E s \in ConeId : BeginById(t, s, quick)
                                  \/ \E n \in ConeName : BeginByName(t, n, quick)
          \/ TurnStep(t) \/ Drop(t)

ConeSpec == ConeInit /\ [][ConeNext]_coneVars
-----------------------------------------------------------------------------
(***************************************************************************)
(* Properties.                                                             *)
(***************************************************************************)
\* What the model was sent is the branch that the question is on, whatever other
\* turns, set_head and deletions did between the reading and the writing.
ContextMatchesBranch ==
    \A t \in Turn : Question(t) \in DOMAIN coneNodes =>
        Spoken(Path(coneNodes, Question(t))) = Append(turns[t].sent, Question(t))
-----------------------------------------------------------------------------
(***************************************************************************)
(* The inductive invariant behind it, besides that the nodes are a forest: *)
(* how far a turn u of id t has come in the nodes ns.                      *)
(***************************************************************************)
ConeNode == {Trunk(s) : s \in ConeId} \cup {<<t, i>> : t \in Turn, i \in {0, 1}}

\* From its first step on a turn has all of its local variables.
Complete(u) == u = [pc |-> u.pc, quick |-> u.quick, cone |-> u.cone,
                    tree |-> u.tree, head |-> u.head, sent |-> u.sent]

\* Between the reading and the question nobody changes the branch that was read.
OnTrack(ns, t, u) ==
    /\ u.pc = "off" \/ Complete(u)
    /\ u.pc \in {"off", "read", "context", "ask", "question"} => Question(t) \notin DOMAIN ns
    /\ u.pc \in {"answer", "reply"} => Question(t) \in DOMAIN ns
    /\ u.pc \in {"off", "read", "context", "ask", "question", "answer", "reply"} => Reply(t) \notin DOMAIN ns
    /\ u.pc \in {"ask", "question"} => u.head \in DOMAIN ns /\ Spoken(Path(ns, u.head)) = u.sent
    /\ Question(t) \in DOMAIN ns => Spoken(Path(ns, Question(t))) = Append(u.sent, Question(t))

TurnsOnTrack ==
    /\ DOMAIN coneNodes \subseteq ConeNode
    /\ DOMAIN turns = Turn
    /\ \A t \in Turn : OnTrack(coneNodes, t, turns[t])
=============================================================================
