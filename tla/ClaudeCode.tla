------------------------------- MODULE ClaudeCode -------------------------------
(***************************************************************************)
(* Agent sessions (src/activations/claudecode).  A session has a canonical *)
(* head in an arbor tree.  A chat reads the session once, appends a chain  *)
(* of nodes below the head it read (the question, one node per event of    *)
(* the agent, the answer) and moves the head in the last step.  A direct   *)
(* chat lives as long as its client listens; an asynchronous one is a task *)
(* of its own that fills a buffer in memory, which clients poll.           *)
(***************************************************************************)
EXTENDS Trees, Maps

CONSTANTS
    Session,     \* session ids, taken in order; a session's own tree has its id
    Name,        \* names that callers give; none is a prefix of another
    Chat,        \* chats, each made at most once
    Async,       \* those made by chat_async
    MayBeEphemeral, \* those that may ask not to advance the head
    Script,      \* what the agent process may say to each: sequences of raw events
    Limit        \* the limits that a poll may give

\* What the agent process says.  sid: it names its own session; text: a text delta;
\* block: the same text again in an assistant message; tool and permit: a finished
\* tool_use block, of loopback_permit; result: a tool result; stderr: also the launch
\* command; unknown: anything else; error: the agent reports an error.
RawClaudeEvent == {"sid", "text", "block", "tool", "permit", "result", "stderr", "unknown", "error"}

ASSUME ClaudeCodeAssumption ==
    /\ Async \subseteq Chat /\ MayBeEphemeral \subseteq Chat
    /\ Session \subseteq Nat /\ Limit \subseteq Nat
    /\ \A c \in Chat : Script[c] \subseteq Seq(RawClaudeEvent)
    /\ \A s \in Session : <<s>> # NoNode
    /\ NoNode \notin Chat \cup Chat \X Nat

VARIABLES
    sessions,   \* rows of claudecode_sessions
    messages,   \* rows of claudecode_messages, by chat and role: the session
    ccNodes,    \* rows of arbor's nodes; what node_children adds is in Arbor
    making,     \* create and fork calls that have not returned
    chat,       \* chats: control point and local variables
    streams,    \* the buffers of asynchronous chats
    seen,       \* what the poller of each stream has been given, and if that is all
    overlap     \* history: sessions on which two calls that move the head ran at once

ccVars == <<sessions, messages, ccNodes, making, chat, streams, seen, overlap>>

Idle == [pc |-> "off", eph |-> FALSE]
Unseen == [c \in Async |-> [events |-> <<>>, over |-> FALSE]]
Ephemeral == {c \in Chat : chat[c].eph}
Over == {"off", "done", "failed", "gone"}
Busy(s) == {c \in Chat : chat[c].pc \notin Over /\ chat[c].session = s}

\* The rows of one chat: question 0, answer 1, and its event nodes from 2 on.
Root(s) == <<s>>
Answer(c) == <<c, 1>>
Below(c) == <<c, chat[c].parent[2] + 1>>
-----------------------------------------------------------------------------
(***************************************************************************)
(* Sessions: create, fork, delete.                                         *)
(***************************************************************************)
\* session_get_by_name: the exact name, or else the only name that starts so.
Exact(n) == {s \in DOMAIN sessions : sessions[s].name = <<n>>}
Matching(n) == {s \in DOMAIN sessions : sessions[s].name[1] = n}
Resolved(n) == IF Exact(n) # {} THEN Exact(n)
               ELSE IF Cardinality(Matching(n)) = 1 THEN Matching(n) ELSE {}

\* session_create begins with tree_create; `head' is where a fork will move.
SessionCreate(s, n, head) ==
    /\ Root(s) \notin DOMAIN ccNodes          \* a fresh id: the next one
    /\ \A u \in Session : u < s => Root(u) \in DOMAIN ccNodes
    /\ ccNodes' = Add(ccNodes, Root(s), s, NoNode, "root")
    /\ making' = Put(making, s, [name |-> n, head |-> head, inserted |-> FALSE])
    /\ UNCHANGED <<sessions, messages, chat, streams, seen, overlap>>

Create(s, n) == SessionCreate(s, n, NoNode)
\* A fork reads its parent before anything else.
Fork(s, n, m) == \E p \in Resolved(m) : SessionCreate(s, n, sessions[p].head)

\* The name is taken as given, or, after a collision, with the id appended.
InsertSession(s) ==
    /\ s \in DOMAIN making /\ ~making[s].inserted
    /\ LET n == making[s].name
       IN  sessions' = Put(sessions, s, [name |-> IF Exact(n) = {} THEN <<n>> ELSE <<n, s>>,
                                          tree |-> s, head |-> Root(s), sid |-> NoNode])
    /\ making' = IF making[s].head = NoNode THEN Without(making, {s})
                 ELSE [making EXCEPT ![s].inserted = TRUE]
    /\ UNCHANGED <<messages, ccNodes, chat, streams, seen, overlap>>

\* session_update_head: only the head's node changes, not its tree.
Headed_KeepsHead(s, n, sid) ==
    [sessions EXCEPT ![s].sid = IF sid = NoNode THEN @ ELSE sid]
Headed(s, n, sid) ==
    [sessions EXCEPT ![s].head = n, ![s].sid = IF sid = NoNode THEN @ ELSE sid]

ForkHead(s) ==
    /\ s \in DOMAIN making /\ making[s].inserted
    /\ sessions' = IF s \in DOMAIN sessions THEN Headed(s, making[s].head, NoNode) ELSE sessions
    /\ making' = Without(making, {s})
    /\ overlap' = IF Busy(s) = {} THEN overlap ELSE overlap \cup {s}
    /\ UNCHANGED <<messages, ccNodes, chat, streams, seen>>

\* The tree stays, and the messages go with the session.
Delete(s) ==
    /\ s \in DOMAIN sessions
    /\ sessions' = Without(sessions, {s})
    /\ messages' = Without(messages, {m \in DOMAIN messages : messages[m] = s})
    /\ UNCHANGED <<ccNodes, making, chat, streams, seen, overlap>>
-----------------------------------------------------------------------------
(***************************************************************************)
(* Stream buffers.  A chat without a buffer pushes to nobody.              *)
(***************************************************************************)
Pushed(str, c, e) ==
    IF c \in DOMAIN str THEN [str EXCEPT ![c].events = Append(@, e)] ELSE str
Marked(str, c, status) ==
    IF c \in DOMAIN str THEN [str EXCEPT ![c].status = status] ELSE str

\* stream_poll without from_seq: what follows the read position, up to limit.
Batch(b, k) ==
    SubSeq(b.events, b.read + 1, IF b.read + k < Len(b.events) THEN b.read + k ELSE Len(b.events))
Advance(b, k) == b.read + Len(Batch(b, k))

Poll(c, k) ==
    /\ c \in DOMAIN streams
    /\ LET buf == streams[c]
       IN  /\ streams' = [streams EXCEPT ![c].read = Advance(buf, k)]
           /\ seen' = [seen EXCEPT ![c] =
                          [events |-> @.events \o Batch(buf, k),
                           over |-> Advance(buf, k) = Len(buf.events)
                                    /\ buf.status \in {"complete", "failed"}]]
    /\ UNCHANGED <<sessions, messages, ccNodes, making, chat, overlap>>
-----------------------------------------------------------------------------
(***************************************************************************)
(* Chats.  chat_stream_for_config and run_chat_background take the same    *)
(* steps; where they differ the step says so.                              *)
(***************************************************************************)
Goto(c, pc) == chat' = [chat EXCEPT ![c].pc = pc]
Fail_Silently(c) == chat' = [chat EXCEPT ![c].pc = "failed", ![c].ok = FALSE]
Fail(c) == chat' = [chat EXCEPT ![c].pc = "closing", ![c].ok = FALSE]

\* stream_create.
Buffer == [status |-> "running", events |-> <<>>, read |-> 0]

\* The session is read before the stream starts: everything below uses this copy.
StartChat(c, s, eph) ==
    /\ chat[c].pc = "off"
    /\ eph => c \in MayBeEphemeral
    /\ LET row == sessions[s]
       IN  chat' = [chat EXCEPT ![c] =
                       [pc |-> "ask", eph |-> eph, session |-> s, tree |-> row.tree, head |-> row.head,
                        oldSid |-> row.sid, sid |-> row.sid, parent |-> row.head,
                        text |-> FALSE, todo |-> <<>>, ok |-> TRUE]]
    /\ streams' = IF c \in Async THEN Put(streams, c, Buffer) ELSE streams
    /\ overlap' = IF eph \/ (Busy(s) \subseteq Ephemeral /\ s \notin DOMAIN making)
                  THEN overlap ELSE overlap \cup {s}
    /\ UNCHANGED <<sessions, messages, ccNodes, making, seen>>

ChatByName(c, n, eph) == \E s \in Resolved(n) : StartChat(c, s, eph)
ChatById(c, s, eph) == s \in DOMAIN sessions /\ StartChat(c, s, eph)

\* message_create: the foreign key refuses a message of a deleted session.
Store(c, role, pc) ==
    LET s == chat[c].session
    IN  IF s \in DOMAIN sessions
        THEN messages' = Put(messages, <<c, role>>, s) /\ Goto(c, pc)
        ELSE UNCHANGED messages /\ Fail(c)

AskMessage(c) ==
    /\ chat[c].pc = "ask"
    /\ Store(c, "user", "open")
    /\ UNCHANGED <<sessions, ccNodes, making, streams, seen, overlap>>

Kind(c, role) == IF c \in Ephemeral THEN "ephemeral" ELSE role

\* The question's node and the nodes of UserMessage and AssistantStart; then the
\* agent is launched.  Event nodes are ordinary nodes even in an ephemeral chat.
Asked(c) ==
    LET t == chat[c].tree
        asked == Add(ccNodes, <<c, 0>>, t, chat[c].head, Kind(c, "user"))
    IN  Add(Add(asked, <<c, 2>>, t, <<c, 0>>, "user_message"), <<c, 3>>, t, <<c, 2>>, "assistant_start")

OpenTurn(c) ==
    /\ chat[c].pc = "open"
    /\ ccNodes' = Asked(c)
    /\ \E script \in Script[c] :
          chat' = [chat EXCEPT ![c].pc = "stream", ![c].parent = <<c, 3>>, ![c].todo = script]
    /\ streams' = Pushed(streams, c, "start")
    /\ UNCHANGED <<sessions, messages, making, seen, overlap>>

\* One raw event of the agent: which ones become a node, which ones the client is told
\* of.  A text that has come in pieces is not taken again; what is unknown is passed
\* through without a node.
Noded(c, e) == e \in {"text", "tool", "permit", "result", "stderr"} \/ (e = "block" /\ ~chat[c].text)
Reported(c, e) == e = "unknown" \/ (Noded(c, e) /\ e # "stderr")
Awaits(e) == [permit |-> "awaiting_permission", result |-> "running"][e]

RawEvent(c) ==
    /\ chat[c].pc = "stream" /\ chat[c].todo # <<>>
    /\ LET e == Head(chat[c].todo)
           node == Below(c)
           next == [chat[c] EXCEPT !.todo = Tail(@), !.text = @ \/ e \in {"text", "block"},
                                   !.sid = IF e = "sid" THEN c ELSE @,
                                   !.parent = IF Noded(c, e) THEN node ELSE @]
       IN  /\ ccNodes' = IF Noded(c, e) THEN Add(ccNodes, node, chat[c].tree, chat[c].parent, e)
                         ELSE ccNodes
           /\ IF e = "error" THEN Fail(c) ELSE chat' = [chat EXCEPT ![c] = next]
           /\ streams' = LET str == IF e \in {"permit", "result"} THEN Marked(streams, c, Awaits(e))
                                    ELSE streams
                         IN  IF Reported(c, e) THEN Pushed(str, c, e) ELSE str
    /\ UNCHANGED <<sessions, messages, making, seen, overlap>>

\* The agent is done.  A direct chat keeps the agent's session at once, and calls
\* it an error when there was neither a text nor a session.
AgentEnds(c) ==
    LET s == chat[c].session
        keep == c \notin Async /\ chat[c].sid # chat[c].oldSid /\ s \in DOMAIN sessions
    IN  /\ chat[c].pc = "stream" /\ chat[c].todo = <<>>
        /\ sessions' = IF keep THEN [sessions EXCEPT ![s].sid = chat[c].sid] ELSE sessions
        /\ IF c \notin Async /\ ~chat[c].text /\ chat[c].sid = NoNode
           THEN Fail(c) ELSE Goto(c, "save")
        /\ UNCHANGED <<messages, ccNodes, making, streams, seen, overlap>>

SaveAnswer(c) ==
    /\ chat[c].pc = "save"
    /\ Store(c, "assistant", "close")
    /\ UNCHANGED <<sessions, ccNodes, making, streams, seen, overlap>>

\* AssistantComplete, and the node of the answer below it.
CloseTurn(c) ==
    LET t == chat[c].tree
        n == Below(c)
    IN  /\ chat[c].pc = "close"
        /\ ccNodes' = Add(Add(ccNodes, n, t, chat[c].parent, "assistant_complete"),
                          Answer(c), t, n, Kind(c, "answer"))
        /\ Goto(c, "head")
        /\ UNCHANGED <<sessions, messages, making, streams, seen, overlap>>

MoveHead_Always(c) ==
    LET s == chat[c].session
    IN  /\ chat[c].pc = "head"
        /\ IF s \in DOMAIN sessions
           THEN sessions' = Headed(s, Answer(c), chat[c].sid) /\ Goto(c, "closing")
           ELSE UNCHANGED sessions /\ Fail(c)
        /\ UNCHANGED <<messages, ccNodes, making, streams, seen, overlap>>
MoveHead(c) ==
    LET s == chat[c].session
    IN  /\ chat[c].pc = "head"
        /\ IF c \in Ephemeral THEN UNCHANGED sessions /\ Goto(c, "closing")
           ELSE IF s \in DOMAIN sessions
           THEN sessions' = Headed(s, Answer(c), chat[c].sid) /\ Goto(c, "closing")
           ELSE UNCHANGED sessions /\ Fail(c)
        /\ UNCHANGED <<messages, ccNodes, making, streams, seen, overlap>>

\* The last event is pushed, and then the status says that it was the last.
LastEvent_StatusFirst(c) ==
    /\ chat[c].pc = "closing"
    /\ streams' = Marked(streams, c, IF chat[c].ok THEN "complete" ELSE "failed")
    /\ Goto(c, "ending")
    /\ UNCHANGED <<sessions, messages, ccNodes, making, seen, overlap>>
LastEvent(c) ==
    /\ chat[c].pc = "closing"
    /\ streams' = Pushed(streams, c, IF chat[c].ok THEN "complete" ELSE "err")
    /\ Goto(c, "ending")
    /\ UNCHANGED <<sessions, messages, ccNodes, making, seen, overlap>>

LastStatus(c) ==
    /\ chat[c].pc = "ending"
    /\ streams' = Marked(streams, c, IF chat[c].ok THEN "complete" ELSE "failed")
    /\ Goto(c, IF chat[c].ok THEN "done" ELSE "failed")
    /\ UNCHANGED <<sessions, messages, ccNodes, making, seen, overlap>>

ChatStep(c) ==
    \/ AskMessage(c) \/ OpenTurn(c) \/ RawEvent(c) \/ AgentEnds(c) \/ SaveAnswer(c)
    \/ CloseTurn(c) \/ MoveHead(c) \/ LastEvent(c) \/ LastStatus(c)

\* The client of a direct chat goes away, and the chat with it.
Disconnect(c) ==
    /\ c \notin Async /\ chat[c].pc \notin Over
    /\ Goto(c, "gone")
    /\ UNCHANGED <<sessions, messages, ccNodes, making, streams, seen, overlap>>

\* The process stops: chats, calls and buffers are gone, the tables stay.
CCCrash ==
    /\ \E c \in Chat : chat[c].pc \notin Over
    /\ chat' = [c \in Chat |-> IF chat[c].pc \in Over THEN chat[c]
                               ELSE [chat[c] EXCEPT !.pc = "gone"]]
    /\ streams' = <<>> /\ making' = <<>> /\ seen' = Unseen
    /\ UNCHANGED <<sessions, messages, ccNodes, overlap>>
-----------------------------------------------------------------------------
CCInit ==
    /\ sessions = <<>> /\ messages = <<>> /\ ccNodes = <<>>
    /\ making = <<>> /\ streams = <<>>
    /\ chat = [c \in Chat |-> Idle]
    /\ seen = Unseen
    /\ overlap = {}

CCNext ==
    \/ \E s \in Session, n \in Name :
          \/ Create(s, n)
          \/ \E m \in Name : Fork(s, n, m)
    \/ \E s \in Session : InsertSession(s) \/ ForkHead(s) \/ Delete(s)
    \/ \E c \in Chat :
          \/ \E eph \in BOOLEAN : \/ \E n \in Name : ChatByName(c, n, eph)
                                \/ \E s \in Session : ChatById(c, s, eph)
          \/ ChatStep(c) \/ Disconnect(c)
          \/ \E k \in Limit : Poll(c, k)
    \/ CCCrash

\* Asynchronous chats are tokio tasks, and the agent process comes to its end.
\* Nobody has to call, to poll or to stay.
CCFairness == \A c \in Async : WF_ccVars(ChatStep(c))

CCSpec == CCInit /\ [][CCNext]_ccVars /\ CCFairness
-----------------------------------------------------------------------------
(***************************************************************************)
(* Properties.                                                             *)
(***************************************************************************)
\* The conversation of a session is made of whole exchanges: whatever other
\* chats failed, were dropped or are on their way, every question on the way to
\* the head is followed by its answer, and none of it is ephemeral.
WholeExchanges ==
    \A s \in DOMAIN sessions : \A n \in OnPath(ccNodes, sessions[s].head) :
        /\ ccNodes[n].kind # "ephemeral"
        /\ ccNodes[n].kind = "user" => Answer(n[1]) \in OnPath(ccNodes, sessions[s].head)

\* Chats that a session's callers make one after the other add up: each
\* exchange that was completed stays on the way to the head.  (Two chats at once
\* start from the same head, and the first answer drops out.)
Continuity ==
    \A c \in Chat \ Ephemeral :
        chat[c].pc = "done" /\ chat[c].session \in DOMAIN sessions \ overlap
        => Answer(c) \in OnPath(ccNodes, sessions[chat[c].session].head)

\* When a poll says that the chat is over and that there is no more, the client
\* has been given all of it, the last event included: the status is set after the
\* event is pushed, and a poll reads both at once.
NothingAfterTheEnd ==
    \A c \in Async :
        seen[c].over
        => /\ seen[c].events = streams[c].events
           /\ \E i \in DOMAIN seen[c].events : seen[c].events[i] \in {"complete", "err"}

\* Every asynchronous chat ends for the client that polls it, unless the process
\* stops: whatever fails on the way, the status does not stay running.
EveryStreamEnds ==
    \A c \in Async :
        (c \in DOMAIN streams)
        ~> (c \notin DOMAIN streams \/ streams[c].status \in {"complete", "failed"})

\* The history of a session can be read: render_context walks from the head to the
\* root of the session's tree.
HistoryReadable ==
    \A s \in DOMAIN sessions : Readable(ccNodes, sessions[s].tree, sessions[s].head)
-----------------------------------------------------------------------------
(***************************************************************************)
(* The inductive invariants behind them.  First what the rows, the calls   *)
(* and the buffers hold at each control point.                             *)
(***************************************************************************)
Own(c) == {c} \X Nat
CCNode == {Root(s) : s \in Session} \cup Chat \X Nat
AgentId == Chat \cup {NoNode}
SessionRow == [name : {<<n>> : n \in Name} \cup Name \X Session,
               tree : Session, head : CCNode, sid : AgentId]
MakingRow == [name : Name, head : CCNode \cup {NoNode}, inserted : BOOLEAN]
ChatRow == [pc : {"ask", "open", "stream", "save", "close", "head", "closing", "ending",
                  "done", "failed", "gone"},
            eph : BOOLEAN, session : Session, tree : Session, head : CCNode, oldSid : AgentId,
            sid : AgentId, parent : CCNode, text : BOOLEAN, todo : Seq(RawClaudeEvent), ok : BOOLEAN]
Streaming == {"stream", "save", "close"}
ChatEvent == RawClaudeEvent \cup {"start", "complete", "err"}
BufferRow == [status : {"running", "awaiting_permission", "complete", "failed"},
              events : Seq(ChatEvent), read : Nat]

CCRows ==
    /\ sessions \in [DOMAIN sessions -> SessionRow] /\ DOMAIN sessions \subseteq Session
    /\ making \in [DOMAIN making -> MakingRow] /\ DOMAIN making \subseteq Session
    /\ \A s \in DOMAIN making : making[s].inserted => making[s].head # NoNode
CCChats ==
    /\ DOMAIN chat = Chat
    /\ \A c \in Chat : /\ chat[c] = Idle \/ chat[c] \in ChatRow
                       /\ chat[c].pc \in Streaming => chat[c].parent \in Own(c)
CCBuffers ==
    /\ streams \in [DOMAIN streams -> BufferRow] /\ DOMAIN streams \subseteq Async
    /\ seen \in [Async -> [events : Seq(ChatEvent), over : BOOLEAN]]
CCTyped == CCRows /\ CCChats /\ CCBuffers

\* A poller has been given the buffer up to the read position, and the status of a
\* buffer is final only when its chat has pushed its last event.
LastPushed(b) == \E i \in DOMAIN b.events : b.events[i] \in {"complete", "err"}
Heard(b, given, pc) ==
    /\ pc # "off"
    /\ b.read <= Len(b.events) /\ given.events = SubSeq(b.events, 1, b.read)
    /\ pc \in {"ending", "done", "failed"} => LastPushed(b)
    /\ b.status \in {"complete", "failed"} => pc \in {"done", "failed"}
    /\ given.over => b.read = Len(b.events) /\ b.status \in {"complete", "failed"}
Told(c) == IF c \in DOMAIN streams THEN Heard(streams[c], seen[c], chat[c].pc)
           ELSE seen[c] = [events |-> <<>>, over |-> FALSE]
StreamsTold == \A c \in Async : Told(c)

\* The rows of nodes: from a head back to its root everything is whole.
Whole(ns, h) ==
    /\ h \in DOMAIN ns
    /\ \A n \in OnPath(ns, h) : /\ ns[n].kind # "ephemeral"
                                /\ ns[n].kind = "user" => Answer(n[1]) \in OnPath(ns, h)

\* Between a head h and the node n of a chat c there are only nodes of c.
Between(ns, c, h, n) ==
    /\ n \in DOMAIN ns
    /\ OnPath(ns, h) \subseteq OnPath(ns, n) /\ OnPath(ns, n) \subseteq OnPath(ns, h) \cup Own(c)

\* What a chat, with the local variables u, has added so far.
Grown(ns, c, u) ==
    /\ u.pc # "off" => Whole(ns, u.head) /\ Root(u.session) \in DOMAIN ns
    /\ u.pc \in {"off", "ask", "open"} => DOMAIN ns \cap Own(c) = {}
    /\ ~u.eph => \A n \in DOMAIN ns \cap Own(c) : ns[n].kind # "ephemeral"
    /\ u.pc \in Streaming => /\ Between(ns, c, u.head, u.parent) /\ u.parent[2] > 2
                             /\ \A n \in DOMAIN ns \cap Own(c) : n[2] <= u.parent[2] /\ n # Answer(c)
    /\ u.pc = "head" => Between(ns, c, u.head, Answer(c))

HeadsWhole ==
    /\ \A s \in DOMAIN sessions : Whole(ccNodes, sessions[s].head) /\ Whole(ccNodes, Root(s))
    /\ \A s \in DOMAIN making : /\ Whole(ccNodes, Root(s))
                                /\ making[s].head # NoNode => Whole(ccNodes, making[s].head)
TurnsGrow ==
    /\ DOMAIN ccNodes \subseteq CCNode
    /\ \A c \in Chat : Grown(ccNodes, c, chat[c])

\* While calls on a session do not overlap, at most one chat is about to move its
\* head, it has read the head as it is, and those that have moved it are on its path.
Movers(s) == {c \in Chat \ Ephemeral : chat[c].pc # "off" /\ chat[c].session = s}
BeforeMove == {"ask", "open", "stream", "save", "close", "head"}
Moved(u) == u.pc = "done" \/ (u.pc \in {"closing", "ending"} /\ u.ok)
InTurn ==
    \A s \in Session \ overlap :
        /\ s \in DOMAIN making => Movers(s) = {}
        /\ \A c, d \in Movers(s) : chat[c].pc \in BeforeMove /\ chat[d].pc \in BeforeMove => c = d
        /\ s \in DOMAIN sessions =>
              \A c \in Movers(s) :
                  /\ chat[c].pc \in BeforeMove => chat[c].head = sessions[s].head
                  /\ Moved(chat[c]) => Answer(c) \in OnPath(ccNodes, sessions[s].head)
=============================================================================
