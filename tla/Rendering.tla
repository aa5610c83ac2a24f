------------------------------- MODULE Rendering -------------------------------
(***************************************************************************)
(* render_messages of src/activations/claudecode/storage.rs: the events on *)
(* the way to a node of a conversation, grouped into the messages that are *)
(* sent to the model.  A block of a message is the index of its event.     *)
(***************************************************************************)
EXTENDS Naturals, Sequences, SequencesExt

CONSTANT MaxEvents
ASSUME RenderingAssumption == MaxEvents \in Nat

VARIABLE events     \* kinds of the events on the path, the oldest first

Content == {"content_text", "tool_use"}     \* thinking blocks are like texts
Nobody == "nobody"
-----------------------------------------------------------------------------
\* A message is finished when the speaker changes; without a speaker the blocks
\* that were collected stay collected.
Flush_Copy(acc) ==
    IF acc.role # Nobody /\ acc.blocks # <<>>
    THEN [acc EXCEPT !.role = Nobody,
                     !.messages = Append(@, [role |-> acc.role, blocks |-> acc.blocks])]
    ELSE [acc EXCEPT !.role = Nobody]
Flush(acc) ==
    IF acc.role # Nobody /\ acc.blocks # <<>>
    THEN [role |-> Nobody, blocks |-> <<>>,
          messages |-> Append(acc.messages, [role |-> acc.role, blocks |-> acc.blocks])]
    ELSE [acc EXCEPT !.role = Nobody]

Render(acc, i) ==
    LET e == events[i]
    IN  CASE e = "user_message" -> [Flush(acc) EXCEPT !.role = "user", !.blocks = Append(@, i)]
          [] e = "assistant_start" -> [Flush(acc) EXCEPT !.role = "assistant"]
          [] e \in Content -> [acc EXCEPT !.blocks = Append(@, i)]
          [] e = "user_tool_result" ->
                [Flush(acc) EXCEPT !.messages = Append(@, [role |-> "user", blocks |-> <<i>>])]
          [] e = "assistant_complete" -> Flush(acc)
          [] e = "claude_stderr" -> acc

\* From a node of the path; the nodes before it are left out, even if it stands in the
\* middle of a turn.  Without a start it is the root, which holds nothing and has the
\* first event below it; a start that is not on the path is refused.
RenderMessages(start) ==
    LET read[k \in 0 .. Len(events)] ==
          IF k = 0 THEN [role |-> Nobody, blocks |-> <<>>, messages |-> <<>>]
          ELSE IF k < start THEN read[k - 1]
          ELSE Render(read[k - 1], k)
    IN  Flush(read[Len(events)]).messages
-----------------------------------------------------------------------------
\* The nodes of a chat, as chat_stream_for_config makes them, one turn after the
\* other; the end that a caller asks for may be any node.
Opened == events # <<>> /\ events[Len(events)] # "assistant_complete"

AppendEvent(e) ==
    /\ Len(events) < MaxEvents
    /\ CASE ~Opened -> e = "user_message"
         [] Opened /\ events[Len(events)] = "user_message" -> e = "assistant_start"
         [] OTHER -> e \in Content \cup {"user_tool_result", "claude_stderr", "assistant_complete"}
    /\ events' = Append(events, e)

RenderInit == events = <<>>
RenderNext ==
    \E e \in Content \cup {"user_message", "assistant_start", "user_tool_result", "claude_stderr",
                           "assistant_complete"} : AppendEvent(e)
RenderSpec == RenderInit /\ [][RenderNext]_events
-----------------------------------------------------------------------------
\* Who said each block.
Speaker(i) == IF events[i] \in Content THEN "assistant" ELSE "user"
Shown(start) ==
    {i \in DOMAIN events : i >= start /\ events[i] \in Content \cup {"user_message", "user_tool_result"}}
BlocksOf(messages) == [m \in DOMAIN messages |-> messages[m].blocks]
Blocks(messages) == FlattenSeq(BlocksOf(messages))

\* The agent has begun to speak after the start and no tool has answered since.
Speaking(start, k) ==
    \E m \in start .. k :
        events[m] = "assistant_start" /\ \A x \in m .. k : events[x] # "user_tool_result"
\* The agent says something after a tool result of the same turn, or in a turn that
\* began before the start.
SpeaksUnannounced(start) ==
    \E i \in DOMAIN events : i >= start /\ events[i] \in Content /\ ~Speaking(start, i)

\* Grouped by type of event: what the assistant said is in a message of the
\* assistant, and what the user said or a tool answered in one of the user.
SpeakersKept(messages) ==
    \A m \in DOMAIN messages : \A k \in DOMAIN messages[m].blocks :
        Speaker(messages[m].blocks[k]) = messages[m].role

\* From any start to any end between which the agent says nothing unannounced, the
\* messages hold every block once, in order, each in a message of the one who said it.
PlainTurnsRendered ==
    \A start \in DOMAIN events :
        ~SpeaksUnannounced(start) =>
            LET messages == RenderMessages(start)
                blocks == Blocks(messages)
            IN  /\ SpeakersKept(messages)
                /\ Range(blocks) = Shown(start)
                /\ \A i, j \in DOMAIN blocks : i < j => blocks[i] < blocks[j]
=============================================================================
