---------------------------- MODULE MCConversations ----------------------------
(***************************************************************************)
(* Instances of the tree store and of the two activations that keep a      *)
(* conversation in it, checked side by side: `part' says which of them a   *)
(* behaviour is of.  Of the chats of claudecode, a fails, or asks for a    *)
(* permission; b says nothing at all, or answers.                          *)
(***************************************************************************)
EXTENDS Arbor, Cone, ClaudeCode, TLC

CONSTANTS a, b

VARIABLE part

vars == <<part, arborVars, coneVars, ccVars>>

Scripts == a :> {<<"error">>, <<"permit">>} @@ b :> {<<>>, <<"block">>}

Init == part \in {"arbor", "cone", "claudecode"} /\ ArborInit /\ ConeInit /\ CCInit
Next ==
    /\ part' = part
    /\ \/ part = "arbor" /\ ArborNext /\ UNCHANGED <<coneVars, ccVars>>
       \/ part = "cone" /\ ConeNext /\ UNCHANGED <<arborVars, ccVars>>
       \/ part = "claudecode" /\ CCNext /\ UNCHANGED <<arborVars, coneVars>>

\* In a behaviour of another part no chat has started, and nothing has to happen.
Spec == Init /\ [][Next]_vars /\ CCFairness
=============================================================================
