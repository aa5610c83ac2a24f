------------------------------ MODULE MCServices ------------------------------
(***************************************************************************)
(* Instances of parts that share no state: the approvals, the forecasts    *)
(* (those who wait for a program and those who record outcomes only read   *)
(* what it writes, so there is a part with each), and three computations:  *)
(* the collapsing of a tree, the rendering of a conversation and the       *)
(* compilation of a ticket file.  `part' says which a behaviour is of.     *)
(***************************************************************************)
EXTENDS Loopback, Forecasts, TreeViews, Rendering, Tickets

CONSTANTS s1, s2, r1, r2, a1, w1, w2

VARIABLE part

vars == <<part, loopbackVars, forecastVars, viewVars, events, ticketVars>>

\* A session with an approver, and its parent with two readers.
ParentOf  == s2 :> s1
BothOfS2  == r1 :> s2 @@ r2 :> s2
Watched   == a1 :> s2 @@ w1 :> s1 @@ w2 :> s1

\* The first two forecasts can be fitted when their outcomes differ; the third may
\* make the iteration diverge.
Diverges == {h \in [1..3 -> {"p"} \X BOOLEAN] : h[2] = h[3]}

\* The lines of a ticket.
Prose == [tag |-> "prose"]
Valid == [tag |-> "validate"]
BlockedBy(deps) == [tag |-> "blocked_by", deps |-> deps]

\* A name, another, one that no ticket has, and one that the compiler may make up.
Names == {<<"A">>, <<"B">>, <<"A", "validate">>}
Blockers == {<<"A">>, <<"B">>, <<"C">>}

\* Empty; plain; two blockers; a validation; lines of a kind repeated; one blocker
\* each, with and without a validation.
Bodies ==
    {<<>>, <<Prose>>, <<Prose, BlockedBy(<<<<"A">>, <<"B">>>>)>>, <<Valid, Prose>>,
     <<BlockedBy(<<<<"A">>>>), Valid, BlockedBy(<<<<"B">>>>), Prose>>}
    \cup {<<Prose, BlockedBy(<<b>>)>> : b \in Blockers}
    \cup {<<Prose, Valid, BlockedBy(<<b>>)>> : b \in Blockers}

Init ==
    /\ part \in {"approvals", "programs", "calibration", "views", "render", "tickets"}
    /\ LoopbackInit /\ ForecastInit /\ ViewInit /\ RenderInit /\ TicketsInit

Next ==
    /\ part' = part
    /\ \/ /\ part = "approvals" /\ LoopbackNext
          /\ UNCHANGED <<forecastVars, viewVars, events, ticketVars>>
       \/ /\ part \in {"programs", "calibration"} /\ ForecastNext
          /\ part = "programs" => UNCHANGED resolver
          /\ part = "calibration" => UNCHANGED poller
          /\ UNCHANGED <<loopbackVars, viewVars, events, ticketVars>>
       \/ /\ part = "views" /\ ViewNext
          /\ UNCHANGED <<loopbackVars, forecastVars, events, ticketVars>>
       \/ /\ part = "render" /\ RenderNext
          /\ UNCHANGED <<loopbackVars, forecastVars, viewVars, ticketVars>>
       \/ /\ part = "tickets" /\ TicketsNext
          /\ UNCHANGED <<loopbackVars, forecastVars, viewVars, events>>

\* In a behaviour of another part nothing has to happen to approvals and forecasts.
Spec == Init /\ [][Next]_vars /\ LoopbackFairness /\ ForecastFairness
=============================================================================
