------------------------------- MODULE Loopback -------------------------------
(***************************************************************************)
(* Approvals (src/activations/claudecode_loopback): an agent that wants to *)
(* use a tool, or a review node of a graph, creates a pending approval and *)
(* polls it; a person or an automatic approver resolves it.  Readers learn *)
(* of new approvals through one tokio Notify per session.                  *)
(***************************************************************************)
EXTENDS Naturals, Sequences, SequencesExt, FiniteSets

CONSTANTS
    Session,
    Parent,       \* register_session_parent: a function on the child sessions
    Request,      \* approval requests, each made at most once
    SessionOf,
    Review,       \* requests of dispatch_review; the others are loopback.permit
    Approver,     \* the automatic approvers that dispatch_task spawns
    Waiter,       \* calls of wait_for_approval
    Subscriber,   \* calls of subscribe_approvals
    Watches       \* the session of each of these readers

Reader == Approver \cup Waiter \cup Subscriber

ASSUME LoopbackAssumption ==
    /\ DOMAIN Parent \subseteq Session
    /\ \A s \in DOMAIN Parent : Parent[s] \in Session
    /\ SessionOf \in [Request -> Session]
    /\ Review \subseteq Request
    /\ Watches \in [Reader -> Session]

VARIABLES
    status,     \* rows of loopback_approvals; approved or denied is "resolved"
    asker,      \* control point of the caller of permit, or of the review node
    notifiers,  \* sessions that have a Notify
    permit,     \* sessions whose Notify holds a permit
    waiters,    \* the readers waiting on it, first come first
    reader,     \* control point of each reader
    got,        \* the approvals it has listed and not yet resolved
    unseen,     \* history: approvals raised for a session that no reader has listed
    dropped     \* history: sessions of clients that left while they listed again

loopbackVars == <<status, asker, notifiers, permit, waiters, reader, got, unseen, dropped>>

Pc == {"off", "list", "relist", "act", "await", "wait", "woken", "done"}
Members(s) == {x \in Reader : Watches[x] = s}
-----------------------------------------------------------------------------
(***************************************************************************)
(* notify_session: notify_one on the session's notifier and on its         *)
(* parent's, where they exist.                                             *)
(***************************************************************************)
Family(s) == {s} \cup {Parent[c] : c \in DOMAIN Parent \cap {s}}
Announced_Self(s) == {s} \cap notifiers
Announced(s) == Family(s) \cap notifiers

Permits_None(S) == permit
Permits(S) == permit \cup {s \in S : waiters[s] = <<>>}

NotifyOne(S) ==
    LET heads == {Head(waiters[s]) : s \in {t \in S : waiters[t] # <<>>}}
    IN  /\ permit' = Permits(S)
        /\ waiters' = [s \in Session |-> IF s \in S /\ waiters[s] # <<>>
                                         THEN Tail(waiters[s]) ELSE waiters[s]]
        /\ reader' = [x \in Reader |-> IF x \in heads THEN "woken" ELSE reader[x]]

\* list_pending(session): its own approvals and those of its children.
Scope(s) == {s} \cup {c \in DOMAIN Parent : Parent[c] = s}
Raised(s) == {r \in Request : SessionOf[r] \in Scope(s)}
Pending(s) == {r \in Raised(s) : status[r] = "pending"}
-----------------------------------------------------------------------------
(***************************************************************************)
(* The callers: loopback.permit and dispatch_review.                       *)
(***************************************************************************)
\* create_approval inserts the row and then notifies.
Ask(r) ==
    /\ status[r] = "none"
    /\ status' = [status EXCEPT ![r] = "pending"]
    /\ asker' = [asker EXCEPT ![r] = "asking"]
    /\ UNCHANGED <<notifiers, permit, waiters, reader, got, unseen, dropped>>

Announce(r) ==
    LET told == Announced(SessionOf[r])
    IN  /\ asker[r] = "asking"
        /\ asker' = [asker EXCEPT ![r] = "polling"]
        /\ NotifyOne(told)
        /\ unseen' = [s \in Session |-> IF s \in notifiers /\ r \in Pending(s)
                                        THEN unseen[s] \cup {r} ELSE unseen[s]]
        /\ UNCHANGED <<status, notifiers, got, dropped>>

Poll(r) ==
    /\ asker[r] = "polling"
    /\ status[r] = "resolved"
    /\ asker' = [asker EXCEPT ![r] = "answered"]
    /\ UNCHANGED <<status, notifiers, permit, waiters, reader, got, unseen, dropped>>

\* resolve_approval is an unconditional update: it also overwrites.
Resolve(r) == status' = [status EXCEPT ![r] = "resolved"]

\* permit gives up after five minutes, without looking at the status again; a
\* review node that is cancelled leaves its approval pending.
GiveUp(r) ==
    /\ asker[r] = "polling"
    /\ asker' = [asker EXCEPT ![r] = "answered"]
    /\ IF r \in Review THEN UNCHANGED status ELSE Resolve(r)
    /\ UNCHANGED <<notifiers, permit, waiters, reader, got, unseen, dropped>>

\* loopback.respond and orcha's approve and deny methods.
Respond(r) ==
    /\ status[r] # "none"
    /\ Resolve(r)
    /\ UNCHANGED <<asker, notifiers, permit, waiters, reader, got, unseen, dropped>>
-----------------------------------------------------------------------------
(***************************************************************************)
(* The readers, each one call: an approver waits before it first lists,    *)
(* the others list first.                                                  *)
(***************************************************************************)
Enter(x) ==
    /\ reader[x] = "off"
    /\ notifiers' = notifiers \cup {Watches[x]}
    /\ reader' = [reader EXCEPT ![x] = IF x \in Approver THEN "await" ELSE "list"]
    /\ UNCHANGED <<status, asker, permit, waiters, got, unseen, dropped>>

\* notifier.notified(): take the permit, or wait.
Await(x) ==
    LET s == Watches[x]
    IN  /\ reader[x] = "await"
        /\ IF s \in permit
           THEN /\ permit' = permit \ {s}
                /\ reader' = [reader EXCEPT ![x] = "relist"]
                /\ UNCHANGED waiters
           ELSE /\ reader' = [reader EXCEPT ![x] = "wait"]
                /\ waiters' = [waiters EXCEPT ![s] = Append(@, x)]
                /\ UNCHANGED permit
        /\ UNCHANGED <<status, asker, notifiers, got, unseen, dropped>>

\* The task of the reader runs again: the notification is consumed.
Wake(x) ==
    /\ reader[x] = "woken"
    /\ reader' = [reader EXCEPT ![x] = "relist"]
    /\ UNCHANGED <<status, asker, notifiers, permit, waiters, got, unseen, dropped>>

\* An approver resolves what it finds, wait_for_approval returns it, and
\* subscribe_approvals shows it and waits for more.
List(x) ==
    LET s == Watches[x]
        found == Pending(s)
    IN  /\ reader[x] \in {"list", "relist"}
        /\ unseen' = [unseen EXCEPT ![s] = @ \ found]
        /\ got' = [got EXCEPT ![x] = IF x \in Approver THEN found ELSE {}]
        /\ reader' = [reader EXCEPT ![x] = CASE x \in Approver -> "act"
                                             [] x \in Waiter /\ found # {} -> "done"
                                             [] OTHER -> "await"]
        /\ UNCHANGED <<status, asker, notifiers, permit, waiters, dropped>>

Approve(x) ==
    /\ reader[x] = "act"
    /\ \E r \in got[x] :
          /\ Resolve(r)
          /\ got' = [got EXCEPT ![x] = @ \ {r}]
    /\ UNCHANGED <<asker, notifiers, permit, waiters, reader, unseen, dropped>>

Approved(x) ==
    /\ reader[x] = "act"
    /\ got[x] = {}
    /\ reader' = [reader EXCEPT ![x] = "await"]
    /\ UNCHANGED <<status, asker, notifiers, permit, waiters, got, unseen, dropped>>

\* The task is over, the timeout has come, or the client has gone.  A reader that was
\* woken and has not run since passes the notification on (Notify does, when a notified
\* future is dropped).
Forward_Lost(s, x) ==
    /\ reader' = [reader EXCEPT ![x] = "done"]
    /\ UNCHANGED <<permit, waiters>>
Forward(s, x) ==
    IF waiters[s] = <<>>
    THEN /\ permit' = permit \cup {s}
         /\ reader' = [reader EXCEPT ![x] = "done"]
         /\ UNCHANGED waiters
    ELSE /\ waiters' = [waiters EXCEPT ![s] = Tail(@)]
         /\ reader' = [reader EXCEPT ![x] = "done", ![Head(waiters[s])] = "woken"]
         /\ UNCHANGED permit

Leave(x) ==
    LET s == Watches[x]
    IN  /\ \/ /\ reader[x] = "await"
              /\ reader' = [reader EXCEPT ![x] = "done"]
              /\ UNCHANGED <<permit, waiters>>
           \/ \E i \in DOMAIN waiters[s] :
                 /\ waiters[s][i] = x
                 /\ reader' = [reader EXCEPT ![x] = "done"]
                 /\ waiters' = [waiters EXCEPT ![s] = RemoveAt(@, i)]
                 /\ UNCHANGED permit
           \/ /\ reader[x] = "woken"
              /\ Forward(s, x)
        /\ UNCHANGED <<status, asker, notifiers, got, unseen, dropped>>

\* A client drops its stream during list_pending.  What it has consumed is not passed
\* on.  An approver has no client.
Drop(x) ==
    /\ x \notin Approver
    /\ reader[x] \in {"list", "relist"}
    /\ reader' = [reader EXCEPT ![x] = "done"]
    /\ dropped' = IF reader[x] = "relist" THEN dropped \cup {Watches[x]} ELSE dropped
    /\ UNCHANGED <<status, asker, notifiers, permit, waiters, got, unseen>>
-----------------------------------------------------------------------------
LoopbackInit ==
    /\ status = [r \in Request |-> "none"]
    /\ asker = [r \in Request |-> "none"]
    /\ notifiers = {} /\ permit = {}
    /\ waiters = [s \in Session |-> <<>>]
    /\ reader = [x \in Reader |-> "off"]
    /\ got = [x \in Reader |-> {}]
    /\ unseen = [s \in Session |-> {}]
    /\ dropped = {}

Serve(x) == Await(x) \/ Wake(x) \/ List(x) \/ Approve(x) \/ Approved(x)

LoopbackNext ==
    \/ \E r \in Request : Ask(r) \/ Announce(r) \/ Poll(r) \/ GiveUp(r) \/ Respond(r)
    \/ \E x \in Reader : Enter(x) \/ Serve(x) \/ Leave(x) \/ Drop(x)

\* Readers are tokio tasks and keep running, and create_approval returns; nobody has to
\* ask, to respond, to give up, to come or to leave.
LoopbackFairness ==
    /\ \A x \in Reader : WF_loopbackVars(Serve(x))
    /\ \A r \in Request : WF_loopbackVars(Announce(r))

LoopbackSpec == LoopbackInit /\ [][LoopbackNext]_loopbackVars /\ LoopbackFairness
-----------------------------------------------------------------------------
(***************************************************************************)
(* Properties.                                                             *)
(***************************************************************************)
\* No lost wake-up: an approval that was raised for a session and that no reader has
\* listed keeps one reader of the session awake, or a permit for the next one, though
\* readers are busy, time out, are dropped as they wake up or are not there at all
\* (notify_session uses notify_one "preventing lost wakeups").  Not so once a client
\* has dropped its stream during list_pending, after it consumed the notification.
Awake(s) == s \in permit \/ \E x \in Members(s) : reader[x] \in {"relist", "woken"}

NoLostWakeup ==
    \A s \in Session \ dropped : (\E r \in unseen[s] : status[r] = "pending") => Awake(s)

\* While approvers are the only readers of a session and one of them stays, an
\* approval announced to the session is resolved without anybody's help.
Deserted(s) == \A x \in Members(s) : reader[x] \in {"off", "done"}
ApproverResolves ==
    \A s \in {t \in Session : Members(t) \subseteq Approver} : \A r \in Raised(s) :
        r \in unseen[s] ~> (status[r] # "pending" \/ Deserted(s))

\* A parent is told of its child's approvals, and of its own: at least one of its readers
\* lists an approval that was raised for it or for a child, or all of them leave, or a
\* client drops its stream during list_pending.  (The other readers may sleep on:
\* notify_one wakes one of them.)
SomeReaderIsTold ==
    \A s \in Range(Parent) : \A r \in Raised(s) :
        r \in unseen[s]
        ~> (r \notin unseen[s] \/ status[r] # "pending" \/ s \in dropped \/ Deserted(s))
-----------------------------------------------------------------------------
(***************************************************************************)
(* The inductive invariant of LoopbackProofs: what waits on a Notify is a  *)
(* reader of that session, once, and a session is only told of what it     *)
(* will list.                                                              *)
(***************************************************************************)
LoopbackTyped ==
    /\ status \in [Request -> {"none", "pending", "resolved"}]
    /\ waiters \in [Session -> Seq(Reader)]
    /\ reader \in [Reader -> Pc]
    /\ unseen \in [Session -> SUBSET Request]
    /\ dropped \subseteq Session

Queued ==
    \A s \in Session : \A i \in DOMAIN waiters[s] :
        /\ Watches[waiters[s][i]] = s /\ reader[waiters[s][i]] = "wait"
        /\ \A j \in DOMAIN waiters[s] : waiters[s][j] = waiters[s][i] => j = i

ToldOfItsOwn ==
    \A s \in Session : \A r \in unseen[s] : SessionOf[r] \in Scope(s) /\ status[r] # "none"

LoopbackIInv == LoopbackTyped /\ Queued /\ ToldOfItsOwn /\ NoLostWakeup
=============================================================================
