----------------------------- MODULE ServicesProofs -----------------------------
(***************************************************************************)
(* Theorems about the services that several callers share.  Loopback, for  *)
(* any number of sessions, requests and readers: no wake-up is lost but    *)
(* with a client that consumed it (LoopbackIInv).  Forecasts, for any      *)
(* number of programs, trials, resolve calls and pollers: a final status   *)
(* is backed by its file, and the parameters in force are those of the     *)
(* longest part of the history that can be fitted (ForecastIInv).          *)
(***************************************************************************)
EXTENDS Loopback, Forecasts, SequenceTheorems, FiniteSetTheorems, TLAPS

(***************************************************************************)
(* Queues.                                                                 *)
(***************************************************************************)
LEMMA HeadAndTail ==
    ASSUME NEW q \in Seq(Reader), q # <<>>
    PROVE  /\ 1 \in DOMAIN q /\ Head(q) = q[1] /\ Head(q) \in Reader
           /\ Tail(q) \in Seq(Reader)
           /\ \A i \in DOMAIN Tail(q) : i + 1 \in DOMAIN q /\ Tail(q)[i] = q[i + 1]
OBVIOUS

LEMMA Removal ==
    ASSUME NEW q \in Seq(Reader), NEW i \in DOMAIN q
    PROVE  /\ RemoveAt(q, i) \in Seq(Reader)
           /\ \A j \in DOMAIN RemoveAt(q, i) :
                 \/ j < i /\ j \in DOMAIN q /\ RemoveAt(q, i)[j] = q[j]
                 \/ j >= i /\ j + 1 \in DOMAIN q /\ RemoveAt(q, i)[j] = q[j + 1]
<1> DEFINE front == SubSeq(q, 1, i - 1)
           back == SubSeq(q, i + 1, Len(q))
<1>1. i \in Nat /\ 1 <= i /\ i <= Len(q) /\ Len(q) \in Nat /\ DOMAIN q = 1..Len(q)
  OBVIOUS
<1>2. /\ front \in Seq(Reader) /\ Len(front) = i - 1
      /\ \A j \in 1..(i - 1) : front[j] = q[j]
  BY <1>1
<1>3. /\ back \in Seq(Reader) /\ Len(back) = Len(q) - i
      /\ \A j \in 1..(Len(q) - i) : back[j] = q[i + j]
  BY <1>1
<1>4. RemoveAt(q, i) = front \o back
  BY DEF RemoveAt
<1> HIDE DEF front, back
<1>5. /\ front \o back \in Seq(Reader) /\ DOMAIN (front \o back) = 1..(Len(q) - 1)
      /\ \A j \in 1..(Len(q) - 1) :
            (front \o back)[j] = IF j <= i - 1 THEN front[j] ELSE back[j - (i - 1)]
  <2>1. front \o back \in Seq(Reader) /\ Len(front \o back) = Len(front) + Len(back)
    BY <1>2, <1>3, ConcatProperties
  <2>2. \A j \in 1..Len(front) + Len(back) :
            (front \o back)[j] = IF j <= Len(front) THEN front[j] ELSE back[j - Len(front)]
    BY <1>2, <1>3, ConcatProperties
  <2>3. Len(front) = i - 1 /\ Len(front) + Len(back) = Len(q) - 1
    BY <1>1, <1>2, <1>3
  <2>4. DOMAIN (front \o back) = 1..(Len(q) - 1)
    BY <2>1, <2>3
  <2> QED BY <2>1, <2>2, <2>3, <2>4
<1> DEFINE rest == front \o back
<1>6. rest \in Seq(Reader) /\ DOMAIN rest = 1..(Len(q) - 1)
  BY <1>5
<1>7. ASSUME NEW j \in DOMAIN rest
      PROVE  \/ j < i /\ j \in DOMAIN q /\ rest[j] = q[j]
             \/ j >= i /\ j + 1 \in DOMAIN q /\ rest[j] = q[j + 1]
  <2>1. j \in 1..(Len(q) - 1) /\ rest[j] = IF j <= i - 1 THEN front[j] ELSE back[j - (i - 1)]
    BY <1>5, <1>6, <1>7
  <2>2. CASE j <= i - 1
    BY <1>1, <1>2, <2>1, <2>2
  <2>3. CASE ~(j <= i - 1)
    <3>1. j - (i - 1) \in 1..(Len(q) - i) /\ i + (j - (i - 1)) = j + 1
      BY <1>1, <2>1, <2>3
    <3>2. rest[j] = q[j + 1]
      BY <1>3, <2>1, <2>3, <3>1
    <3> QED BY <1>1, <2>1, <2>3, <3>2
  <2> QED BY <2>2, <2>3
<1> QED BY <1>4, <1>6, <1>7
-----------------------------------------------------------------------------
(***************************************************************************)
(* Steps that wake or queue nobody.                                        *)
(***************************************************************************)
LEMMA StatusMoves ==
    ASSUME LoopbackIInv, UNCHANGED <<waiters, reader, unseen, permit, dropped>>,
           status' \in [Request -> {"none", "pending", "resolved"}],
           \A r \in Request :
              /\ status[r] # "none" => status'[r] # "none"
              /\ status'[r] = "pending" => status[r] \in {"none", "pending"}
    PROVE  LoopbackIInv'
BY DEF LoopbackIInv, LoopbackTyped, Queued, ToldOfItsOwn, NoLostWakeup, Awake, Members, Scope

LEMMA ResolveKept ==
    ASSUME LoopbackIInv, NEW r, Resolve(r), UNCHANGED <<waiters, reader, unseen, permit, dropped>>
    PROVE  LoopbackIInv'
<1>1. /\ status' \in [Request -> {"none", "pending", "resolved"}]
      /\ \A q \in Request : status'[q] = status[q] \/ status'[q] = "resolved"
  BY DEF LoopbackIInv, LoopbackTyped, Resolve
<1> QED BY <1>1, StatusMoves

LEMMA AskKept == ASSUME LoopbackIInv, NEW r \in Request, Ask(r) PROVE LoopbackIInv'
<1>1. /\ status' \in [Request -> {"none", "pending", "resolved"}]
      /\ \A q \in Request :
            status'[q] # status[q] => q = r /\ status[q] = "none" /\ status'[q] = "pending"
  BY DEF LoopbackIInv, LoopbackTyped, Ask
<1> QED BY <1>1, StatusMoves DEF Ask

\* A reader goes from a place where it does not wait to any but a queue.  If it was
\* awake, it stays so, or its session counts as dropped.
LEMMA Walks ==
    ASSUME LoopbackIInv, NEW x \in Reader, NEW pc \in Pc \ {"wait"},
           reader[x] # "wait", reader' = [reader EXCEPT ![x] = pc],
           UNCHANGED <<waiters, unseen, permit, status>>,
           dropped \subseteq dropped', dropped' \subseteq Session,
           reader[x] \in {"relist", "woken"} => pc = "relist" \/ Watches[x] \in dropped'
    PROVE  LoopbackIInv'
<1>1. /\ reader' \in [Reader -> Pc] /\ \A y \in Reader \ {x} : reader'[y] = reader[y]
      /\ LoopbackTyped'
  BY DEF LoopbackIInv, LoopbackTyped
<1>2. Queued'
  <2> SUFFICES ASSUME NEW s \in Session, NEW i \in DOMAIN waiters[s]
               PROVE  /\ Watches[waiters[s][i]] = s /\ reader'[waiters[s][i]] = "wait"
                      /\ \A j \in DOMAIN waiters[s] : waiters[s][j] = waiters[s][i] => j = i
    BY DEF Queued
  <2>1. waiters[s][i] \in Reader /\ reader[waiters[s][i]] = "wait"
    BY DEF LoopbackIInv, LoopbackTyped, Queued
  <2> QED BY <1>1, <2>1 DEF LoopbackIInv, Queued
<1>3. \A s \in Session \ dropped' : Awake(s) => Awake(s)'
  BY <1>1 DEF Awake, Members
<1>4. ToldOfItsOwn' /\ NoLostWakeup'
  BY <1>3 DEF LoopbackIInv, LoopbackTyped, ToldOfItsOwn, NoLostWakeup, Scope
<1> QED BY <1>1, <1>2, <1>4 DEF LoopbackIInv
-----------------------------------------------------------------------------
(***************************************************************************)
(* Steps on the queues.                                                    *)
(***************************************************************************)
LEMMA AnnounceKept == ASSUME LoopbackIInv, NEW r \in Request, Announce(r) PROVE LoopbackIInv'
<1> DEFINE told == Announced(SessionOf[r])
           heads == {Head(waiters[s]) : s \in {t \in told : waiters[t] # <<>>}}
<1>1. /\ told \subseteq Session
      /\ waiters' = [s \in Session |-> IF s \in told /\ waiters[s] # <<>>
                                       THEN Tail(waiters[s]) ELSE waiters[s]]
      /\ reader' = [x \in Reader |-> IF x \in heads THEN "woken" ELSE reader[x]]
      /\ permit' = permit \cup {s \in told : waiters[s] = <<>>}
      /\ unseen' = [s \in Session |-> IF s \in told /\ status[r] = "pending"
                                      THEN unseen[s] \cup {r} ELSE unseen[s]]
      /\ status' = status /\ dropped' = dropped
  <2>1. told \subseteq Session
    BY LoopbackAssumption DEF Announced, Family
  <2>2. \A s \in Session : s \in notifiers /\ r \in Pending(s) <=> s \in told /\ status[r] = "pending"
    BY LoopbackAssumption DEF Announced, Family, Pending, Raised, Scope
  <2> QED BY <2>1, <2>2 DEF Announce, NotifyOne, Permits
<1>2. LoopbackTyped'
  <2>1. waiters' \in [Session -> Seq(Reader)]
    BY <1>1, HeadAndTail DEF LoopbackIInv, LoopbackTyped
  <2>2. reader' \in [Reader -> Pc]
    BY <1>1 DEF LoopbackIInv, LoopbackTyped, Pc
  <2> QED BY <1>1, <2>1, <2>2 DEF LoopbackIInv, LoopbackTyped
\* Who is woken was the first of its own queue, and is in it no more.
<1>3. \A s \in Session : \A i \in DOMAIN waiters'[s] : \E j \in DOMAIN waiters[s] :
         /\ waiters'[s][i] = waiters[s][j]
         /\ s \in told => j = i + 1
         /\ s \notin told => j = i
  <2> SUFFICES ASSUME NEW s \in Session, NEW i \in DOMAIN waiters'[s]
               PROVE  \E j \in DOMAIN waiters[s] : /\ waiters'[s][i] = waiters[s][j]
                                                   /\ s \in told => j = i + 1
                                                   /\ s \notin told => j = i
    OBVIOUS
  <2>1. CASE s \in told /\ waiters[s] # <<>>
    BY <1>1, <2>1, HeadAndTail DEF LoopbackIInv, LoopbackTyped
  <2>2. CASE s \in told /\ waiters[s] = <<>>
    BY <1>1, <2>2
  <2>3. CASE s \notin told
    BY <1>1, <2>3
  <2> QED BY <2>1, <2>2, <2>3
<1>4. Queued'
  <2> SUFFICES ASSUME NEW s \in Session, NEW i \in DOMAIN waiters'[s]
               PROVE  /\ Watches[waiters'[s][i]] = s /\ reader'[waiters'[s][i]] = "wait"
                      /\ \A k \in DOMAIN waiters'[s] : waiters'[s][k] = waiters'[s][i] => k = i
    BY DEF Queued
  <2>1. PICK j \in DOMAIN waiters[s] : /\ waiters'[s][i] = waiters[s][j]
                                       /\ s \in told => j = i + 1
                                       /\ s \notin told => j = i
    BY <1>3
  <2>2. /\ Watches[waiters[s][j]] = s /\ reader[waiters[s][j]] = "wait" /\ waiters[s][j] \in Reader
        /\ i \in Nat /\ \A k \in DOMAIN waiters'[s] : k \in Nat
    BY <1>2 DEF LoopbackIInv, LoopbackTyped, Queued
  <2>3. waiters[s][j] \notin heads
    <3> SUFFICES ASSUME NEW t \in told, waiters[t] # <<>>, waiters[s][j] = Head(waiters[t])
                 PROVE  FALSE
      OBVIOUS
    <3>1. 1 \in DOMAIN waiters[t] /\ waiters[s][j] = waiters[t][1]
      BY <1>1, HeadAndTail DEF LoopbackIInv, LoopbackTyped
    <3>2. t = s
      BY <1>1, <3>1, <2>2 DEF LoopbackIInv, Queued
    <3>3. j = 1
      BY <3>1, <3>2 DEF LoopbackIInv, Queued
    <3>4. i >= 1
      BY <1>2 DEF LoopbackTyped
    <3> QED BY <2>1, <2>2, <3>2, <3>3, <3>4
  <2>4. \A k \in DOMAIN waiters'[s] : waiters'[s][k] = waiters'[s][i] => k = i
    <3> SUFFICES ASSUME NEW k \in DOMAIN waiters'[s], waiters'[s][k] = waiters'[s][i]
                 PROVE  k = i
      OBVIOUS
    <3>1. PICK l \in DOMAIN waiters[s] : /\ waiters'[s][k] = waiters[s][l]
                                         /\ s \in told => l = k + 1
                                         /\ s \notin told => l = k
      BY <1>3
    <3>2. l = j
      BY <2>1, <3>1 DEF LoopbackIInv, Queued
    <3> QED BY <2>1, <2>2, <3>1, <3>2
  <2> QED BY <1>1, <2>1, <2>2, <2>3, <2>4
<1>5. ToldOfItsOwn'
  <2>1. \A s \in told : SessionOf[r] \in Scope(s)
    BY LoopbackAssumption DEF Announced, Family, Scope
  <2> QED BY <1>1, <2>1 DEF LoopbackIInv, LoopbackTyped, ToldOfItsOwn, Scope
<1>6. NoLostWakeup'
  <2> SUFFICES ASSUME NEW s \in Session \ dropped, NEW q \in unseen'[s], status'[q] = "pending"
               PROVE  Awake(s)'
    BY <1>1 DEF NoLostWakeup
  <2>1. CASE s \in told /\ waiters[s] = <<>>
    BY <1>1, <2>1 DEF Awake
  <2>2. CASE s \in told /\ waiters[s] # <<>>
    <3>1. 1 \in DOMAIN waiters[s] /\ Head(waiters[s]) = waiters[s][1] /\ Head(waiters[s]) \in Reader
      BY <2>2, HeadAndTail DEF LoopbackIInv, LoopbackTyped
    <3>2. Head(waiters[s]) \in Members(s) /\ Head(waiters[s]) \in heads
      BY <2>2, <3>1 DEF LoopbackIInv, Queued, Members
    <3>3. reader'[Head(waiters[s])] = "woken"
      BY <1>1, <3>1, <3>2
    <3> QED BY <3>2, <3>3 DEF Awake, Members
  <2>3. CASE s \notin told
    <3>1. Awake(s)
      BY <1>1, <2>3 DEF LoopbackIInv, NoLostWakeup
    <3>2. \A x \in Reader : reader[x] \in {"relist", "woken"} => reader'[x] \in {"relist", "woken"}
      BY <1>1
    <3> QED BY <1>1, <3>1, <3>2 DEF Awake, Members
  <2> QED BY <2>1, <2>2, <2>3
<1> QED BY <1>2, <1>4, <1>5, <1>6 DEF LoopbackIInv

LEMMA AwaitKept == ASSUME LoopbackIInv, NEW x \in Reader, Await(x) PROVE LoopbackIInv'
<1> DEFINE s == Watches[x]
<1>1. s \in Session /\ reader[x] = "await" /\ UNCHANGED <<status, unseen, dropped>>
  BY LoopbackAssumption DEF Await
<1>2. CASE s \in permit
  <2>1. /\ permit' = permit \ {s} /\ reader' = [reader EXCEPT ![x] = "relist"] /\ waiters' = waiters
    BY <1>2 DEF Await
  <2>2. /\ LoopbackTyped' /\ reader'[x] = "relist" /\ \A y \in Reader \ {x} : reader'[y] = reader[y]
    BY <1>1, <2>1 DEF LoopbackIInv, LoopbackTyped, Pc
  <2>3. Queued'
    <3> SUFFICES ASSUME NEW t \in Session, NEW i \in DOMAIN waiters[t]
                 PROVE  /\ Watches[waiters[t][i]] = t /\ reader'[waiters[t][i]] = "wait"
                        /\ \A j \in DOMAIN waiters[t] : waiters[t][j] = waiters[t][i] => j = i
      BY <2>1 DEF Queued
    <3>1. waiters[t][i] \in Reader /\ reader[waiters[t][i]] = "wait"
      BY DEF LoopbackIInv, LoopbackTyped, Queued
    <3> QED BY <1>1, <2>2, <3>1 DEF LoopbackIInv, Queued
  <2>4. \A t \in Session : Awake(t) => Awake(t)'
    BY <1>1, <2>1, <2>2 DEF Awake, Members
  <2> QED BY <1>1, <2>2, <2>3, <2>4 DEF LoopbackIInv, LoopbackTyped, ToldOfItsOwn, NoLostWakeup, Scope
<1>3. CASE s \notin permit
  <2>1. /\ permit' = permit /\ reader' = [reader EXCEPT ![x] = "wait"]
        /\ waiters' = [waiters EXCEPT ![s] = Append(@, x)]
    BY <1>3 DEF Await
  <2>2. /\ LoopbackTyped' /\ reader'[x] = "wait" /\ \A y \in Reader \ {x} : reader'[y] = reader[y]
    BY <1>1, <2>1 DEF LoopbackIInv, LoopbackTyped, Pc
  <2>3. Queued'
    <3> SUFFICES ASSUME NEW t \in Session, NEW i \in DOMAIN waiters'[t]
                 PROVE  /\ Watches[waiters'[t][i]] = t /\ reader'[waiters'[t][i]] = "wait"
                        /\ \A j \in DOMAIN waiters'[t] : waiters'[t][j] = waiters'[t][i] => j = i
      BY DEF Queued
    <3>1. \A u \in Session : \A j \in DOMAIN waiters[u] : 
              waiters[u][j] \in Reader /\ reader[waiters[u][j]] = "wait" /\ waiters[u][j] # x
      BY <1>1 DEF LoopbackIInv, LoopbackTyped, Queued
    <3>2. CASE t # s
      <4>1. waiters'[t] = waiters[t]
        BY <2>1, <3>2 DEF LoopbackIInv, LoopbackTyped
      <4> QED BY <2>2, <3>1, <4>1 DEF LoopbackIInv, Queued
    <3>3. CASE t = s
      <4>1. /\ waiters[s] \in Seq(Reader) /\ waiters'[t] = Append(waiters[s], x)
        BY <1>1, <2>1, <3>3 DEF LoopbackIInv, LoopbackTyped
      <4>2. \A j \in DOMAIN waiters'[t] :
               \/ j \in DOMAIN waiters[s] /\ waiters'[t][j] = waiters[s][j]
               \/ j = Len(waiters[s]) + 1 /\ waiters'[t][j] = x
        BY <4>1
      <4>3. Watches[waiters'[t][i]] = t /\ reader'[waiters'[t][i]] = "wait"
        BY <1>1, <2>2, <3>1, <3>3, <4>2 DEF LoopbackIInv, Queued
      <4>4. \A j \in DOMAIN waiters'[t] : waiters'[t][j] = waiters'[t][i] => j = i
        BY <1>1, <3>1, <4>2 DEF LoopbackIInv, Queued
      <4> QED BY <4>3, <4>4
    <3> QED BY <3>2, <3>3
  <2>4. \A t \in Session : Awake(t) => Awake(t)'
    BY <1>1, <2>1, <2>2 DEF Awake, Members
  <2> QED BY <1>1, <2>2, <2>3, <2>4 DEF LoopbackIInv, LoopbackTyped, ToldOfItsOwn, NoLostWakeup, Scope
<1> QED BY <1>2, <1>3

\* Whoever lists sees all that the session was told of.
LEMMA ListKept == ASSUME LoopbackIInv, NEW x \in Reader, List(x) PROVE LoopbackIInv'
<1> DEFINE s == Watches[x]
           found == Pending(s)
<1>1. /\ s \in Session /\ reader[x] \in {"list", "relist"} /\ UNCHANGED <<status, permit, waiters, dropped>>
      /\ unseen' = [unseen EXCEPT ![s] = @ \ found]
      /\ \E pc \in {"act", "done", "await"} : reader' = [reader EXCEPT ![x] = pc]
  <2>1. (CASE x \in Approver -> "act" [] x \in Waiter /\ found # {} -> "done" [] OTHER -> "await")
           \in {"act", "done", "await"}
    OBVIOUS
  <2> QED BY <2>1, LoopbackAssumption DEF List
<1>2. LoopbackTyped' /\ \A y \in Reader \ {x} : reader'[y] = reader[y]
  BY <1>1 DEF LoopbackIInv, LoopbackTyped, Pc
<1>3. Queued'
  <2> SUFFICES ASSUME NEW t \in Session, NEW i \in DOMAIN waiters[t]
               PROVE  /\ Watches[waiters[t][i]] = t /\ reader'[waiters[t][i]] = "wait"
                      /\ \A j \in DOMAIN waiters[t] : waiters[t][j] = waiters[t][i] => j = i
    BY <1>1 DEF Queued
  <2>1. waiters[t][i] \in Reader /\ reader[waiters[t][i]] = "wait"
    BY DEF LoopbackIInv, LoopbackTyped, Queued
  <2> QED BY <1>1, <1>2, <2>1 DEF LoopbackIInv, Queued
<1>4. ToldOfItsOwn'
  BY <1>1 DEF LoopbackIInv, LoopbackTyped, ToldOfItsOwn, Scope
<1>5. NoLostWakeup'
  <2> SUFFICES ASSUME NEW t \in Session \ dropped, NEW q \in unseen'[t], status[q] = "pending"
               PROVE  Awake(t)'
    BY <1>1 DEF NoLostWakeup
  <2>1. q \in unseen[t] /\ q \in Request /\ (t = s => q \notin found)
    BY <1>1 DEF LoopbackIInv, LoopbackTyped
  <2>2. SessionOf[q] \in Scope(t)
    BY <2>1 DEF LoopbackIInv, ToldOfItsOwn
  <2>3. t # s
    BY <2>1, <2>2 DEF Pending, Raised
  <2>4. Awake(t)
    BY <2>1 DEF LoopbackIInv, NoLostWakeup
  <2> QED BY <1>1, <1>2, <2>3, <2>4 DEF Awake, Members
<1> QED BY <1>2, <1>3, <1>4, <1>5 DEF LoopbackIInv

\* Who leaves after it was woken passes the notification on.
LEMMA LeaveKept == ASSUME LoopbackIInv, NEW x \in Reader, Leave(x) PROVE LoopbackIInv'
<1> DEFINE s == Watches[x]
<1>1. s \in Session /\ UNCHANGED <<status, unseen, dropped>>
  BY LoopbackAssumption DEF Leave
<1>2. CASE reader[x] = "await" /\ reader' = [reader EXCEPT ![x] = "done"] /\ UNCHANGED <<permit, waiters>>
  BY <1>1, <1>2, Walks DEF Pc, LoopbackIInv, LoopbackTyped
<1>3. ASSUME NEW i \in DOMAIN waiters[s], waiters[s][i] = x, reader' = [reader EXCEPT ![x] = "done"],
             waiters' = [waiters EXCEPT ![s] = RemoveAt(@, i)], UNCHANGED permit
      PROVE  LoopbackIInv'
  <2>1. /\ waiters[s] \in Seq(Reader) /\ reader[x] = "wait"
        /\ waiters'[s] = RemoveAt(waiters[s], i)
        /\ \A t \in Session \ {s} : waiters'[t] = waiters[t]
        /\ \A y \in Reader \ {x} : reader'[y] = reader[y]
    BY <1>1, <1>3 DEF LoopbackIInv, LoopbackTyped, Queued
  <2>2. LoopbackTyped'
    <3>1. waiters' \in [Session -> Seq(Reader)]
      BY <1>3, <2>1, Removal DEF LoopbackIInv, LoopbackTyped
    <3> QED BY <1>1, <1>3, <3>1 DEF LoopbackIInv, LoopbackTyped, Pc
  <2>3. Queued'
    <3> SUFFICES ASSUME NEW t \in Session, NEW k \in DOMAIN waiters'[t]
                 PROVE  /\ Watches[waiters'[t][k]] = t /\ reader'[waiters'[t][k]] = "wait"
                        /\ \A j \in DOMAIN waiters'[t] : waiters'[t][j] = waiters'[t][k] => j = k
      BY DEF Queued
    <3>1. CASE t # s
      <4>1. waiters[t][k] \in Reader \ {x} /\ waiters'[t] = waiters[t]
        BY <2>1, <3>1 DEF LoopbackIInv, LoopbackTyped, Queued
      <4> QED BY <2>1, <4>1 DEF LoopbackIInv, Queued
    <3>2. CASE t = s
      <4>1. \A j \in DOMAIN waiters'[s] : 
               \/ j < i /\ j \in DOMAIN waiters[s] /\ waiters'[s][j] = waiters[s][j]
               \/ j >= i /\ j + 1 \in DOMAIN waiters[s] /\ waiters'[s][j] = waiters[s][j + 1]
        BY <1>3, <2>1, Removal
      <4>2. i \in Nat /\ \A j \in DOMAIN waiters'[s] : j \in Nat
        BY <1>1, <2>1, <2>2 DEF LoopbackTyped
      <4>3. \A j \in DOMAIN waiters'[s] :
               /\ waiters'[s][j] \in Reader \ {x}
               /\ Watches[waiters'[s][j]] = s /\ reader[waiters'[s][j]] = "wait"
        <5> SUFFICES ASSUME NEW j \in DOMAIN waiters'[s]
                     PROVE  /\ waiters'[s][j] \in Reader \ {x}
                            /\ Watches[waiters'[s][j]] = s /\ reader[waiters'[s][j]] = "wait"
          OBVIOUS
        <5>1. PICK l \in DOMAIN waiters[s] : waiters'[s][j] = waiters[s][l] /\ l # i
          BY <4>1, <4>2
        <5>2. waiters[s][l] # x
          BY <1>1, <1>3, <5>1 DEF LoopbackIInv, Queued
        <5> QED BY <1>1, <2>1, <5>1, <5>2 DEF LoopbackIInv, Queued
      <4>4. \A j \in DOMAIN waiters'[s] : waiters'[s][j] = waiters'[s][k] => j = k
        <5> SUFFICES ASSUME NEW j \in DOMAIN waiters'[s], waiters'[s][j] = waiters'[s][k] PROVE j = k
          OBVIOUS
        <5>1. \A l, m \in DOMAIN waiters[s] : waiters[s][l] = waiters[s][m] => l = m
          BY <1>1 DEF LoopbackIInv, Queued
        <5>2. k \in DOMAIN waiters'[s] /\ k \in Nat /\ j \in Nat
          BY <3>2, <4>2
        <5> QED BY <4>1, <4>2, <5>1, <5>2
      <4> QED BY <2>1, <3>2, <4>3, <4>4
    <3> QED BY <3>1, <3>2
  <2>4. \A t \in Session : Awake(t) => Awake(t)'
    BY <1>3, <2>1 DEF Awake, Members
  <2> QED BY <1>1, <2>2, <2>3, <2>4 DEF LoopbackIInv, LoopbackTyped, ToldOfItsOwn, NoLostWakeup, Scope
<1>4. CASE reader[x] = "woken" /\ Forward(s, x)
  <2>1. CASE waiters[s] = <<>>
    <3>1. /\ permit' = permit \cup {s} /\ reader' = [reader EXCEPT ![x] = "done"] /\ waiters' = waiters
      BY <1>4, <2>1 DEF Forward
    <3>2. LoopbackTyped' /\ \A y \in Reader \ {x} : reader'[y] = reader[y]
      BY <1>1, <3>1 DEF LoopbackIInv, LoopbackTyped, Pc
    <3>3. Queued'
      <4> SUFFICES ASSUME NEW t \in Session, NEW i \in DOMAIN waiters[t]
                   PROVE  /\ Watches[waiters[t][i]] = t /\ reader'[waiters[t][i]] = "wait"
                          /\ \A j \in DOMAIN waiters[t] : waiters[t][j] = waiters[t][i] => j = i
        BY <3>1 DEF Queued
      <4>1. waiters[t][i] \in Reader /\ reader[waiters[t][i]] = "wait"
        BY DEF LoopbackIInv, LoopbackTyped, Queued
      <4> QED BY <1>4, <3>2, <4>1 DEF LoopbackIInv, Queued
    <3>4. \A t \in Session : Awake(t) => Awake(t)'
      BY <3>1, <3>2 DEF Awake, Members
    <3> QED BY <1>1, <3>2, <3>3, <3>4 DEF LoopbackIInv, LoopbackTyped, ToldOfItsOwn, NoLostWakeup, Scope
  <2>2. CASE waiters[s] # <<>>
    <3> DEFINE h == Head(waiters[s])
    <3>1. /\ permit' = permit /\ waiters' = [waiters EXCEPT ![s] = Tail(@)]
          /\ reader' = [reader EXCEPT ![x] = "done", ![h] = "woken"]
      BY <1>4, <2>2 DEF Forward
    <3>2. /\ waiters[s] \in Seq(Reader) /\ 1 \in DOMAIN waiters[s] /\ h = waiters[s][1] /\ h \in Reader
          /\ Tail(waiters[s]) \in Seq(Reader)
          /\ \A i \in DOMAIN Tail(waiters[s]) :
                i + 1 \in DOMAIN waiters[s] /\ Tail(waiters[s])[i] = waiters[s][i + 1]
      BY <1>1, <2>2, HeadAndTail DEF LoopbackIInv, LoopbackTyped
    <3>3. h \in Members(s) /\ reader[h] = "wait"
      BY <1>1, <3>2 DEF LoopbackIInv, Queued, Members
    <3>4. /\ LoopbackTyped' /\ reader'[h] = "woken"
          /\ \A y \in Reader \ {x, h} : reader'[y] = reader[y]
          /\ waiters'[s] = Tail(waiters[s]) /\ \A t \in Session \ {s} : waiters'[t] = waiters[t]
      BY <1>1, <3>1, <3>2 DEF LoopbackIInv, LoopbackTyped, Pc
    <3>5. Queued'
      <4> SUFFICES ASSUME NEW t \in Session, NEW k \in DOMAIN waiters'[t]
                   PROVE  /\ Watches[waiters'[t][k]] = t /\ reader'[waiters'[t][k]] = "wait"
                          /\ \A j \in DOMAIN waiters'[t] : waiters'[t][j] = waiters'[t][k] => j = k
        BY DEF Queued
      <4>1. CASE t # s
        <5>1. waiters'[t] = waiters[t] /\ waiters[t][k] \in Reader
          BY <3>4, <4>1 DEF LoopbackIInv, LoopbackTyped
        <5>2. reader[waiters[t][k]] = "wait" /\ Watches[waiters[t][k]] = t
          BY <5>1 DEF LoopbackIInv, Queued
        <5>3. waiters[t][k] # x /\ waiters[t][k] # h
          BY <1>4, <3>3, <4>1, <5>2 DEF Members
        <5> QED BY <3>4, <5>1, <5>2, <5>3 DEF LoopbackIInv, Queued
      <4>2. CASE t = s
        <5>1. \A l, m \in DOMAIN waiters[s] : waiters[s][l] = waiters[s][m] => l = m
          BY <1>1 DEF LoopbackIInv, Queued
        <5>2. k \in DOMAIN Tail(waiters[s]) /\ \A j \in DOMAIN Tail(waiters[s]) : j \in Nat /\ j >= 1
          <6>1. \A q \in Seq(Reader) : \A j \in DOMAIN q : j \in Nat /\ j >= 1
            OBVIOUS
          <6> QED BY <3>2, <3>4, <4>2, <6>1
        <5>3. waiters[s][k + 1] # h /\ k + 1 \in DOMAIN waiters[s]
          BY <3>2, <5>1, <5>2
        <5>4. /\ reader[waiters[s][k + 1]] = "wait" /\ Watches[waiters[s][k + 1]] = s
              /\ waiters[s][k + 1] \in Reader
          BY <1>1, <3>2, <5>3 DEF LoopbackIInv, Queued
        <5>5. waiters[s][k + 1] # x
          BY <1>4, <5>4
        <5>6. \A j \in DOMAIN waiters'[s] : waiters'[s][j] = waiters'[s][k] => j = k
          <6> SUFFICES ASSUME NEW j \in DOMAIN Tail(waiters[s]),
                              Tail(waiters[s])[j] = Tail(waiters[s])[k]
                       PROVE  j = k
            BY <3>4
          <6>1. j + 1 = k + 1
            BY <3>2, <5>1, <5>2
          <6> QED BY <5>2, <6>1
        <5> QED BY <3>2, <3>4, <4>2, <5>2, <5>3, <5>4, <5>5, <5>6
      <4> QED BY <4>1, <4>2
    <3>6. \A t \in Session : Awake(t) => Awake(t)'
      <4> SUFFICES ASSUME NEW t \in Session, Awake(t) PROVE Awake(t)'
        OBVIOUS
      <4>1. CASE t = s
        BY <3>3, <3>4, <4>1 DEF Awake, Members
      <4>2. CASE t # s
        <5>1. CASE t \in permit
          BY <3>1, <5>1 DEF Awake
        <5>2. ASSUME NEW y \in Members(t), reader[y] \in {"relist", "woken"} PROVE Awake(t)'
          <6>1. y # x /\ y # h
            BY <3>3, <4>2, <5>2 DEF Members
          <6> QED BY <3>4, <5>2, <6>1 DEF Awake, Members
        <5> QED BY <5>1, <5>2 DEF Awake
      <4> QED BY <4>1, <4>2
    <3> QED BY <1>1, <3>4, <3>5, <3>6 DEF LoopbackIInv, LoopbackTyped, ToldOfItsOwn, NoLostWakeup, Scope
  <2> QED BY <2>1, <2>2
<1> QED BY <1>2, <1>3, <1>4 DEF Leave
-----------------------------------------------------------------------------
LEMMA LoopbackInitially == ASSUME LoopbackInit PROVE LoopbackIInv
BY DEF LoopbackInit, LoopbackIInv, LoopbackTyped, Queued, ToldOfItsOwn, NoLostWakeup, Awake, Pc

LEMMA LoopbackStepKept == ASSUME LoopbackIInv, [LoopbackNext]_loopbackVars PROVE LoopbackIInv'
<1>1. CASE UNCHANGED loopbackVars
  BY <1>1 DEF loopbackVars, LoopbackIInv, LoopbackTyped, Queued, ToldOfItsOwn, NoLostWakeup, Awake,
              Members, Scope
<1>2. ASSUME NEW r \in Request, Ask(r) \/ Announce(r) \/ Poll(r) \/ GiveUp(r) \/ Respond(r)
      PROVE  LoopbackIInv'
  <2>1. CASE Ask(r)
    BY <2>1, AskKept
  <2>2. CASE Announce(r)
    BY <2>2, AnnounceKept
  <2>3. CASE Poll(r)
    <3>1. status' \in [Request -> {"none", "pending", "resolved"}] /\ status' = status
      BY <2>3 DEF Poll, LoopbackIInv, LoopbackTyped
    <3> QED BY <2>3, <3>1, StatusMoves DEF Poll
  <2>4. CASE GiveUp(r)
    <3>1. CASE UNCHANGED status
      <4>1. status' \in [Request -> {"none", "pending", "resolved"}]
        BY <3>1 DEF LoopbackIInv, LoopbackTyped
      <4> QED BY <2>4, <3>1, <4>1, StatusMoves DEF GiveUp
    <3>2. CASE Resolve(r)
      BY <2>4, <3>2, ResolveKept DEF GiveUp
    <3> QED BY <2>4, <3>1, <3>2 DEF GiveUp
  <2>5. CASE Respond(r)
    BY <2>5, ResolveKept DEF Respond
  <2> QED BY <1>2, <2>1, <2>2, <2>3, <2>4, <2>5
<1>3. ASSUME NEW x \in Reader, Enter(x) \/ Serve(x) \/ Leave(x) \/ Drop(x)
      PROVE  LoopbackIInv'
  <2>0. dropped \subseteq Session /\ Watches[x] \in Session
    BY LoopbackAssumption DEF LoopbackIInv, LoopbackTyped
  <2>1. CASE Enter(x)
    <3>1. PICK pc \in {"await", "list"} : reader' = [reader EXCEPT ![x] = pc]
      BY <2>1 DEF Enter
    <3> QED BY <2>0, <2>1, <3>1, Walks DEF Enter, Pc
  <2>2. CASE Await(x)
    BY <2>2, AwaitKept
  <2>3. CASE List(x)
    BY <2>3, ListKept
  <2>4. CASE Approve(x)
    <3>1. PICK r \in got[x] : Resolve(r)
      BY <2>4 DEF Approve
    <3> QED BY <2>4, <3>1, ResolveKept DEF Approve
  <2>5. CASE Approved(x)
    BY <2>0, <2>5, Walks DEF Approved, Pc
  <2>6. CASE Leave(x)
    BY <2>6, LeaveKept
  <2>7. CASE Wake(x)
    BY <2>0, <2>7, Walks DEF Wake, Pc
  <2>8. CASE Drop(x)
    BY <2>0, <2>8, Walks DEF Drop, Pc
  <2> QED BY <1>3, <2>1, <2>2, <2>3, <2>4, <2>5, <2>6, <2>7, <2>8 DEF Serve
<1> QED BY <1>1, <1>2, <1>3 DEF LoopbackNext

\* However many sessions, requests and readers there are, and whoever leaves when: an
\* approval that was raised and not listed has a reader awake for it, or a permit
\* (notify_session, claudecode_loopback/storage.rs), in every session where no client
\* has dropped its stream between its notification and its listing.
THEOREM NoWakeupIsLost == LoopbackSpec => []NoLostWakeup
<1>1. LoopbackInit => LoopbackIInv
  BY LoopbackInitially
<1>2. LoopbackIInv /\ [LoopbackNext]_loopbackVars => LoopbackIInv'
  BY LoopbackStepKept
<1>3. LoopbackIInv => NoLostWakeup
  BY DEF LoopbackIInv
<1> QED BY <1>1, <1>2, <1>3, PTL DEF LoopbackSpec
-----------------------------------------------------------------------------
(***************************************************************************)
(* Data.                                                                   *)
(***************************************************************************)
LEMMA ResultsOfPrograms ==
    /\ Nothing \in Result /\ Bare \in Result /\ Bare # Nothing
    /\ \A what \in Said : <<what>> \in Result /\ <<what>> # Nothing
    /\ \A n \in Nat, b \in Seq(Observation) : <<n, b>> \in Result /\ <<n, b>> # Nothing
<1>1. Nothing \in Result /\ Bare \in Result
  BY DEF Result, Nothing, Bare, Said
<1>2. \A what \in Said : <<what>> \in Result
  BY DEF Result
<1>3. \A n \in Nat, b \in Seq(Observation) : <<n, b>> \in Result
  BY DEF Result
<1>4. \A x : <<x>> # <<>>
  <2> TAKE x
  <2>1. Len(<<x>>) = 1 /\ Len(<<>>) = 0
    OBVIOUS
  <2> QED BY <2>1
<1>5. \A x, y : <<x, y>> # <<>>
  <2> TAKE x, y
  <2>1. Len(<<x, y>>) = 2 /\ Len(<<>>) = 0
    OBVIOUS
  <2> QED BY <2>1
<1> QED BY <1>1, <1>2, <1>3, <1>4, <1>5 DEF Nothing, Bare

LEMMA SuccessesCounted == \A p : Cardinality(Successes(p)) \in Nat
<1> TAKE p
<1>1. Successes(p) \subseteq Trial
  BY DEF Successes
<1>2. IsFiniteSet(Successes(p))
  BY <1>1, FS_Subset, ForecastAssumption
<1> QED BY <1>2, FS_CardinalityType

\* The parts of a history that can be fitted are those of the history before its last
\* observation, and the whole if it can be.
LEMMA FitStays ==
    ASSUME NEW h \in Seq(Observation), NEW params, h # <<>>, ~ Refits(h), IsFitOf(params, Earlier(h))
    PROVE  IsFitOf(params, h)
<1>1. Len(h) \in Nat /\ Len(h) >= 1 /\ DOMAIN h = 1..Len(h) /\ SubSeq(h, 1, Len(h)) = h
  OBVIOUS
<1>2. DOMAIN Earlier(h) = 1..(Len(h) - 1)
  BY <1>1 DEF Earlier
<1>3. \A n \in 1..(Len(h) - 1) : SubSeq(Earlier(h), 1, n) = SubSeq(h, 1, n)
  BY <1>1 DEF Earlier
<1>4. Len(h) \notin Fitted(h)
  BY <1>1 DEF Fitted, Refits
<1>5. Fitted(h) = Fitted(Earlier(h))
  <2>1. \A n \in Fitted(h) : n \in 1..(Len(h) - 1)
    BY <1>1, <1>4 DEF Fitted
  <2>2. \A n \in Fitted(Earlier(h)) : n \in 1..(Len(h) - 1) /\ n \in DOMAIN h
    BY <1>1, <1>2 DEF Fitted
  <2> QED BY <1>2, <1>3, <2>1, <2>2 DEF Fitted
<1>6. \A n \in Fitted(h) : SubSeq(Earlier(h), 1, n) = SubSeq(h, 1, n)
  BY <1>2, <1>3, <1>5 DEF Fitted
<1> QED BY <1>5, <1>6 DEF IsFitOf

LEMMA FitOfAll ==
    ASSUME NEW h \in Seq(Observation), Refits(h)
    PROVE  IsFitOf(h, h)
<1>1. Len(h) \in Nat /\ DOMAIN h = 1..Len(h) /\ SubSeq(h, 1, Len(h)) = h
  OBVIOUS
<1>2. Len(h) \in Fitted(h)
  <2>1. Len(h) >= ColdStart /\ Fits(h) /\ Len(h) \in DOMAIN h
    BY <1>1, ForecastAssumption DEF Refits
  <2> QED BY <1>1, <2>1 DEF Fitted
<1>3. ASSUME NEW n \in Fitted(h), \A m \in Fitted(h) : m <= n
      PROVE  h = SubSeq(h, 1, n)
  <2>1. n = Len(h)
    BY <1>1, <1>2, <1>3 DEF Fitted
  <2> QED BY <1>1, <2>1
<1> QED BY <1>2, <1>3 DEF IsFitOf

LEMMA EarlierOfAppend ==
    ASSUME NEW h \in Seq(Observation), NEW x \in Observation
    PROVE  Append(h, x) # <<>> /\ Earlier(Append(h, x)) = h
<1>1. Len(Append(h, x)) - 1 = Len(h) /\ Append(h, x) # <<>>
  <2>1. Len(Append(h, x)) = Len(h) + 1 /\ Len(h) \in Nat /\ Len(<<>>) = 0
    OBVIOUS
  <2> QED BY <2>1
<1>2. SubSeq(Append(h, x), 1, Len(h)) = h
  OBVIOUS
<1> QED BY <1>1, <1>2 DEF Earlier
-----------------------------------------------------------------------------
(***************************************************************************)
(* What the actions leave alone.                                           *)
(***************************************************************************)
LEMMA ProgramsUntouched ==
    ASSUME ForecastIInv, UNCHANGED <<files, index, task>>
    PROVE  ClosedInOrder'
BY DEF ForecastIInv, ClosedInOrder

LEMMA OneProgramTouched ==
    ASSUME ForecastIInv, NEW p \in Program, ClosedSoFar(task'[p], files'[p], index'[p]),
           \A q \in Program \ {p} : /\ task'[q] = task[q] /\ files'[q] = files[q]
                                    /\ index'[q] = index[q]
    PROVE  ClosedInOrder'
BY DEF ForecastIInv, ClosedInOrder

\* Results are replaced by results.
LEMMA PollersUntouched ==
    ASSUME ForecastIInv, UNCHANGED poller,
           \A p \in Program, s \in Settled :
               ResultOf(files[p], s) # Nothing => ResultOf(files'[p], s) # Nothing
    PROVE  ToldOfResults'
BY DEF ForecastIInv, ToldOfResults

LEMMA ResolversUntouched ==
    ASSUME ForecastIInv, UNCHANGED <<resolver, history, bias, mixed>>
    PROVE  FittedInOrder'
BY DEF ForecastIInv, FittedInOrder, Recording

\* What pollers have been told, and that files and rows tell the same.
LEMMA OverFollows ==
    ASSUME ClosedInOrder', \A w \in Poller : poller'[w].pc = "told" => poller'[w].told # Nothing
    PROVE  OverIsWritten'
BY DEF OverIsWritten, ClosedInOrder, ClosedSoFar, ResultOf, Settled

LEMMA TrialsAlone ==
    ASSUME NEW p \in Program, NEW t \in Trial, TrialNext(p, t)
    PROVE  UNCHANGED <<files, index, task, history, bias, resolver, poller, mixed>>
BY DEF TrialNext, ForkSession, AnswerOnce, AnswerStep, RecoverParse, ExecuteAction, Timeout, TrialStep
-----------------------------------------------------------------------------
(***************************************************************************)
(* Types.                                                                  *)
(***************************************************************************)
USE DEF Settled, NoFile, Torn, Method

LEMMA ClosingTyped ==
    ASSUME ForecastTyped, NEW p \in Program, NEW final \in Settled, NEW what \in Result,
           CloseWith(p, final, what)
    PROVE  task' \in [Program -> Owner]
<1> DEFINE new == [task[p] EXCEPT !.pc = "result", !.status = final, !.what = what]
<1>1. task[p] \in Owner
  BY DEF ForecastTyped
<1>2. new \in Owner
  BY <1>1 DEF Owner, Closing
<1>3. task' = [task EXCEPT ![p] = new]
  BY DEF CloseWith, ForecastTyped
<1> QED BY <1>2, <1>3 DEF ForecastTyped

LEMMA ReturnTyped ==
    ASSUME ForecastTyped, NEW p \in Program, NEW pc \in {"closed", "gone", "dead"}, Return(p, pc)
    PROVE  task' \in [Program -> Owner]
<1>1. [NoTask EXCEPT !.pc = pc] \in Owner
  BY ResultsOfPrograms DEF NoTask, Owner
<1> QED BY <1>1 DEF ForecastTyped, Return

LEMMA GotoTyped ==
    ASSUME ForecastTyped, NEW p \in Program,
           NEW pc \in Closing \cup {"open", "insert", "ensure", "env", "aggregate"}, Goto(p, pc)
    PROVE  task' \in [Program -> Owner]
BY ZenonT(40) DEF ForecastTyped, Goto, Owner

LEMMA OpeningTyped ==
    ASSUME ForecastTyped, NEW p \in Program,
           \/ \E kind \in Method : OpenProgram(p, kind)
           \/ FirstManifest(p) \/ InsertProgram(p)
    PROVE  ForecastTyped'
<1>1. CASE \E kind \in Method : OpenProgram(p, kind)
  <2>1. PICK kind \in Method : OpenProgram(p, kind)
    BY <1>1
  <2>2. files' \in [Program -> Filed]
    BY <2>1 DEF OpenProgram, ForecastTyped, Filed, Manifest
  <2>3. task' \in [Program -> Owner]
    BY <2>1, ZenonT(40) DEF OpenProgram, ForecastTyped, Owner
  <2> QED BY <2>1, <2>2, <2>3 DEF OpenProgram, ForecastTyped
<1>2. CASE FirstManifest(p)
  <2>1. task' \in [Program -> Owner]
    BY <1>2, GotoTyped DEF FirstManifest
  <2> QED BY <1>2, <2>1 DEF FirstManifest, ForecastTyped, Filed, Manifest
<1>3. CASE InsertProgram(p)
  <2>1. task' \in [Program -> Owner]
    BY <1>3, GotoTyped, ClosingTyped, ResultsOfPrograms DEF InsertProgram, CloseCompleted
  <2> QED BY <1>3, <2>1 DEF InsertProgram, ForecastTyped, Manifest
<1> QED BY <1>1, <1>2, <1>3

LEMMA ClosingStepTyped ==
    ASSUME ForecastTyped, ClosedInOrder, NEW p \in Program, WriteFile(p) \/ UpdateStatus(p)
    PROVE  ForecastTyped'
<1>1. CASE WriteFile(p)
  <2>1. NextClose(task[p].pc) \in Closing
    BY <1>1 DEF WriteFile, NextClose, Closing
  <2>2. task' \in [Program -> Owner]
    BY <1>1, <2>1, GotoTyped DEF WriteFile
  <2>3. Written(files[p], task[p]) \in Filed
    <3>1. task[p] \in Owner /\ files[p] \in Filed
      BY DEF ForecastTyped
    <3>2. task[p].status \in Settled /\ task[p].what \in Result
      BY <1>1, <3>1 DEF WriteFile, ClosedInOrder, ClosedSoFar, Closing, Owner
    <3> QED BY <1>1, <3>1, <3>2 DEF Written, WriteFile, Filed, Manifest
  <2> QED BY <1>1, <2>2, <2>3 DEF WriteFile, ForecastTyped
<1>2. CASE UpdateStatus(p)
  <2>1. task' \in [Program -> Owner]
    BY <1>2, ReturnTyped DEF UpdateStatus
  <2>2. task[p].status \in Manifest
    BY DEF ForecastTyped, Owner, Manifest
  <2> QED BY <1>2, <2>1, <2>2 DEF UpdateStatus, ForecastTyped
<1> QED BY <1>1, <1>2

LEMMA RunningTyped ==
    ASSUME ForecastTyped, NEW p \in Program,
           \/ EnsureParentSession(p) \/ BuildEnv(p) \/ Disconnect(p) \/ CutAnswer(p)
           \/ RecordTrace(p) \/ Aggregate(p)
    PROVE  ForecastTyped'
<1>1. CASE EnsureParentSession(p)
  <2>1. task' \in [Program -> Owner]
    BY <1>1, GotoTyped, ClosingTyped, ResultsOfPrograms DEF EnsureParentSession, CloseFailed, Said
  <2> QED BY <1>1, <2>1 DEF EnsureParentSession, ForecastTyped
<1>2. CASE BuildEnv(p)
  <2>1. CASE CloseFailed(p, "InvalidCutoff")
    <3>1. task' \in [Program -> Owner]
      BY <2>1, ClosingTyped, ResultsOfPrograms DEF CloseFailed, Said
    <3> QED BY <1>2, <3>1 DEF BuildEnv, ForecastTyped
  <2>2. CASE task' = [task EXCEPT ![p].pc = "trials", ![p].spawned = TRUE]
    <3>1. task' \in [Program -> Owner]
      BY <2>2, ZenonT(40) DEF ForecastTyped, Owner
    <3> QED BY <1>2, <3>1 DEF BuildEnv, ForecastTyped
  <2> QED BY <1>2, <2>1, <2>2 DEF BuildEnv
<1>3. CASE Disconnect(p)
  BY <1>3, ReturnTyped DEF Disconnect, ForecastTyped
<1>4. CASE CutAnswer(p)
  BY <1>4, ReturnTyped DEF CutAnswer, ForecastTyped
<1>5. CASE RecordTrace(p)
  <2>1. task' \in [Program -> Owner]
    BY <1>5, GotoTyped DEF RecordTrace
  <2>2. files' \in [Program -> Filed]
    <3>1. Append(files[p].trace, Cardinality(Successes(p))) \in Seq(Nat)
      BY SuccessesCounted DEF ForecastTyped, Filed
    <3> QED BY <1>5, <3>1 DEF RecordTrace, ForecastTyped, Filed
  <2> QED BY <1>5, <2>1, <2>2 DEF RecordTrace, ForecastTyped
<1>6. CASE Aggregate(p)
  <2>1. Forecast(p) \in Result
    BY SuccessesCounted, ResultsOfPrograms DEF Forecast, ForecastTyped
  <2>2. task' \in [Program -> Owner]
    BY <1>6, <2>1, ClosingTyped, ResultsOfPrograms
       DEF Aggregate, Aggregated, CloseFailed, CloseCompleted, Said
  <2> QED BY <1>6, <2>2 DEF Aggregate, ForecastTyped
<1> QED BY <1>1, <1>2, <1>3, <1>4, <1>5, <1>6
\* A call that has nothing to do with the history any more.
LEMMA CallEnds == \A pc \in {"done", "error"} : [NoCall EXCEPT !.pc = pc] \in Call
<1> TAKE pc \in {"done", "error"}
<1>1. <<>> \in Seq(Observation)
  OBVIOUS
<1>2. NoCall \in Call
  BY <1>1 DEF NoCall, Call
<1>3. \A c \in Call : [c EXCEPT !.pc = pc] \in Call
  BY DEF Call
<1> QED BY <1>2, <1>3

LEMMA ResolvingTyped ==
    ASSUME ForecastTyped, NEW r \in Resolver,
           \/ \E p \in Program, obs \in Observation : StartResolve(r, p, obs)
           \/ AppendObservation(r) \/ ReadHistory(r) \/ WriteBias(r)
    PROVE  ForecastTyped'
<1>2. resolver[r] \in Call
  BY DEF ForecastTyped
<1>3. CASE \E p \in Program, obs \in Observation : StartResolve(r, p, obs)
  <2>1. PICK p \in Program, obs \in Observation : StartResolve(r, p, obs)
    BY <1>3
  <2> DEFINE call == [NoCall EXCEPT !.pc = "append", !.obs = obs]
  <2>2. call \in Call /\ call.obs = obs
    <3>1. <<>> \in Seq(Observation)
      OBVIOUS
    <3> QED BY <3>1 DEF Call, NoCall
  <2>3. \E c \in {call, [NoCall EXCEPT !.pc = "error"]} : resolver' = [resolver EXCEPT ![r] = c]
    BY <2>1 DEF StartResolve
  <2>4. \A c \in {call, [NoCall EXCEPT !.pc = "error"]} :
           c \in Call /\ (c.pc = "append" => c.obs \in Observation)
    <3>1. [NoCall EXCEPT !.pc = "error"].pc = "error"
      BY DEF NoCall
    <3> QED BY <2>2, <3>1, CallEnds
  <2> HIDE DEF call
  <2>5. /\ resolver' \in [Resolver -> Call]
        /\ \A q \in Resolver : resolver'[q].pc = "append" => resolver'[q].obs \in Observation
    BY <2>3, <2>4 DEF ForecastTyped
  <2> QED BY <2>1, <2>5 DEF StartResolve, ForecastTyped
<1>4. CASE AppendObservation(r)
  <2>1. [resolver[r] EXCEPT !.pc = "read"] \in Call /\ [resolver[r] EXCEPT !.pc = "read"].pc = "read"
    BY <1>2 DEF Call
  <2>2. resolver' \in [Resolver -> Call]
    BY <1>4, <2>1 DEF AppendObservation, ForecastTyped
  <2>3. history' \in Seq(Observation)
    BY <1>4 DEF AppendObservation, ForecastTyped
  <2>4. \A q \in Resolver : resolver'[q].pc = "append" => resolver'[q].obs \in Observation
    BY <1>4, <2>1 DEF AppendObservation, ForecastTyped
  <2> QED BY <1>4, <2>2, <2>3, <2>4 DEF AppendObservation, ForecastTyped
<1>5. CASE ReadHistory(r)
  <2>1. /\ [resolver[r] EXCEPT !.pc = "write", !.seen = history] \in Call
        /\ [resolver[r] EXCEPT !.pc = "write", !.seen = history].pc = "write"
    BY <1>2 DEF ForecastTyped, Call
  <2>2. resolver' \in [Resolver -> Call] /\ resolver'[r].pc # "append"
    BY <1>5, CallEnds, <2>1 DEF ReadHistory, ForecastTyped, NoCall
  <2>3. \A q \in Resolver : resolver'[q].pc = "append" => resolver'[q].obs \in Observation
    BY <1>5, <2>2 DEF ReadHistory, ForecastTyped
  <2> QED BY <1>5, <2>2, <2>3 DEF ReadHistory, ForecastTyped
<1>6. CASE WriteBias(r)
  <2>1. resolver' \in [Resolver -> Call]
    BY <1>6, CallEnds, <1>2, ZenonT(40) DEF WriteBias, ForecastTyped, Call
  <2>2. bias' \in Seq(Observation)
    <3>1. <<>> \in Seq(Observation) /\ resolver[r].seen \in Seq(Observation)
      BY <1>2 DEF Call
    <3> QED BY <1>6, <3>1 DEF WriteBias, Nothing
  <2>3. resolver'[r].pc # "append" /\ \A q \in Resolver \ {r} : resolver'[q] = resolver[q]
    BY <1>2, <1>6 DEF WriteBias, ForecastTyped, NoCall, Call
  <2> QED BY <1>6, <2>1, <2>2, <2>3 DEF WriteBias, ForecastTyped
<1> QED BY <1>3, <1>4, <1>5, <1>6

LEMMA TellTyped ==
    ASSUME NEW what \in Result
    PROVE  [NoWait EXCEPT !.pc = "told", !.told = what] \in Wait
BY ResultsOfPrograms DEF NoWait, Wait, Manifest

LEMMA PollingTyped ==
    ASSUME ForecastTyped, ToldOfResults, NEW w \in Poller,
           (\E p \in Program : ReadManifest(w, p)) \/ ReadResult(w) \/ WaitTimesOut(w)
    PROVE  ForecastTyped'
<1>1. \A what \in {"NotFound", "TimedOut"} : <<what>> \in Result
  BY ResultsOfPrograms DEF Said
<1>2. CASE \E p \in Program : ReadManifest(w, p)
  <2>1. PICK p \in Program : ReadManifest(w, p)
    BY <1>2
  <2>2. CASE files[p].manifest = NoFile
    BY <2>1, <2>2, <1>1, TellTyped DEF ReadManifest, Tell, ForecastTyped
  <2>3. CASE files[p].manifest # NoFile
    <3> DEFINE pc == IF files[p].manifest \in Settled THEN "result" ELSE "poll"
               new == [poller[w] EXCEPT !.program = p, !.last = files[p].manifest, !.pc = pc]
    <3>1. poller[w] \in Wait /\ files[p].manifest \in Manifest /\ pc \in {"result", "poll"}
      BY DEF ForecastTyped, Filed
    <3> HIDE DEF pc
    <3>2. new \in Wait
      BY <3>1 DEF Wait
    <3>3. poller' = [poller EXCEPT ![w] = new]
      BY <2>1, <2>3 DEF ReadManifest, ForecastTyped, pc
    <3> QED BY <2>1, <3>2, <3>3 DEF ReadManifest, ForecastTyped
  <2> QED BY <2>2, <2>3
<1>3. CASE ReadResult(w)
  <2> DEFINE f == files[poller[w].program]
             what == IF poller[w].last = "completed" THEN f.artifact ELSE f.error
  <2>1. what \in Result
    BY <1>3 DEF ReadResult, ToldOfResults, ForecastTyped, Filed
  <2>2. Tell(w, what)
    BY <1>3 DEF ReadResult
  <2> HIDE DEF what
  <2> QED BY <1>3, <2>1, <2>2, TellTyped DEF ReadResult, Tell, ForecastTyped
<1>4. CASE WaitTimesOut(w)
  BY <1>4, <1>1, TellTyped DEF WaitTimesOut, Tell, ForecastTyped
<1> QED BY <1>2, <1>3, <1>4

LEMMA CrashTyped ==
    ASSUME ForecastTyped, ProgramsCrash
    PROVE  ForecastTyped'
<1>1. [NoTask EXCEPT !.pc = "gone"] \in Owner
  BY ResultsOfPrograms DEF NoTask, Owner
<1>2. [NoCall EXCEPT !.pc = "error"] \in Call
  BY CallEnds
<1>3. [NoWait EXCEPT !.pc = "told", !.told = <<"gone">>] \in Wait
  BY TellTyped, ResultsOfPrograms DEF Said
<1>4. task' \in [Program -> Owner]
  BY <1>1 DEF ProgramsCrash, ForecastTyped
<1>5. resolver' \in [Resolver -> Call]
  BY <1>2 DEF ProgramsCrash, ForecastTyped
<1>6. poller' \in [Poller -> Wait]
  BY <1>3 DEF ProgramsCrash, ForecastTyped
<1>7. \A r \in Resolver : resolver'[r].pc = "append" => resolver'[r].obs \in Observation
  BY DEF ProgramsCrash, ForecastTyped, Recording, NoCall
<1> QED BY <1>4, <1>5, <1>6, <1>7 DEF ProgramsCrash, ForecastTyped
-----------------------------------------------------------------------------
(***************************************************************************)
(* Programs are closed in order.                                           *)
(***************************************************************************)
\* What is written next, when an owner has decided to close.
LEMMA ClosingBegins ==
    ASSUME ForecastTyped, NEW p \in Program, NEW final \in Settled, NEW what, what # Nothing,
           CloseWith(p, final, what)
    PROVE  /\ task'[p].pc = "result" /\ task'[p].status \in Settled /\ task'[p].what # Nothing
           /\ \A q \in Program \ {p} : task'[q] = task[q]
<1> DEFINE new == [task[p] EXCEPT !.pc = "result", !.status = final, !.what = what]
<1>1. task[p] \in Owner
  BY DEF ForecastTyped
<1>2. new.pc = "result" /\ new.status = final /\ new.what = what
  BY <1>1 DEF Owner
<1>3. task' = [task EXCEPT ![p] = new]
  BY DEF CloseWith, ForecastTyped
<1> HIDE DEF new
<1>4. task'[p] = new /\ \A q \in Program \ {p} : task'[q] = task[q]
  BY <1>3 DEF ForecastTyped
<1> QED BY <1>2, <1>4

LEMMA OwnerLeaves ==
    ASSUME ForecastTyped, NEW p \in Program, NEW pc \in {"closed", "gone", "dead"}, Return(p, pc)
    PROVE  task'[p].pc = pc /\ \A q \in Program \ {p} : task'[q] = task[q]
BY DEF ForecastTyped, Return, NoTask

LEMMA OwnerGoesOn ==
    ASSUME ForecastTyped, NEW p \in Program, NEW pc, Goto(p, pc)
    PROVE  /\ task'[p].pc = pc /\ task'[p].status = task[p].status /\ task'[p].what = task[p].what
           /\ \A q \in Program \ {p} : task'[q] = task[q]
BY DEF ForecastTyped, Goto, Owner

\* Steps of an owner on its way to the end of its task.
LEMMA RunningCloses ==
    ASSUME ForecastIInv, NEW p \in Program,
           \/ EnsureParentSession(p) \/ BuildEnv(p) \/ Disconnect(p) \/ CutAnswer(p)
           \/ RecordTrace(p) \/ Aggregate(p)
    PROVE  ClosedInOrder' /\ \A q \in Program, s \in Settled : ResultOf(files'[q], s) = ResultOf(files[q], s)
<1>1. ForecastTyped /\ ClosedSoFar(task[p], files[p], index[p])
  BY DEF ForecastIInv, ClosedInOrder
<1>2. index[p] \notin Settled /\ index' = index
  <2>1. task[p].pc \notin {"closed", "gone", "dead"}
    BY DEF EnsureParentSession, BuildEnv, Disconnect, Owned, CutAnswer, RecordTrace, Aggregate
  <2> QED BY <1>1, <2>1
       DEF ClosedSoFar, EnsureParentSession, BuildEnv, Disconnect, CutAnswer, RecordTrace, Aggregate
<1>3. \A q \in Program : /\ files'[q].manifest = files[q].manifest
                         /\ files'[q].artifact = files[q].artifact /\ files'[q].error = files[q].error
                         /\ q # p => files'[q] = files[q]
  <2>1. CASE RecordTrace(p)
    BY <1>1, <2>1 DEF RecordTrace, ForecastTyped, Filed
  <2>2. CASE ~RecordTrace(p)
    BY <2>2 DEF EnsureParentSession, BuildEnv, Disconnect, CutAnswer, Aggregate
  <2> QED BY <2>1, <2>2
<1>4. /\ \/ task'[p].pc \in {"env", "trials", "aggregate", "closed", "gone", "dead"}
         \/ task'[p].pc = "result" /\ task'[p].status \in Settled /\ task'[p].what # Nothing
      /\ \A q \in Program \ {p} : task'[q] = task[q]
  <2>1. \A what \in {"EnsureSession", "InvalidCutoff", "AllTrialsFailed", "AggregateError"} :
            <<what>> # Nothing
    BY ResultsOfPrograms DEF Said
  <2>2. Forecast(p) # Nothing
    BY <1>1, SuccessesCounted, ResultsOfPrograms DEF Forecast, ForecastTyped
  <2>3. CASE EnsureParentSession(p)
    BY <1>1, <2>1, <2>3, OwnerGoesOn, ClosingBegins DEF EnsureParentSession, CloseFailed
  <2>4. CASE BuildEnv(p)
    <3>1. CASE CloseFailed(p, "InvalidCutoff")
      BY <1>1, <2>1, <3>1, ClosingBegins DEF CloseFailed
    <3>2. CASE task' = [task EXCEPT ![p].pc = "trials", ![p].spawned = TRUE]
      BY <1>1, <3>2 DEF ForecastTyped, Owner
    <3> QED BY <2>4, <3>1, <3>2 DEF BuildEnv
  <2>5. CASE Disconnect(p)
    BY <1>1, <2>5, OwnerLeaves DEF Disconnect
  <2>6. CASE CutAnswer(p)
    BY <1>1, <2>6, OwnerLeaves DEF CutAnswer
  <2>7. CASE RecordTrace(p)
    BY <1>1, <2>7, OwnerGoesOn DEF RecordTrace
  <2>8. CASE Aggregate(p)
    BY <1>1, <2>1, <2>2, <2>8, ClosingBegins DEF Aggregate, Aggregated, CloseFailed, CloseCompleted
  <2> QED BY <2>3, <2>4, <2>5, <2>6, <2>7, <2>8
<1>5. ClosedSoFar(task'[p], files'[p], index'[p])
  BY <1>1, <1>2, <1>3, <1>4 DEF ClosedSoFar, Closing, ResultOf
<1>6. ClosedInOrder'
  BY <1>2, <1>3, <1>4, <1>5, OneProgramTouched
<1> QED BY <1>3, <1>6 DEF ResultOf
LEMMA OpeningCloses ==
    ASSUME ForecastIInv, NEW p \in Program,
           \/ \E kind \in Method : OpenProgram(p, kind)
           \/ FirstManifest(p) \/ InsertProgram(p)
    PROVE  ClosedInOrder' /\ \A q \in Program, s \in Settled : ResultOf(files'[q], s) = ResultOf(files[q], s)
<1>1. ForecastTyped /\ ClosedSoFar(task[p], files[p], index[p])
  BY DEF ForecastIInv, ClosedInOrder
<1>2. CASE \E kind \in Method : OpenProgram(p, kind)
  <2>1. PICK kind \in Method : OpenProgram(p, kind)
    BY <1>2
  <2>2. task'[p].pc = "open" /\ \A q \in Program \ {p} : task'[q] = task[q]
    BY <1>1, <2>1 DEF OpenProgram, ForecastTyped, Owner
  <2>3. /\ files'[p].manifest = Torn /\ files'[p].artifact = files[p].artifact
        /\ files'[p].error = files[p].error /\ \A q \in Program \ {p} : files'[q] = files[q]
    BY <1>1, <2>1 DEF OpenProgram, ForecastTyped, Filed
  <2>4. ClosedSoFar(task'[p], files'[p], index'[p])
    BY <1>1, <2>1, <2>2, <2>3 DEF OpenProgram, ClosedSoFar, Closing
  <2>5. ClosedInOrder'
    BY <2>1, <2>2, <2>3, <2>4, OneProgramTouched DEF OpenProgram
  <2> QED BY <2>3, <2>5 DEF ResultOf
<1>3. CASE FirstManifest(p)
  <2>1. task'[p].pc = "insert" /\ \A q \in Program \ {p} : task'[q] = task[q]
    BY <1>1, <1>3, OwnerGoesOn DEF FirstManifest
  <2>2. /\ files'[p].manifest = "running" /\ files'[p].artifact = files[p].artifact
        /\ files'[p].error = files[p].error /\ \A q \in Program \ {p} : files'[q] = files[q]
    BY <1>1, <1>3 DEF FirstManifest, ForecastTyped, Filed
  <2>3. ClosedSoFar(task'[p], files'[p], index'[p])
    BY <1>1, <1>3, <2>1, <2>2 DEF FirstManifest, ClosedSoFar, Closing
  <2>4. ClosedInOrder'
    BY <1>3, <2>1, <2>2, <2>3, OneProgramTouched DEF FirstManifest
  <2> QED BY <2>2, <2>4 DEF ResultOf
<1>4. CASE InsertProgram(p)
  <2>1. /\ \/ task'[p].pc = "ensure"
           \/ task'[p].pc = "result" /\ task'[p].status \in Settled /\ task'[p].what # Nothing
        /\ \A q \in Program \ {p} : task'[q] = task[q]
    BY <1>1, <1>4, OwnerGoesOn, ClosingBegins, ResultsOfPrograms DEF InsertProgram, CloseCompleted
  <2>2. index'[p] = "running" /\ \A q \in Program \ {p} : index'[q] = index[q]
    BY <1>1, <1>4 DEF InsertProgram, ForecastTyped
  <2>3. ClosedSoFar(task'[p], files'[p], index'[p])
    BY <1>1, <1>4, <2>1, <2>2 DEF InsertProgram, ClosedSoFar, Closing
  <2>4. ClosedInOrder'
    BY <1>4, <2>1, <2>2, <2>3, OneProgramTouched DEF InsertProgram
  <2> QED BY <1>4, <2>4 DEF InsertProgram
<1> QED BY <1>2, <1>3, <1>4

\* The artifact or the error comes first, then the manifest, then the row.
LEMMA FileWritten ==
    ASSUME ForecastIInv, NEW p \in Program, WriteFile(p)
    PROVE  ClosedInOrder' /\ \A q \in Program, s \in Settled :
               ResultOf(files[q], s) # Nothing => ResultOf(files'[q], s) # Nothing
<1>1. ForecastTyped /\ ClosedSoFar(task[p], files[p], index[p]) /\ task[p] \in Owner /\ files[p] \in Filed
  BY DEF ForecastIInv, ClosedInOrder, ForecastTyped
<1>2. /\ task[p].pc \in {"result", "torn", "manifest"}
      /\ task[p].status \in Settled /\ task[p].what # Nothing /\ index[p] \notin Settled
  BY <1>1 DEF WriteFile, ClosedSoFar, Closing
<1>3. /\ task'[p].pc = NextClose(task[p].pc) /\ task'[p].status = task[p].status
      /\ task'[p].what = task[p].what /\ \A q \in Program \ {p} : task'[q] = task[q]
  BY <1>1, OwnerGoesOn DEF WriteFile
<1>4. files'[p] = Written(files[p], task[p]) /\ \A q \in Program \ {p} : files'[q] = files[q]
  BY <1>1 DEF WriteFile, ForecastTyped
<1>5. CASE task[p].pc = "result"
  <2>1. task'[p].pc = "torn"
    BY <1>3, <1>5 DEF NextClose
  <2>2. /\ files'[p].manifest = files[p].manifest /\ ResultOf(files'[p], task[p].status) # Nothing
        /\ \A s \in Settled : ResultOf(files[p], s) # Nothing => ResultOf(files'[p], s) # Nothing
    BY <1>1, <1>2, <1>4, <1>5 DEF Written, Filed, ResultOf
  <2>3. ClosedSoFar(task'[p], files'[p], index'[p])
    BY <1>1, <1>2, <1>3, <2>1, <2>2 DEF WriteFile, ClosedSoFar, Closing
  <2> QED BY <1>3, <1>4, <2>2, <2>3, OneProgramTouched DEF WriteFile
<1>6. CASE task[p].pc \in {"torn", "manifest"}
  <2>1. task'[p].pc = IF task[p].pc = "torn" THEN "manifest" ELSE "row"
    BY <1>3, <1>6 DEF NextClose
  <2>2. /\ files'[p].manifest = IF task[p].pc = "torn" THEN Torn ELSE task[p].status
        /\ files'[p].artifact = files[p].artifact /\ files'[p].error = files[p].error
    BY <1>1, <1>4, <1>6 DEF Written, Filed
  <2>3. \A s \in Settled : ResultOf(files'[p], s) = ResultOf(files[p], s)
    BY <2>2 DEF ResultOf
  <2>4. ResultOf(files[p], task[p].status) # Nothing
    BY <1>1, <1>6 DEF ClosedSoFar, Closing
  <2>5. ClosedSoFar(task'[p], files'[p], index'[p])
    BY <1>1, <1>2, <1>3, <1>6, <2>1, <2>2, <2>3, <2>4 DEF WriteFile, ClosedSoFar, Closing
  <2> QED BY <1>3, <1>4, <2>3, <2>5, OneProgramTouched DEF WriteFile
<1> QED BY <1>2, <1>5, <1>6

LEMMA RowUpdated ==
    ASSUME ForecastIInv, NEW p \in Program, UpdateStatus(p)
    PROVE  ClosedInOrder'
<1>1. ForecastTyped /\ ClosedSoFar(task[p], files[p], index[p])
  BY DEF ForecastIInv, ClosedInOrder
<1>2. task'[p].pc = "closed" /\ \A q \in Program \ {p} : task'[q] = task[q]
  BY <1>1, OwnerLeaves DEF UpdateStatus
<1>3. index'[p] = task[p].status /\ \A q \in Program \ {p} : index'[q] = index[q]
  BY <1>1 DEF UpdateStatus, ForecastTyped
<1>4. ClosedSoFar(task'[p], files'[p], index'[p])
  BY <1>1, <1>2, <1>3 DEF UpdateStatus, ClosedSoFar, Closing
<1> QED BY <1>2, <1>3, <1>4, OneProgramTouched DEF UpdateStatus

LEMMA CrashCloses ==
    ASSUME ForecastIInv, ProgramsCrash
    PROVE  ClosedInOrder'
<1> SUFFICES ASSUME NEW p \in Program PROVE ClosedSoFar(task'[p], files[p], index[p])
  BY DEF ClosedInOrder, ProgramsCrash
<1>1. ClosedSoFar(task[p], files[p], index[p])
  BY DEF ForecastIInv, ClosedInOrder
<1>2. task'[p] = task[p] \/ (task'[p].pc = "gone" /\ Owned(p))
  BY DEF ProgramsCrash, NoTask
<1> QED BY <1>1, <1>2 DEF ClosedSoFar, Closing, Owned
-----------------------------------------------------------------------------
(***************************************************************************)
(* Pollers.                                                                *)
(***************************************************************************)
LEMMA Telling ==
    ASSUME ForecastTyped, NEW w \in Poller, NEW what, what # Nothing, Tell(w, what)
    PROVE  /\ poller'[w].pc = "told" /\ poller'[w].told # Nothing
           /\ \A v \in Poller \ {w} : poller'[v] = poller[v]
BY DEF ForecastTyped, Tell, NoWait

LEMMA PollersTold ==
    ASSUME ForecastIInv, NEW w \in Poller,
           (\E p \in Program : ReadManifest(w, p)) \/ ReadResult(w) \/ WaitTimesOut(w)
    PROVE  ToldOfResults' /\ \A v \in Poller : poller'[v].pc = "told" => poller'[v].told # Nothing
<1>1. ForecastTyped /\ ToldOfResults /\ files' = files
  BY DEF ForecastIInv, ReadManifest, ReadResult, WaitTimesOut
<1>2. \A v \in Poller : poller[v].pc = "told" => poller[v].told # Nothing
  BY DEF ForecastIInv, OverIsWritten
<1>3. \A what \in {"NotFound", "TimedOut"} : <<what>> # Nothing
  BY ResultsOfPrograms DEF Said
<1>4. /\ \A v \in Poller \ {w} : poller'[v] = poller[v]
      /\ \/ poller'[w].pc = "told" /\ poller'[w].told # Nothing
         \/ poller'[w].pc = "poll"
         \/ /\ poller'[w].pc = "result" /\ poller'[w].program \in Program
            /\ poller'[w].last \in Settled
            /\ ResultOf(files[poller'[w].program], poller'[w].last) # Nothing
  <2>1. CASE \E p \in Program : ReadManifest(w, p)
    <3>1. PICK p \in Program : ReadManifest(w, p)
      BY <2>1
    <3>2. CASE files[p].manifest = NoFile
      BY <1>1, <1>3, <3>1, <3>2, Telling DEF ReadManifest
    <3>3. CASE files[p].manifest # NoFile
      <4> DEFINE pc == IF files[p].manifest \in Settled THEN "result" ELSE "poll"
                 new == [poller[w] EXCEPT !.program = p, !.last = files[p].manifest, !.pc = pc]
      <4>1. poller[w] \in Wait
        BY <1>1 DEF ForecastTyped
      <4> HIDE DEF pc
      <4>2. new.program = p /\ new.last = files[p].manifest /\ new.pc = pc
        BY <4>1 DEF Wait
      <4>3. poller' = [poller EXCEPT ![w] = new]
        BY <1>1, <3>1, <3>3 DEF ReadManifest, ForecastTyped, pc
      <4> HIDE DEF new
      <4>4. poller'[w] = new /\ \A v \in Poller \ {w} : poller'[v] = poller[v]
        BY <1>1, <4>3 DEF ForecastTyped
      <4>5. files[p].manifest \in Settled => ResultOf(files[p], files[p].manifest) # Nothing
        BY DEF ForecastIInv, ClosedInOrder, ClosedSoFar
      <4> QED BY <4>2, <4>4, <4>5 DEF pc
    <3> QED BY <3>2, <3>3
  <2>2. CASE ReadResult(w)
    <3>1. ResultOf(files[poller[w].program], poller[w].last) # Nothing
      BY <1>1, <2>2 DEF ReadResult, ToldOfResults
    <3>2. Tell(w, ResultOf(files[poller[w].program], poller[w].last))
      BY <2>2 DEF ReadResult, ResultOf
    <3> QED BY <1>1, <3>1, <3>2, Telling
  <2>3. CASE WaitTimesOut(w)
    BY <1>1, <1>3, <2>3, Telling DEF WaitTimesOut
  <2> QED BY <2>1, <2>2, <2>3
<1> QED BY <1>1, <1>2, <1>4 DEF ToldOfResults

LEMMA CrashTells ==
    ASSUME ForecastIInv, ProgramsCrash
    PROVE  ToldOfResults' /\ \A w \in Poller : poller'[w].pc = "told" => poller'[w].told # Nothing
<1>1. ForecastTyped /\ ToldOfResults /\ files' = files
  BY DEF ForecastIInv, ProgramsCrash
<1>2. \A w \in Poller : poller[w].pc = "told" => poller[w].told # Nothing
  BY DEF ForecastIInv, OverIsWritten
<1>3. <<"gone">> # Nothing
  BY ResultsOfPrograms DEF Said
<1>4. \A w \in Poller :
         \/ poller'[w] = poller[w] /\ poller[w].pc # "result"
         \/ poller'[w].pc = "told" /\ poller'[w].told # Nothing
  BY <1>1, <1>3 DEF ProgramsCrash, ForecastTyped, NoWait
<1> QED BY <1>1, <1>2, <1>4 DEF ToldOfResults
-----------------------------------------------------------------------------
(***************************************************************************)
(* The parameters of the calibration.                                      *)
(***************************************************************************)
LEMMA ResolvingFits ==
    ASSUME ForecastIInv, NEW r \in Resolver,
           \/ \E p \in Program, obs \in Observation : StartResolve(r, p, obs)
           \/ AppendObservation(r) \/ ReadHistory(r) \/ WriteBias(r)
    PROVE  FittedInOrder'
<1> SUFFICES ASSUME ~mixed' PROVE FittedInOrder'
  BY DEF FittedInOrder
<1>1. ForecastTyped /\ ~mixed
  <2>1. CASE \E p \in Program, obs \in Observation : StartResolve(r, p, obs)
    BY <2>1, Zenon DEF ForecastIInv, StartResolve
  <2>2. CASE mixed' = mixed
    BY <2>2 DEF ForecastIInv
  <2> QED BY <2>1, <2>2 DEF AppendObservation, ReadHistory, WriteBias
<1>2. /\ \A s, q \in Recording : s = q
      /\ (\A s \in Recording : resolver[s].pc = "append") => IsFitOf(bias, history)
      /\ \A s \in Recording :
            /\ resolver[s].pc = "read" => history # <<>> /\ IsFitOf(bias, Earlier(history))
            /\ resolver[s].pc \in {"write", "fill"} => Refits(history) /\ resolver[s].seen = history
  BY <1>1 DEF ForecastIInv, FittedInOrder
<1>3. CASE \E p \in Program, obs \in Observation : StartResolve(r, p, obs)
  <2>1. PICK p \in Program, obs \in Observation : StartResolve(r, p, obs)
    BY <1>3
  <2>2. /\ history' = history /\ bias' = bias
        /\ resolver[r].pc = "off" /\ \A s \in Resolver \ {r} : resolver'[s] = resolver[s]
    BY <1>1, <2>1 DEF StartResolve, ForecastTyped
  <2>3. \/ resolver'[r].pc = "error"
        \/ resolver'[r].pc = "append" /\ Recording = {}
    BY <1>1, <2>1 DEF StartResolve, ForecastTyped, NoCall
  <2>4. CASE resolver'[r].pc = "error"
    <3>1. Recording' = Recording
      BY <2>2, <2>4 DEF Recording
    <3>2. \A s \in Recording : resolver'[s] = resolver[s]
      BY <2>2 DEF Recording
    <3> QED BY <1>2, <2>2, <3>1, <3>2 DEF FittedInOrder
  <2>5. CASE resolver'[r].pc = "append" /\ Recording = {}
    <3>1. Recording' = {r}
      BY <2>2, <2>5 DEF Recording
    <3> QED BY <1>2, <2>2, <2>5, <3>1 DEF FittedInOrder
  <2> QED BY <2>3, <2>4, <2>5
<1>4. ASSUME r \in Recording, \A s \in Resolver \ {r} : resolver'[s] = resolver[s]
      PROVE  /\ Recording = {r}
             /\ Recording' = IF resolver'[r].pc \in {"append", "read", "write", "fill"} THEN {r} ELSE {}
  BY <1>2, <1>4 DEF Recording
<1>5. CASE AppendObservation(r)
  <2>1. /\ resolver[r].pc = "append" /\ resolver'[r].pc = "read"
        /\ \A s \in Resolver \ {r} : resolver'[s] = resolver[s]
        /\ history' = Append(history, resolver[r].obs) /\ bias' = bias
    BY <1>1, <1>5 DEF AppendObservation, ForecastTyped, Call
  <2>2. Recording = {r} /\ Recording' = {r}
    BY <1>4, <2>1 DEF Recording
  <2>3. IsFitOf(bias, history)
    BY <1>2, <2>1, <2>2
  <2>4. history' # <<>> /\ Earlier(history') = history
    BY <1>1, <2>1, EarlierOfAppend DEF ForecastTyped
  <2> QED BY <2>1, <2>2, <2>3, <2>4 DEF FittedInOrder
<1>6. CASE ReadHistory(r)
  <2>1. /\ resolver[r].pc = "read" /\ history' = history /\ bias' = bias
        /\ \A s \in Resolver \ {r} : resolver'[s] = resolver[s]
    BY <1>1, <1>6 DEF ReadHistory, ForecastTyped
  <2>2. IF Refits(history) THEN resolver'[r].pc = "write" /\ resolver'[r].seen = history
        ELSE resolver'[r].pc = "done"
    BY <1>1, <1>6 DEF ReadHistory, ForecastTyped, Call, NoCall
  <2>3. Recording = {r} /\ Recording' = IF Refits(history) THEN {r} ELSE {}
    BY <1>4, <2>1, <2>2 DEF Recording
  <2>4. ~ Refits(history) => IsFitOf(bias, history)
    BY <1>1, <1>2, <2>1, <2>3, FitStays DEF ForecastTyped
  <2> QED BY <1>2, <2>1, <2>2, <2>3, <2>4 DEF FittedInOrder
<1>7. CASE WriteBias(r)
  <2>1. /\ resolver[r].pc \in {"write", "fill"} /\ history' = history
        /\ \A s \in Resolver \ {r} : resolver'[s] = resolver[s]
    BY <1>1, <1>7 DEF WriteBias, ForecastTyped
  <2>2. IF resolver[r].pc = "write" THEN resolver'[r].pc = "fill" /\ resolver'[r].seen = resolver[r].seen
        ELSE resolver'[r].pc = "done" /\ bias' = resolver[r].seen
    BY <1>1, <1>7 DEF WriteBias, ForecastTyped, Call, NoCall
  <2>3. Recording = {r} /\ Recording' = IF resolver[r].pc = "write" THEN {r} ELSE {}
    BY <1>4, <2>1, <2>2 DEF Recording
  <2>4. Refits(history) /\ resolver[r].seen = history /\ IsFitOf(history, history)
    BY <1>1, <1>2, <2>1, <2>3, FitOfAll DEF ForecastTyped
  <2> QED BY <2>1, <2>2, <2>3, <2>4 DEF FittedInOrder
<1> QED BY <1>3, <1>5, <1>6, <1>7

LEMMA CrashFits ==
    ASSUME ForecastIInv, ProgramsCrash
    PROVE  FittedInOrder'
<1> SUFFICES ASSUME ~mixed' PROVE FittedInOrder'
  BY DEF FittedInOrder
<1>1. ForecastTyped /\ ~mixed /\ Recording = {}
  BY DEF ForecastIInv, ProgramsCrash
<1>2. resolver' = resolver
  BY <1>1 DEF ProgramsCrash, ForecastTyped
<1> QED BY <1>1, <1>2, ResolversUntouched DEF ProgramsCrash, ForecastIInv, FittedInOrder, Recording
-----------------------------------------------------------------------------
(***************************************************************************)
(* The invariant.                                                          *)
(***************************************************************************)
LEMMA ForecastInitially == ForecastInit => ForecastIInv
<1> SUFFICES ASSUME ForecastInit PROVE ForecastIInv
  OBVIOUS
<1>1. NoTask \in Owner /\ NoWait \in Wait
  BY ResultsOfPrograms DEF NoTask, Owner, NoWait, Wait, Manifest
<1>2. [manifest |-> NoFile, artifact |-> Nothing, error |-> Nothing, trace |-> <<>>] \in Filed
  BY ResultsOfPrograms DEF Filed, Manifest
<1>3. NoCall \in Call /\ <<>> \in Seq(Observation)
  <2>1. <<>> \in Seq(Observation)
    OBVIOUS
  <2> QED BY <2>1 DEF NoCall, Call
<1>4. ForecastTyped
  <2>1. \A r \in Resolver : ForecastInit => resolver[r].pc # "append"
    BY DEF ForecastInit, NoCall
  <2> QED BY <1>1, <1>2, <1>3, <2>1 DEF ForecastInit, ForecastTyped, Manifest, Nothing
<1>5. ClosedInOrder
  BY DEF ForecastInit, ClosedInOrder, ClosedSoFar, Closing, NoTask
<1>6. ToldOfResults /\ OverIsWritten
  BY DEF ForecastInit, ToldOfResults, OverIsWritten, NoWait
<1>7. Recording = {} /\ history = <<>> /\ bias = <<>>
  BY DEF ForecastInit, Recording, NoCall, Nothing
<1>8. FittedInOrder
  BY <1>7 DEF FittedInOrder, IsFitOf, Fitted, Nothing
<1> QED BY <1>4, <1>5, <1>6, <1>8 DEF ForecastIInv

LEMMA ForecastSteps == ForecastIInv /\ [ForecastNext]_forecastVars => ForecastIInv'
<1> SUFFICES ASSUME ForecastIInv, [ForecastNext]_forecastVars PROVE ForecastIInv'
  OBVIOUS
<1>1. ForecastTyped /\ ToldOfResults /\ ClosedInOrder
  BY DEF ForecastIInv
<1>2. \A w \in Poller : poller[w].pc = "told" => poller[w].told # Nothing
  BY DEF ForecastIInv, OverIsWritten
<1>3. CASE UNCHANGED forecastVars
  <2>1. ForecastTyped'
    BY <1>1, <1>3 DEF forecastVars, ForecastTyped
  <2> QED BY <1>2, <1>3, <2>1, ProgramsUntouched, PollersUntouched, ResolversUntouched, OverFollows
       DEF forecastVars, ForecastIInv
<1>4. ASSUME NEW p \in Program,
             \/ \E kind \in Method : OpenProgram(p, kind)
             \/ FirstManifest(p) \/ InsertProgram(p)
      PROVE  ForecastIInv'
  <2>1. UNCHANGED <<poller, resolver, history, bias, mixed>>
    BY <1>4 DEF OpenProgram, FirstManifest, InsertProgram
  <2>2. ForecastTyped'
    BY <1>1, <1>4, OpeningTyped
  <2> QED BY <1>2, <1>4, <2>1, <2>2, OpeningCloses, PollersUntouched, ResolversUntouched, OverFollows
       DEF ForecastIInv
<1>5. ASSUME NEW p \in Program, WriteFile(p)
      PROVE  ForecastIInv'
  <2>1. UNCHANGED <<poller, resolver, history, bias, mixed>>
    BY <1>5 DEF WriteFile
  <2>2. ForecastTyped'
    BY <1>1, <1>5, ClosingStepTyped
  <2> QED BY <1>2, <1>5, <2>1, <2>2, FileWritten, PollersUntouched, ResolversUntouched, OverFollows
       DEF ForecastIInv
<1>6. ASSUME NEW p \in Program, UpdateStatus(p)
      PROVE  ForecastIInv'
  <2>1. UNCHANGED <<files, poller, resolver, history, bias, mixed>>
    BY <1>6 DEF UpdateStatus
  <2>2. ForecastTyped'
    BY <1>1, <1>6, ClosingStepTyped
  <2> QED BY <1>2, <1>6, <2>1, <2>2, RowUpdated, PollersUntouched, ResolversUntouched, OverFollows
       DEF ForecastIInv
<1>7. ASSUME NEW p \in Program,
             \/ EnsureParentSession(p) \/ BuildEnv(p) \/ Disconnect(p) \/ CutAnswer(p)
             \/ RecordTrace(p) \/ Aggregate(p)
      PROVE  ForecastIInv'
  <2>1. UNCHANGED <<poller, resolver, history, bias, mixed>>
    BY <1>7 DEF EnsureParentSession, BuildEnv, Disconnect, CutAnswer, RecordTrace, Aggregate
  <2>2. ForecastTyped'
    BY <1>1, <1>7, RunningTyped
  <2> QED BY <1>2, <1>7, <2>1, <2>2, RunningCloses, PollersUntouched, ResolversUntouched, OverFollows
       DEF ForecastIInv
<1>8. ASSUME NEW p \in Program, NEW t \in Trial, TrialNext(p, t)
      PROVE  ForecastIInv'
  <2>1. UNCHANGED <<files, index, task, history, bias, resolver, poller, mixed>>
    BY <1>8, TrialsAlone
  <2>2. ForecastTyped'
    BY <1>1, <2>1 DEF ForecastTyped
  <2> QED BY <1>2, <2>1, <2>2, ProgramsUntouched, PollersUntouched, ResolversUntouched, OverFollows
       DEF ForecastIInv
<1>9. ASSUME NEW r \in Resolver,
             \/ \E p \in Program, obs \in Observation : StartResolve(r, p, obs)
             \/ AppendObservation(r) \/ ReadHistory(r) \/ WriteBias(r)
      PROVE  ForecastIInv'
  <2>1. UNCHANGED <<files, index, task, poller>>
    BY <1>9 DEF StartResolve, AppendObservation, ReadHistory, WriteBias
  <2>2. ForecastTyped'
    BY <1>1, <1>9, ResolvingTyped
  <2> QED BY <1>2, <1>9, <2>1, <2>2, ProgramsUntouched, PollersUntouched, ResolvingFits, OverFollows
       DEF ForecastIInv
<1>10. ASSUME NEW w \in Poller,
              (\E p \in Program : ReadManifest(w, p)) \/ ReadResult(w) \/ WaitTimesOut(w)
       PROVE  ForecastIInv'
  <2>1. UNCHANGED <<files, index, task, resolver, history, bias, mixed>>
    BY <1>10 DEF ReadManifest, ReadResult, WaitTimesOut
  <2>2. ForecastTyped'
    BY <1>1, <1>10, PollingTyped
  <2> QED BY <1>10, <2>1, <2>2, ProgramsUntouched, PollersTold, ResolversUntouched, OverFollows
       DEF ForecastIInv
<1>11. CASE ProgramsCrash
  <2>1. ForecastTyped'
    BY <1>1, <1>11, CrashTyped
  <2> QED BY <1>11, <2>1, CrashCloses, CrashTells, CrashFits, OverFollows DEF ForecastIInv
<1> QED BY <1>3, <1>4, <1>5, <1>6, <1>7, <1>8, <1>9, <1>10, <1>11 DEF ForecastNext, TaskNext

LEMMA ForecastAlways == ForecastSpec => []ForecastIInv
<1>1. ForecastInit => ForecastIInv
  BY ForecastInitially
<1>2. ForecastIInv /\ [ForecastNext]_forecastVars => ForecastIInv'
  BY ForecastSteps
<1> QED BY <1>1, <1>2, PTL DEF ForecastSpec

\* The files of every program, for any number of owners, pollers and stops of the
\* process between any two writes: close_completed and close_failed write what the
\* manifest names before the manifest, and the row last.
THEOREM FinalStatusIsBacked == ForecastSpec => []OverIsWritten
<1>1. ForecastIInv => OverIsWritten
  BY DEF ForecastIInv
<1> QED BY <1>1, ForecastAlways, PTL

\* CalibrationStore::record, for any number of observations, any cold start and any set
\* of histories on which the iteration diverges: what is in force without overlapping
\* calls is a fit to the longest part of what has been recorded that can be fitted.
THEOREM CalibrationIsCurrent == ForecastSpec => []BiasIsCurrent
<1>1. ForecastIInv => BiasIsCurrent
  <2> SUFFICES ASSUME ForecastIInv, Recording = {}, ~mixed
               PROVE  IsFitOf(bias, history)
    BY DEF BiasIsCurrent
  <2> QED BY DEF ForecastIInv, FittedInOrder
<1> QED BY <1>1, ForecastAlways, PTL
=============================================================================
