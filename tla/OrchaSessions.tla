----------------------------- MODULE OrchaSessions -----------------------------
(***************************************************************************)
(* Orcha's sessions (src/activations/orcha/orchestrator.rs, storage.rs).   *)
(* A session is a row and a copy of it in memory; every update writes the  *)
(* row and, in a later step, the copy, and everything is read from the     *)
(* copy.  A single session follows one task through its attempts.  The     *)
(* agents of a multi-agent session run on their own, and each of them      *)
(* judges the session when it has ended.                                   *)
(***************************************************************************)
EXTENDS Naturals, FiniteSets, Maps

CONSTANTS
    Task,        \* run_task calls; the session of a task has its name
    Team,        \* multi-agent sessions
    Agent,       \* agents, each spawned at most once
    MaxRetries,
    MaxCounts,   \* increment_retry calls of clients, per session; a cap
    SetTo        \* states that callers of update_session_state give

Caller == "caller"    \* of a method that is no task or agent

SessionState == {"idle", "running", "waiting_approval", "validating", "complete", "failed"}

ASSUME SessionAssumption ==
    /\ MaxRetries \in Nat /\ MaxCounts \in Nat /\ SetTo \subseteq SessionState
    /\ Task \cap Team = {} /\ (Task \cup Team) \cap Agent = {} /\ IsFiniteSet(Agent)
    /\ Caller \notin Task \cup Team \cup Agent

VARIABLES
    table,       \* rows of orcha_sessions: state and retries
    cache,       \* OrchaStorage.sessions
    crew,        \* rows of orcha_agents
    job,         \* tasks, agents and the callers of the other methods
    late,        \* writes that have reached the table and not yet the cache
    log,         \* prompts that the arbor tree of each task records
    disturbed    \* history: sessions whose state had another writer than their own
                 \* task or agents, or got agents again after the last had ended

sessionVars == <<table, cache, crew, job, late, log, disturbed>>

SessionId == Task \cup Team
Ended == {"complete", "failed"}
Halted == {"off", "done", "gaveup", "refused", "failed", "over", "gone"}
Rows(s) == {a \in DOMAIN crew : crew[a].session = s}
InState(s, S) == {a \in Rows(s) : crew[a].state \in S}
Active(s) == Rows(s) \ InState(s, Ended)
Free(x) == ~\E w \in late : w.by = x       \* x is not in the middle of an update
-----------------------------------------------------------------------------
(***************************************************************************)
(* OrchaStorage: the table first, then the cache.                          *)
(***************************************************************************)
NewSession == [state |-> "idle", retries |-> 0]

Insert(x, s) ==
    /\ table' = Put(table, s, NewSession)
    /\ late' = late \cup {[by |-> x, session |-> s, what |-> "insert"]}

UpdateState(x, s, state) ==
    /\ table' = IF s \in DOMAIN table THEN [table EXCEPT ![s].state = state] ELSE table
    /\ late' = late \cup {[by |-> x, session |-> s, what |-> state]}

IncrementRetry(x, s) ==
    /\ table' = IF s \in DOMAIN table THEN [table EXCEPT ![s].retries = @ + 1] ELSE table
    /\ late' = late \cup {[by |-> x, session |-> s, what |-> "retry"]}

\* What is not in the cache is not updated there.
Cached_States(w) ==
    IF w.what = "insert" THEN Put(cache, w.session, NewSession)
    ELSE IF w.session \notin DOMAIN cache \/ w.what = "retry" THEN cache
    ELSE IF w.what = "delete" THEN Without(cache, {w.session})
    ELSE [cache EXCEPT ![w.session].state = w.what]
Cached(w) ==
    IF w.what = "insert" THEN Put(cache, w.session, NewSession)
    ELSE IF w.session \notin DOMAIN cache THEN cache
    ELSE IF w.what = "delete" THEN Without(cache, {w.session})
    ELSE IF w.what = "retry" THEN [cache EXCEPT ![w.session].retries = @ + 1]
    ELSE [cache EXCEPT ![w.session].state = w.what]

UpdateCache ==
    \E w \in late :
        /\ cache' = Cached(w)
        /\ late' = late \ {w}
        /\ UNCHANGED <<table, crew, job, log, disturbed>>
-----------------------------------------------------------------------------
(***************************************************************************)
(* A task: run_orchestration_task.                                         *)
(***************************************************************************)
Doing(x, pc) == job[x].pc = pc /\ Free(x)
To(x, pc) == job' = [job EXCEPT ![x].pc = pc]

StartTask(t) ==
    /\ Doing(t, "off")
    /\ Insert(t, t) /\ To(t, "create")
    /\ UNCHANGED <<cache, crew, log, disturbed>>

\* The claudecode session may not come about; the orcha session stays as it is.
CreateChat(t) ==
    /\ Doing(t, "create")
    /\ To(t, "prompt") \/ To(t, "refused")
    /\ UNCHANGED <<table, cache, crew, late, log, disturbed>>

Prompt(t) ==
    /\ Doing(t, "prompt")
    /\ log' = [log EXCEPT ![t] = @ + 1]
    /\ UpdateState(t, t, "running")
    /\ To(t, "chat")
    /\ UNCHANGED <<cache, crew, disturbed>>

\* The agent's text names a validation or not; an error of the chat is reported
\* and ends the task.
TaskChatEnds(t) ==
    /\ Doing(t, "chat")
    /\ To(t, "complete") \/ To(t, "validate") \/ To(t, "failed")
    /\ UNCHANGED <<table, cache, crew, late, log, disturbed>>

Validate(t) ==
    /\ Doing(t, "validate")
    /\ UpdateState(t, t, "validating") /\ To(t, "test")
    /\ UNCHANGED <<cache, crew, log, disturbed>>

TestPasses(t) ==
    /\ Doing(t, "test") /\ To(t, "complete")
    /\ UNCHANGED <<table, cache, crew, late, log, disturbed>>

\* The attempts are counted in a local variable, which comes to what log counts.
Exhausted(x, n) == n >= MaxRetries

TestFails(t) ==
    /\ Doing(t, "test")
    /\ IF Exhausted(t, log[t])
       THEN To(t, "giveup") /\ UNCHANGED <<table, late>>
       ELSE To(t, "prompt") /\ IncrementRetry(t, t)
    /\ UNCHANGED <<cache, crew, log, disturbed>>

GiveUpTask(t) ==
    /\ Doing(t, "giveup")
    /\ UpdateState(t, t, "failed") /\ To(t, "gaveup")
    /\ UNCHANGED <<cache, crew, log, disturbed>>

Complete(t) ==
    /\ Doing(t, "complete")
    /\ UpdateState(t, t, "complete") /\ To(t, "done")
    /\ UNCHANGED <<cache, crew, log, disturbed>>

\* run_task ends with its caller's interest; run_task_async is a task of its own.
DropTask(t) ==
    /\ job[t].pc \notin Halted
    /\ To(t, "gone")
    /\ late' = {w \in late : w.by # t}
    /\ disturbed' = disturbed \cup {t}
    /\ UNCHANGED <<table, cache, crew, log>>

TaskStep(t) ==
    \/ CreateChat(t) \/ Prompt(t) \/ TaskChatEnds(t) \/ Validate(t) \/ TestPasses(t) \/ TestFails(t)
    \/ GiveUpTask(t) \/ Complete(t)
-----------------------------------------------------------------------------
(***************************************************************************)
(* Agents: spawn_agent, run_agent_task, check_session_completion.          *)
(***************************************************************************)
CreateTeam(s) ==
    /\ Doing(s, "off") /\ Insert(s, s) /\ To(s, "done")
    /\ UNCHANGED <<cache, crew, log, disturbed>>

\* The session is looked up before the agent's claudecode session is created.
RequestAgent(a, s) ==
    /\ Doing(a, "off") /\ s \in DOMAIN cache
    /\ job' = [job EXCEPT ![a] = [pc |-> "create", session |-> s, parent |-> a,
                                  tries |-> 0, counts |-> <<>>, verdict |-> ""]]
    /\ UNCHANGED <<table, cache, crew, late, log, disturbed>>

\* An agent asks for a helper in the middle of its chat, and waits for it to be
\* created.
RequestHelper(a, b) ==
    /\ Doing(a, "chat") /\ Doing(b, "off") /\ job[a].session \in DOMAIN cache
    /\ job' = [job EXCEPT ![a].pc = "helped",
                          ![b] = [pc |-> "create", session |-> job[a].session, parent |-> a,
                                  tries |-> 0, counts |-> <<>>, verdict |-> ""]]
    /\ UNCHANGED <<table, cache, crew, late, log, disturbed>>

\* The parent, if there is one, goes on with its chat.
Resumed(a, pc) ==
    LET p == job[a].parent
    IN  job' = IF p # a /\ job[p].pc = "helped" THEN [job EXCEPT ![a].pc = pc, ![p].pc = "chat"]
               ELSE [job EXCEPT ![a].pc = pc]

\* create_agent: the foreign key refuses an agent of a deleted session.
CreateAgent(a) ==
    LET s == job[a].session
    IN  /\ Doing(a, "create")
        /\ IF s \in DOMAIN table
           THEN /\ crew' = Put(crew, a, [session |-> s, state |-> "idle"])
                /\ disturbed' = IF Rows(s) # {} /\ Active(s) = {} THEN disturbed \cup {s}
                                ELSE disturbed
                /\ Resumed(a, "run")
           ELSE UNCHANGED <<crew, disturbed>> /\ Resumed(a, "over")
        /\ UNCHANGED <<table, cache, late, log>>

\* The claudecode session of the agent does not come about.
RefuseAgent(a) ==
    /\ Doing(a, "create") /\ Resumed(a, "over")
    /\ UNCHANGED <<table, cache, crew, late, log, disturbed>>

SetAgent(a, state) ==
    crew' = IF a \in DOMAIN crew THEN [crew EXCEPT ![a].state = state] ELSE crew

RunAgent(a) ==
    /\ Doing(a, "run") /\ SetAgent(a, "running") /\ To(a, "chat")
    /\ UNCHANGED <<table, cache, late, log, disturbed>>

AgentChatEnds(a) ==
    /\ Doing(a, "chat")
    /\ \/ SetAgent(a, "failed") /\ To(a, "count")
       \/ SetAgent(a, "complete") /\ To(a, "count")
       \/ SetAgent(a, "validating") /\ To(a, "test")
    /\ UNCHANGED <<table, cache, late, log, disturbed>>

AgentTest(a) ==
    /\ Doing(a, "test")
    /\ \/ SetAgent(a, "complete") /\ To(a, "count")
       \/ LET n == job[a].tries + 1
          IN  IF Exhausted(a, n) THEN SetAgent(a, "failed") /\ To(a, "count")
              ELSE /\ job' = [job EXCEPT ![a].pc = "run", ![a].tries = n]
                   /\ UNCHANGED crew
    /\ UNCHANGED <<table, cache, late, log, disturbed>>

CountAgents(a) ==
    LET s == job[a].session
    IN  /\ Doing(a, "count")
        /\ job' = [job EXCEPT ![a].pc = "judge",
                              ![a].counts = <<Cardinality(Active(s)),
                                              Cardinality(InState(s, {"complete"})),
                                              Cardinality(InState(s, {"failed"}))>>]
        /\ UNCHANGED <<table, cache, crew, late, log, disturbed>>

\* Only if all have failed has the session failed.
Verdict_Any(done, failed) == IF failed > 0 THEN "failed" ELSE "complete"
Verdict(done, failed) == IF failed > 0 /\ done = 0 THEN "failed" ELSE "complete"

\* Decides by the counts and the session in the cache.  Sessions of tasks are not
\* judged; while agents are active a running session gets new numbers only.
Judged(a) ==
    LET s == job[a].session
    IN  IF s \notin DOMAIN cache THEN ""
        ELSE IF job[a].counts[1] > 0 THEN IF cache[s].state = "running" THEN "running" ELSE ""
        ELSE IF s \in Task THEN ""
        ELSE Verdict(job[a].counts[2], job[a].counts[3])

Judge(a) ==
    /\ Doing(a, "judge")
    /\ LET verdict == Judged(a)
       IN  job' = [job EXCEPT ![a].pc = IF verdict = "" THEN "over" ELSE "write",
                              ![a].verdict = verdict]
    /\ UNCHANGED <<table, cache, crew, late, log, disturbed>>

WriteVerdict(a) ==
    /\ Doing(a, "write")
    /\ UpdateState(a, job[a].session, job[a].verdict) /\ To(a, "over")
    /\ UNCHANGED <<cache, crew, log, disturbed>>

AgentStep(a) ==
    \/ CreateAgent(a) \/ RefuseAgent(a) \/ RunAgent(a) \/ AgentChatEnds(a) \/ AgentTest(a)
    \/ CountAgents(a) \/ Judge(a) \/ WriteVerdict(a)
-----------------------------------------------------------------------------
(***************************************************************************)
(* Callers of the other methods, and a restart.                            *)
(***************************************************************************)
SetSessionState(s, state) ==
    /\ Free(Caller) /\ UpdateState(Caller, s, state)
    /\ disturbed' = disturbed \cup {s}
    /\ UNCHANGED <<cache, crew, job, log>>

\* A caller of run_task_async has the name before the session is there: a call that
\* overtakes an update, above all the creation, leaves table and copy apart.
Overtaking(s) == IF \E w \in late : w.session = s THEN disturbed \cup {s} ELSE disturbed

\* orcha.increment_retry, for a client of create_session that does its own retries; capped.
CountRetry(s) ==
    /\ Free(Caller) /\ s \in DOMAIN table /\ table[s].retries < MaxCounts
    /\ IncrementRetry(Caller, s)
    /\ disturbed' = Overtaking(s)
    /\ UNCHANGED <<cache, crew, job, log>>

DeleteSession(s) ==
    /\ Free(Caller) /\ s \in DOMAIN table
    /\ table' = Without(table, {s})
    /\ disturbed' = Overtaking(s)
    /\ crew' = Without(crew, Rows(s))
    /\ late' = late \cup {[by |-> Caller, session |-> s, what |-> "delete"]}
    /\ UNCHANGED <<cache, job, log>>

\* load_sessions: the cache is what the table says, and nobody is at work.
SessionsRestart ==
    /\ \E x \in Task \cup Agent : job[x].pc \notin Halted
    /\ cache' = table
    /\ job' = [x \in DOMAIN job |-> IF job[x].pc \in Halted THEN job[x]
                                    ELSE [job[x] EXCEPT !.pc = "gone"]]
    /\ late' = {}
    /\ disturbed' = disturbed \cup DOMAIN table
    /\ UNCHANGED <<table, crew, log>>

SessionsInit ==
    /\ table = <<>> /\ cache = <<>> /\ crew = <<>> /\ late = {} /\ disturbed = {}
    /\ job = [x \in SessionId \cup Agent |-> [pc |-> "off"]]
    /\ log = [t \in Task |-> 0]

SessionsNext ==
    \/ \E t \in Task : StartTask(t) \/ TaskStep(t) \/ DropTask(t)
    \/ \E s \in Team : CreateTeam(s) \/ CountRetry(s)
    \/ \E a \in Agent : \/ \E s \in Team : RequestAgent(a, s)
                        \/ \E b \in Agent \ {a} : RequestHelper(a, b)
                        \/ AgentStep(a)
    \/ UpdateCache
    \/ \E s \in SessionId : \/ DeleteSession(s)
                          \/ \E state \in SetTo : SetSessionState(s, state)
    \/ SessionsRestart

\* Agents are tokio tasks, and the claude processes they wait for come to an end.
SessionsFairness ==
    /\ \A a \in Agent : WF_sessionVars(AgentStep(a))
    /\ WF_sessionVars(UpdateCache)

SessionsSpec == SessionsInit /\ [][SessionsNext]_sessionVars /\ SessionsFairness
-----------------------------------------------------------------------------
(***************************************************************************)
(* Properties.                                                             *)
(***************************************************************************)
\* get_session tells what the database holds, as soon as updates are through: two
\* agents that end at once write the row and the copy in any order.
CacheAgrees ==
    \A s \in SessionId \ disturbed :
        (~\E w \in late : w.session = s) =>
            /\ s \in DOMAIN cache <=> s \in DOMAIN table
            /\ s \in DOMAIN table => cache[s] = table[s]

\* When the last agent has judged, the verdict is the one on all of the agents,
\* in whatever order they ended and counted.
VerdictOnAll ==
    \A s \in (Team \cap DOMAIN table) \ disturbed :
        /\ Rows(s) # {} /\ \A a \in Rows(s) : job[a].pc = "over"
        => table[s].state = IF Rows(s) = InState(s, {"failed"}) THEN "failed" ELSE "complete"
=============================================================================
