------------------------------- MODULE Forecasts -------------------------------
(***************************************************************************)
(* Programs and forecasts (src/mneme, src/activations/forecast and         *)
(* programs).  A program is a directory of files, with a row in an index.  *)
(* forecast.update opens one and returns; a task of its own asks the       *)
(* trials, aggregates their answers and closes the program.  Clients wait  *)
(* by polling the files.  forecast.resolve appends to a history that all   *)
(* forecasts share and refits the parameters that calibrate later ones.    *)
(* Nothing resumes a program after a restart.                              *)
(***************************************************************************)
EXTENDS Integers, Sequences, FiniteSets

CONSTANTS
    Program,    \* program ids
    Trial,      \* the trials of an update
    MaxStep,    \* iterative_max_steps
    Resolver,   \* calls of forecast.resolve, made in order and at most once
    ColdStart,  \* COLD_START_THRESHOLD
    Raw,        \* the probabilities that forecasts predict
    Divergent,  \* the histories on which fit_platt's Newton iteration does not converge
    Poller      \* calls of programs.wait

ASSUME ForecastAssumption ==
    /\ Trial # {} /\ IsFiniteSet(Trial)
    /\ MaxStep \in Nat \ {0} /\ ColdStart \in Nat \ {0}
    /\ Resolver \subseteq Nat

VARIABLES
    files,      \* programs/<id>: manifest.json, artifact.json, error.json, trace.jsonl
    index,      \* rows of mneme_programs: their status
    task,       \* the call that owns each program: its kind, control point, what it will write
    trial,      \* trials: control point, steps taken, answer
    history,    \* _calibration/history.jsonl: what was predicted, and whether it came true
    bias,       \* _calibration/bias.json: the part of the history it was fitted to
    resolver,   \* resolve calls
    poller,     \* wait calls: control point, last status, what they were told
    mixed       \* history: whether two calls of record overlapped, or one was cut off

forecastVars == <<files, index, task, trial, history, bias, resolver, poller, mixed>>

NoFile == "none"
Nothing == <<>>     \* no artifact, no error, no parameters: absent or not readable
Torn == "torn"      \* fs::write has truncated the file and not yet written it
Method == {"create", "single", "iterative"}
Settled == {"completed", "failed"}
Bare == <<"bare">>  \* the artifact of forecast.create: no probability
NoTask == [kind |-> "create", pc |-> "off", status |-> "running", what |-> Nothing, spawned |-> FALSE]
NoTrial == [t \in Trial |-> [pc |-> "off", step |-> 0, answer |-> NoFile]]
NoWait == [pc |-> "off", program |-> NoFile, last |-> NoFile, told |-> Nothing]
NoCall == [pc |-> "off", obs |-> Nothing, seen |-> <<>>]
Observation == Raw \X BOOLEAN
Owned(p) == task[p].pc \notin {"off", "closed", "gone", "dead"}
Outcomes == {"ok", "failed"}
-----------------------------------------------------------------------------
(***************************************************************************)
(* Opening and closing a program.                                          *)
(***************************************************************************)
Goto(p, pc) == task' = [task EXCEPT ![p].pc = pc]
\* The call that owned the program is over, and its trials with it.
Return(p, pc) ==
    /\ task' = [task EXCEPT ![p] = [NoTask EXCEPT !.pc = pc]]
    /\ trial' = [trial EXCEPT ![p] = NoTrial]
CloseWith(p, status, what) ==
    task' = [task EXCEPT ![p].pc = "result", ![p].status = status, ![p].what = what]
CloseFailed(p, kind) == CloseWith(p, "failed", <<kind>>)
CloseCompleted(p, artifact) == CloseWith(p, "completed", artifact)

\* The manifest is written before anyone can be told of the program.
OpenProgram(p, kind) ==
    /\ task[p].pc = "off"
    /\ files' = [files EXCEPT ![p].manifest = Torn]
    /\ task' = [task EXCEPT ![p].pc = "open", ![p].kind = kind]
    /\ UNCHANGED <<index, trial, history, bias, resolver, poller, mixed>>

FirstManifest(p) ==
    /\ task[p].pc = "open"
    /\ files' = [files EXCEPT ![p].manifest = "running"]
    /\ Goto(p, "insert")
    /\ UNCHANGED <<index, trial, history, bias, resolver, poller, mixed>>

\* forecast.create closes its program at once.
InsertProgram(p) ==
    /\ task[p].pc = "insert"
    /\ index' = [index EXCEPT ![p] = "running"]
    /\ IF task[p].kind = "create" THEN CloseCompleted(p, Bare) ELSE Goto(p, "ensure")
    /\ UNCHANGED <<files, trial, history, bias, resolver, poller, mixed>>

\* close_completed and close_failed: the artifact or the error is written, then the
\* manifest names it, then the row.
NextClose_ManifestFirst(pc) == [result |-> "row", torn |-> "manifest", manifest |-> "result"][pc]
NextClose(pc) == [result |-> "torn", torn |-> "manifest", manifest |-> "row"][pc]

Written(f, t) ==
    CASE t.pc = "result" /\ t.status = "completed" -> [f EXCEPT !.artifact = t.what]
      [] t.pc = "result" /\ t.status = "failed"    -> [f EXCEPT !.error = t.what]
      [] t.pc = "torn"                             -> [f EXCEPT !.manifest = Torn]
      [] t.pc = "manifest"                         -> [f EXCEPT !.manifest = t.status]

WriteFile(p) ==
    /\ task[p].pc \in {"result", "torn", "manifest"}
    /\ files' = [files EXCEPT ![p] = Written(@, task[p])]
    /\ Goto(p, NextClose(task[p].pc))
    /\ UNCHANGED <<index, trial, history, bias, resolver, poller, mixed>>

UpdateStatus(p) ==
    /\ task[p].pc = "row"
    /\ index' = [index EXCEPT ![p] = task[p].status]
    /\ Return(p, "closed")
    /\ UNCHANGED <<files, history, bias, resolver, poller, mixed>>
-----------------------------------------------------------------------------
(***************************************************************************)
(* forecast.update: the parent session, the cutoff, the task.              *)
(***************************************************************************)
EnsureParentSession(p) ==
    /\ task[p].pc = "ensure"
    /\ \/ Goto(p, "env")
       \/ CloseFailed(p, "EnsureSession")
    /\ UNCHANGED <<files, index, trial, history, bias, resolver, poller, mixed>>

\* The task is spawned, and with it all its trials.
BuildEnv(p) ==
    /\ task[p].pc = "env"
    /\ \/ CloseFailed(p, "InvalidCutoff") /\ UNCHANGED trial
       \/ /\ task' = [task EXCEPT ![p].pc = "trials", ![p].spawned = TRUE]
          /\ trial' = [trial EXCEPT ![p] = [t \in Trial |-> [@[t] EXCEPT !.pc = "fork"]]]
    /\ UNCHANGED <<files, index, history, bias, resolver, poller, mixed>>

\* A client that leaves before the task is spawned takes the program's owner with it.
Disconnect(p) ==
    /\ Owned(p) /\ ~task[p].spawned
    /\ Return(p, "gone")
    /\ UNCHANGED <<files, index, history, bias, resolver, poller, mixed>>
-----------------------------------------------------------------------------
(***************************************************************************)
(* Trials.  What an agent answers to a single question: a probability, or  *)
(* something else that is not an error.  To a step: an estimate and an     *)
(* action, which may be to submit; a broken block; no block at all.        *)
(* Either way the chat may fail, or the answer be the error of a service.  *)
(***************************************************************************)
Answers(p) == IF task[p].kind = "single" THEN {"good", "odd", "error"}
              ELSE {"submit", "act", "broken", "prose", "error"}
Cleanups == {"submit", "act", "broken"}

TrialStep(p, t, pc, new) ==
    /\ task[p].pc = "trials" /\ trial[p][t].pc = pc
    /\ trial' = [trial EXCEPT ![p][t] = new]
    /\ UNCHANGED <<files, index, task, history, bias, resolver, poller, mixed>>

At(p, t, pc) == [trial[p][t] EXCEPT !.pc = pc]
Answered(p, t, a) == [trial[p][t] EXCEPT !.pc = "ok", !.answer = a]
Failed(p, t) == At(p, t, "failed")

ForkSession(p, t) == \E pc \in {"ask", "failed"} : TrialStep(p, t, "fork", At(p, t, pc))

\* run_one_trial: what is not an error is a success, whatever it says.
AnswerOnce(p, t) ==
    /\ task[p].kind = "single"
    /\ \E a \in Answers(p) :
          TrialStep(p, t, "ask", IF a = "error" THEN Failed(p, t) ELSE Answered(p, t, a))

\* iterative_trial: the next step; a broken block is cleaned up once.
Stepped(p, t, a) ==
    CASE a = "submit" -> Answered(p, t, "good")
      [] a = "act"    -> At(p, t, "act")
      [] OTHER        -> Failed(p, t)

AnswerStep(p, t) ==
    /\ task[p].kind = "iterative"
    /\ \E a \in Answers(p) :
          TrialStep(p, t, "ask", IF a = "broken" THEN At(p, t, "clean") ELSE Stepped(p, t, a))

RecoverParse(p, t) ==
    \E a \in Cleanups : TrialStep(p, t, "clean", Stepped(p, t, a))

\* The action is run; whatever it yields goes into the next prompt.  After the last
\* step the latest estimate is submitted.
ExecuteAction(p, t) ==
    LET n == trial[p][t].step + 1
        next == [trial[p][t] EXCEPT !.step = n]
    IN  TrialStep(p, t, "act", IF n < MaxStep THEN [next EXCEPT !.pc = "ask"]
                               ELSE [next EXCEPT !.pc = "ok", !.answer = "good"])

\* Ten minutes for the whole trial, the fork not included.
Timeout(p, t) ==
    \E pc \in {"ask", "clean", "act"} : TrialStep(p, t, pc, Failed(p, t))

\* detect_infra_error cuts a long answer at a byte: inside a character it panics, and
\* with it the task of all the trials.
CutAnswer(p) ==
    /\ task[p].pc = "trials"
    /\ \E t \in Trial : trial[p][t].pc = "ask"
    /\ Return(p, "dead")
    /\ UNCHANGED <<files, index, history, bias, resolver, poller, mixed>>
-----------------------------------------------------------------------------
(***************************************************************************)
(* The end of the task.                                                    *)
(***************************************************************************)
Successes(p) == {t \in Trial : trial[p][t].pc = "ok"}
AllTrialsEnd(p) == \A t \in Trial : trial[p][t].pc \in Outcomes

RecordTrace(p) ==
    /\ task[p].pc = "trials" /\ AllTrialsEnd(p)
    /\ files' = [files EXCEPT ![p].trace = Append(@, Cardinality(Successes(p)))]
    /\ Goto(p, "aggregate")
    /\ UNCHANGED <<index, trial, history, bias, resolver, poller, mixed>>

\* The artifact: how many trials it rests on, and what it was calibrated with.  A file
\* that cannot be read is taken like none.
Forecast(p) == <<Cardinality(Successes(p)), bias>>

\* logit_shrinkage gives up at the first answer without a probability.
Aggregated_Silently(p) ==
    IF \E t \in Successes(p) : trial[p][t].answer = "odd" THEN Goto(p, "closed")
    ELSE IF Successes(p) = {} THEN CloseFailed(p, "AllTrialsFailed")
    ELSE CloseCompleted(p, Forecast(p))
Aggregated(p) ==
    IF Successes(p) = {} THEN CloseFailed(p, "AllTrialsFailed")
    ELSE IF \E t \in Successes(p) : trial[p][t].answer = "odd" THEN CloseFailed(p, "AggregateError")
    ELSE CloseCompleted(p, Forecast(p))

\* The outcomes of the trials are dropped.
Aggregate(p) ==
    /\ task[p].pc = "aggregate"
    /\ Aggregated(p)
    /\ trial' = [trial EXCEPT ![p] = NoTrial]
    /\ UNCHANGED <<files, index, history, bias, resolver, poller, mixed>>
-----------------------------------------------------------------------------
(***************************************************************************)
(* forecast.resolve and CalibrationStore::record.                          *)
(***************************************************************************)
Recording == {r \in Resolver : resolver[r].pc \in {"append", "read", "write", "fill"}}

\* The forecast must be there, with a probability.
StartResolve(r, p, obs) ==
    /\ resolver[r].pc = "off" /\ \A q \in Resolver : q < r => resolver[q].pc # "off"
    /\ LET ready == files[p].artifact \notin {Nothing, Bare}
       IN  /\ resolver' = [resolver EXCEPT ![r] = IF ready THEN [NoCall EXCEPT !.pc = "append", !.obs = obs]
                                               ELSE [NoCall EXCEPT !.pc = "error"]]
           /\ mixed' = (mixed \/ (ready /\ Recording # {}))
    /\ UNCHANGED <<files, index, task, trial, history, bias, poller>>

AppendObservation(r) ==
    /\ resolver[r].pc = "append"
    /\ history' = Append(history, resolver[r].obs)
    /\ resolver' = [resolver EXCEPT ![r].pc = "read"]
    /\ UNCHANGED <<files, index, task, trial, bias, poller, mixed>>

\* fit_platt needs forecasts that came true and others that did not; and then its
\* iteration may still not converge.  Where it fails, the parameters stay.
Fits(h) == (\A b \in BOOLEAN : \E i \in DOMAIN h : h[i][2] = b) /\ h \notin Divergent
Refits_Once(h) == Len(h) = ColdStart /\ Fits(h)
Refits(h) == Len(h) >= ColdStart /\ Fits(h)

ReadHistory(r) ==
    /\ resolver[r].pc = "read"
    /\ resolver' = [resolver EXCEPT ![r] = IF Refits(history) THEN [@ EXCEPT !.pc = "write", !.seen = history]
                                          ELSE [NoCall EXCEPT !.pc = "done"]]
    /\ UNCHANGED <<files, index, task, trial, history, bias, poller, mixed>>

WriteBias(r) ==
    /\ \/ /\ resolver[r].pc = "write"
          /\ bias' = Nothing
          /\ resolver' = [resolver EXCEPT ![r].pc = "fill"]
       \/ /\ resolver[r].pc = "fill"
          /\ bias' = resolver[r].seen
          /\ resolver' = [resolver EXCEPT ![r] = [NoCall EXCEPT !.pc = "done"]]
    /\ UNCHANGED <<files, index, task, trial, history, poller, mixed>>
-----------------------------------------------------------------------------
(***************************************************************************)
(* programs.wait.                                                          *)
(***************************************************************************)
Tell(w, what) == poller' = [poller EXCEPT ![w] = [NoWait EXCEPT !.pc = "told", !.told = what]]

\* One poll: the manifest is read, and, if it says that the program is over, what it
\* names is read next.
ReadManifest(w, p) ==
    /\ poller[w].pc = "off" \/ (poller[w].pc = "poll" /\ poller[w].program = p)
    /\ IF files[p].manifest = NoFile THEN Tell(w, <<"NotFound">>)
       ELSE poller' = [poller EXCEPT ![w].program = p, ![w].last = files[p].manifest,
                          ![w].pc = IF files[p].manifest \in Settled THEN "result" ELSE "poll"]
    /\ UNCHANGED <<files, index, task, trial, history, bias, resolver, mixed>>

ReadResult(w) ==
    /\ poller[w].pc = "result"
    /\ LET f == files[poller[w].program]
       IN  Tell(w, IF poller[w].last = "completed" THEN f.artifact ELSE f.error)
    /\ UNCHANGED <<files, index, task, trial, history, bias, resolver, mixed>>

WaitTimesOut(w) ==
    /\ poller[w].pc = "poll"
    /\ Tell(w, <<"TimedOut">>)
    /\ UNCHANGED <<files, index, task, trial, history, bias, resolver, mixed>>
-----------------------------------------------------------------------------
\* The process stops.  The files and the rows stay as they are.
ProgramsCrash ==
    /\ Recording # {} \/ \E p \in Program : Owned(p)
    /\ task' = [p \in Program |-> IF Owned(p) THEN [NoTask EXCEPT !.pc = "gone"] ELSE task[p]]
    /\ trial' = [p \in Program |-> NoTrial]
    /\ resolver' = [r \in Resolver |-> IF r \in Recording THEN [NoCall EXCEPT !.pc = "error"]
                                       ELSE resolver[r]]
    /\ poller' = [w \in Poller |-> IF poller[w].pc \in {"poll", "result"}
                                   THEN [NoWait EXCEPT !.pc = "told", !.told = <<"gone">>]
                                   ELSE poller[w]]
    /\ mixed' = (mixed \/ Recording # {})
    /\ UNCHANGED <<files, index, history, bias>>

ForecastInit ==
    /\ files = [p \in Program |-> [manifest |-> NoFile, artifact |-> Nothing, error |-> Nothing,
                                   trace |-> <<>>]]
    /\ index = [p \in Program |-> NoFile]
    /\ task = [p \in Program |-> NoTask]
    /\ trial = [p \in Program |-> NoTrial]
    /\ history = <<>> /\ bias = Nothing
    /\ resolver = [r \in Resolver |-> NoCall]
    /\ poller = [w \in Poller |-> NoWait]
    /\ mixed = FALSE

TrialNext(p, t) ==
    \/ ForkSession(p, t) \/ AnswerOnce(p, t) \/ AnswerStep(p, t)
    \/ RecoverParse(p, t) \/ ExecuteAction(p, t) \/ Timeout(p, t)

TaskNext(p) ==
    \/ FirstManifest(p) \/ InsertProgram(p) \/ WriteFile(p) \/ UpdateStatus(p)
    \/ EnsureParentSession(p) \/ BuildEnv(p) \/ RecordTrace(p) \/ Aggregate(p)

ForecastNext ==
    \/ \E p \in Program :
          \/ \E kind \in Method : OpenProgram(p, kind)
          \/ TaskNext(p) \/ Disconnect(p) \/ CutAnswer(p)
          \/ \E t \in Trial : TrialNext(p, t)
          \/ \E r \in Resolver, obs \in Observation : StartResolve(r, p, obs)
          \/ \E w \in Poller : ReadManifest(w, p)
    \/ \E r \in Resolver : AppendObservation(r) \/ ReadHistory(r) \/ WriteBias(r)
    \/ \E w \in Poller : ReadResult(w) \/ WaitTimesOut(w)
    \/ ProgramsCrash

\* The task of an update is a tokio task, and each of its trials goes on or times out.
ForecastFairness ==
    \A p \in Program :
        /\ WF_forecastVars(task[p].spawned /\ TaskNext(p))
        /\ \A t \in Trial : WF_forecastVars(TrialNext(p, t))

ForecastSpec == ForecastInit /\ [][ForecastNext]_forecastVars /\ ForecastFairness
-----------------------------------------------------------------------------
(***************************************************************************)
(* Properties.                                                             *)
(***************************************************************************)
\* Who is told that a program is over can rely on it: a poller that read a final
\* status gets the artifact or the error and never a placeholder, the row never runs
\* ahead of the manifest, and this survives a stop between any two writes.
OverIsWritten ==
    /\ \A w \in Poller : poller[w].pc = "told" => poller[w].told # Nothing
    /\ \A p \in Program :
          /\ index[p] \in Settled => files[p].manifest = index[p]
          /\ files[p].manifest = "completed" => files[p].artifact # Nothing
          /\ files[p].manifest = "failed" => files[p].error # Nothing

\* Every update whose task was spawned is closed, whatever its trials do, unless the
\* process stops or an answer is cut inside a character.
EveryUpdateCloses ==
    \A p \in Program :
        task[p].spawned
        ~> (files[p].manifest \in Settled \/ task[p].pc \in {"gone", "dead"})

\* The parameters can be older than the history, but no older than they must: when no
\* call of record overlapped another or was cut off, they are those of the longest part
\* of the history, from the cold start on, that can be fitted, however often a fit
\* failed since (store.rs:98, "keep prior bias if so").
Fitted(h) == {n \in DOMAIN h : n >= ColdStart /\ Fits(SubSeq(h, 1, n))}
IsFitOf(params, h) ==
    /\ Fitted(h) = {} => params = Nothing
    /\ \A n \in Fitted(h) : (\A m \in Fitted(h) : m <= n) => params = SubSeq(h, 1, n)

BiasIsCurrent == Recording = {} /\ ~mixed => IsFitOf(bias, history)
-----------------------------------------------------------------------------
(***************************************************************************)
(* The inductive invariant of ForecastProofs.  What is about to be named   *)
(* in a manifest has been written, a row is settled only when its program  *)
(* has no owner any more, and, as long as no two calls of record have met, *)
(* the one in progress knows the whole history.                            *)
(***************************************************************************)
Said == {"bare", "EnsureSession", "InvalidCutoff", "AllTrialsFailed", "AggregateError",
         "NotFound", "TimedOut", "gone"}
Result == {Nothing} \cup (Nat \X Seq(Observation)) \cup {<<what>> : what \in Said}
Manifest == {NoFile, Torn, "running"} \cup Settled
Closing == {"result", "torn", "manifest", "row"}

Filed == [manifest : Manifest, artifact : Result, error : Result, trace : Seq(Nat)]
Owner == [kind : Method, status : {"running"} \cup Settled, what : Result, spawned : BOOLEAN,
          pc : {"off", "open", "insert", "ensure", "env", "trials", "aggregate", "closed", "gone", "dead"}
                   \cup Closing]
Wait == [pc : {"off", "poll", "result", "told"}, program : Program \cup {NoFile}, last : Manifest,
         told : Result]
Call == [pc : {"off", "append", "read", "write", "fill", "done", "error"},
         obs : Observation \cup {Nothing}, seen : Seq(Observation)]

ForecastTyped ==
    /\ files \in [Program -> Filed] /\ index \in [Program -> Manifest]
    /\ task \in [Program -> Owner]
    /\ poller \in [Poller -> Wait] /\ resolver \in [Resolver -> Call]
    /\ \A r \in Resolver : resolver[r].pc = "append" => resolver[r].obs \in Observation
    /\ history \in Seq(Observation) /\ bias \in Seq(Observation) /\ mixed \in BOOLEAN

\* The result that a status stands for.
ResultOf(f, status) == IF status = "completed" THEN f.artifact ELSE f.error

\* A program's owner, its files and its row.
ClosedSoFar(t, f, i) ==
    /\ t.pc \notin {"closed", "gone", "dead"} => i \notin Settled
    /\ t.pc \in Closing => t.status \in Settled /\ t.what # Nothing
    /\ t.pc \in Closing \ {"result"} => ResultOf(f, t.status) # Nothing
    /\ t.pc = "row" => f.manifest = t.status
    /\ f.manifest \in Settled => ResultOf(f, f.manifest) # Nothing
    /\ i \in Settled => f.manifest = i

ClosedInOrder == \A p \in Program : ClosedSoFar(task[p], files[p], index[p])

ToldOfResults ==
    \A w \in Poller :
        poller[w].pc = "result" =>
            /\ poller[w].program \in Program /\ poller[w].last \in Settled
            /\ ResultOf(files[poller[w].program], poller[w].last) # Nothing

Earlier(h) == SubSeq(h, 1, Len(h) - 1)

FittedInOrder ==
    ~mixed =>
        /\ \A r, q \in Recording : r = q
        /\ (\A r \in Recording : resolver[r].pc = "append") => IsFitOf(bias, history)
        /\ \A r \in Recording :
              /\ resolver[r].pc = "read" => history # <<>> /\ IsFitOf(bias, Earlier(history))
              /\ resolver[r].pc \in {"write", "fill"} => Refits(history) /\ resolver[r].seen = history

ForecastIInv ==
    ForecastTyped /\ ClosedInOrder /\ ToldOfResults /\ OverIsWritten /\ FittedInOrder
=============================================================================
