------------------------------ MODULE GridJobs ------------------------------
(***************************************************************************)
(* RemoteSSHExecutor and RemoteJobHandle                                   *)
(* (meizex_mrw/dispatch/executors/remote_ssh.py), with the child process   *)
(* of process_boundary.run_payload and the residual monitor of             *)
(* statewatch/residual.py.                                                 *)
(*                                                                         *)
(* Every job has a daemon thread of its own.  Threads meet at a semaphore; *)
(* callers cancel handles from other threads; execute() polls a handle     *)
(* while its thread runs.  An action is what one of them does between two  *)
(* accesses to what they share.                                            *)
(***************************************************************************)
EXTENDS Integers, Sequences, FiniteSets

CONSTANTS Jobs,               \* submitted jobs: one handle, one thread each
          Watched,            \* those submitted by execute(); the others are async
          Unsendable,         \* those whose payload json.dumps or the pipe refuses
          Cancellers,         \* threads that call cancel()
          MaxConcurrent,      \* permits of _concurrency_gate
          QueueGrace,         \* elapsed_s at which a queued job counts as stuck
          WarnAt,             \* timeout_s * warn_fraction
          Timeout,            \* timeout_s: no child is killed for time before it
          None

ASSUME WatchedAssumption == Watched \subseteq Jobs
ASSUME UnsendableAssumption == Unsendable \subseteq Jobs
ASSUME MaxConcurrentAssumption == MaxConcurrent \in Nat \ {0}
ASSUME TimesAssumption ==
    QueueGrace \in Nat /\ WarnAt \in Nat /\ Timeout \in Nat /\ WarnAt < Timeout

VARIABLES permits,            \* the semaphore
          thread,             \* thread[j]: where j's thread is
          child,              \* child[j]: its ssh process
          outcome,            \* outcome[j]: the thread's local result
          cancelled, started, captured, done,   \* the flags of the handles
          result,             \* result[j]: RemoteJobHandle._result
          stream,             \* stream[j]: the events appended for j
          clock,              \* clock[j]: time since j was submitted
          monitor,            \* monitor[j]: where execute() is, if j runs in it
          sample,             \* sample[j]: what execute() has just made of j
          warned,             \* the jobs with divergence_emitted
          canceller, target,  \* where each cancel() is, and on which handle
          withdrawn           \* history: the jobs cancelled while they were queued

threadVars == <<permits, thread, child, outcome, started, captured, done, result>>
monitorVars == <<monitor, sample, warned>>
cancelVars == <<canceller, target, cancelled, withdrawn>>
vars == <<threadVars, stream, clock, monitorVars, cancelVars>>

\* A child that fails, exits nonzero, is killed, times out, does not spawn or
\* breaks its transport makes a FAILED result; so does the job that never ran.
Verdicts == {"COMPLETED", "FAILED"}
CancelledBeforeStart == "CANCELLED_BEFORE_START"

Measured == [type |-> "ResourceUsageMeasured"]
Diverged(expected, observed) ==
    [type |-> "StepDivergence", expected |-> expected, observed |-> observed]

\* statewatch/residual.py
ExpectedPhase(wasStarted, elapsed) ==
    IF ~wasStarted
    THEN IF elapsed < QueueGrace THEN "queued" ELSE "queue_stuck"
    ELSE IF elapsed < WarnAt THEN "running" ELSE "should_have_finished"

ObservedPhase(wasStarted, isDone) ==
    IF isDone THEN "finished" ELSE IF wasStarted THEN "running" ELSE "queued"

ConsistentPairs == {<<"queued", "queued">>, <<"running", "running">>,
                    <<"running", "finished">>, <<"should_have_finished", "finished">>}

-----------------------------------------------------------------------------
(* The thread of a job: _run of execute_async, ProcessExecutor.execute,    *)
(* run_payload.                                                            *)

Step(j, from, to) == thread[j] = from /\ thread' = [thread EXCEPT ![j] = to]

\* execute_async returns at once; execute() then goes on to poll the handle.
Submit(j) ==
    /\ Step(j, "new", "queued")
    /\ monitor' = [monitor EXCEPT ![j] = IF j \in Watched THEN "head" ELSE "off"]
    /\ UNCHANGED <<permits, child, outcome, started, captured, done, result>>
    /\ UNCHANGED <<stream, clock, sample, warned, cancelVars>>

SlotFreeIgnored == TRUE
SlotFree == permits > 0

Acquire(j) ==
    /\ SlotFree
    /\ Step(j, "queued", "admitted")
    /\ permits' = permits - 1
    /\ UNCHANGED <<child, outcome, started, captured, done, result>>
    /\ UNCHANGED <<stream, clock, monitorVars, cancelVars>>

WithdrawnNever(j) == FALSE
Withdrawn(j) == j \in cancelled

\* _cancelled_before_start_result
Withdraw(j) ==
    /\ Withdrawn(j)
    /\ Step(j, "admitted", "publish")
    /\ outcome' = [outcome EXCEPT ![j] = CancelledBeforeStart]
    /\ UNCHANGED <<permits, child, started, captured, done, result>>
    /\ UNCHANGED <<stream, clock, monitorVars, cancelVars>>

GoAhead(j) ==
    /\ ~Withdrawn(j)
    /\ Step(j, "admitted", "begin")
    /\ UNCHANGED <<permits, child, outcome, started, captured, done, result>>
    /\ UNCHANGED <<stream, clock, monitorVars, cancelVars>>

Begin(j) ==
    /\ Step(j, "begin", "spawn")
    /\ started' = started \cup {j}
    /\ UNCHANGED <<permits, child, outcome, captured, done, result>>
    /\ UNCHANGED <<stream, clock, monitorVars, cancelVars>>

\* Popen, and its OSError.
Spawn(j) ==
    /\ \/ /\ Step(j, "spawn", "capture")
          /\ child' = [child EXCEPT ![j] = "alive"]
          /\ UNCHANGED outcome
       \/ /\ Step(j, "spawn", "report")
          /\ outcome' = [outcome EXCEPT ![j] = "FAILED"]
          /\ UNCHANGED child
    /\ UNCHANGED <<permits, started, captured, done, result>>
    /\ UNCHANGED <<stream, clock, monitorVars, cancelVars>>

\* on_spawn: from here on cancel() finds a process to kill.
Capture(j) ==
    /\ Step(j, "capture", "communicate")
    /\ captured' = captured \cup {j}
    /\ UNCHANGED <<permits, child, outcome, started, done, result>>
    /\ UNCHANGED <<stream, clock, monitorVars, cancelVars>>

\* communicate() returns: the child has ended by itself, was killed by cancel(),
\* or has run out of time and is killed here.  Only the first may have succeeded.
\* A killed child is taken to be gone within the ten seconds the code waits for.
Ending(j) ==
    \/ child[j] \in {"exited", "killed"}
    \/ clock[j] >= Timeout

VerdictOn(j) == IF child[j] = "exited" THEN Verdicts ELSE {"FAILED"}

ReapedUnkilled(j) == IF child[j] = "alive" THEN "alive" ELSE "reaped"
Reaped(j) == "reaped"

Communicate(j) ==
    /\ j \notin Unsendable
    /\ Step(j, "communicate", "report")
    /\ Ending(j)
    /\ \E v \in VerdictOn(j) : outcome' = [outcome EXCEPT ![j] = v]
    /\ child' = [child EXCEPT ![j] = Reaped(j)]
    /\ UNCHANGED <<permits, started, captured, done, result>>
    /\ UNCHANGED <<stream, clock, monitorVars, cancelVars>>

\* json.dumps(payload) raises, or communicate() cannot encode the text: a dead
\* thread, or a TRANSPORT_FAILURE.  The child is there already, and stays.
PayloadRefused(j) ==
    /\ j \in Unsendable
    /\ \/ /\ Step(j, "communicate", "raised")
          /\ permits' = permits + 1
          /\ UNCHANGED outcome
       \/ /\ Step(j, "communicate", "report")
          /\ outcome' = [outcome EXCEPT ![j] = "FAILED"]
          /\ UNCHANGED permits
    /\ UNCHANGED <<child, started, captured, done, result>>
    /\ UNCHANGED <<stream, clock, monitorVars, cancelVars>>

\* _emit_event appends one event whatever became of the child.
UsageOfSuccesses(j) ==
    IF outcome[j] = "COMPLETED" THEN Append(stream[j], Measured) ELSE stream[j]
Usage(j) == Append(stream[j], Measured)

Report(j) ==
    /\ Step(j, "report", "publish")
    /\ stream' = [stream EXCEPT ![j] = Usage(j)]
    /\ UNCHANGED <<permits, child, outcome, started, captured, done, result>>
    /\ UNCHANGED <<clock, monitorVars, cancelVars>>

\* The append raises OSError: the thread dies, its handle is never finished,
\* and leaving the "with" block gives the permit back.
RaisedHoldingSlot(j) == Step(j, "report", "raised") /\ UNCHANGED permits
Raised(j) == Step(j, "report", "raised") /\ permits' = permits + 1

ReportRaises(j) ==
    /\ Raised(j)
    /\ UNCHANGED <<child, outcome, started, captured, done, result>>
    /\ UNCHANGED <<stream, clock, monitorVars, cancelVars>>

\* _finish: the result first, then the flag that lets wait() and poll() read it.
FinishedFlagFirst(j) ==
    \/ /\ Step(j, "publish", "finish")
       /\ done' = done \cup {j}
       /\ UNCHANGED result
    \/ /\ Step(j, "finish", "release")
       /\ result' = [result EXCEPT ![j] = outcome[j]]
       /\ UNCHANGED done
Finished(j) ==
    \/ /\ Step(j, "publish", "finish")
       /\ result' = [result EXCEPT ![j] = outcome[j]]
       /\ UNCHANGED done
    \/ /\ Step(j, "finish", "release")
       /\ done' = done \cup {j}
       /\ UNCHANGED result

Finish(j) ==
    /\ Finished(j)
    /\ UNCHANGED <<permits, child, outcome, started, captured>>
    /\ UNCHANGED <<stream, clock, monitorVars, cancelVars>>

Release(j) ==
    /\ Step(j, "release", "ended")
    /\ permits' = permits + 1
    /\ outcome' = [outcome EXCEPT ![j] = None]
    /\ UNCHANGED <<child, started, captured, done, result>>
    /\ UNCHANGED <<stream, clock, monitorVars, cancelVars>>

-----------------------------------------------------------------------------
(* The world outside: ssh ends by itself, and time passes while somebody   *)
(* measures it (execute() or communicate()), until the last threshold.     *)

ChildExits(j) ==
    /\ child[j] = "alive"
    /\ child' = [child EXCEPT ![j] = "exited"]
    /\ UNCHANGED <<permits, thread, outcome, started, captured, done, result>>
    /\ UNCHANGED <<stream, clock, monitorVars, cancelVars>>

LastThreshold == IF QueueGrace > Timeout THEN QueueGrace ELSE Timeout

Tick(j) ==
    /\ thread[j] = "communicate" \/ (monitor[j] = "head" /\ thread[j] # "raised")
    /\ clock[j] < LastThreshold
    /\ clock' = [clock EXCEPT ![j] = @ + 1]
    /\ UNCHANGED <<threadVars, stream, monitorVars, cancelVars>>

-----------------------------------------------------------------------------
(* execute(): the polling loop around the handle.  It reads the clock and  *)
(* started(), then done(), and appends what it makes of the two.           *)

Observe(j) ==
    /\ monitor[j] = "head"
    /\ j \notin done
    /\ sample' = [sample EXCEPT ![j] = [started |-> j \in started,
                                        expected |-> ExpectedPhase(j \in started, clock[j])]]
    /\ monitor' = [monitor EXCEPT ![j] = "judge"]
    /\ UNCHANGED <<threadVars, stream, clock, warned, cancelVars>>

Judge(j) ==
    LET expected == sample[j].expected
        observed == ObservedPhase(sample[j].started, j \in done)
    IN  /\ monitor[j] = "judge"
        /\ \/ /\ <<expected, observed>> \notin ConsistentPairs
              /\ j \notin warned
              /\ sample' = [sample EXCEPT ![j] = Diverged(expected, observed)]
              /\ monitor' = [monitor EXCEPT ![j] = "append"]
           \/ /\ <<expected, observed>> \in ConsistentPairs \/ j \in warned
              /\ sample' = [sample EXCEPT ![j] = None]
              /\ monitor' = [monitor EXCEPT ![j] = "head"]
        /\ UNCHANGED <<threadVars, stream, clock, warned, cancelVars>>

WarnedForgotten(j) == warned
Warned(j) == warned \cup {j}

AppendDivergence(j) ==
    /\ monitor[j] = "append"
    /\ stream' = [stream EXCEPT ![j] = Append(@, sample[j])]
    /\ warned' = Warned(j)
    /\ sample' = [sample EXCEPT ![j] = None]
    /\ monitor' = [monitor EXCEPT ![j] = "head"]
    /\ UNCHANGED <<threadVars, clock, cancelVars>>

\* The append raises OSError, and so does execute(); the job goes on alone.
DivergenceRaises(j) ==
    /\ monitor[j] = "append"
    /\ monitor' = [monitor EXCEPT ![j] = "raised"]
    /\ UNCHANGED <<threadVars, stream, clock, sample, warned, cancelVars>>

\* handle.wait() returns at once.
Return(j) ==
    /\ monitor[j] = "head"
    /\ j \in done
    /\ monitor' = [monitor EXCEPT ![j] = "returned"]
    /\ UNCHANGED <<threadVars, stream, clock, sample, warned, cancelVars>>

-----------------------------------------------------------------------------
(* cancel(): it sets the flag, looks for a process that is not done, and   *)
(* kills it.  Popen.kill() is silent about a process that has gone.        *)

Cancel(c, j) ==
    /\ canceller[c] = "idle"
    /\ thread[j] # "new"
    /\ cancelled' = cancelled \cup {j}
    /\ withdrawn' = IF thread[j] = "queued" THEN withdrawn \cup {j} ELSE withdrawn
    /\ target' = [target EXCEPT ![c] = j]
    /\ canceller' = [canceller EXCEPT ![c] = "look"]
    /\ UNCHANGED <<threadVars, stream, clock, monitorVars>>

\* Return False, or go on with the process.
Look(c) ==
    /\ canceller[c] = "look"
    /\ \/ /\ target[c] \in captured \ done
          /\ canceller' = [canceller EXCEPT ![c] = "kill"]
          /\ UNCHANGED target
       \/ /\ target[c] \notin captured \ done
          /\ canceller' = [canceller EXCEPT ![c] = "idle"]
          /\ target' = [target EXCEPT ![c] = None]
    /\ UNCHANGED <<threadVars, stream, clock, monitorVars, cancelled, withdrawn>>

\* proc.kill() and return True.
Kill(c) ==
    /\ canceller[c] = "kill"
    /\ child' = [child EXCEPT ![target[c]] = IF @ = "alive" THEN "killed" ELSE @]
    /\ canceller' = [canceller EXCEPT ![c] = "idle"]
    /\ target' = [target EXCEPT ![c] = None]
    /\ UNCHANGED <<permits, thread, outcome, started, captured, done, result>>
    /\ UNCHANGED <<stream, clock, monitorVars, cancelled, withdrawn>>

-----------------------------------------------------------------------------

Init ==
    /\ permits = MaxConcurrent
    /\ thread = [j \in Jobs |-> "new"]
    /\ child = [j \in Jobs |-> "none"]
    /\ outcome = [j \in Jobs |-> None]
    /\ started = {} /\ captured = {} /\ done = {} /\ cancelled = {}
    /\ result = [j \in Jobs |-> None]
    /\ stream = [j \in Jobs |-> <<>>]
    /\ clock = [j \in Jobs |-> 0]
    /\ monitor = [j \in Jobs |-> "off"]
    /\ sample = [j \in Jobs |-> None]
    /\ warned = {}
    /\ canceller = [c \in Cancellers |-> "idle"]
    /\ target = [c \in Cancellers |-> None]
    /\ withdrawn = {}

ThreadStep(j) ==
    \/ Acquire(j) \/ Withdraw(j)    \/ GoAhead(j) \/ Begin(j)  \/ Spawn(j)
    \/ Capture(j) \/ Communicate(j) \/ PayloadRefused(j)
    \/ Report(j)  \/ Finish(j)      \/ Release(j)

MonitorStep(j) == Observe(j) \/ Judge(j) \/ AppendDivergence(j) \/ Return(j)

Next ==
    \/ \E j \in Jobs : \/ Submit(j) \/ ThreadStep(j) \/ ReportRaises(j)
                       \/ ChildExits(j) \/ Tick(j) \/ MonitorStep(j) \/ DivergenceRaises(j)
    \/ \E c \in Cancellers : (\E j \in Jobs : Cancel(c, j)) \/ Look(c) \/ Kill(c)

Spec == Init /\ [][Next]_vars

\* Threads are scheduled, time passes, and a permit that stays free is handed
\* out.  Nobody has to submit or cancel, and no child has to end by itself.
FairSpec ==
    Spec /\ \A j \in Jobs : WF_vars(ThreadStep(j)) /\ WF_vars(Tick(j)) /\ WF_vars(MonitorStep(j))

-----------------------------------------------------------------------------
(* Properties.                                                             *)

ThreadStates == {"new", "queued", "admitted", "begin", "spawn", "capture", "communicate", "report",
                 "publish", "finish", "release", "ended", "raised"}

\* Every variable holds a value of the kind the code keeps there.
TypeOK ==
    /\ permits \in 0..MaxConcurrent
    /\ thread \in [Jobs -> ThreadStates]
    /\ child \in [Jobs -> {"none", "alive", "exited", "killed", "reaped"}]
    /\ outcome \in [Jobs -> Verdicts \cup {CancelledBeforeStart, None}]
    /\ started \in SUBSET Jobs /\ captured \in SUBSET started /\ done \in SUBSET Jobs
    /\ cancelled \in SUBSET Jobs /\ withdrawn \in SUBSET cancelled /\ warned \in SUBSET Watched
    /\ result \in [Jobs -> Verdicts \cup {CancelledBeforeStart, None}]
    /\ clock \in [Jobs -> 0..LastThreshold]
    /\ monitor \in [Jobs -> {"off", "head", "judge", "append", "returned", "raised"}]
    /\ canceller \in [Cancellers -> {"idle", "look", "kill"}]
    /\ target \in [Cancellers -> Jobs \cup {None}]

\* execute_async(): "At most self.max_concurrent jobs actually run (ssh spawned)
\* against THIS node at once".
AtMostMaxConcurrent == Cardinality({j \in Jobs : child[j] = "alive"}) <= MaxConcurrent

\* The same as long as every payload can be sent, and no process outlives the
\* thread that started it: a slot is never handed on while the process it was
\* taken for is still there.
NodeNotOverrun ==
    /\ AtMostMaxConcurrent
    /\ \A j \in Jobs : thread[j] \in {"ended", "raised"} => child[j] \in {"none", "reaped"}

\* A job that is cancelled while it waits for its slot never spawns ssh, however
\* long it waits and whoever else runs, starts or raises in between, and its
\* handle settles on CANCELLED_BEFORE_START.
CancelledInQueueNeverRuns ==
    \A j \in withdrawn :
        /\ child[j] = "none" /\ j \notin started
        /\ j \in done => result[j] = CancelledBeforeStart

Events(j, type) == {i \in 1..Len(stream[j]) : stream[j][i].type = type}

\* A job's stream shows its process usage once by the time its handle is done,
\* and not at all if the job never ran.
UsageMeasuredOnce ==
    \A j \in done :
        Cardinality(Events(j, "ResourceUsageMeasured"))
            = IF result[j] = CancelledBeforeStart THEN 0 ELSE 1

\* execute() warns of a divergence "at most once per step", whatever the order in
\* which the job starts, grows late and finishes between its looks.
WarnsOnce == \A j \in Jobs : Cardinality(Events(j, "StepDivergence")) <= 1

\* Every submitted job comes to an end, and execute() returns or raises what its
\* own append raised, unless an exception ended the job's thread; none of that
\* ever keeps another job from its slot.
JobsSettle ==
    \A j \in Jobs :
        /\ thread[j] = "queued" ~> thread[j] \in {"ended", "raised"}
        /\ monitor[j] = "head" ~> monitor[j] \in {"returned", "raised"} \/ thread[j] = "raised"

-----------------------------------------------------------------------------
(* A handle is a future.                                                   *)

PhaseOf(j) ==
    CASE thread[j] = "new"    -> "absent"
      [] thread[j] = "raised" -> "lost"
      [] j \in done           -> "settled"
      [] thread[j] # "raised" /\ j \in started \ done -> "running"
      [] OTHER                -> "waiting"

Pool == INSTANCE JobPool WITH
            Slots <- MaxConcurrent,
            Unrun <- CancelledBeforeStart,
            phase <- [j \in Jobs |-> PhaseOf(j)],
            verdict <- [j \in Jobs |-> IF j \in done THEN result[j] ELSE None]

\* What done(), poll() and wait() show of a handle is a future of a bounded pool.
HandlesAreFutures == Pool!Spec

=============================================================================
