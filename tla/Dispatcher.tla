----------------------------- MODULE Dispatcher -----------------------------
(***************************************************************************)
(* ResourceDispatcher (meizex_mrw/dispatch/dispatcher.py) with its         *)
(* FilePendingRouteStore (dispatch/store.py) and the run-scoped event      *)
(* streams it appends to (events/store.py).                                *)
(*                                                                         *)
(* Procs are the processes (or threads) that call dispatch() and resume(); *)
(* they share the store and the streams, nothing else.  One action is one  *)
(* durable effect: an appended event, a saved envelope, an unlinked one.   *)
(* Between any two of them another process may run, or this one may die.   *)
(***************************************************************************)
EXTENDS Integers, Sequences, FiniteSets

CONSTANTS Procs,            \* callers of dispatch() and resume()
          Runs,             \* run ids; each is dispatched at most once
          Tokens,           \* resume tokens (uuid4: a new one was never used)
          None,             \* no task, no token
          Routes,           \* the routing results that may be dispatched
          MaxEscalations    \* ResourceDispatcher(max_escalations=...)

\* A step as the dispatcher sees it: which executors claim its kind, which
\* boundary it needs, and whether the resolver's table knows its capability.
Step == [kind : {"tool", "mcp", "llm", "other"},
         boundary : {"IN_PROCESS", "PROCESS"},
         resolvable : BOOLEAN]

\* blocked: route_status is NO_ELIGIBLE_RESOURCE or NO_EXECUTABLE_RESOURCE.
Route == [blocked : BOOLEAN, plan : Seq(Step)]

ASSUME MaxEscalationsAssumption == MaxEscalations \in Nat
ASSUME RoutesAssumption == Routes \subseteq Route

VARIABLES route,            \* route[r]: the CapabilityRouteResult of run r
          stream,           \* stream[r]: the events of r's JSONL file
          pending,          \* pending[t]: the envelope file of token t
          issued,           \* every token ever made
          known,            \* the tokens some caller has been told
          pc,               \* pc[p]: where p is in dispatch() or resume()
          task,             \* task[p]: p's locals; an envelope holds the same
          token,            \* token[p]: the token p resumes or has just made
          fate              \* why a run that is not closed lost its owner

vars == <<route, stream, pending, issued, known, pc, task, token, fate>>

-----------------------------------------------------------------------------
(* Data.                                                                   *)

\* current_output: nothing, a text or a dict that names no tool, or a dict
\* whose tool_name the resolver would use.
Outputs == {"nothing", "text", "tool"}

\* results is the length of the list of step results; what the dispatcher
\* reads of it afterwards is that length, and the last entry, which it patches.
Task == [run : Runs, index : Nat, output : Outputs,
         escalations : 0..MaxEscalations, results : Nat]

ASSUME NoneAssumption == None \notin Tokens \cup Task

EventTypes == {"RunStarted", "StepStarted", "StepCompleted", "StepFailed",
               "StepEscalated", "RunEscalated", "RunCompleted"}

\* count: escalation_count of RunEscalated, step_count of RunCompleted.
Event == [type : EventTypes, index : Nat, count : Nat,
          status : {"", "COMPLETED", "FAILED"}]

Ev(type, index) == [type |-> type, index |-> index, count |-> 0, status |-> ""]
EscalatedEv(index, n) == [Ev("RunEscalated", index) EXCEPT !.count = n]
ClosedEv(status, n) == [type |-> "RunCompleted", index |-> 0, count |-> n, status |-> status]

Append1(r, e) == stream' = [stream EXCEPT ![r] = Append(@, e)]

\* EventStore.for_run: the stream of the run that p's task belongs to.
Emit(p, e) == Append1(task[p].run, e)

Plan(k) == route[k.run].plan
CurrentStep(k) == Plan(k)[k.index + 1]

\* dispatch/executors/*.can_handle, by the shared predicates.
CanHandle(e, s) ==
    \/ e = "deterministic" /\ s.kind = "tool"
    \/ e = "mcp"           /\ s.kind = "mcp"
    \/ e = "llm"           /\ s.kind = "llm"
    \/ e = "process"       /\ s.boundary = "PROCESS"

Executors == {"deterministic", "mcp", "llm", "process"}

\* At most one executor is left for a step: the kinds exclude each other, and
\* a PROCESS step is refused to every executor without a process boundary.
EligibleExecutors(s) ==
    {e \in Executors : CanHandle(e, s) /\ (s.boundary = "PROCESS" => e = "process")}

\* InvocationResolver.resolve raises PlanningError.
Unplannable(e, k) ==
    /\ e # "llm"
    /\ ~CurrentStep(k).resolvable
    /\ k.output # "tool"

-----------------------------------------------------------------------------
(* Control.                                                                *)

Goto(p, l) == pc' = [pc EXCEPT ![p] = l]

\* dispatch() or resume() returns, or its process dies: the locals are gone.
Leave(p) ==
    /\ Goto(p, "idle")
    /\ task' = [task EXCEPT ![p] = None]
    /\ token' = [token EXCEPT ![p] = None]

\* dispatch(): the run's stream is opened with RunStarted.
Dispatch(p, r) ==
    /\ pc[p] = "idle"
    /\ stream[r] = <<>>
    /\ fate[r] = "open"
    /\ Append1(r, Ev("RunStarted", 0))
    /\ task' = [task EXCEPT ![p] = [run |-> r, index |-> 0, output |-> "nothing",
                                    escalations |-> 0, results |-> 0]]
    /\ Goto(p, IF route[r].blocked THEN "close_failed" ELSE "next")
    /\ UNCHANGED <<route, pending, issued, known, token, fate>>

\* The head of the loop of _execute_loop.
StartStep(p) ==
    /\ pc[p] = "next"
    /\ task[p].index < Len(Plan(task[p]))
    /\ Emit(p, Ev("StepStarted", task[p].index))
    /\ Goto(p, "step")
    /\ UNCHANGED <<route, pending, issued, known, task, token, fate>>

PlanDone(p) ==
    /\ pc[p] = "next"
    /\ task[p].index = Len(Plan(task[p]))
    /\ Goto(p, "close_completed")
    /\ UNCHANGED <<route, stream, pending, issued, known, task, token, fate>>

\* results.append(res); a COMPLETED result's output is the next step's input.
Recorded(k) == [k EXCEPT !.results = @ + 1]
WithOutput(k, output) == [k EXCEPT !.output = output]

StepCompletes(p, output) ==
    /\ task' = [task EXCEPT ![p] = WithOutput(Recorded(task[p]), output)]
    /\ Goto(p, "completed")
    /\ UNCHANGED <<route, stream, pending, issued, known, token, fate>>

StepFails(p) ==
    /\ task' = [task EXCEPT ![p] = Recorded(task[p])]
    /\ Goto(p, "failed")
    /\ UNCHANGED <<route, stream, pending, issued, known, token, fate>>

\* A step that asks for help pauses the run, unless the run has paused too
\* often: then the step has FAILED.
MayEscalateUnbounded(k) == TRUE
MayEscalate(k) == k.escalations < MaxEscalations

StepAsks(p) ==
    /\ task' = [task EXCEPT ![p] = Recorded(task[p])]
    /\ Goto(p, IF MayEscalate(task[p]) THEN "save" ELSE "failed")
    /\ UNCHANGED <<route, stream, pending, issued, known, token, fate>>

\* No executor claims the step.
NoExecutor(p) ==
    /\ pc[p] = "step"
    /\ EligibleExecutors(CurrentStep(task[p])) = {}
    /\ StepFails(p)

PlanningError(p) ==
    /\ pc[p] = "step"
    /\ \E e \in EligibleExecutors(CurrentStep(task[p])) : Unplannable(e, task[p])
    /\ StepAsks(p)

\* executor.execute.  Only the child process returns a dict of its own making,
\* and only the LLM worker asks for approval.
Execute(p) ==
    /\ pc[p] = "step"
    /\ \E e \in EligibleExecutors(CurrentStep(task[p])) :
          /\ ~Unplannable(e, task[p])
          /\ \/ StepCompletes(p, "text")
             \/ e = "process" /\ StepCompletes(p, "tool")
             \/ e = "llm" /\ StepAsks(p)
             \/ StepFails(p)

\* RemoteSSHExecutor.execute polls its handle until it is done, and it never
\* is once an exception has ended the job's thread: the call does not return.
PollDeadJob(p) ==
    /\ pc[p] = "step"
    /\ \E e \in EligibleExecutors(CurrentStep(task[p])) :
          e = "process" /\ ~Unplannable(e, task[p])
    /\ Goto(p, "polling")
    /\ UNCHANGED <<route, stream, pending, issued, known, task, token, fate>>

\* The step index moves on.
Advanced(k) == [k EXCEPT !.index = @ + 1]

CompleteStep(p) ==
    /\ pc[p] = "completed"
    /\ Emit(p, Ev("StepCompleted", task[p].index))
    /\ task' = [task EXCEPT ![p] = Advanced(task[p])]
    /\ Goto(p, "next")
    /\ UNCHANGED <<route, pending, issued, known, token, fate>>

FailStep(p) ==
    /\ pc[p] = "failed"
    /\ Emit(p, Ev("StepFailed", task[p].index))
    /\ Goto(p, "close_failed")
    /\ UNCHANGED <<route, pending, issued, known, task, token, fate>>

\* PendingStateEnvelope(..., escalation_count=escalation_count + 1).
EnvelopeUncounted(k) == k
Envelope(k) == [k EXCEPT !.escalations = @ + 1]

\* FilePendingRouteStore.save: written aside, then renamed, so all or nothing.
SaveNothing(t, k) == UNCHANGED pending
Save(t, k) == pending' = [pending EXCEPT ![t] = Envelope(k)]

SavePending(p) ==
    /\ pc[p] = "save"
    /\ \E t \in Tokens \ issued :
          /\ Save(t, task[p])
          /\ issued' = issued \cup {t}
          /\ token' = [token EXCEPT ![p] = t]
    /\ Goto(p, "escalate")
    /\ UNCHANGED <<route, stream, known, task, fate>>

EscalateStep(p) ==
    /\ pc[p] = "escalate"
    /\ Emit(p, Ev("StepEscalated", task[p].index))
    /\ Goto(p, "announce")
    /\ UNCHANGED <<route, pending, issued, known, task, token, fate>>

\* RunEscalated carries the token out; dispatch() then returns ESCALATED.
Announce(p) ==
    /\ pc[p] = "announce"
    /\ Emit(p, EscalatedEv(task[p].index, task[p].escalations + 1))
    /\ known' = known \cup {token[p]}
    /\ Leave(p)
    /\ UNCHANGED <<route, pending, issued, fate>>

\* RunCompleted, with step_count = len(results).
Close(p, l, status) ==
    /\ pc[p] = l
    /\ Emit(p, ClosedEv(status, task[p].results))
    /\ Leave(p)
    /\ UNCHANGED <<route, pending, issued, known, fate>>

CloseCompleted(p) == Close(p, "close_completed", "COMPLETED")
CloseFailed(p) == Close(p, "close_failed", "FAILED")

-----------------------------------------------------------------------------
(* resume().  FilePendingRouteStore.consume loads the file and then unlinks *)
(* it: two steps, and another process may come between.  A token without a  *)
(* file makes resume() return at once and changes nothing.                  *)

Load(p, t) ==
    /\ pc[p] = "idle"
    /\ t \in known
    /\ pending[t] # None
    /\ task' = [task EXCEPT ![p] = pending[t]]
    /\ token' = [token EXCEPT ![p] = t]
    /\ Goto(p, "unlink")
    /\ UNCHANGED <<route, stream, pending, issued, known, fate>>

\* unlink(): an error when the file is gone, and then resume() returns FAILED.
UnlinkMissingOk(p) ==
    /\ pending' = [pending EXCEPT ![token[p]] = None]
    /\ Goto(p, "respond")
    /\ UNCHANGED <<task, token>>

Unlink(p) ==
    \/ /\ pending[token[p]] # None
       /\ pending' = [pending EXCEPT ![token[p]] = None]
       /\ Goto(p, "respond")
       /\ UNCHANGED <<task, token>>
    \/ /\ pending[token[p]] = None
       /\ Leave(p)
       /\ UNCHANGED pending

Consume(p) ==
    /\ pc[p] = "unlink"
    /\ Unlink(p)
    /\ UNCHANGED <<route, stream, issued, known, fate>>

\* ASSISTANCE_REJECTED: resume() returns FAILED and appends nothing.
Reject(p) ==
    /\ pc[p] = "respond"
    /\ fate' = [fate EXCEPT ![task[p].run] = "rejected"]
    /\ Leave(p)
    /\ UNCHANGED <<route, stream, pending, issued, known>>

\* results[-1] becomes COMPLETED with the answer as its output (always a
\* text), and the loop goes on at step_index + 1.
PatchedForgettingCount(k) == [WithOutput(Advanced(k), "text") EXCEPT !.escalations = 0]
PatchedSameStep(k) == WithOutput(k, "text")
PatchedAppending(k) == WithOutput(Advanced(Recorded(k)), "text")
Patched(k) == WithOutput(Advanced(k), "text")

Accept(p) ==
    /\ pc[p] = "respond"
    /\ Emit(p, Ev("StepCompleted", task[p].index))
    /\ task' = [task EXCEPT ![p] = Patched(task[p])]
    /\ Goto(p, "next")
    /\ UNCHANGED <<route, pending, issued, known, token, fate>>

-----------------------------------------------------------------------------
(* The process dies, or an exception leaves dispatch() or resume(): an     *)
(* executor that raises, a StoreError out of save, an OSError out of       *)
(* append.  Nothing in the dispatcher catches any of these.                *)

Owning == {"next", "step", "polling", "completed", "failed", "save", "escalate", "announce",
           "close_completed", "close_failed", "respond"}

Abort(p) ==
    /\ pc[p] # "idle"
    /\ fate' = IF pc[p] \in Owning
                   THEN [fate EXCEPT ![task[p].run] = "aborted"] ELSE fate
    /\ Leave(p)
    /\ UNCHANGED <<route, stream, pending, issued, known>>

-----------------------------------------------------------------------------

Init ==
    /\ route \in [Runs -> Routes]
    /\ stream = [r \in Runs |-> <<>>]
    /\ pending = [t \in Tokens |-> None]
    /\ issued = {}
    /\ known = {}
    /\ pc = [p \in Procs |-> "idle"]
    /\ task = [p \in Procs |-> None]
    /\ token = [p \in Procs |-> None]
    /\ fate = [r \in Runs |-> "open"]

\* What a process does by itself once it has been called.
Proceed(p) ==
    \/ StartStep(p)    \/ PlanDone(p)     \/ NoExecutor(p)   \/ PlanningError(p)
    \/ Execute(p)      \/ CompleteStep(p) \/ FailStep(p)     \/ SavePending(p)
    \/ EscalateStep(p) \/ Announce(p)     \/ CloseCompleted(p) \/ CloseFailed(p)
    \/ Consume(p)      \/ Reject(p)       \/ Accept(p)      \/ PollDeadJob(p)

Next ==
    \E p \in Procs :
        \/ \E r \in Runs : Dispatch(p, r)
        \/ \E t \in Tokens : Load(p, t)
        \/ Proceed(p)
        \/ Abort(p)

Spec == Init /\ [][Next]_vars

\* A called process keeps running, as long as it does not poll a dead job; nobody
\* has to call, and nothing has to die.
FairSpec == Spec /\ \A p \in Procs : WF_vars(Proceed(p))

-----------------------------------------------------------------------------
(* Properties.                                                             *)

\* Every variable holds a value of the kind the code keeps there; in
\* particular an envelope never carries more than MaxEscalations.
TypeOK ==
    /\ route \in [Runs -> Routes]
    /\ stream \in [Runs -> Seq(Event)]
    /\ pending \in [Tokens -> Task \cup {None}]
    /\ issued \in SUBSET Tokens
    /\ known \in SUBSET issued
    /\ pc \in [Procs -> Owning \cup {"idle", "unlink"}]
    /\ task \in [Procs -> Task \cup {None}]
    /\ token \in [Procs -> Tokens \cup {None}]
    /\ fate \in [Runs -> {"open", "rejected", "aborted"}]
    /\ \A p \in Procs : /\ pc[p] = "idle" <=> task[p] = None
                        /\ pc[p] \in {"unlink", "escalate", "announce"} => token[p] # None

Owns(p, r) == pc[p] \in Owning /\ task[p].run = r
Parked(t, r) == pending[t] # None /\ pending[t].run = r

\* A run is driven by one process at a time, or waits under one token.  Two
\* processes that resume the same token (load, load, unlink, unlink) never both
\* go on, and a saved envelope is not picked up while its maker still works.
SingleOwner ==
    \A r \in Runs :
        /\ \A p, q \in Procs : Owns(p, r) /\ Owns(q, r) => p = q
        /\ \A t, u \in Tokens : Parked(t, r) /\ Parked(u, r) => t = u
        /\ \A p \in Procs, t \in Tokens :
              Owns(p, r) /\ Parked(t, r) => pc[p] \in {"escalate", "announce"} /\ token[p] = t

LastEvent(r) == stream[r][Len(stream[r])]
Closed(r) == stream[r] # <<>> /\ LastEvent(r).type = "RunCompleted"

\* A started run that was neither closed, rejected nor aborted is never lost:
\* a process drives it, or a token that some caller HOLDS will resume it.
NoStrandedRun ==
    \A r \in Runs :
        stream[r] # <<>> /\ ~Closed(r) /\ fate[r] = "open" =>
            \/ \E p \in Procs : Owns(p, r)
            \/ \E t \in known : Parked(t, r)

Positions(r, type) == {i \in 1..Len(stream[r]) : stream[r][i].type = type}

\* The pauses of one run are numbered upwards across every resume, and never
\* beyond max_escalations: the count survives the trip through the store.
EscalationsBounded ==
    \A r \in Runs : \A i, j \in Positions(r, "RunEscalated") :
        /\ stream[r][i].count \in 1..MaxEscalations
        /\ i < j => stream[r][i].count < stream[r][j].count

\* The step_count of RunCompleted is the number of steps the stream shows as
\* started, and a COMPLETED run shows every step of its plan completed exactly
\* once, however many times it was paused and resumed in between.
StepCountHonest ==
    \A r \in Runs : Closed(r) =>
        /\ LastEvent(r).count = Cardinality(Positions(r, "StepStarted"))
        /\ LastEvent(r).status = "COMPLETED" =>
              /\ LastEvent(r).count = Len(route[r].plan)
              /\ \A i \in 1..Len(route[r].plan) :
                    Cardinality({j \in Positions(r, "StepCompleted") :
                                    stream[r][j].index = i - 1}) = 1

\* p drives r and stands in the loop of RemoteSSHExecutor.execute.
PolledForGood(r) ==
    \E p \in Procs : /\ Owns(p, r) /\ pc[p] = "polling"
                     /\ CurrentStep(task[p]).boundary = "PROCESS"

\* As long as its processes survive, a started run ends up closed, or waiting
\* under a token a caller holds, or given up; or, at a PROCESS step and nowhere
\* else, its caller polls for good a remote job whose thread has died.
RunSettles ==
    \A r \in Runs :
        stream[r] # <<>> ~> \/ Closed(r)
                            \/ fate[r] # "open"
                            \/ \E t \in known : Parked(t, r)
                            \/ PolledForGood(r)

-----------------------------------------------------------------------------
(* The stream of a run, read by an observer, is a legal life of a run.     *)

PhaseAfter == [RunStarted |-> "ready", StepStarted |-> "executing",
               StepCompleted |-> "ready", StepFailed |-> "failing",
               StepEscalated |-> "pausing", RunEscalated |-> "paused"]

LifeAfter(e) ==
    IF e.type = "RunCompleted"
    THEN [phase |-> e.status, step |-> e.count]
    ELSE [phase |-> PhaseAfter[e.type],
          step |-> IF e.type = "StepCompleted" THEN e.index + 1 ELSE e.index]

LifeOf(r) ==
    IF stream[r] = <<>> THEN [phase |-> "new", step |-> 0] ELSE LifeAfter(LastEvent(r))

Lifecycle == INSTANCE RunLifecycle WITH
                 steps <- [r \in Runs |-> Len(route[r].plan)],
                 life <- [r \in Runs |-> LifeOf(r)]

\* Whatever the interleaving of callers, crashes and concurrent resumes, every
\* stream grows only along the legal life of a run.
StreamsAreLives == Lifecycle!Spec

=============================================================================
