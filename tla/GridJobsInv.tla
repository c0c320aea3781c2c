---------------------------- MODULE GridJobsInv ----------------------------
(***************************************************************************)
(* The inductive invariant of GridJobs behind TypeOK, NodeNotOverrun,      *)
(* CancelledInQueueNeverRuns, UsageMeasuredOnce, WarnsOnce and the         *)
(* refinement of JobPool.                                                  *)
(***************************************************************************)
EXTENDS GridJobs

\* A thread is inside the "with" block of the gate, ...
Holding == {"admitted", "begin", "spawn", "capture", "communicate", "report",
            "publish", "finish", "release"}
Holders == {j \in Jobs : thread[j] \in Holding}

\* ... has not yet called Popen, or has an outcome to publish.
BeforeSpawn == {"new", "queued", "admitted", "begin", "spawn"}
Publishing == {"publish", "finish", "release"}

\* Every permit that is gone is in the hands of a thread.
PermitsCounted ==
    /\ IsFiniteSet(Holders)
    /\ permits + Cardinality(Holders) = MaxConcurrent

\* A process is started by its thread, and only a payload that was refused
\* lets the thread go on without it.
ChildOwned(j) ==
    /\ thread[j] \in BeforeSpawn \/ j \notin started => child[j] = "none"
    /\ thread[j] \in {"capture", "communicate"} => child[j] \in {"alive", "exited", "killed"}
    /\ thread[j] \in Publishing \cup {"report", "ended", "raised"} =>
          child[j] \in {"none", "reaped"} \/ j \in Unsendable

\* The flags follow the thread.
FlagsInStep(j) ==
    /\ thread[j] \in {"new", "queued", "admitted", "begin"} => j \notin started
    /\ thread[j] \in {"spawn", "capture", "communicate", "report", "raised"} => j \in started
    /\ j \in done <=> thread[j] \in {"release", "ended"}
    /\ j \in withdrawn =>
          /\ thread[j] \in {"queued", "admitted", "ended"} \cup Publishing
          /\ j \notin started

\* A job that did not start was cancelled, and the others have a verdict.
Fits(j, verdict) ==
    IF j \in started THEN verdict \in Verdicts ELSE verdict = CancelledBeforeStart

ResultFits(j) ==
    /\ thread[j] = "report" => outcome[j] \in Verdicts
    /\ thread[j] \in Publishing => Fits(j, outcome[j])
    /\ thread[j] \in {"finish", "release", "ended"} => Fits(j, result[j])

\* What execute() makes of a job, and what it appends when the two do not match.
Phases == {"queued", "queue_stuck", "running", "should_have_finished", "finished"}
Divergences == [type : {"StepDivergence"}, expected : Phases, observed : Phases]
Looks == [started : BOOLEAN, expected : Phases]

SeenTyped ==
    /\ stream \in [Jobs -> Seq({Measured} \cup Divergences)]
    /\ sample \in [Jobs -> {None} \cup Looks \cup Divergences]

NoneOf(j, type) == Events(j, type) = {}
Once(j, type) == \E i \in 1..Len(stream[j]) : Events(j, type) = {i}

\* The thread has appended its usage.
Reported(j) == thread[j] \in Publishing \cup {"ended"} /\ j \in started

\* What the stream shows of a job, against where its thread and its watcher are.
StreamInStep(j) ==
    /\ IF Reported(j)
       THEN Once(j, "ResourceUsageMeasured")
       ELSE NoneOf(j, "ResourceUsageMeasured")
    /\ IF j \in warned THEN Once(j, "StepDivergence") ELSE NoneOf(j, "StepDivergence")

\* execute() holds what its last look gave it, and warns only once.
WatchInStep(j) ==
    /\ monitor[j] # "off" => j \in Watched
    /\ monitor[j] = "judge" => sample[j] \in Looks
    /\ monitor[j] = "append" => j \notin warned /\ sample[j] \in Divergences

JobInv(j) ==
    /\ ChildOwned(j)
    /\ FlagsInStep(j)
    /\ ResultFits(j)
    /\ WatchInStep(j)

\* A cancel() under way has a handle.
Aimed == \A c \in Cancellers : canceller[c] # "idle" => target[c] \in Jobs

IInv ==
    /\ TypeOK
    /\ PermitsCounted
    /\ Aimed
    /\ SeenTyped
    /\ \A j \in Jobs : JobInv(j)
    /\ \A j \in Jobs : StreamInStep(j)

=============================================================================
