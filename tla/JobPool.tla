------------------------------ MODULE JobPool ------------------------------
(***************************************************************************)
(* What the caller of RemoteSSHExecutor.execute_async is promised: a job   *)
(* is a future.  It waits for one of a bounded number of slots, runs once, *)
(* and settles on one verdict that never changes; a job cancelled while it *)
(* waits settles without running.  Threads, semaphores, child processes    *)
(* and the two flags of a handle are the business of GridJobs.             *)
(***************************************************************************)
EXTENDS Naturals, FiniteSets

CONSTANTS Jobs,               \* jobs, each submitted at most once
          Slots,              \* max_concurrent of the executor's node
          Verdicts,           \* how a job that ran may have ended
          Unrun,              \* the verdict of a job that never ran
          None                \* no verdict yet

VARIABLES phase, verdict

vars == <<phase, verdict>>

Running == {j \in Jobs : phase[j] = "running"}

Init ==
    /\ phase = [j \in Jobs |-> "absent"]
    /\ verdict = [j \in Jobs |-> None]

Move(j, from, to, v) ==
    /\ phase[j] = from
    /\ phase' = [phase EXCEPT ![j] = to]
    /\ verdict' = [verdict EXCEPT ![j] = v]

Submit(j) == Move(j, "absent", "waiting", None)

Begin(j) ==
    /\ Cardinality(Running) < Slots
    /\ Move(j, "waiting", "running", None)

Settle(j) == \E v \in Verdicts : Move(j, "running", "settled", v)

Withdraw(j) == Move(j, "waiting", "settled", Unrun)

\* The thread of a running job dies of an exception: no verdict will ever come,
\* but the slot is free again.
Lose(j) == Move(j, "running", "lost", None)

Next ==
    \E j \in Jobs : Submit(j) \/ Begin(j) \/ Settle(j) \/ Withdraw(j) \/ Lose(j)

Spec == Init /\ [][Next]_vars

=============================================================================
