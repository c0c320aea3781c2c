---------------------------- MODULE RunLifecycle ----------------------------
(***************************************************************************)
(* What an observer of one run's event stream is promised: the abstract    *)
(* life of a run, as the event classes of meizex_mrw/events/models.py tell *)
(* it.  A run is started once, its steps are begun one at a time and in    *)
(* plan order, a step ends by completing, failing or pausing the run, a    *)
(* paused run goes on with the step AFTER the one that paused it, and a    *)
(* closed run stays closed.  Nothing here knows of processes, tokens,      *)
(* stores or crashes: a run whose owner dies simply stops moving.          *)
(***************************************************************************)
EXTENDS Naturals

CONSTANT Runs                 \* run ids

VARIABLES steps,              \* steps[r]: the number of steps of r's plan
          life                \* life[r]: where r is

vars == <<steps, life>>

\* "COMPLETED" and "FAILED" are the two final_status values of RunCompleted.
Phases == {"new", "ready", "executing", "failing", "pausing", "paused",
           "COMPLETED", "FAILED"}

\* step is the index of the current (or next) step; of a closed run, the
\* number of steps that were begun (RunCompleted.step_count).
Life == [phase : Phases, step : Nat]

Init ==
    /\ steps \in [Runs -> Nat]
    /\ life = [r \in Runs |-> [phase |-> "new", step |-> 0]]

Move(r, phase, step) ==
    /\ life' = [life EXCEPT ![r] = [phase |-> phase, step |-> step]]
    /\ UNCHANGED steps

Start(r) ==
    /\ life[r].phase = "new"
    /\ Move(r, "ready", 0)

Begin(r) ==
    /\ life[r].phase = "ready"
    /\ life[r].step < steps[r]
    /\ Move(r, "executing", life[r].step)

\* A step completes when its executor does, or when assistance answers for it.
Complete(r) ==
    /\ life[r].phase \in {"executing", "paused"}
    /\ Move(r, "ready", life[r].step + 1)

Fail(r) ==
    /\ life[r].phase = "executing"
    /\ Move(r, "failing", life[r].step)

Escalate(r) ==
    /\ life[r].phase = "executing"
    /\ Move(r, "pausing", life[r].step)

Pause(r) ==
    /\ life[r].phase = "pausing"
    /\ Move(r, "paused", life[r].step)

Succeed(r) ==
    /\ life[r].phase = "ready"
    /\ life[r].step = steps[r]
    /\ Move(r, "COMPLETED", steps[r])

GiveUp(r) ==
    \/ /\ life[r].phase = "failing"
       /\ Move(r, "FAILED", life[r].step + 1)
    \/ /\ life[r] = [phase |-> "ready", step |-> 0]   \* no resource to run on
       /\ Move(r, "FAILED", 0)

Next ==
    \E r \in Runs :
        \/ Start(r)  \/ Begin(r)    \/ Complete(r) \/ Fail(r)
        \/ Escalate(r) \/ Pause(r)  \/ Succeed(r)  \/ GiveUp(r)

Spec == Init /\ [][Next]_vars

=============================================================================
