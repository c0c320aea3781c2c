-------------------------- MODULE BoundedExecution --------------------------
(***************************************************************************)
(* The records of bounded execution (meizex_air/bounded_execution.py):     *)
(* what a TaskPlan, a BoundedExecutionSprint and a SprintCheckpoint must   *)
(* satisfy to exist at all.  The strings a record carries are natural      *)
(* numbers (AIR sorts them before it uses them, so their order matters),   *)
(* a list of strings is a set of them.                                     *)
(***************************************************************************)
EXTENDS Integers, FiniteSets

\* The members of SprintOutcome but PENDING, which no checkpoint may carry.
SprintOutcomes == {"PASS", "INCOMPLETE", "UNSUPPORTED", "TASK_DRIFT",
                   "BUDGET_EXCEEDED", "TOOL_FAILURE", "CONTRADICTION",
                   "CAPABILITY_FAILURE", "INVALID_OUTPUT"}

CheckpointStatuses == {"CANDIDATE", "ACCEPTED", "SUPERSEDED", "REJECTED"}

NoOutcome == "none"           \* failure_class=None

\* The depth-first search of TaskPlan._validate raises on exactly the graphs
\* in which some sprints all depend on one another.
Acyclic(deps) ==
    ~ \E ring \in SUBSET DOMAIN deps :
          ring # {} /\ \A s \in ring : deps[s] \cap ring # {}

\* plan.deps is defined on the sprint_ids (no entry: no dependency).
ValidPlan(plan) ==
    /\ \A s \in DOMAIN plan.deps : plan.deps[s] \subseteq DOMAIN plan.deps \ {s}
    /\ Acyclic(plan.deps)

\* A sprint names its dependencies a second time; nothing compares the two.
ValidSprint(sprint) ==
    /\ sprint.id \notin sprint.deps
    /\ sprint.criteria # {}
    /\ sprint.token_budget >= 1

CheckpointFields ==
    {"mission", "sprint", "status", "outcome", "findings", "found", "paths", "evidence",
     "questions", "unresolved"}

\* found is the length of the list of findings, which may repeat itself.
ValidCheckpoint(cp) ==
    /\ cp = [f \in CheckpointFields |-> cp[f]]
    /\ cp.outcome \in SprintOutcomes \cup {NoOutcome}
    /\ cp.found >= Cardinality(cp.findings)
    /\ cp.findings = {} => cp.found = 0

\* sprint_belongs_to_plan, for one mission and one plan_version.
BelongsToPlan(plan, sprint) ==
    /\ sprint.mission = plan.mission
    /\ sprint.plan_version = plan.plan_version
    /\ sprint.id \in DOMAIN plan.deps

=============================================================================
