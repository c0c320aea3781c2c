-------------------------- MODULE RemediationLoop --------------------------
(***************************************************************************)
(* Bounded execution end to end.  Nothing in the repository drives these   *)
(* functions yet; a driver per sprint is modelled from their contracts:    *)
(* route the sprint, compile its context, have it executed, validate the   *)
(* checkpoint, classify the failure, decide, and obey the decision.  The   *)
(* drivers share the BoundedExecutionStore, of which only the latest       *)
(* checkpoint of a sprint is read again (load_latest_checkpoint).          *)
(*                                                                         *)
(* An action is what a driver does between two accesses to the store.      *)
(***************************************************************************)
EXTENDS RemediationPolicy, ContextCompiler, SpecialistRouter

CONSTANTS SprintIds,
          Missions,           \* [plan, sprints, requirements, policy] to start from
          Registry,           \* the specialists, each available or not
          Profiles,           \* resolved_execution_profiles
          Products,           \* what an execution may leave in a checkpoint
          AllowHitl,
          None

ASSUME MissionsAssumption ==
    /\ SprintIds \subseteq Nat \ {Own}
    /\ \A m \in Missions :
          /\ ValidPlan(m.plan)
          /\ ValidRequirements(m.requirements)
          /\ m.policy.max_same_retry \in Nat
          /\ DOMAIN m.sprints = SprintIds
          /\ \A s \in SprintIds : LET sprint == m.sprints[s] IN
                /\ ValidSprint(sprint) /\ BelongsToPlan(m.plan, sprint)
                /\ sprint.deps \subseteq Nat /\ IsFiniteSet(sprint.deps)
                /\ {sprint.core, sprint.token_budget} \subseteq Nat
                /\ TextList(sprint.facts) /\ TextList(sprint.questions)
                /\ TextList(sprint.evidence)

ASSUME RegistryAssumption ==
    /\ IsFiniteSet(Registry)
    /\ \A e \in Registry : ValidSpecialist(e)

ASSUME ProductsAssumption == \A cp \in Products :
    /\ ValidCheckpoint(cp)
    /\ TextList(cp.findings) /\ TextList(cp.paths)
    /\ TextList(cp.evidence) /\ TextList(cp.questions) /\ TextList(cp.unresolved)

ASSUME NoticeAssumption == \A s \in SprintIds : Notice(s) \in Texts

VARIABLES mission,            \* the mission under execution
          pc,                 \* pc[s]: where the driver of sprint s is
          latest,             \* latest[s]: the latest checkpoint of s in the store
          context,            \* context[s]: the CompiledSprintContext in use, or NoContext
          worker,             \* worker[s]: the specialist s was routed to
          target,             \* target[s]: the profile an escalation authorized
          primary,            \* primary[s]: the last primary_failure
          same,               \* same[s]: AttemptState.same_failure_count
          basis               \* history: the dependencies s was accepted on

attempts == <<target, primary, same>>
vars == <<mission, pc, latest, context, worker, attempts, basis>>

NoContext == [error |-> "not compiled"]

Sprint(s) == mission.sprints[s]

Stored == {d \in SprintIds : latest[d] # None}

Init ==
    /\ mission \in Missions
    /\ pc = [s \in SprintIds |-> "ready"]
    /\ latest = [s \in SprintIds |-> None]
    /\ context = [s \in SprintIds |-> NoContext]
    /\ worker = [s \in SprintIds |-> None]
    /\ target = [s \in SprintIds |-> NoTarget]
    /\ primary = [s \in SprintIds |-> "none"]
    /\ same = [s \in SprintIds |-> 0]
    /\ basis = [s \in SprintIds |-> None]

Final == {"accepted", "halted", "human", "repartition", "unrouted", "refused"}

Goto(s, to) == pc' = [pc EXCEPT ![s] = to]

Automated == {e \in Registry : ~IsHuman(e)}

\* The registry as a caller may find it: some automated specialists are up.
Snapshots ==
    {(Registry \ Automated) \cup {[e EXCEPT !.available = e \in up] : e \in Automated} :
        up \in SUBSET Automated}

\* A checkpoint is stored under its sprint_id.
Saved(s, cp) == [cp EXCEPT !.sprint = s]

ASSUME NoneAssumption ==
    /\ \A specialists \in Snapshots : None \notin specialists
    /\ \A s \in SprintIds, cp \in Products : None # Saved(s, cp)

Route(s, specialists) ==
    RouteSpecialist(mission.requirements, specialists, target[s], Profiles, AllowHitl)

\* compile_context_from_store takes the dependencies in their order: the first
\* that the plan does not name, or that has no checkpoint, is the error.
Unresolved(s) == {d \in Sprint(s).deps : d \notin DOMAIN mission.plan.deps \cap Stored}

Compiled(s) ==
    IF Unresolved(s) # {}
    THEN [error |-> IF Sorted(Unresolved(s))[1] \in DOMAIN mission.plan.deps
                    THEN "dependency_checkpoint_missing" ELSE "dependency_not_found"]
    ELSE Compile(mission.plan, Sprint(s), [d \in Stored |-> latest[d]])

\* route_specialist finds nobody, or a human.
Unroutable(s) ==
    /\ pc[s] = "ready"
    /\ \E specialists \in Snapshots : Route(s, specialists).outcome # "SELECTED"
    /\ Goto(s, IF AllowHitl THEN "human" ELSE "unrouted")
    /\ UNCHANGED <<mission, latest, context, worker, attempts, basis>>

\* The context cannot be compiled; a missing checkpoint is waited for.
Uncompilable(s) ==
    /\ pc[s] = "ready"
    /\ Compiled(s).error \notin {"none", "dependency_checkpoint_missing"}
    /\ Goto(s, "refused")
    /\ UNCHANGED <<mission, latest, context, worker, attempts, basis>>

\* Routed and compiled.
Prepare(s) ==
    /\ pc[s] = "ready"
    /\ Compiled(s).error = "none"
    /\ \E specialists \in Snapshots :
          LET route == Route(s, specialists)
          IN /\ route.outcome = "SELECTED"
             /\ worker' = [worker EXCEPT ![s] = CHOOSE e \in route.selected : TRUE]
    /\ context' = [context EXCEPT ![s] = Compiled(s)]
    /\ Goto(s, "working")
    /\ UNCHANGED <<mission, latest, attempts, basis>>

\* The specialist runs; its result is saved as the next version.
Execute(s) ==
    /\ pc[s] = "working"
    /\ \E cp \in Products : latest' = [latest EXCEPT ![s] = Saved(s, cp)]
    /\ Goto(s, "executed")
    /\ UNCHANGED <<mission, context, worker, attempts, basis>>

\* validate_checkpoint_from_store: a dependency without a checkpoint is left out.
Supplied(s) == [d \in Sprint(s).deps \cap Stored |-> latest[d]]

Verdict(s) == Validate(Sprint(s), latest[s], {Supplied(s)})

\* A count that is not reset by a failure of another class.
RepeatsOfAny(s, class) == same[s] + 1

\* Consecutive prior attempts with this primary failure.  The policy compares
\* the count with max_same_retry only, so counts above it are all alike.
Repeats(s, class) ==
    CASE class # primary[s] -> 0
      [] class = primary[s] /\ same[s] <= mission.policy.max_same_retry -> same[s] + 1
      [] OTHER -> same[s]

Obeyed(action) ==
    CASE action = "NO_ACTION" -> "accepted"
      [] action = "HALT" -> "halted"
      [] action = "HITL" -> "human"
      [] action = "REPARTITION" -> "repartition"
      [] OTHER -> "ready"

\* Validate, classify, decide, and obey the decision.
Judge(s) ==
    /\ pc[s] = "executed"
    /\ LET failure == Classify(latest[s], Verdict(s), context[s].truncated)
           count == Repeats(s, failure.primary)
           decision == Decide(failure, count, mission.policy)
       IN /\ Goto(s, Obeyed(decision.action))
          /\ primary' = [primary EXCEPT ![s] = failure.primary]
          /\ same' = [same EXCEPT ![s] = count]
          /\ target' = [target EXCEPT ![s] =
                           IF decision.target # NoTarget THEN decision.target ELSE @]
          /\ basis' = [basis EXCEPT ![s] = IF Verdict(s).accepted THEN Supplied(s) ELSE None]
    /\ context' = [context EXCEPT ![s] = NoContext]
    /\ worker' = [worker EXCEPT ![s] = None]
    /\ UNCHANGED <<mission, latest>>

Step(s) == Unroutable(s) \/ Uncompilable(s) \/ Prepare(s) \/ Execute(s) \/ Judge(s)

Next == \E s \in SprintIds : Step(s)

Spec == Init /\ [][Next]_vars

-----------------------------------------------------------------------------
(* Properties.                                                             *)

TypeOK ==
    /\ mission \in Missions
    /\ pc \in [SprintIds -> Final \cup {"ready", "working", "executed"}]
    /\ target \in [SprintIds -> {NoTarget, mission.policy.target}]
    /\ primary \in [SprintIds -> FailureClasses \cup {"none"}]
    /\ same \in [SprintIds -> 0..(mission.policy.max_same_retry + 1)]
    /\ DOMAIN latest = SprintIds /\ DOMAIN context = SprintIds
    /\ DOMAIN worker = SprintIds /\ DOMAIN basis = SprintIds
    /\ \A s \in SprintIds :
          /\ latest[s] \in {Saved(s, cp) : cp \in Products} \cup {None}
          /\ (pc[s] \in {"working", "executed"}) <=> context[s] # NoContext
          /\ (pc[s] \in {"working", "executed"}) <=> worker[s] # None

\* The classes decide_remediation sets no bound on, however often they repeat.
Endless == {"EVIDENCE_STARVATION", "TASK_DRIFT", "CAPABILITY_FAILURE"}

\* CIRCUIT BREAKER (AttemptState.same_failure_count): a failure that repeats
\* is answered by a stop after max_same_retry repetitions, whatever secondary
\* failures come and go, unless its primary class is one of Endless.
LaddersEnd == \A s \in SprintIds :
    pc[s] \notin Final /\ primary[s] \notin Endless
    => same[s] <= mission.policy.max_same_retry

\* "Retrying THIS sprint cannot fix an already-failed prerequisite": a verdict
\* that found a dependency not passed stops the sprint, whatever else failed
\* with it, so no escalation and no retry is spent on it.
BlockedSprintStops == [][\A s \in SprintIds :
    /\ pc[s] = "executed"
    /\ pc'[s] # "executed"
    /\ \E d \in Sprint(s).deps : latest[d].outcome # "PASS"
    => pc'[s] \in {"halted", "human"}]_vars

\* The compiled context of a sprint: within the budget, and no item inherited
\* from a dependency in the place of one of the sprint's own that was left out
\* and costs no more.
HonestContext(sprint, compiled) ==
    LET own == {i \in compiled.items : i.from = Own}
        left_out == {x \in OwnTexts(sprint) :
                        \A i \in compiled.items : <<i.kind, i.value>> # x}
    IN /\ compiled.tokens <= sprint.token_budget
       /\ \A i \in compiled.items \ own, x \in left_out : Tokens(i.value) < Tokens(x[2])
       /\ left_out # {} => compiled.truncated

\* Every context a specialist works with is such a context.
ContextHonest == \A s \in SprintIds :
    context[s] # NoContext => HonestContext(Sprint(s), context[s])

\* What the sprint asks of the specialist e: every gate of the routing, in
\* terms of what e has and not of the reasons to reject it.  Of an unresolved
\* profile nothing is known, and nothing is asked.
MayTake(e, r) ==
    /\ e.available
    /\ e.kind \notin r.forbidden
    /\ r.human_approval => IsHuman(e)
    /\ r.probabilistic => e.kind # "DETERMINISTIC_PYTHON"
    /\ IsHuman(e) \/ r.needs \subseteq e.offers
    /\ r.cloud_policy = "NO" => e.scope \notin {"HYBRID", "CLOUD"}
    /\ r.network => e.scope # "LOCAL" \/ "NETWORK_ACCESS" \in e.offers
    /\ r.classification \in e.classifications
    /\ r.modes # AnyMode => e.scope \in r.modes
    /\ r.min_context # Unknown /\ e.profile \in DOMAIN Profiles =>
          LET capacity == Profiles[e.profile].capacity
          IN  capacity # Unknown /\ r.min_context <= capacity

\* Whoever works on a sprint passed every gate when it was chosen, and is of the
\* profile the last authorized escalation named, if there was one.
WorkersMayTake == \A s \in SprintIds : worker[s] # None =>
    /\ MayTake(worker[s], mission.requirements)
    /\ target[s] # NoTarget => worker[s].profile = target[s]

\* An escalation stands: however many attempts, verdicts and changes of the
\* registry follow it, it is not taken back, and in none of them does the sprint
\* go to another profile, or to a specialist that may not take it.
EscalationKept ==
    [][/\ \A s \in SprintIds : target[s] # NoTarget => target'[s] = target[s]
       /\ WorkersMayTake']_vars

\* UNKNOWN CRITERION != SATISFIED CRITERION: an accepted sprint's checkpoint
\* claims a PASS, satisfies every required criterion and contract entry the
\* validator can read, and there is none that it cannot; each checkpoint that it
\* built on claimed a PASS when it was accepted.
AcceptanceProven == \A s \in SprintIds : pc[s] = "accepted" =>
    /\ latest[s].outcome = "PASS"
    /\ latest[s].status # "REJECTED"
    /\ \A c \in Sprint(s).criteria : c.optional \/ CriterionStatus(c, latest[s]) = "PASS"
    /\ \A key \in Sprint(s).contract : ContractStatus(key, latest[s]) = "PASS"
    /\ \A d \in Sprint(s).deps : d \in DOMAIN basis[s] /\ basis[s][d].outcome = "PASS"
=============================================================================
