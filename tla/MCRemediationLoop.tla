------------------------- MODULE MCRemediationLoop -------------------------
(***************************************************************************)
(* Instances of RemediationLoop for TLC: sprint 2 depends on sprint 1.     *)
(***************************************************************************)
EXTENDS RemediationLoop, TLC

\* Texts 1..9 are of 1 to 3 tokens; 90 + d is the notice about d.
MCTexts == 1..9 \cup {91, 92}
MCTokens(text) == 1 + (text % 3)
MCNotice(d) == 90 + d

Criterion(kind, least, optional) == [kind |-> kind, least |-> least, optional |-> optional]

MCSprint(id, deps, criteria, contract, core, budget, facts) ==
    [mission |-> "m", plan_version |-> 1, id |-> id, deps |-> deps,
     criteria |-> criteria, contract |-> contract, locked |-> FALSE,
     core |-> core, token_budget |-> budget,
     facts |-> facts, questions |-> {}, evidence |-> {}]

Findings == Criterion("findings", 1, FALSE)
Evidence == Criterion("evidence", 0, FALSE)
Closed == Criterion("no_open_questions", 0, TRUE)
Vague == Criterion("unknown", 0, FALSE)

MCPolicy(authorized, no_partition, max) ==
    [target |-> authorized, no_partition |-> no_partition, max_same_retry |-> max]

MCRequirements(probabilistic, cloud, min_context) ==
    [probabilistic |-> probabilistic, needs |-> {"tools"}, network |-> FALSE,
     cloud_policy |-> cloud, classification |-> "INTERNAL", modes |-> AnyMode,
     min_context |-> min_context, human_approval |-> FALSE, forbidden |-> {"API"},
     preferred |-> {"LOCAL_LLM"}]

\* The plan knows sprints 1 and 2, whatever the second says it depends on.
MCMission(second, requirements, policy) ==
    [plan |-> [mission |-> "m", plan_version |-> 1, deps |-> (1 :> {}) @@ (2 :> {1})],
     sprints |-> (1 :> MCSprint(1, {}, {Findings, Evidence}, {}, 1, 9, {3})) @@ (2 :> second),
     requirements |-> requirements, policy |-> policy]

MCMissions ==
    {\* Sprint 2 has room for its dependency's facts but not for all of them.
     MCMission(MCSprint(2, {1}, {Findings, Closed}, {"evidence"}, 1, 4, {4}),
               MCRequirements(TRUE, "NO", 2), MCPolicy("big", FALSE, 1)),
     \* A required criterion nobody can read; nothing authorized, no partition.
     MCMission(MCSprint(2, {1}, {Findings, Vague}, {}, 1, 9, {}),
               MCRequirements(FALSE, "YES", 4), MCPolicy(NoTarget, TRUE, 2)),
     \* A core that does not fit.
     MCMission(MCSprint(2, {1}, {Findings}, {}, 9, 4, {}),
               MCRequirements(TRUE, "YES", Unknown), MCPolicy("big", FALSE, 0)),
     \* A dependency the plan does not name; a network, and its tools.
     MCMission(MCSprint(2, {1, 7}, {Findings}, {}, 1, 4, {}),
               [MCRequirements(FALSE, "CONDITIONAL", 2) EXCEPT !.network = TRUE],
               MCPolicy("cloud", FALSE, 0))}

Specialist(id, kind, profile, scope, cost) ==
    [id |-> id, kind |-> kind, profile |-> profile, scope |-> scope,
     offers |-> {"tools"}, classifications |-> {"INTERNAL"}, available |-> TRUE,
     priority |-> 0, cost |-> cost, latency |-> 1]

MCRegistry ==
    {Specialist(1, "DETERMINISTIC_PYTHON", NoProfile, "LOCAL", 0),
     Specialist(2, "LOCAL_LLM", "small", "LOCAL", 1),
     Specialist(3, "LOCAL_LLM", "big", "LOCAL", 1),
     Specialist(4, "CLOUD_LLM", "cloud", "CLOUD", 3),
     Specialist(6, "API", "big", "HYBRID", 0),
     [Specialist(5, "HUMAN", NoProfile, "LOCAL", 3) EXCEPT !.classifications = {}]}

MCProfiles == ("small" :> [gpu |-> "no", capacity |-> 2])
              @@ ("big" :> [gpu |-> "unknown", capacity |-> 8])

Product(outcome, findings, evidence, questions) ==
    [mission |-> "m", sprint |-> 0, status |-> "CANDIDATE", outcome |-> outcome,
     findings |-> findings, found |-> Cardinality(findings), paths |-> {},
     evidence |-> evidence, questions |-> questions, unresolved |-> {}]

\* A complete result, what an executor may report of a failed one, and the
\* ways a claimed PASS may be hollow.
MCProducts ==
    {Product(o, {3, 5}, {6}, {}) : o \in {"PASS", "TASK_DRIFT", "CAPABILITY_FAILURE"}}
    \cup {Product("PASS", {3}, {}, {}), Product("INVALID_OUTPUT", {}, {}, {7}),
          [Product(NoOutcome, {5}, {6}, {7}) EXCEPT !.found = 2, !.unresolved = {2}],
          [Product("PASS", {3}, {6}, {}) EXCEPT !.status = "REJECTED"]}

=============================================================================
