------------------------- MODULE RemediationPolicy -------------------------
(***************************************************************************)
(* decide_remediation (meizex_air/remediation_policy.py): the next action  *)
(* for a classified failure.  same is AttemptState.same_failure_count,     *)
(* policy is a PolicyContext [target, no_partition, max_same_retry].       *)
(***************************************************************************)
EXTENDS FailureClassifier

NoTarget == "none"            \* target_execution_profile_ref=None

\* _ACTION_PRECEDENCE, most restrictive first.
ActionPrecedence == <<"HITL", "HALT", "ESCALATE_PROFILE", "REPARTITION",
                      "RETRY_REDUCED_SCOPE", "REQUEST_EVIDENCE", "RETRY_SAME",
                      "NO_ACTION">>

\* A ladder: one action until the failure has repeated, then another.
Ladder(same, policy, first, repeated) ==
    IF same >= policy.max_same_retry THEN repeated ELSE first

Escalation(policy, otherwise) ==
    IF policy.target # NoTarget THEN "ESCALATE_PROFILE" ELSE otherwise

\* The ladder of INVALID_OUTPUT without its last rung.
EndlessInvalidOutput(same, policy) ==
    IF same = 0 THEN "RETRY_SAME" ELSE "RETRY_REDUCED_SCOPE"

\* The ladder of INVALID_OUTPUT, written for max_same_retry = 1.
InvalidOutputAction(same, policy) ==
    CASE same = 0 -> "RETRY_SAME"
      [] same # 0 /\ same = policy.max_same_retry -> "RETRY_REDUCED_SCOPE"
      [] OTHER -> "HALT"

BaselineAction(class, unresolved, same, policy) ==
    CASE class = "CAPABILITY_FAILURE" -> Escalation(policy, "HITL")
      [] class = "CONFIGURATION_MISMATCH" -> Escalation(policy, "HALT")
      [] class = "DEPENDENCY_FAILURE" -> IF unresolved THEN "REQUEST_EVIDENCE" ELSE "HALT"
      [] class \in {"TOOL_FAILURE", "FALSE_COMPLETION", "SILENT_STALL"} ->
            Ladder(same, policy, "RETRY_SAME", "HITL")
      [] class = "TOOL_CALL_LOOP" -> Ladder(same, policy, "HALT", "REPARTITION")
      [] class \in {"BUDGET_EXCEEDED", "CONTEXT_SATURATION"} ->
            IF policy.no_partition THEN "HITL"
            ELSE Ladder(same, policy, "RETRY_REDUCED_SCOPE", "REPARTITION")
      [] class = "CONTRADICTION" -> Ladder(same, policy, "REQUEST_EVIDENCE", "REPARTITION")
      [] class = "INVALID_OUTPUT" -> InvalidOutputAction(same, policy)
      [] class = "EVIDENCE_STARVATION" -> "REQUEST_EVIDENCE"
      [] class = "UNVERIFIABLE_COMPLETION" -> Ladder(same, policy, "REQUEST_EVIDENCE", "HITL")
      [] class = "TASK_DRIFT" -> Ladder(same, policy, "RETRY_SAME", "RETRY_REDUCED_SCOPE")
      [] class = "TASK_RETENTION_FAILURE" ->
            Ladder(same, policy, "RETRY_REDUCED_SCOPE", "REPARTITION")
      [] class = "PATH_GUESSING" -> "RETRY_REDUCED_SCOPE"
      [] OTHER -> "HITL"

DecisionStrength(strength) ==
    CASE strength \in {"DETERMINISTIC", "none"} -> "DETERMINISTIC"
      [] strength = "STRONG_SIGNAL" -> "STRONG_POLICY_MATCH"
      [] strength = "WEAK_SIGNAL" -> "WEAK_POLICY_MATCH"
      [] OTHER -> "ABSTAIN"

\* The primary failure alone decides.
PrimaryAction(classification, same, policy) ==
    IF classification.primary = "none" THEN "NO_ACTION"
    ELSE BaselineAction(classification.primary, classification.unresolved, same, policy)

\* Every present class proposes, all with the one count of the primary; the
\* most restrictive proposal wins.
ChosenAction(classification, same, policy) ==
    IF classification.primary = "none" THEN "NO_ACTION"
    ELSE FirstIn(ActionPrecedence,
                 {BaselineAction(class, classification.unresolved, same, policy) :
                     class \in classification.classes})

Decide(classification, same, policy) ==
    LET action == ChosenAction(classification, same, policy)
    IN [action |-> action,
        strength |-> DecisionStrength(classification.strength),
        spends_retry |-> action \in {"RETRY_SAME", "RETRY_REDUCED_SCOPE"},
        target |-> IF action = "ESCALATE_PROFILE" THEN policy.target ELSE NoTarget]

=============================================================================
