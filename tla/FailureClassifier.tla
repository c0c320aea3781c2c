------------------------- MODULE FailureClassifier -------------------------
(***************************************************************************)
(* classify_failure (meizex_air/failure_classifier.py): why a checkpoint   *)
(* was not accepted, from structured signals only.                         *)
(***************************************************************************)
EXTENDS AcceptanceValidator, SequencesExt

\* FAILURE_CLASS_PRECEDENCE, most authoritative first.
FailurePrecedence == <<
    "CAPABILITY_FAILURE", "CONFIGURATION_MISMATCH", "DEPENDENCY_FAILURE",
    "TOOL_FAILURE", "TOOL_CALL_LOOP", "BUDGET_EXCEEDED", "CONTEXT_SATURATION",
    "CONTRADICTION", "FALSE_COMPLETION", "INVALID_OUTPUT", "EVIDENCE_STARVATION",
    "UNVERIFIABLE_COMPLETION", "TASK_DRIFT", "TASK_RETENTION_FAILURE",
    "PATH_GUESSING", "SILENT_STALL", "UNKNOWN_FAILURE">>

FailureClasses == ToSet(FailurePrecedence)

RankIn(order, x) == CHOOSE i \in DOMAIN order : order[i] = x

FirstIn(order, xs) ==
    CHOOSE x \in xs : \A y \in xs : RankIn(order, x) <= RankIn(order, y)

\* _EXPLICIT_OUTCOME_MAP: PASS, INCOMPLETE, UNSUPPORTED and None say nothing.
ExplicitSignals(cp) ==
    {cp.outcome} \cap {"TASK_DRIFT", "BUDGET_EXCEEDED", "TOOL_FAILURE",
                       "CONTRADICTION", "CAPABILITY_FAILURE", "INVALID_OUTPUT"}

\* What one required blocking check says; of the record's own checks, nothing.
CheckSignal(check) ==
    CASE check.id = "DEPENDENCY_STATE" -> {"DEPENDENCY_FAILURE"}
      [] check.id # "DEPENDENCY_STATE" /\ check.status = "UNVERIFIABLE" ->
            {"UNVERIFIABLE_COMPLETION"}
      [] check.status = "FAIL" /\ check.subject = "evidence" -> {"EVIDENCE_STARVATION"}
      [] check.status = "FAIL" /\ check.id \in {"ACCEPTANCE", "OUTPUT_CONTRACT"}
            /\ check.subject # "evidence" -> {"INVALID_OUTPUT"}
      [] OTHER -> {}

\* A self-reported PASS that the validator rejects.
FalseCompletion(cp, verdict) ==
    IF cp.outcome = "PASS" /\ ~verdict.accepted THEN {"FALSE_COMPLETION"} ELSE {}

Saturation(truncated) == IF truncated THEN {"CONTEXT_SATURATION"} ELSE {}

DetectedSignals(cp, verdict, truncated) ==
    ExplicitSignals(cp) \cup (UNION {CheckSignal(c) : c \in verdict.failed})
    \cup FalseCompletion(cp, verdict) \cup Saturation(truncated)

\* The strength of the strongest signal of a class.
Strength(class) ==
    CASE class = "UNKNOWN_FAILURE" -> "UNRESOLVED"
      [] class = "CONTEXT_SATURATION" -> "WEAK_SIGNAL"
      [] class = "FALSE_COMPLETION" -> "STRONG_SIGNAL"
      [] OTHER -> "DETERMINISTIC"

\* classes[1] is primary_failure, the rest are secondary_failures; an accepted
\* checkpoint has none.
Classify(cp, verdict, truncated) ==
    LET detected == DetectedSignals(cp, verdict, truncated)
        present == IF detected = {} THEN {"UNKNOWN_FAILURE"} ELSE detected
    IN IF verdict.accepted
       THEN [classes |-> {}, primary |-> "none", strength |-> "none",
             unresolved |-> FALSE]
       ELSE LET primary == FirstIn(FailurePrecedence, present)
            IN [classes |-> present, primary |-> primary,
                strength |-> Strength(primary),
                unresolved |-> \E c \in verdict.failed :
                    c.id = "DEPENDENCY_STATE" /\ c.status = "UNVERIFIABLE"]

=============================================================================
