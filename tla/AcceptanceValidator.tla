------------------------ MODULE AcceptanceValidator ------------------------
(***************************************************************************)
(* validate_checkpoint (meizex_air/acceptance_validator.py): did this      *)
(* checkpoint satisfy its sprint's acceptance contract?  A pure function   *)
(* of the sprint, the checkpoint and the dependencies' checkpoints.        *)
(*                                                                         *)
(* A criterion is [kind, least, optional]: the four phrasings the          *)
(* validator recognizes, and "unknown" for every other text.               *)
(***************************************************************************)
EXTENDS BoundedExecution

Check(id, subject, status, required) ==
    [id |-> id, subject |-> subject, status |-> status, required |-> required]

PassIf(holds) == IF holds THEN "PASS" ELSE "FAIL"

Required(id, holds) == Check(id, "record", PassIf(holds), TRUE)

RecordChecks(sprint, cp) ==
    {Required("IDENTITY_MISSION_MATCH", cp.mission = sprint.mission),
     Required("IDENTITY_SPRINT_MATCH", cp.sprint = sprint.id),
     Required("CHECKPOINT_STATUS_VALID", cp.status # "REJECTED"),
     Required("EXECUTION_OUTCOME_PASS", cp.outcome = "PASS")}

\* What the contract declares and a checkpoint has no field to prove.
UnprovableChecks(sprint) ==
    {Check(id, "record", "UNVERIFIABLE", FALSE) :
        id \in {"BUDGET_CONTRACT", "FINDING_EVIDENCE_ASSOCIATION"}
               \cup (IF sprint.locked THEN {"TASK_LOCK_PRESERVED"} ELSE {})}

\* supplied is {} for dependency_checkpoints=None, otherwise {deps} where
\* deps[d] is the checkpoint supplied for sprint d.
DependencyChecks(sprint, supplied) ==
    CASE sprint.deps = {} -> {}
      [] sprint.deps # {} /\ supplied = {} ->
            {Check("DEPENDENCY_STATE", "record", "UNVERIFIABLE", TRUE)}
      [] OTHER ->
            {Required("DEPENDENCY_STATE",
                      \A d \in sprint.deps : d \in DOMAIN deps /\ deps[d].outcome = "PASS") :
                deps \in supplied}

\* One criterion: what it asks of the checkpoint.
CriterionStatus(c, cp) ==
    CASE c.kind = "findings" -> PassIf(cp.found >= c.least)
      [] c.kind = "no_open_questions" -> PassIf(cp.questions \cup cp.unresolved = {})
      [] c.kind = "evidence" -> PassIf(cp.evidence # {})
      [] c.kind = "confirmed_paths" -> PassIf(cp.paths # {})
      [] OTHER -> "UNVERIFIABLE"

CriterionChecks(sprint, cp) ==
    {Check("ACCEPTANCE", c.kind, CriterionStatus(c, cp), ~c.optional) :
        c \in sprint.criteria}

\* output_contract: a recognized key asks for a non-empty field.
ContractStatus(key, cp) ==
    CASE key = "findings" -> PassIf(cp.findings # {})
      [] key = "confirmed_paths" -> PassIf(cp.paths # {})
      [] key = "evidence" -> PassIf(cp.evidence # {})
      [] OTHER -> "UNVERIFIABLE"

ContractChecks(sprint, cp) ==
    {Check("OUTPUT_CONTRACT", key, ContractStatus(key, cp), TRUE) :
        key \in sprint.contract}

\* A validator that reads "cannot verify" as "nothing wrong".
LenientlyBlocks(check) == check.status = "FAIL"

Blocks(check) == check.status \in {"FAIL", "UNVERIFIABLE"}

Validate(sprint, cp, supplied) ==
    LET checks == RecordChecks(sprint, cp) \cup UnprovableChecks(sprint)
                  \cup DependencyChecks(sprint, supplied)
                  \cup CriterionChecks(sprint, cp) \cup ContractChecks(sprint, cp)
        failed == {c \in checks : c.required /\ Blocks(c)}
    IN [accepted |-> failed = {}, failed |-> failed]

=============================================================================
