----------------------- MODULE RemediationLoopProofs -----------------------
(***************************************************************************)
(* Proofs about RemediationLoop, for every set of sprints, missions,       *)
(* specialists, profiles and products.                                     *)
(***************************************************************************)
EXTENDS RemediationLoop, OrderTheorems, SequenceTheorems

-----------------------------------------------------------------------------
(* Orders of precedence.                                                   *)

LEMMA RankInFacts ==
    ASSUME NEW order, NEW x \in ToSet(order)
    PROVE  RankIn(order, x) \in DOMAIN order /\ order[RankIn(order, x)] = x
BY DEF RankIn, ToSet

\* The first of some members of an order exists, and no other comes before it.
LEMMA FirstInChooses ==
    ASSUME NEW order, DOMAIN order \subseteq Nat, NEW xs \in SUBSET ToSet(order), xs # {}
    PROVE  /\ FirstIn(order, xs) \in xs
           /\ \A y \in xs : RankIn(order, FirstIn(order, xs)) <= RankIn(order, y)
<1> DEFINE ranks == {RankIn(order, x) : x \in xs}
<1>1. ranks \in SUBSET Nat /\ ranks # {}
    BY RankInFacts
<1>2. PICK m \in ranks : \A n \in ranks : m <= n
    <2> HIDE DEF ranks
    <2> QED
        BY <1>1, LeastNatural
<1>3. \E x \in xs : \A y \in xs : RankIn(order, x) <= RankIn(order, y)
    BY <1>2
<1> QED
    BY <1>3 DEF FirstIn

\* The actions that end a sprint's attempts rank 1, 2 and 4 of eight.
LEMMA ActionRanks ==
    /\ RankIn(ActionPrecedence, "HITL") = 1
    /\ RankIn(ActionPrecedence, "HALT") = 2
    /\ RankIn(ActionPrecedence, "ESCALATE_PROFILE") = 3
    /\ RankIn(ActionPrecedence, "REPARTITION") = 4
<1>1. DOMAIN ActionPrecedence = 1..8
    BY DEF ActionPrecedence
<1> QED
    BY <1>1 DEF RankIn, ActionPrecedence

Actions == {"HITL", "HALT", "ESCALATE_PROFILE", "REPARTITION", "RETRY_REDUCED_SCOPE",
            "REQUEST_EVIDENCE", "RETRY_SAME", "NO_ACTION"}

LEMMA ActionsOrdered ==
    DOMAIN ActionPrecedence = 1..8 /\ ToSet(ActionPrecedence) = Actions
<1>1. DOMAIN ActionPrecedence = 1..8
    BY DEF ActionPrecedence
<1>2. \A i \in 1..8 : ActionPrecedence[i] \in Actions
    BY DEF ActionPrecedence, Actions
<1>3. \A a \in Actions : \E i \in 1..8 : ActionPrecedence[i] = a
    <2>1. /\ ActionPrecedence[1] = "HITL" /\ ActionPrecedence[2] = "HALT"
          /\ ActionPrecedence[3] = "ESCALATE_PROFILE" /\ ActionPrecedence[4] = "REPARTITION"
          /\ ActionPrecedence[5] = "RETRY_REDUCED_SCOPE"
          /\ ActionPrecedence[6] = "REQUEST_EVIDENCE"
          /\ ActionPrecedence[7] = "RETRY_SAME" /\ ActionPrecedence[8] = "NO_ACTION"
        BY DEF ActionPrecedence
    <2> QED
        BY <2>1 DEF Actions
<1> QED
    BY <1>1, <1>2, <1>3 DEF ToSet

-----------------------------------------------------------------------------
(* What a verdict says.                                                    *)

\* The classes classify_failure can find.
Detectable ==
    {"TASK_DRIFT", "BUDGET_EXCEEDED", "TOOL_FAILURE", "CONTRADICTION", "CAPABILITY_FAILURE",
     "INVALID_OUTPUT", "DEPENDENCY_FAILURE", "UNVERIFIABLE_COMPLETION", "EVIDENCE_STARVATION",
     "FALSE_COMPLETION", "CONTEXT_SATURATION", "UNKNOWN_FAILURE"}

LEMMA PrecedenceFacts ==
    /\ DOMAIN FailurePrecedence = 1..17
    /\ Detectable \subseteq FailureClasses
    /\ RankIn(FailurePrecedence, "CAPABILITY_FAILURE") = 1
    /\ "none" \notin FailureClasses
<1>1. DOMAIN FailurePrecedence = 1..17
    BY DEF FailurePrecedence
<1>2. /\ FailurePrecedence[1] = "CAPABILITY_FAILURE" /\ FailurePrecedence[3] = "DEPENDENCY_FAILURE"
      /\ FailurePrecedence[4] = "TOOL_FAILURE" /\ FailurePrecedence[6] = "BUDGET_EXCEEDED"
      /\ FailurePrecedence[7] = "CONTEXT_SATURATION" /\ FailurePrecedence[8] = "CONTRADICTION"
      /\ FailurePrecedence[9] = "FALSE_COMPLETION" /\ FailurePrecedence[10] = "INVALID_OUTPUT"
      /\ FailurePrecedence[11] = "EVIDENCE_STARVATION"
      /\ FailurePrecedence[12] = "UNVERIFIABLE_COMPLETION"
      /\ FailurePrecedence[13] = "TASK_DRIFT" /\ FailurePrecedence[17] = "UNKNOWN_FAILURE"
    BY DEF FailurePrecedence
<1>3. ASSUME NEW class \in Detectable PROVE class \in FailureClasses
    BY <1>1, <1>2 DEF Detectable, FailureClasses, ToSet
<1>4. \A i \in 1..17 : FailurePrecedence[i] = "CAPABILITY_FAILURE" <=> i = 1
    BY DEF FailurePrecedence
<1>5. \A i \in 1..17 : FailurePrecedence[i] # "none"
    BY DEF FailurePrecedence
<1>6. RankIn(FailurePrecedence, "CAPABILITY_FAILURE") = 1
    BY <1>1, <1>4 DEF RankIn
<1> QED
    BY <1>1, <1>3, <1>5, <1>6 DEF FailureClasses, ToSet

LEMMA SignalsDetectable ==
    ASSUME NEW cp, NEW verdict, NEW truncated
    PROVE  DetectedSignals(cp, verdict, truncated) \subseteq Detectable
<1> SUFFICES ASSUME NEW class \in DetectedSignals(cp, verdict, truncated)
             PROVE  class \in Detectable
    OBVIOUS
<1>1. CASE class \in ExplicitSignals(cp)
    BY <1>1 DEF ExplicitSignals, Detectable
<1>2. CASE class \in UNION {CheckSignal(c) : c \in verdict.failed}
    <2>1. PICK c \in verdict.failed : class \in CheckSignal(c)
        BY <1>2
    <2> QED
        BY <2>1 DEF CheckSignal, Detectable
<1>3. CASE class \in FalseCompletion(cp, verdict)
    BY <1>3 DEF FalseCompletion, Detectable
<1>4. CASE class \in Saturation(truncated)
    BY <1>4 DEF Saturation, Detectable
<1> QED
    BY <1>1, <1>2, <1>3, <1>4 DEF DetectedSignals

\* The primary failure is one of those present; a lack of capability is primary
\* wherever it is present.
LEMMA Classified ==
    ASSUME NEW cp, NEW verdict, NEW truncated, ~verdict.accepted
    PROVE  LET failure == Classify(cp, verdict, truncated)
           IN  /\ failure.classes \subseteq Detectable
               /\ failure.primary \in failure.classes
               /\ "CAPABILITY_FAILURE" \in failure.classes
                  => failure.primary = "CAPABILITY_FAILURE"
               /\ DetectedSignals(cp, verdict, truncated) \subseteq failure.classes
               /\ failure.unresolved => \E c \in verdict.failed :
                     c.id = "DEPENDENCY_STATE" /\ c.status = "UNVERIFIABLE"
<1> DEFINE failure == Classify(cp, verdict, truncated)
           detected == DetectedSignals(cp, verdict, truncated)
           present == IF detected = {} THEN {"UNKNOWN_FAILURE"} ELSE detected
<1>1. detected \subseteq Detectable
    BY SignalsDetectable
<1>2. present \subseteq Detectable /\ present # {} /\ detected \subseteq present
    BY <1>1 DEF Detectable
<1>3. /\ failure.classes = present
      /\ failure.primary = FirstIn(FailurePrecedence, present)
      /\ failure.unresolved <=> \E c \in verdict.failed :
            c.id = "DEPENDENCY_STATE" /\ c.status = "UNVERIFIABLE"
    BY DEF Classify
<1>4. present \in SUBSET ToSet(FailurePrecedence) /\ DOMAIN FailurePrecedence \subseteq Nat
    BY <1>2, PrecedenceFacts DEF FailureClasses
<1> HIDE DEF present
<1>5. /\ FirstIn(FailurePrecedence, present) \in present
      /\ \A y \in present : RankIn(FailurePrecedence, FirstIn(FailurePrecedence, present))
                               <= RankIn(FailurePrecedence, y)
    BY <1>2, <1>4, FirstInChooses
<1>6. ASSUME "CAPABILITY_FAILURE" \in present
      PROVE  FirstIn(FailurePrecedence, present) = "CAPABILITY_FAILURE"
    <2> DEFINE first == FirstIn(FailurePrecedence, present)
    <2>1. RankIn(FailurePrecedence, first) <= 1
        BY <1>5, <1>6, PrecedenceFacts
    <2>2. /\ RankIn(FailurePrecedence, first) \in 1..17
          /\ FailurePrecedence[RankIn(FailurePrecedence, first)] = first
        BY <1>4, <1>5, RankInFacts, PrecedenceFacts
    <2>3. RankIn(FailurePrecedence, first) = 1
        BY <2>1, <2>2
    <2> QED
        BY <2>2, <2>3 DEF FailurePrecedence
<1> QED
    BY <1>2, <1>3, <1>5, <1>6

\* A verdict accepts when no required check blocks, and every check reads PASS,
\* FAIL or UNVERIFIABLE.
Dependencies(sprint, deps) ==
    \A d \in sprint.deps : d \in DOMAIN deps /\ deps[d].outcome = "PASS"

LEMMA AcceptedMeans ==
    ASSUME NEW sprint, NEW cp, NEW deps, Validate(sprint, cp, {deps}).accepted
    PROVE  /\ cp.outcome = "PASS" /\ cp.status # "REJECTED"
           /\ \A c \in sprint.criteria : c.optional \/ CriterionStatus(c, cp) = "PASS"
           /\ \A key \in sprint.contract : ContractStatus(key, cp) = "PASS"
           /\ Dependencies(sprint, deps)
<1> DEFINE Made(c) ==
              \/ c \in RecordChecks(sprint, cp) \/ c \in DependencyChecks(sprint, {deps})
              \/ c \in CriterionChecks(sprint, cp) \/ c \in ContractChecks(sprint, cp)
<1>1. \A c : Made(c) /\ c.required => c.status \notin {"FAIL", "UNVERIFIABLE"}
    BY DEF Validate, Blocks
<1>2. cp.outcome = "PASS" /\ cp.status # "REJECTED"
    <2>1. /\ Made(Required("CHECKPOINT_STATUS_VALID", cp.status # "REJECTED"))
          /\ Made(Required("EXECUTION_OUTCOME_PASS", cp.outcome = "PASS"))
        BY DEF RecordChecks
    <2> HIDE DEF Made
    <2> QED
        BY <1>1, <2>1 DEF Required, Check, PassIf
<1>3. ASSUME NEW c \in sprint.criteria, ~c.optional PROVE CriterionStatus(c, cp) = "PASS"
    <2>1. Made(Check("ACCEPTANCE", c.kind, CriterionStatus(c, cp), ~c.optional))
        BY DEF CriterionChecks
    <2> HIDE DEF Made
    <2> DEFINE check == Check("ACCEPTANCE", c.kind, CriterionStatus(c, cp), ~c.optional)
    <2>a. check.required /\ check.status = CriterionStatus(c, cp)
        BY <1>3, Zenon DEF Check
    <2>2. CriterionStatus(c, cp) \notin {"FAIL", "UNVERIFIABLE"}
        <3> HIDE DEF check
        <3>1. Made(check)
            BY <2>1 DEF check
        <3> QED
            BY <1>1, <3>1, <2>a
    <2>3. CriterionStatus(c, cp) \in {"PASS", "FAIL", "UNVERIFIABLE"}
        BY DEF CriterionStatus, PassIf
    <2> QED
        BY <2>2, <2>3
<1>4. ASSUME NEW key \in sprint.contract PROVE ContractStatus(key, cp) = "PASS"
    <2>1. Made(Check("OUTPUT_CONTRACT", key, ContractStatus(key, cp), TRUE))
        BY DEF ContractChecks
    <2> HIDE DEF Made
    <2>2. ContractStatus(key, cp) \notin {"FAIL", "UNVERIFIABLE"}
        BY <1>1, <2>1 DEF Check
    <2>3. ContractStatus(key, cp) \in {"PASS", "FAIL", "UNVERIFIABLE"}
        BY DEF ContractStatus, PassIf
    <2> QED
        BY <2>2, <2>3
<1>5. Dependencies(sprint, deps)
    <2>1. CASE sprint.deps = {}
        BY <2>1 DEF Dependencies
    <2>2. CASE sprint.deps # {}
        <3>1. Made(Required("DEPENDENCY_STATE", Dependencies(sprint, deps)))
            BY <2>2 DEF DependencyChecks, Dependencies
        <3> HIDE DEF Made
        <3> QED
            BY <1>1, <3>1 DEF Required, Check, PassIf
    <2> QED
        BY <2>1, <2>2
<1> QED
    BY <1>2, <1>3, <1>4, <1>5

\* With the dependencies' checkpoints at hand their state is always verifiable.
LEMMA Resolved ==
    ASSUME NEW sprint, NEW cp, NEW deps, NEW c \in Validate(sprint, cp, {deps}).failed,
           c.id = "DEPENDENCY_STATE"
    PROVE  c.status # "UNVERIFIABLE"
<1>1. \/ c \in RecordChecks(sprint, cp) \/ c \in UnprovableChecks(sprint)
      \/ c \in DependencyChecks(sprint, {deps})
      \/ c \in CriterionChecks(sprint, cp) \/ c \in ContractChecks(sprint, cp)
    BY DEF Validate
<1>2. CASE c \in RecordChecks(sprint, cp)
    BY <1>2 DEF RecordChecks, Required, Check
<1>3. CASE c \in UnprovableChecks(sprint)
    BY <1>3 DEF UnprovableChecks, Check
<1>4. CASE c \in DependencyChecks(sprint, {deps})
    BY <1>4 DEF DependencyChecks, Required, Check, PassIf
<1>5. CASE c \in CriterionChecks(sprint, cp)
    BY <1>5 DEF CriterionChecks, Check
<1>6. CASE c \in ContractChecks(sprint, cp)
    BY <1>6 DEF ContractChecks, Check
<1> QED
    BY <1>1, <1>2, <1>3, <1>4, <1>5, <1>6

\* A dependency that did not pass is a failure of its own.
LEMMA BlockedSprint ==
    ASSUME NEW sprint, NEW cp, NEW deps, NEW truncated, ~Dependencies(sprint, deps)
    PROVE  LET verdict == Validate(sprint, cp, {deps})
           IN  /\ ~verdict.accepted
               /\ "DEPENDENCY_FAILURE" \in DetectedSignals(cp, verdict, truncated)
<1> DEFINE check == Required("DEPENDENCY_STATE", FALSE)
<1>1. check \in DependencyChecks(sprint, {deps})
    BY DEF Dependencies, DependencyChecks
<1>2. check.required /\ Blocks(check) /\ check.id = "DEPENDENCY_STATE"
    BY DEF Required, Check, PassIf, Blocks
<1>5. CheckSignal(check) = {"DEPENDENCY_FAILURE"}
    <2>1. check.id = "DEPENDENCY_STATE" /\ check.subject = "record"
        BY DEF Required, Check
    <2> HIDE DEF check
    <2> QED
        BY <2>1 DEF CheckSignal
<1> HIDE DEF check
<1>3. check \in Validate(sprint, cp, {deps}).failed
    BY <1>1, <1>2 DEF Validate
<1>4. ~Validate(sprint, cp, {deps}).accepted
    BY <1>3 DEF Validate
<1>6. "DEPENDENCY_FAILURE" \in UNION {CheckSignal(c) : c \in Validate(sprint, cp, {deps}).failed}
    BY <1>3, <1>5
<1> QED
    BY <1>4, <1>6 DEF DetectedSignals

-----------------------------------------------------------------------------
(* The decision.                                                           *)

\* What a class proposes for itself: never to go on as if nothing had failed;
\* to escalate only for a lack of capability; and once it has repeated beyond
\* max_same_retry, to stop, unless it is one of Endless.
LEMMA Proposals ==
    ASSUME NEW class \in Detectable, NEW unresolved \in BOOLEAN, NEW repeated \in Nat, NEW policy,
           policy.max_same_retry \in Nat
    PROVE  LET action == BaselineAction(class, unresolved, repeated, policy)
           IN  /\ action \in Actions \ {"NO_ACTION"}
               /\ class # "CAPABILITY_FAILURE" => action # "ESCALATE_PROFILE"
               /\ class \notin Endless /\ ~unresolved /\ repeated > policy.max_same_retry
                  => action \in {"HITL", "HALT", "REPARTITION"}
<1>1. CASE class = "CAPABILITY_FAILURE"
    BY <1>1 DEF BaselineAction, Escalation, Actions, Endless
<1>2. CASE class = "DEPENDENCY_FAILURE"
    BY <1>2 DEF BaselineAction, Actions, Endless
<1>3. CASE class \in {"TOOL_FAILURE", "FALSE_COMPLETION"}
    BY <1>3 DEF BaselineAction, Ladder, Actions, Endless
<1>4. CASE class \in {"BUDGET_EXCEEDED", "CONTEXT_SATURATION"}
    BY <1>4 DEF BaselineAction, Ladder, Actions, Endless
<1>5. CASE class \in {"CONTRADICTION", "UNVERIFIABLE_COMPLETION"}
    BY <1>5 DEF BaselineAction, Ladder, Actions, Endless
<1>6. CASE class = "INVALID_OUTPUT"
    BY <1>6 DEF BaselineAction, InvalidOutputAction, Actions, Endless
<1>7. CASE class \in {"EVIDENCE_STARVATION", "TASK_DRIFT"}
    BY <1>7 DEF BaselineAction, Ladder, Actions, Endless
<1>8. CASE class = "UNKNOWN_FAILURE"
    BY <1>8 DEF BaselineAction, Actions, Endless
<1> QED
    BY <1>1, <1>2, <1>3, <1>4, <1>5, <1>6, <1>7, <1>8 DEF Detectable

\* What a failed attempt is answered with: the most restrictive proposal.
LEMMA Decided ==
    ASSUME NEW failure, NEW repeated \in Nat, NEW policy, policy.max_same_retry \in Nat,
           failure.classes \subseteq Detectable, failure.primary \in failure.classes,
           failure.unresolved = FALSE
    PROVE  LET action == ChosenAction(failure, repeated, policy)
           IN  /\ action \in Actions \ {"NO_ACTION"}
               /\ "CAPABILITY_FAILURE" \notin failure.classes => action # "ESCALATE_PROFILE"
               /\ \A class \in failure.classes :
                     RankIn(ActionPrecedence, action)
                        <= RankIn(ActionPrecedence,
                                  BaselineAction(class, FALSE, repeated, policy))
<1> DEFINE proposed == {BaselineAction(class, FALSE, repeated, policy) : class \in failure.classes}
           action == ChosenAction(failure, repeated, policy)
<1>1. \A class \in failure.classes :
        LET a == BaselineAction(class, FALSE, repeated, policy)
        IN  /\ a \in Actions \ {"NO_ACTION"}
            /\ class # "CAPABILITY_FAILURE" => a # "ESCALATE_PROFILE"
    BY Proposals
<1>2. proposed \in SUBSET Actions /\ proposed # {}
    BY <1>1
<1>3. failure.primary # "none"
    BY PrecedenceFacts
<1>4. action = FirstIn(ActionPrecedence, proposed)
    BY <1>3 DEF ChosenAction
<1>5. action \in proposed /\ \A y \in proposed :
         RankIn(ActionPrecedence, action) <= RankIn(ActionPrecedence, y)
    <2> HIDE DEF proposed, action
    <2>1. DOMAIN ActionPrecedence \subseteq Nat /\ proposed \in SUBSET ToSet(ActionPrecedence)
        BY <1>2, ActionsOrdered
    <2> QED
        BY <1>2, <1>4, <2>1, FirstInChooses
<1>6. PICK class \in failure.classes : action = BaselineAction(class, FALSE, repeated, policy)
    BY <1>5
<1> HIDE DEF action
<1> QED
    BY <1>1, <1>5, <1>6 DEF action

\* An action that ranks no later than one that stops, stops as well, or escalates.
LEMMA RanksBefore ==
    ASSUME NEW action \in Actions, NEW bound \in Actions,
           RankIn(ActionPrecedence, action) <= RankIn(ActionPrecedence, bound)
    PROVE  /\ bound \in {"HITL", "HALT", "REPARTITION"}
              => action \in {"HITL", "HALT", "REPARTITION", "ESCALATE_PROFILE"}
           /\ bound = "HALT" => action \in {"HITL", "HALT"}
<1>1. /\ RankIn(ActionPrecedence, action) \in 1..8
      /\ ActionPrecedence[RankIn(ActionPrecedence, action)] = action
    BY ActionsOrdered, RankInFacts
<1>2. /\ ActionPrecedence[1] = "HITL" /\ ActionPrecedence[2] = "HALT"
      /\ ActionPrecedence[3] = "ESCALATE_PROFILE" /\ ActionPrecedence[4] = "REPARTITION"
    BY DEF ActionPrecedence
<1>3. CASE bound \in {"HITL", "HALT", "REPARTITION"}
    <2>1. RankIn(ActionPrecedence, action) \in {1, 2, 3, 4}
        BY <1>1, <1>3, ActionRanks
    <2> QED
        BY <1>1, <1>2, <1>3, <2>1, ActionRanks
<1> QED
    BY <1>3

-----------------------------------------------------------------------------
(* One judgement.                                                          *)

LEMMA PolicyFacts ==
    ASSUME TypeOK
    PROVE  mission.policy.max_same_retry \in Nat
BY MissionsAssumption DEF TypeOK

LEMMA RepeatsType ==
    ASSUME TypeOK, NEW s \in SprintIds, NEW class
    PROVE  Repeats(s, class) \in 0..(mission.policy.max_same_retry + 1)
<1>1. same[s] \in 0..(mission.policy.max_same_retry + 1)
    BY DEF TypeOK
<1> QED
    BY <1>1, PolicyFacts DEF Repeats

\* Where a judgement leads, whatever it found.
LEMMA Judged ==
    ASSUME TypeOK, NEW s \in SprintIds, Judge(s)
    PROVE  /\ pc'[s] \in Final \cup {"ready"}
           /\ pc'[s] = "accepted" => Verdict(s).accepted /\ basis'[s] = Supplied(s)
           /\ primary'[s] \in FailureClasses \cup {"none"}
           /\ same'[s] \in 0..(mission.policy.max_same_retry + 1)
           /\ target'[s] \in {NoTarget, mission.policy.target}
           /\ pc'[s] \notin Final /\ primary'[s] \notin Endless
              => same'[s] <= mission.policy.max_same_retry
           /\ ~Dependencies(Sprint(s), Supplied(s)) => pc'[s] \in {"halted", "human"}
<1> DEFINE failure == Classify(latest[s], Verdict(s), context[s].truncated)
           count == Repeats(s, failure.primary)
           action == ChosenAction(failure, count, mission.policy)
           max == mission.policy.max_same_retry
<1>1. /\ pc'[s] = Obeyed(action) /\ primary'[s] = failure.primary /\ same'[s] = count
      /\ target'[s] \in {NoTarget, mission.policy.target}
      /\ basis'[s] = IF Verdict(s).accepted THEN Supplied(s) ELSE None
    BY DEF Judge, Goto, Decide, TypeOK
<1>2. count \in 0..(max + 1) /\ max \in Nat /\ count \in Nat
    BY RepeatsType, PolicyFacts
<1>3. CASE Verdict(s).accepted
    <2>1. failure.primary = "none"
        BY <1>3 DEF Classify
    <2>2. action = "NO_ACTION"
        BY <2>1 DEF ChosenAction
    <2>3. pc'[s] = "accepted"
        BY <1>1, <2>2 DEF Obeyed
    <2>4. Dependencies(Sprint(s), Supplied(s))
        BY <1>3, AcceptedMeans DEF Verdict
    <2> QED
        BY <1>1, <1>2, <1>3, <2>1, <2>3, <2>4 DEF Final
<1>4. CASE ~Verdict(s).accepted
    <2>1. /\ failure.classes \subseteq Detectable /\ failure.primary \in failure.classes
          /\ "CAPABILITY_FAILURE" \in failure.classes => failure.primary = "CAPABILITY_FAILURE"
          /\ DetectedSignals(latest[s], Verdict(s), context[s].truncated) \subseteq failure.classes
          /\ failure.unresolved => \E c \in Verdict(s).failed :
                c.id = "DEPENDENCY_STATE" /\ c.status = "UNVERIFIABLE"
        BY <1>4, Classified
    <2>2. failure.unresolved = FALSE
        <3>1. failure.unresolved \in BOOLEAN
            BY <1>4 DEF Classify
        <3>2. ~ \E c \in Verdict(s).failed : c.id = "DEPENDENCY_STATE" /\ c.status = "UNVERIFIABLE"
            BY Resolved DEF Verdict
        <3> QED
            BY <2>1, <3>1, <3>2
    <2> HIDE DEF failure, count, max
    <2>3. /\ action \in Actions \ {"NO_ACTION"}
          /\ "CAPABILITY_FAILURE" \notin failure.classes => action # "ESCALATE_PROFILE"
          /\ \A class \in failure.classes :
                RankIn(ActionPrecedence, action)
                   <= RankIn(ActionPrecedence, BaselineAction(class, FALSE, count, mission.policy))
        BY <1>2, <2>1, <2>2, Decided DEF max
    <2>4. \A class \in failure.classes :
            LET a == BaselineAction(class, FALSE, count, mission.policy)
            IN  /\ a \in Actions
                /\ class \notin Endless /\ count > max => a \in {"HITL", "HALT", "REPARTITION"}
        BY <1>2, <2>1, Proposals DEF max
    <2> HIDE DEF action
    <2>5. pc'[s] \in {"ready", "halted", "human", "repartition"}
        BY <1>1, <2>3 DEF Obeyed, Actions
    <2>6. ASSUME failure.primary \notin Endless, count > max
          PROVE  pc'[s] \in Final
        <3>1. action \in {"HITL", "HALT", "REPARTITION", "ESCALATE_PROFILE"}
            BY <2>1, <2>3, <2>4, <2>6, RanksBefore
        <3>2. action # "ESCALATE_PROFILE"
            BY <2>1, <2>3, <2>6 DEF Endless
        <3> QED
            BY <1>1, <3>1, <3>2 DEF Obeyed, Final
    <2>7. ASSUME ~Dependencies(Sprint(s), Supplied(s)) PROVE pc'[s] \in {"halted", "human"}
        <3>1. "DEPENDENCY_FAILURE" \in failure.classes
            BY <2>1, <2>7, BlockedSprint DEF Verdict
        <3>2. BaselineAction("DEPENDENCY_FAILURE", FALSE, count, mission.policy) = "HALT"
            BY DEF BaselineAction
        <3>3. action \in {"HITL", "HALT"}
            BY <2>3, <2>4, <3>1, <3>2, RanksBefore
        <3> QED
            BY <1>1, <3>3 DEF Obeyed
    <2>8. failure.primary \in FailureClasses
        BY <2>1, PrecedenceFacts
    <2> QED
        BY <1>1, <1>2, <2>5, <2>6, <2>7, <2>8 DEF Final, max
<1> QED
    BY <1>3, <1>4

-----------------------------------------------------------------------------
(* Routing.                                                                *)

\* The members of a snapshot are those of the registry, finitely many and with
\* the same keys of rank.
LEMMA SnapshotFacts ==
    ASSUME NEW specialists \in Snapshots
    PROVE  /\ IsFiniteSet(specialists)
           /\ \A e \in specialists : /\ {e.priority, e.cost, e.latency, e.id} \subseteq Int
<1>1. PICK up \in SUBSET Automated : specialists =
        (Registry \ Automated) \cup {[e EXCEPT !.available = e \in up] : e \in Automated}
    BY DEF Snapshots
<1> DEFINE f == [e \in Registry |->
                    IF e \in Automated THEN [e EXCEPT !.available = e \in up] ELSE e]
<1>2. \A e \in Registry : /\ e = [x \in SpecialistFields |-> e[x]]
                         /\ {e.priority, e.cost, e.latency, e.id} \subseteq Int
    BY RegistryAssumption DEF ValidSpecialist
<1>3. f \in Surjection(Registry, specialists)
    BY <1>1 DEF Surjection, Automated
<1>4. IsFiniteSet(specialists)
    BY <1>3, RegistryAssumption, FS_Surjection
<1>5. \A e \in Registry :
        LET g == [e EXCEPT !.available = e \in up]
        IN  g.priority = e.priority /\ g.cost = e.cost /\ g.latency = e.latency /\ g.id = e.id
    BY <1>2 DEF SpecialistFields
<1>6. ASSUME NEW e \in specialists PROVE {e.priority, e.cost, e.latency, e.id} \subseteq Int
    <2>1. PICK a \in Registry : e = a \/ e = [a EXCEPT !.available = a \in up]
        BY <1>1 DEF Automated
    <2>2. e.priority = a.priority /\ e.cost = a.cost /\ e.latency = a.latency /\ e.id = a.id
        BY <1>5, <2>1
    <2> QED
        BY <1>2, <2>2
<1> QED
    BY <1>4, <1>6

LEMMA SixthPlace ==
    ASSUME NEW S, NEW k \in Seq(S), NEW d \in S, Len(k) = 5
    PROVE  Append(k, d) \in [1..6 -> S]
<1> DEFINE t == Append(k, d)
<1>1. t \in Seq(S) /\ Len(t) = Len(k) + 1
    BY AppendProperties
<1> HIDE DEF t
<1>2. t \in [1..Len(t) -> S]
    BY <1>1, LenProperties
<1>3. Len(t) = 6
    BY <1>1
<1> QED
    BY <1>2, <1>3 DEF t

\* sorted(eligible, key=rank_key)[0] is one of the eligible and no other ranks
\* before it.
LEMMA WinnerEligible ==
    ASSUME NEW specialists \in Snapshots, NEW r, NEW eligible \in SUBSET specialists,
           eligible # {}
    PROVE  Winner(r, eligible) \in eligible
<1> DEFINE key == [e \in eligible |-> RankKey(r, e)]
<1>1. IsFiniteSet(eligible)
    BY SnapshotFacts, FS_Subset
<1>2. ASSUME NEW e \in eligible PROVE RankKey(r, e) \in [1..6 -> Int]
    <2>1. {e.priority, e.cost, e.latency, e.id} \subseteq Int
        BY SnapshotFacts
    <2>2. Rank(r, e) \in Seq(Int) /\ Len(Rank(r, e)) = 5
        BY <2>1 DEF Rank
    <2> DEFINE k == Rank(r, e)
               d == e.id
    <2>3. k \in Seq(Int) /\ d \in Int /\ Len(k) = 5
        BY <2>1, <2>2
    <2>4. RankKey(r, e) = Append(k, d)
        BY DEF RankKey
    <2> HIDE DEF k, d
    <2>5. Append(k, d) \in [1..6 -> Int]
        BY <2>3, SixthPlace
    <2> QED
        BY <2>4, <2>5
<1>3. key \in [eligible -> [1..6 -> Int]]
    BY <1>2
<1>4. \E m \in eligible : \A x \in eligible : key[x] = key[m] \/ Before(key[m], key[x])
    <2> DEFINE n == 6
    <2>1. n \in Nat /\ key \in [eligible -> [1..n -> Int]]
        BY <1>3
    <2> HIDE DEF key, n
    <2> QED
        BY <1>1, <2>1, FirstExists
<1>5. \E m \in eligible : \A x \in eligible : Outranks(r, m, x)
    BY <1>4 DEF Outranks
<1> QED
    BY <1>5 DEF Winner

\* Whoever a sprint is handed to was eligible at that moment.
LEMMA Selected ==
    ASSUME NEW s, NEW specialists \in Snapshots, Route(s, specialists).outcome = "SELECTED",
           NEW e, e = CHOOSE x \in Route(s, specialists).selected : TRUE
    PROVE  /\ e \in specialists
           /\ Reasons(mission.requirements, e, target[s], Profiles) = {}
<1> DEFINE r == mission.requirements
           eligible == Eligible(r, specialists, target[s], Profiles)
<1>1. eligible # {} /\ Route(s, specialists).selected = {Winner(r, eligible)}
    BY DEF Route, RouteSpecialist
<1>2. e = Winner(r, eligible)
    BY <1>1
<1>3. eligible \in SUBSET specialists
    BY DEF Eligible
<1>4. e \in eligible
    <2> HIDE DEF eligible
    <2> QED
        BY <1>1, <1>2, <1>3, WinnerEligible
<1> QED
    BY <1>4 DEF Eligible

LEMMA NoReasons ==
    ASSUME NEW q, NEW e, NEW t, Reasons(q, e, t, Profiles) = {}
    PROVE  MayTake(e, q) /\ (t # NoTarget => e.profile = t)
<1>1. PolicyReasons(q, e) = {} /\ AbilityReasons(q, e) = {} /\ ProfileReasons(q, e, t, Profiles) = {}
    BY DEF Reasons
<1>2. /\ e.available
      /\ e.kind \notin q.forbidden
      /\ q.human_approval => IsHuman(e)
      /\ q.classification \in e.classifications
      /\ q.cloud_policy = "NO" => e.scope \notin {"HYBRID", "CLOUD"}
      /\ q.network => e.scope # "LOCAL" \/ "NETWORK_ACCESS" \in e.offers
    BY <1>1 DEF PolicyReasons
<1>3. /\ q.probabilistic => e.kind # "DETERMINISTIC_PYTHON"
      /\ IsHuman(e) \/ q.needs \subseteq e.offers
    BY <1>1 DEF AbilityReasons
<1>4. ~ProfileMismatch(q, e, t)
    BY <1>1 DEF ProfileReasons
<1>5. q.min_context # Unknown /\ e.profile \in DOMAIN Profiles =>
        ContextFit(Profiles[e.profile].capacity, q.min_context) = "FITS"
    BY <1>1 DEF ProfileReasons
<1>6. q.min_context # Unknown /\ e.profile \in DOMAIN Profiles =>
        LET capacity == Profiles[e.profile].capacity
        IN  capacity # Unknown /\ q.min_context <= capacity
    BY <1>5 DEF ContextFit
<1>7. /\ q.modes # AnyMode => e.scope \in q.modes
      /\ t # NoTarget => e.profile = t
    BY <1>4 DEF ProfileMismatch, NoTarget, NoProfile
<1> QED
    BY <1>2, <1>3, <1>6, <1>7 DEF MayTake

-----------------------------------------------------------------------------
(* Concatenation.                                                          *)

\* h is the function FlattenSeq is defined by, up to its n-th value.
Flattens(h, seqs, n) ==
    h = [i \in 1..n |-> IF i = 1 THEN seqs[i] ELSE h[i - 1] \o seqs[i]]

\* A list of lists of things of one kind flattens to a list of them.
LEMMA FlattenType ==
    ASSUME NEW S, NEW seqs \in Seq(Seq(S))
    PROVE  FlattenSeq(seqs) \in Seq(S)
<1> DEFINE L == Len(seqs)
<1>1. L \in Nat /\ DOMAIN seqs = 1..L /\ \A i \in 1..L : seqs[i] \in Seq(S)
    BY LenProperties
<1>2. CASE L = 0
    <2>1. seqs = << >>
        BY <1>2, EmptySeq
    <2> QED
        BY <1>2, <2>1 DEF FlattenSeq
<1>3. CASE L # 0
    <2> DEFINE flatten[i \in 1..L] == IF i = 1 THEN seqs[i] ELSE flatten[i - 1] \o seqs[i]
               P == {n \in Nat : n <= L => \E h : Flattens(h, seqs, n)}
               Q == {n \in Nat : n + 1 <= L => flatten[n + 1] \in Seq(S)}
    <2>1. FlattenSeq(seqs) = flatten[L]
        BY <1>3, Zenon DEF FlattenSeq
    <2>2. flatten = CHOOSE h : Flattens(h, seqs, L)
        BY DEF Flattens
    <2> HIDE DEF flatten, L
    <2>3. P = Nat
        <3>1. 0 \in P
            <4>1. Flattens([i \in 1..0 |-> 0], seqs, 0)
                BY DEF Flattens
            <4> QED
                BY <4>1
        <3>2. ASSUME NEW n \in P, n + 1 <= L PROVE \E h : Flattens(h, seqs, n + 1)
            <4>1. PICK g : Flattens(g, seqs, n)
                BY <1>1, <3>2
            <4> DEFINE last == IF n + 1 = 1 THEN seqs[n + 1] ELSE g[n] \o seqs[n + 1]
                       h == [i \in 1..(n + 1) |-> IF i = n + 1 THEN last ELSE g[i]]
            <4>2. ASSUME NEW i \in 1..(n + 1)
                  PROVE  h[i] = IF i = 1 THEN seqs[i] ELSE h[i - 1] \o seqs[i]
                <5>1. CASE i = n + 1
                    BY <5>1
                <5>2. CASE i # n + 1
                    <6>1. i \in 1..n /\ h[i] = g[i]
                        BY <5>2
                    <6>2. g[i] = IF i = 1 THEN seqs[i] ELSE g[i - 1] \o seqs[i]
                        BY <4>1, <6>1 DEF Flattens
                    <6>3. CASE i # 1
                        <7>1. i - 1 \in 1..n /\ i - 1 # n + 1
                            BY <6>1, <6>3
                        <7>2. h[i - 1] = g[i - 1]
                            BY <7>1
                        <7> QED
                            BY <6>1, <6>2, <6>3, <7>2
                    <6> QED
                        BY <6>1, <6>2, <6>3
                <5> QED
                    BY <5>1, <5>2
            <4>3. h = [i \in 1..(n + 1) |-> h[i]]
                OBVIOUS
            <4> HIDE DEF h
            <4>4. Flattens(h, seqs, n + 1)
                BY <4>2, <4>3 DEF Flattens
            <4> QED
                BY <4>4
        <3>3. P \in SUBSET Nat /\ \A n \in P : n + 1 \in P
            BY <1>1, <3>2
        <3> HIDE DEF P
        <3> QED
            BY <3>1, <3>3, InductionOnNat
    <2>4. Flattens(flatten, seqs, L)
        <3>1. L \in P
            BY <1>1, <2>3
        <3>2. \E h : Flattens(h, seqs, L)
            BY <1>1, <3>1
        <3> QED
            BY <2>2, <3>2
    <2>5. \A i \in 1..L : flatten[i] = IF i = 1 THEN seqs[i] ELSE flatten[i - 1] \o seqs[i]
        BY <2>4 DEF Flattens
    <2>6. Q = Nat
        <3>1. 0 \in Q
            BY <1>1, <1>3, <2>5
        <3>2. ASSUME NEW n \in Q, (n + 1) + 1 <= L PROVE flatten[(n + 1) + 1] \in Seq(S)
            <4>1. flatten[n + 1] \in Seq(S) /\ seqs[(n + 1) + 1] \in Seq(S)
                BY <1>1, <3>2
            <4>2. /\ (n + 1) + 1 \in 1..L /\ (n + 1) + 1 # 1
                  /\ ((n + 1) + 1) - 1 = n + 1
                BY <1>1, <3>2
            <4>3. flatten[(n + 1) + 1] = flatten[n + 1] \o seqs[(n + 1) + 1]
                BY <2>5, <4>2
            <4> QED
                BY <4>1, <4>3, ConcatProperties
        <3>3. Q \in SUBSET Nat /\ \A n \in Q : n + 1 \in Q
            BY <1>1, <3>2
        <3> HIDE DEF Q
        <3> QED
            BY <3>1, <3>3, InductionOnNat
    <2>7. L - 1 \in Nat /\ (L - 1) + 1 = L
        BY <1>1, <1>3
    <2> QED
        BY <2>1, <2>6, <2>7
<1> QED
    BY <1>2, <1>3

-----------------------------------------------------------------------------
(* What is offered to a context.                                           *)

Kinds == {"fact", "question", "evidence"}

ItemsFrom(sources) == [kind : Kinds, value : Texts, from : sources]

\* A typed list with an item of that kind for every value.
Lists(list, kind, values, sources) ==
    /\ list \in Seq(ItemsFrom(sources))
    /\ \A v \in values : \E i \in 1..Len(list) : list[i].kind = kind /\ list[i].value = v

LEMMA ItemsList ==
    ASSUME NEW kind \in Kinds, NEW values, TextList(values), NEW sources, NEW from \in sources
    PROVE  Lists(Items(kind, values, from), kind, values, sources)
<1> DEFINE sorted == Sorted(values)
           list == Items(kind, values, from)
<1>1. values \in SUBSET Int /\ IsFiniteSet(values) /\ values \subseteq Texts
    BY TextsAssumption DEF TextList
<1>2. /\ sorted \in Seq(values)
      /\ \A x \in values : \E i \in DOMAIN sorted : sorted[i] = x
    BY <1>1, SortedLists
<1>3. list = [i \in DOMAIN sorted |-> [kind |-> kind, value |-> sorted[i], from |-> from]]
    BY DEF Items
<1> HIDE DEF sorted, list
<1>4. PICK n \in Nat : sorted \in [1..n -> values] /\ DOMAIN sorted = 1..n
    BY <1>2, LenProperties
<1>5. list \in [1..n -> ItemsFrom(sources)]
    BY <1>1, <1>3, <1>4 DEF ItemsFrom
<1>6. list \in Seq(ItemsFrom(sources)) /\ Len(list) = n
    BY <1>5
<1>7. \A v \in values : \E i \in 1..n : list[i].kind = kind /\ list[i].value = v
    BY <1>2, <1>3, <1>4
<1> QED
    BY <1>6, <1>7 DEF list, Lists

\* The sprint's own list is typed and complete.
LEMMA OwnList ==
    ASSUME NEW sprint, TextList(sprint.facts), TextList(sprint.questions),
           TextList(sprint.evidence)
    PROVE  /\ OwnItems(sprint) \in Seq(ItemsFrom({Own}))
           /\ \A x \in OwnTexts(sprint) : \E i \in 1..Len(OwnItems(sprint)) :
                 OwnItems(sprint)[i].kind = x[1] /\ OwnItems(sprint)[i].value = x[2]
<1> DEFINE S == ItemsFrom({Own})
           f == Items("fact", sprint.facts, Own)
           q == Items("question", sprint.questions, Own)
           e == Items("evidence", sprint.evidence, Own)
<1>1. Lists(f, "fact", sprint.facts, {Own})
    BY ItemsList DEF Kinds
<1>2. Lists(q, "question", sprint.questions, {Own})
    BY ItemsList DEF Kinds
<1>3. Lists(e, "evidence", sprint.evidence, {Own})
    BY ItemsList DEF Kinds
<1>4. OwnItems(sprint) = (f \o q) \o e
    BY DEF OwnItems
<1> HIDE DEF f, q, e
<1>a. f \in Seq(S) /\ q \in Seq(S) /\ e \in Seq(S)
    BY <1>1, <1>2, <1>3 DEF Lists
<1> HIDE DEF S
<1> DEFINE fq == f \o q
           own == fq \o e
<1>5. /\ fq \in Seq(S) /\ Len(fq) = Len(f) + Len(q)
      /\ \A i \in 1..Len(fq) : fq[i] = IF i <= Len(f) THEN f[i] ELSE q[i - Len(f)]
    BY <1>a, ConcatProperties
<1> HIDE DEF fq
<1>6. /\ own \in Seq(S) /\ Len(own) = Len(fq) + Len(e)
      /\ \A i \in 1..Len(own) : own[i] = IF i <= Len(fq) THEN fq[i] ELSE e[i - Len(fq)]
    <2>1. fq \in Seq(S) /\ e \in Seq(S)
        BY <1>a, <1>5
    <2> QED
        BY <2>1, ConcatProperties
<1> HIDE DEF own
<1>7. Len(f) \in Nat /\ Len(q) \in Nat /\ Len(e) \in Nat
    BY <1>a, LenProperties
<1>8. ASSUME NEW i \in 1..Len(f) PROVE \E j \in 1..Len(own) : own[j] = f[i]
    <2>1. i \in 1..Len(own) /\ i \in 1..Len(fq) /\ i <= Len(fq) /\ i <= Len(f)
        BY <1>5, <1>6, <1>7
    <2> QED
        BY <1>5, <1>6, <2>1
<1>9. ASSUME NEW i \in 1..Len(q) PROVE \E j \in 1..Len(own) : own[j] = q[i]
    <2> DEFINE j == Len(f) + i
    <2>1. /\ j \in 1..Len(own) /\ j \in 1..Len(fq) /\ j <= Len(fq)
          /\ ~(j <= Len(f)) /\ j - Len(f) = i
        BY <1>5, <1>6, <1>7
    <2> HIDE DEF j
    <2> QED
        BY <1>5, <1>6, <2>1
<1>10. ASSUME NEW i \in 1..Len(e) PROVE \E j \in 1..Len(own) : own[j] = e[i]
    <2> DEFINE j == Len(fq) + i
    <2>1. j \in 1..Len(own) /\ ~(j <= Len(fq)) /\ j - Len(fq) = i
        BY <1>5, <1>6, <1>7
    <2> HIDE DEF j
    <2> QED
        BY <1>6, <2>1
<1>11. ASSUME NEW x \in OwnTexts(sprint)
       PROVE  \E i \in 1..Len(own) : own[i].kind = x[1] /\ own[i].value = x[2]
    <2>1. CASE x \in {"fact"} \X sprint.facts
        <3>1. x[1] = "fact" /\ x[2] \in sprint.facts
            BY <2>1
        <3>2. PICK i \in 1..Len(f) : f[i].kind = "fact" /\ f[i].value = x[2]
            BY <1>1, <3>1 DEF Lists
        <3> QED
            BY <1>8, <3>1, <3>2
    <2>2. CASE x \in {"question"} \X sprint.questions
        <3>1. x[1] = "question" /\ x[2] \in sprint.questions
            BY <2>2
        <3>2. PICK i \in 1..Len(q) : q[i].kind = "question" /\ q[i].value = x[2]
            BY <1>2, <3>1 DEF Lists
        <3> QED
            BY <1>9, <3>1, <3>2
    <2>3. CASE x \in {"evidence"} \X sprint.evidence
        <3>1. x[1] = "evidence" /\ x[2] \in sprint.evidence
            BY <2>3
        <3>2. PICK i \in 1..Len(e) : e[i].kind = "evidence" /\ e[i].value = x[2]
            BY <1>3, <3>1 DEF Lists
        <3> QED
            BY <1>10, <3>1, <3>2
    <2> QED
        BY <2>1, <2>2, <2>3 DEF OwnTexts
<1> QED
    BY <1>4, <1>6, <1>11 DEF own, fq, S

\* What the dependencies leave, in P2 and P3.
LEMMA InheritedList ==
    ASSUME NEW deps, DOMAIN deps \subseteq Nat, IsFiniteSet(DOMAIN deps),
           \A d \in DOMAIN deps :
              /\ Notice(d) \in Texts
              /\ TextList(deps[d].findings) /\ TextList(deps[d].paths)
              /\ TextList(deps[d].evidence) /\ TextList(deps[d].questions)
              /\ TextList(deps[d].unresolved)
    PROVE  InheritedItems(deps) \in Seq(ItemsFrom(DOMAIN deps))
<1> DEFINE D == DOMAIN deps
           S == ItemsFrom(D)
           trusted == Sorted(Passed(deps))
           distrusted == Sorted(D \ Passed(deps))
           p2 == [i \in DOMAIN trusted |-> TrustedItems(trusted[i], deps[trusted[i]])]
           p3 == [i \in DOMAIN distrusted |-> DistrustedItems(distrusted[i], deps[distrusted[i]])]
<1>1. ASSUME NEW d \in D PROVE TrustedItems(d, deps[d]) \in Seq(S)
    <2>1. TextList(deps[d].paths \cup deps[d].findings)
        BY FS_Union DEF TextList
    <2>2. /\ Items("fact", deps[d].paths \cup deps[d].findings, d) \in Seq(S)
          /\ Items("evidence", deps[d].evidence, d) \in Seq(S)
        BY <2>1, ItemsList DEF Kinds, Lists
    <2> QED
        BY <2>2, ConcatProperties DEF TrustedItems
<1>2. ASSUME NEW d \in D PROVE DistrustedItems(d, deps[d]) \in Seq(S)
    <2>1. TextList({Notice(d)})
        BY FS_Singleton DEF TextList
    <2>2. /\ Items("question", {Notice(d)}, d) \in Seq(S)
          /\ Items("question", deps[d].questions, d) \in Seq(S)
          /\ Items("question", deps[d].unresolved, d) \in Seq(S)
        BY <2>1, ItemsList DEF Kinds, Lists
    <2> DEFINE noticed == Items("question", {Notice(d)}, d) \o Items("question", deps[d].questions, d)
    <2>3. noticed \in Seq(S)
        BY <2>2, ConcatProperties
    <2>4. DistrustedItems(d, deps[d]) = noticed \o Items("question", deps[d].unresolved, d)
        BY DEF DistrustedItems
    <2> HIDE DEF noticed
    <2> QED
        BY <2>2, <2>3, <2>4, ConcatProperties
<1>3. Passed(deps) \subseteq D
    BY DEF Passed
<1>4. /\ Passed(deps) \in SUBSET Int /\ IsFiniteSet(Passed(deps))
      /\ D \ Passed(deps) \in SUBSET Int /\ IsFiniteSet(D \ Passed(deps))
    BY <1>3, FS_Subset
<1>5. trusted \in Seq(Passed(deps)) /\ distrusted \in Seq(D \ Passed(deps))
    BY <1>4, SortedLists
<1>6. PICK m \in Nat : DOMAIN trusted = 1..m /\ \A i \in 1..m : trusted[i] \in D
    <2>1. trusted \in [1..Len(trusted) -> Passed(deps)] /\ Len(trusted) \in Nat
        BY <1>5, LenProperties
    <2> HIDE DEF trusted, D
    <2> QED
        BY <1>3, <2>1
<1>7. PICK n \in Nat : DOMAIN distrusted = 1..n /\ \A i \in 1..n : distrusted[i] \in D
    <2>1. /\ distrusted \in [1..Len(distrusted) -> D \ Passed(deps)]
          /\ Len(distrusted) \in Nat
        BY <1>5, LenProperties
    <2> HIDE DEF distrusted, D
    <2> QED
        BY <2>1
<1> HIDE DEF S, trusted, distrusted
<1>8. p2 \in Seq(Seq(S))
    BY <1>1, <1>6
<1>9. p3 \in Seq(Seq(S))
    BY <1>2, <1>7
<1>10. InheritedItems(deps) = FlattenSeq(p2) \o FlattenSeq(p3)
    BY DEF InheritedItems, Concat, trusted, distrusted
<1> HIDE DEF p2, p3
<1> QED
    BY <1>8, <1>9, <1>10, FlattenType, ConcatProperties DEF S

-----------------------------------------------------------------------------
(* The selection.                                                          *)

Holds(ctx, item) == \E h \in ctx.items : h.kind = item.kind /\ h.value = item.value

\* What is true of the context after the first n offers, of which the first m
\* are the sprint's own: an offer that is not held did not fit and was noted,
\* and where it is the sprint's own everything inherited that is held costs less.
HonestSoFar(ctx, offered, m, n, budget) ==
    /\ ctx = [items |-> ctx.items, tokens |-> ctx.tokens, omitted |-> ctx.omitted]
    /\ ctx.tokens \in Nat /\ ctx.tokens <= budget
    /\ \E S : ctx.omitted \in Seq(S)
    /\ \A h \in ctx.items : \E j \in 1..n : h = offered[j]
    /\ \A i \in 1..n : ~Holds(ctx, offered[i]) =>
          /\ ctx.omitted # << >>
          /\ ctx.tokens + Tokens(offered[i].value) > budget
          /\ i <= m => \A h \in ctx.items :
                h.from # Own => Tokens(h.value) < Tokens(offered[i].value)

\* One more offer keeps it so.
LEMMA TryAddHonest ==
    ASSUME NEW sources, NEW offered \in Seq(ItemsFrom(sources)), NEW budget \in Nat,
           NEW m \in Nat, \A j \in 1..m : offered[j].from = Own,
           NEW n \in Nat, n + 1 <= Len(offered),
           NEW ctx, HonestSoFar(ctx, offered, m, n, budget)
    PROVE  HonestSoFar(TryAdd(ctx, offered[n + 1], budget), offered, m, n + 1, budget)
<1> DEFINE item == offered[n + 1]
           cost == Tokens(item.value)
           next == TryAdd(ctx, item, budget)
<1>1. \A i \in 1..(n + 1) : Tokens(offered[i].value) \in Nat
    <2>1. ASSUME NEW i \in 1..(n + 1) PROVE offered[i] \in ItemsFrom(sources)
        BY ElementOfSeq, LenProperties
    <2> QED
        BY <2>1, TextsAssumption DEF ItemsFrom
<1>2. n + 1 \in 1..(n + 1) /\ \A i \in 1..(n + 1) : i = n + 1 \/ i \in 1..n
    OBVIOUS
<1>3. cost \in Nat
    BY <1>1, <1>2
<1>4. /\ ctx = [items |-> ctx.items, tokens |-> ctx.tokens, omitted |-> ctx.omitted]
      /\ ctx.tokens \in Nat /\ ctx.tokens <= budget
      /\ \A h \in ctx.items : \E j \in 1..n : h = offered[j]
      /\ \A i \in 1..n : ~Holds(ctx, offered[i]) =>
            /\ ctx.omitted # << >>
            /\ ctx.tokens + Tokens(offered[i].value) > budget
            /\ i <= m => \A h \in ctx.items :
                  h.from # Own => Tokens(h.value) < Tokens(offered[i].value)
    BY DEF HonestSoFar
<1>5. PICK S : ctx.omitted \in Seq(S)
    BY DEF HonestSoFar
<1>6. \A h \in ctx.items : \E j \in 1..(n + 1) : h = offered[j]
    BY <1>4
<1> HIDE DEF item, cost
<1>7. CASE Holds(ctx, item)
    <2>1. next = ctx
        BY <1>7 DEF TryAdd, Holds
    <2>2. ASSUME NEW i \in 1..(n + 1), ~Holds(ctx, offered[i]) PROVE i \in 1..n
        BY <1>2, <1>7, <2>2 DEF item
    <2> HIDE DEF next
    <2>3. HonestSoFar(ctx, offered, m, n + 1, budget)
        BY <1>4, <1>5, <1>6, <2>2 DEF HonestSoFar
    <2> QED
        BY <2>1, <2>3 DEF next, item
<1>8. CASE ~Holds(ctx, item) /\ ctx.tokens + cost <= budget
    <2>1. next = [ctx EXCEPT !.items = @ \cup {item}, !.tokens = @ + cost]
        BY <1>8 DEF TryAdd, Holds, cost
    <2>2. /\ next.items = ctx.items \cup {item} /\ next.tokens = ctx.tokens + cost
          /\ next.omitted = ctx.omitted
          /\ next = [items |-> next.items, tokens |-> next.tokens, omitted |-> next.omitted]
        BY <1>4, <2>1
    <2> HIDE DEF next
    <2>3. next.tokens \in Nat /\ next.tokens <= budget /\ next.omitted \in Seq(S)
        BY <1>3, <1>4, <1>5, <1>8, <2>2
    <2>4. \A h \in next.items : \E j \in 1..(n + 1) : h = offered[j]
        BY <1>2, <1>6, <2>2 DEF item
    <2>5. ASSUME NEW i \in 1..(n + 1), ~Holds(next, offered[i])
          PROVE  /\ next.omitted # << >>
                 /\ next.tokens + Tokens(offered[i].value) > budget
                 /\ i <= m => \A h \in next.items :
                       h.from # Own => Tokens(h.value) < Tokens(offered[i].value)
        <3>1. i # n + 1 /\ ~Holds(ctx, offered[i])
            BY <2>2, <2>5 DEF Holds, item
        <3>2. i \in 1..n
            BY <1>2, <3>1
        <3>3. /\ ctx.omitted # << >>
              /\ ctx.tokens + Tokens(offered[i].value) > budget
              /\ i <= m => \A h \in ctx.items :
                    h.from # Own => Tokens(h.value) < Tokens(offered[i].value)
            BY <1>4, <3>1, <3>2
        <3>4. cost < Tokens(offered[i].value)
            BY <1>1, <1>3, <1>4, <1>8, <3>3
        <3>5. next.tokens + Tokens(offered[i].value) > budget
            BY <1>1, <1>3, <1>4, <2>2, <3>3
        <3> QED
            BY <2>2, <3>3, <3>4, <3>5 DEF cost
    <2>6. HonestSoFar(next, offered, m, n + 1, budget)
        BY <2>2, <2>3, <2>4, <2>5 DEF HonestSoFar
    <2> QED
        BY <2>6 DEF next, item
<1>9. CASE ~Holds(ctx, item) /\ ~(ctx.tokens + cost <= budget)
    <2>1. next = [ctx EXCEPT !.omitted = Append(@, item)]
        BY <1>9 DEF TryAdd, Holds, cost
    <2>2. /\ next.items = ctx.items /\ next.tokens = ctx.tokens
          /\ next.omitted = Append(ctx.omitted, item)
          /\ next = [items |-> next.items, tokens |-> next.tokens, omitted |-> next.omitted]
        BY <1>4, <2>1
    <2> HIDE DEF next
    <2>3. next.omitted \in Seq(S \cup {item}) /\ next.omitted # << >>
        <3>1. ctx.omitted \in Seq(S \cup {item})
            BY <1>5, SeqMonotonic
        <3> QED
            BY <2>2, <3>1, AppendProperties
    <2>4. ASSUME NEW i \in 1..(n + 1), ~Holds(next, offered[i])
          PROVE  /\ next.tokens + Tokens(offered[i].value) > budget
                 /\ i <= m => \A h \in next.items :
                       h.from # Own => Tokens(h.value) < Tokens(offered[i].value)
        <3>1. ~Holds(ctx, offered[i])
            BY <2>2, <2>4 DEF Holds
        <3>2. CASE i = n + 1
            <4>1. next.tokens + Tokens(offered[i].value) > budget
                BY <1>3, <1>4, <1>9, <2>2, <3>2 DEF cost, item
            <4>2. ASSUME i <= m, NEW h \in ctx.items PROVE h.from = Own
                BY <1>4, <3>2, <4>2
            <4> QED
                BY <2>2, <4>1, <4>2
        <3>3. CASE i \in 1..n
            BY <1>4, <2>2, <3>1, <3>3
        <3> QED
            BY <1>2, <3>2, <3>3
    <2>5. HonestSoFar(next, offered, m, n + 1, budget)
        BY <1>4, <1>6, <2>2, <2>3, <2>4 DEF HonestSoFar
    <2> QED
        BY <2>5 DEF next, item
<1> QED
    BY <1>7, <1>8, <1>9

\* g is the function Selection is defined by, up to its n-th value.
Selects(g, sprint, offered, n) ==
    g = [k \in 0..n |-> IF k = 0 THEN Nothing(sprint.core)
                        ELSE TryAdd(g[k - 1], offered[k], sprint.token_budget)]

LEMMA SelectionExists ==
    ASSUME NEW sprint, NEW offered, NEW N \in Nat
    PROVE  \E g : Selects(g, sprint, offered, N)
<1> DEFINE P == {n \in Nat : \E g : Selects(g, sprint, offered, n)}
<1>1. 0 \in P
    <2> DEFINE g == [k \in 0..0 |-> Nothing(sprint.core)]
    <2>1. Selects(g, sprint, offered, 0)
        BY DEF Selects
    <2> QED
        BY <2>1
<1>2. ASSUME NEW n \in P PROVE n + 1 \in P
    <2>1. PICK g : Selects(g, sprint, offered, n)
        OBVIOUS
    <2> DEFINE last == TryAdd(g[n], offered[n + 1], sprint.token_budget)
               h == [k \in 0..(n + 1) |-> IF k = n + 1 THEN last ELSE g[k]]
    <2>2. ASSUME NEW k \in 0..(n + 1)
          PROVE  h[k] = IF k = 0 THEN Nothing(sprint.core)
                        ELSE TryAdd(h[k - 1], offered[k], sprint.token_budget)
        <3>1. CASE k = n + 1
            <4>1. k # 0 /\ k - 1 = n /\ k - 1 \in 0..(n + 1) /\ k - 1 # n + 1
                BY <3>1
            <4>2. h[k - 1] = g[n] /\ h[k] = last
                BY <3>1, <4>1
            <4> QED
                BY <3>1, <4>1, <4>2
        <3>2. CASE k # n + 1
            <4>1. k \in 0..n /\ h[k] = g[k]
                BY <3>2
            <4>2. g[k] = IF k = 0 THEN Nothing(sprint.core)
                         ELSE TryAdd(g[k - 1], offered[k], sprint.token_budget)
                BY <2>1, <4>1 DEF Selects
            <4>3. k # 0 => h[k - 1] = g[k - 1]
                BY <4>1
            <4> QED
                BY <4>1, <4>2, <4>3
        <3> QED
            BY <3>1, <3>2
    <2>3. h = [k \in 0..(n + 1) |-> h[k]]
        OBVIOUS
    <2> HIDE DEF h
    <2>4. Selects(h, sprint, offered, n + 1)
        BY <2>2, <2>3 DEF Selects
    <2> QED
        BY <2>4
<1> HIDE DEF P
<1>3. P = Nat
    <2>1. P \in SUBSET Nat
        BY DEF P
    <2> QED
        BY <1>1, <1>2, <2>1, InductionOnNat
<1> QED
    BY <1>3 DEF P

\* The selection holds what was offered, honestly to the last offer.
LEMMA SelectionHonest ==
    ASSUME NEW sprint, NEW deps, NEW sources, NEW offered, NEW m \in Nat,
           offered = Prioritized(sprint, deps), offered \in Seq(ItemsFrom(sources)),
           \A j \in 1..m : offered[j].from = Own,
           sprint.core \in Nat, sprint.token_budget \in Nat, sprint.core <= sprint.token_budget
    PROVE  HonestSoFar(Selection(sprint, deps), offered, m, Len(offered), sprint.token_budget)
<1> DEFINE N == Len(offered)
           budget == sprint.token_budget
           taken[n \in 0..N] ==
               IF n = 0 THEN Nothing(sprint.core) ELSE TryAdd(taken[n - 1], offered[n], budget)
           P == {n \in Nat : n <= N => HonestSoFar(taken[n], offered, m, n, budget)}
<1>1. N \in Nat
    BY LenProperties
<1>2. Selection(sprint, deps) = taken[N]
    BY Zenon DEF Selection
<1>3. taken = CHOOSE g : Selects(g, sprint, offered, N)
    BY DEF Selects
<1> HIDE DEF taken, N
<1>4. Selects(taken, sprint, offered, N)
    BY <1>1, <1>3, SelectionExists
<1>5. /\ taken[0] = Nothing(sprint.core)
      /\ \A n \in Nat : n + 1 <= N => taken[n + 1] = TryAdd(taken[n], offered[n + 1], budget)
    <2>1. taken = [k \in 0..N |-> IF k = 0 THEN Nothing(sprint.core)
                                  ELSE TryAdd(taken[k - 1], offered[k], budget)]
        BY <1>4 DEF Selects
    <2>2. taken[0] = Nothing(sprint.core)
        BY <1>1, <2>1
    <2>3. ASSUME NEW n \in Nat, n + 1 <= N
          PROVE  taken[n + 1] = TryAdd(taken[n], offered[n + 1], budget)
        <3>1. n + 1 \in 0..N /\ n + 1 # 0 /\ (n + 1) - 1 = n
            BY <1>1, <2>3
        <3> QED
            BY <2>1, <3>1
    <2> QED
        BY <2>2, <2>3
<1>6. 0 \in P
    <2>1. HonestSoFar(Nothing(sprint.core), offered, m, 0, budget)
        BY EmptySeq DEF HonestSoFar, Nothing
    <2> QED
        BY <1>5, <2>1
<1>7. ASSUME NEW n \in P PROVE n + 1 \in P
    <2>1. ASSUME n + 1 <= N PROVE HonestSoFar(taken[n + 1], offered, m, n + 1, budget)
        <3>1. HonestSoFar(taken[n], offered, m, n, budget)
            BY <1>1, <2>1
        <3> QED
            BY <1>5, <2>1, <3>1, TryAddHonest DEF N
    <2> QED
        BY <2>1
<1> HIDE DEF P
<1>8. P = Nat
    <2>1. P \in SUBSET Nat
        BY DEF P
    <2> QED
        BY <1>6, <1>7, <2>1, InductionOnNat
<1>9. HonestSoFar(taken[N], offered, m, N, budget)
    BY <1>1, <1>8 DEF P
<1> QED
    BY <1>2, <1>9 DEF N

\* What compile_context returns is honest about the sprint it was compiled for.
LEMMA CompiledHonest ==
    ASSUME NEW plan, NEW sprint, NEW deps,
           TextList(sprint.facts), TextList(sprint.questions), TextList(sprint.evidence),
           {sprint.core, sprint.token_budget} \subseteq Nat,
           sprint.deps \subseteq Nat, IsFiniteSet(sprint.deps),
           \A d \in DOMAIN deps :
              /\ Notice(d) \in Texts
              /\ TextList(deps[d].findings) /\ TextList(deps[d].paths)
              /\ TextList(deps[d].evidence) /\ TextList(deps[d].questions)
              /\ TextList(deps[d].unresolved),
           Compile(plan, sprint, deps).error = "none"
    PROVE  HonestContext(sprint, Compile(plan, sprint, deps))
<1> DEFINE declared == [d \in DOMAIN deps \cap sprint.deps |-> deps[d]]
           chosen == Selection(sprint, declared)
           compiled == Compile(plan, sprint, deps)
           own == OwnItems(sprint)
           inherited == InheritedItems(declared)
           offered == Prioritized(sprint, declared)
           sources == DOMAIN declared \cup {Own}
           S == ItemsFrom(sources)
           m == Len(own)
<1>1. Refusal(plan, sprint, deps) = "none"
    BY Zenon DEF Compile
<1>2. /\ compiled.items = chosen.items /\ compiled.tokens = chosen.tokens
      /\ compiled.truncated = (chosen.omitted # << >>)
    BY <1>1 DEF Compile
<1>3. sprint.core <= sprint.token_budget
    BY <1>1 DEF Refusal
<1>4. inherited \in Seq(ItemsFrom(DOMAIN declared))
    <2>1. /\ DOMAIN declared \subseteq Nat
          /\ \A d \in DOMAIN declared : d \in DOMAIN deps /\ declared[d] = deps[d]
        OBVIOUS
    <2>2. IsFiniteSet(DOMAIN declared)
        BY FS_Subset
    <2> HIDE DEF declared
    <2> QED
        BY <2>1, <2>2, InheritedList
<1>5. /\ own \in Seq(ItemsFrom({Own}))
      /\ \A x \in OwnTexts(sprint) : \E i \in 1..m : own[i].kind = x[1] /\ own[i].value = x[2]
    BY OwnList
<1>6. offered = own \o inherited
    BY DEF Prioritized
<1> HIDE DEF declared, chosen, compiled, own, inherited, offered
<1>7. own \in Seq(S) /\ inherited \in Seq(S)
    <2>1. ItemsFrom({Own}) \subseteq S /\ ItemsFrom(DOMAIN declared) \subseteq S
        BY DEF ItemsFrom
    <2> QED
        BY <1>4, <1>5, <2>1, SeqMonotonic
<1> HIDE DEF S
<1>8. /\ offered \in Seq(S) /\ m \in Nat /\ m <= Len(offered) /\ Len(offered) \in Nat
      /\ \A i \in 1..m : offered[i] = own[i]
    <2>1. Len(own) \in Nat /\ Len(inherited) \in Nat
        BY <1>7, LenProperties
    <2>2. /\ offered \in Seq(S) /\ Len(offered) = Len(own) + Len(inherited)
          /\ \A i \in 1..(Len(own) + Len(inherited)) :
                offered[i] = IF i <= Len(own) THEN own[i] ELSE inherited[i - Len(own)]
        BY <1>6, <1>7, ConcatProperties
    <2> QED
        BY <2>1, <2>2
<1>9. \A j \in 1..m : offered[j].from = Own
    <2>1. \A j \in 1..m : own[j] \in ItemsFrom({Own})
        BY <1>5, ElementOfSeq
    <2> QED
        BY <1>8, <2>1 DEF ItemsFrom
<1>10. HonestSoFar(chosen, offered, m, Len(offered), sprint.token_budget)
    BY <1>3, <1>8, <1>9, SelectionHonest DEF chosen, offered, S
<1> HIDE DEF m
<1>11. ASSUME NEW x \in OwnTexts(sprint), \A i \in compiled.items : <<i.kind, i.value>> # x
       PROVE  /\ chosen.omitted # << >>
              /\ \A h \in chosen.items : h.from # Own => Tokens(h.value) < Tokens(x[2])
    <2>1. PICK i \in 1..m : own[i].kind = x[1] /\ own[i].value = x[2]
        BY <1>5
    <2>2. x = <<x[1], x[2]>>
        BY DEF OwnTexts
    <2>3. ~Holds(chosen, offered[i])
        BY <1>2, <1>8, <1>11, <2>1, <2>2 DEF Holds
    <2>4. i \in 1..Len(offered) /\ i <= m
        BY <1>8
    <2>5. /\ chosen.omitted # << >>
          /\ \A h \in chosen.items : h.from # Own => Tokens(h.value) < Tokens(offered[i].value)
        BY <1>10, <2>3, <2>4 DEF HonestSoFar
    <2> QED
        BY <1>8, <2>1, <2>5
<1>12. compiled.tokens <= sprint.token_budget
    BY <1>2, <1>10 DEF HonestSoFar
<1>13. HonestContext(sprint, compiled)
    BY <1>2, <1>11, <1>12 DEF HonestContext
<1> QED
    BY <1>13 DEF compiled

-----------------------------------------------------------------------------
(* The inductive invariant: the parts hold jointly.                        *)

IInv == TypeOK /\ LaddersEnd /\ ContextHonest /\ WorkersMayTake /\ AcceptanceProven

LEMMA InitIInv == Init => IInv
<1> SUFFICES ASSUME Init PROVE IInv
    OBVIOUS
<1>1. mission.policy.max_same_retry \in Nat
    BY MissionsAssumption DEF Init
<1>2. TypeOK
    <2>1. /\ mission \in Missions
          /\ pc \in [SprintIds -> Final \cup {"ready", "working", "executed"}]
          /\ target \in [SprintIds -> {NoTarget, mission.policy.target}]
          /\ primary \in [SprintIds -> FailureClasses \cup {"none"}]
          /\ same \in [SprintIds -> 0..(mission.policy.max_same_retry + 1)]
        BY <1>1 DEF Init
    <2>2. /\ DOMAIN latest = SprintIds /\ DOMAIN context = SprintIds
          /\ DOMAIN worker = SprintIds /\ DOMAIN basis = SprintIds
        BY DEF Init
    <2>3. ASSUME NEW s \in SprintIds
          PROVE  latest[s] = None /\ pc[s] = "ready" /\ context[s] = NoContext /\ worker[s] = None
        BY DEF Init
    <2> QED
        BY <2>1, <2>2, <2>3 DEF TypeOK
<1>3. LaddersEnd /\ ContextHonest /\ WorkersMayTake /\ AcceptanceProven
    BY <1>1 DEF Init, LaddersEnd, ContextHonest, WorkersMayTake, AcceptanceProven
<1> QED
    BY <1>2, <1>3 DEF IInv

\* A checkpoint of the store carries lists of texts.
LEMMA StoredFacts ==
    ASSUME TypeOK, NEW d \in Stored
    PROVE  /\ TextList(latest[d].findings) /\ TextList(latest[d].paths)
           /\ TextList(latest[d].evidence) /\ TextList(latest[d].questions)
           /\ TextList(latest[d].unresolved)
<1>1. d \in SprintIds /\ latest[d] # None
    BY DEF Stored
<1>2. PICK cp \in Products : latest[d] = Saved(d, cp)
    BY <1>1 DEF TypeOK
<1>3. cp = [f \in CheckpointFields |-> cp[f]]
    BY ProductsAssumption DEF ValidCheckpoint
<1>4. /\ latest[d].findings = cp.findings /\ latest[d].paths = cp.paths
      /\ latest[d].evidence = cp.evidence /\ latest[d].questions = cp.questions
      /\ latest[d].unresolved = cp.unresolved
    BY <1>2, <1>3 DEF Saved, CheckpointFields
<1> QED
    BY <1>4, ProductsAssumption

LEMMA CompiledForSprint ==
    ASSUME TypeOK, NEW s \in SprintIds, Compiled(s).error = "none"
    PROVE  HonestContext(Sprint(s), Compiled(s)) /\ Compiled(s) # NoContext
<1> DEFINE deps == [d \in Stored |-> latest[d]]
           sprint == Sprint(s)
<1>1. /\ TextList(sprint.facts) /\ TextList(sprint.questions) /\ TextList(sprint.evidence)
      /\ {sprint.core, sprint.token_budget} \subseteq Nat
      /\ sprint.deps \subseteq Nat /\ IsFiniteSet(sprint.deps)
    BY MissionsAssumption DEF TypeOK, Sprint
<1>2. \A d \in DOMAIN deps :
         /\ Notice(d) \in Texts
         /\ TextList(deps[d].findings) /\ TextList(deps[d].paths)
         /\ TextList(deps[d].evidence) /\ TextList(deps[d].questions)
         /\ TextList(deps[d].unresolved)
    BY StoredFacts, NoticeAssumption DEF Stored
<1>3. Compiled(s) = Compile(mission.plan, sprint, deps)
    BY DEF Compiled
<1> HIDE DEF deps, sprint
<1>4. HonestContext(sprint, Compile(mission.plan, sprint, deps))
    BY <1>1, <1>2, <1>3, CompiledHonest
<1>5. NoContext.error # "none"
    BY DEF NoContext
<1> QED
    BY <1>3, <1>4, <1>5 DEF sprint

-----------------------------------------------------------------------------
(* One step per action.                                                    *)

\* A specialist picked for sprint s is someone, passes every gate, and is of
\* the profile an escalation authorized.
LEMMA SelectedFacts ==
    ASSUME NEW s, NEW specialists \in Snapshots, Route(s, specialists).outcome = "SELECTED",
           NEW e, e = CHOOSE x \in Route(s, specialists).selected : TRUE
    PROVE  /\ e # None /\ MayTake(e, mission.requirements)
           /\ target[s] # NoTarget => e.profile = target[s]
<1>1. e \in specialists /\ Reasons(mission.requirements, e, target[s], Profiles) = {}
    BY Selected
<1>2. e # None
    BY <1>1, NoneAssumption
<1> QED
    BY <1>1, <1>2, NoReasons

LEMMA StopIInv ==
    ASSUME IInv, NEW s \in SprintIds, Unroutable(s) \/ Uncompilable(s)
    PROVE  IInv'
<1>1. /\ pc[s] = "ready" /\ \E to \in Final \ {"accepted"} : pc' = [pc EXCEPT ![s] = to]
      /\ UNCHANGED <<mission, latest, context, worker, target, primary, same, basis>>
    BY DEF Unroutable, Uncompilable, Goto, attempts, Final
<1>2. /\ pc' \in [SprintIds -> Final \cup {"ready", "working", "executed"}]
      /\ pc'[s] \in Final \ {"accepted"}
      /\ \A r \in SprintIds : r # s => pc'[r] = pc[r]
    BY <1>1 DEF IInv, TypeOK
<1>3. TypeOK'
    BY <1>1, <1>2 DEF IInv, TypeOK, Stored, Final
<1>4. LaddersEnd'
    BY <1>1, <1>2 DEF IInv, LaddersEnd
<1>5. ContextHonest'
    BY <1>1 DEF IInv, ContextHonest, HonestContext, Sprint
<1>6. WorkersMayTake'
    BY <1>1 DEF IInv, WorkersMayTake
<1>7. AcceptanceProven'
    BY <1>1, <1>2 DEF IInv, AcceptanceProven, Sprint
<1> QED
    BY <1>3, <1>4, <1>5, <1>6, <1>7 DEF IInv

LEMMA PrepareIInv ==
    ASSUME IInv, NEW s \in SprintIds, Prepare(s)
    PROVE  IInv'
<1>1. /\ pc[s] = "ready" /\ Compiled(s).error = "none"
      /\ pc' = [pc EXCEPT ![s] = "working"] /\ context' = [context EXCEPT ![s] = Compiled(s)]
      /\ UNCHANGED <<mission, latest, target, primary, same, basis>>
    BY DEF Prepare, Goto, attempts
<1>2. PICK specialists \in Snapshots :
         /\ Route(s, specialists).outcome = "SELECTED"
         /\ worker' = [worker EXCEPT ![s] = CHOOSE e \in Route(s, specialists).selected : TRUE]
    BY DEF Prepare
<1>3. /\ worker'[s] # None /\ MayTake(worker'[s], mission.requirements)
      /\ target[s] # NoTarget => worker'[s].profile = target[s]
      /\ DOMAIN worker' = SprintIds /\ \A r \in SprintIds : r # s => worker'[r] = worker[r]
    <2>1. worker'[s] = CHOOSE e \in Route(s, specialists).selected : TRUE
        BY <1>2 DEF IInv, TypeOK
    <2>2. DOMAIN worker' = SprintIds /\ \A r \in SprintIds : r # s => worker'[r] = worker[r]
        BY <1>2 DEF IInv, TypeOK
    <2> QED
        BY <1>2, <2>1, <2>2, SelectedFacts
<1>4. /\ context'[s] = Compiled(s) /\ context'[s] # NoContext /\ HonestContext(Sprint(s), context'[s])
      /\ DOMAIN context' = SprintIds /\ \A r \in SprintIds : r # s => context'[r] = context[r]
    <2>1. context'[s] = Compiled(s)
        BY <1>1 DEF IInv, TypeOK
    <2>2. DOMAIN context' = SprintIds /\ \A r \in SprintIds : r # s => context'[r] = context[r]
        BY <1>1 DEF IInv, TypeOK
    <2> QED
        BY <1>1, <2>1, <2>2, CompiledForSprint DEF IInv
<1>5. /\ pc' \in [SprintIds -> Final \cup {"ready", "working", "executed"}]
      /\ pc'[s] = "working" /\ \A r \in SprintIds : r # s => pc'[r] = pc[r]
    BY <1>1 DEF IInv, TypeOK
<1>6. TypeOK'
    BY <1>1, <1>3, <1>4, <1>5 DEF IInv, TypeOK
<1>7. LaddersEnd'
    BY <1>1, <1>5 DEF IInv, LaddersEnd, Final
<1>8. ContextHonest'
    BY <1>1, <1>4 DEF IInv, ContextHonest, HonestContext, Sprint
<1>9. WorkersMayTake'
    BY <1>1, <1>3 DEF IInv, WorkersMayTake
<1>10. AcceptanceProven'
    BY <1>1, <1>5 DEF IInv, AcceptanceProven, Sprint
<1> QED
    BY <1>6, <1>7, <1>8, <1>9, <1>10 DEF IInv

LEMMA ExecuteIInv ==
    ASSUME IInv, NEW s \in SprintIds, Execute(s)
    PROVE  IInv'
<1>1. /\ pc[s] = "working" /\ pc' = [pc EXCEPT ![s] = "executed"]
      /\ UNCHANGED <<mission, context, worker, target, primary, same, basis>>
    BY DEF Execute, Goto, attempts
<1>2. PICK cp \in Products : latest' = [latest EXCEPT ![s] = Saved(s, cp)]
    BY DEF Execute
<1>3. /\ DOMAIN latest' = SprintIds /\ latest'[s] = Saved(s, cp)
      /\ \A r \in SprintIds : r # s => latest'[r] = latest[r]
    BY <1>2 DEF IInv, TypeOK
<1>4. /\ pc' \in [SprintIds -> Final \cup {"ready", "working", "executed"}]
      /\ pc'[s] = "executed" /\ \A r \in SprintIds : r # s => pc'[r] = pc[r]
    BY <1>1 DEF IInv, TypeOK
<1>5. \A r \in SprintIds : latest'[r] \in {Saved(r, c) : c \in Products} \cup {None}
    BY <1>3 DEF IInv, TypeOK
<1>6. TypeOK'
    BY <1>1, <1>3, <1>4, <1>5 DEF IInv, TypeOK
<1>7. LaddersEnd'
    BY <1>1, <1>4 DEF IInv, LaddersEnd, Final
<1>8. ContextHonest'
    BY <1>1 DEF IInv, ContextHonest, HonestContext, Sprint
<1>9. WorkersMayTake'
    BY <1>1 DEF IInv, WorkersMayTake
<1>10. AcceptanceProven'
    BY <1>1, <1>3, <1>4 DEF IInv, AcceptanceProven, Sprint
<1> QED
    BY <1>6, <1>7, <1>8, <1>9, <1>10 DEF IInv

LEMMA JudgeIInv ==
    ASSUME IInv, NEW s \in SprintIds, Judge(s)
    PROVE  IInv'
<1>1. /\ pc[s] = "executed" /\ UNCHANGED <<mission, latest>>
      /\ context' = [context EXCEPT ![s] = NoContext] /\ worker' = [worker EXCEPT ![s] = None]
    BY DEF Judge
<1>2. \E p, c, n, t, b :
         /\ pc' = [pc EXCEPT ![s] = p] /\ primary' = [primary EXCEPT ![s] = c]
         /\ same' = [same EXCEPT ![s] = n] /\ target' = [target EXCEPT ![s] = t]
         /\ basis' = [basis EXCEPT ![s] = b]
    BY Zenon DEF Judge, Goto
<1>3. /\ DOMAIN pc' = SprintIds /\ DOMAIN primary' = SprintIds /\ DOMAIN same' = SprintIds
      /\ DOMAIN target' = SprintIds /\ DOMAIN basis' = SprintIds
      /\ pc' = [r \in SprintIds |-> pc'[r]] /\ primary' = [r \in SprintIds |-> primary'[r]]
      /\ same' = [r \in SprintIds |-> same'[r]] /\ target' = [r \in SprintIds |-> target'[r]]
      /\ \A r \in SprintIds : r # s =>
            /\ pc'[r] = pc[r] /\ primary'[r] = primary[r] /\ same'[r] = same[r]
            /\ target'[r] = target[r] /\ basis'[r] = basis[r]
    BY <1>2 DEF IInv, TypeOK
<1>4. /\ DOMAIN context' = SprintIds /\ context'[s] = NoContext
      /\ DOMAIN worker' = SprintIds /\ worker'[s] = None
      /\ \A r \in SprintIds : r # s => context'[r] = context[r] /\ worker'[r] = worker[r]
    BY <1>1 DEF IInv, TypeOK
<1>5. /\ pc'[s] \in Final \cup {"ready"}
      /\ pc'[s] = "accepted" => Verdict(s).accepted /\ basis'[s] = Supplied(s)
      /\ primary'[s] \in FailureClasses \cup {"none"}
      /\ same'[s] \in 0..(mission.policy.max_same_retry + 1)
      /\ target'[s] \in {NoTarget, mission.policy.target}
      /\ pc'[s] \notin Final /\ primary'[s] \notin Endless
         => same'[s] <= mission.policy.max_same_retry
    BY Judged DEF IInv
<1>6. TypeOK'
    <2>1. /\ mission' \in Missions
          /\ pc' \in [SprintIds -> Final \cup {"ready", "working", "executed"}]
          /\ target' \in [SprintIds -> {NoTarget, mission'.policy.target}]
          /\ primary' \in [SprintIds -> FailureClasses \cup {"none"}]
          /\ same' \in [SprintIds -> 0..(mission'.policy.max_same_retry + 1)]
        <3>1. ASSUME NEW r \in SprintIds
              PROVE  /\ pc'[r] \in Final \cup {"ready", "working", "executed"}
                     /\ target'[r] \in {NoTarget, mission.policy.target}
                     /\ primary'[r] \in FailureClasses \cup {"none"}
                     /\ same'[r] \in 0..(mission.policy.max_same_retry + 1)
            BY <1>3, <1>5 DEF IInv, TypeOK
        <3>2. mission' = mission /\ mission \in Missions
            BY <1>1 DEF IInv, TypeOK
        <3> QED
            BY <1>3, <3>1, <3>2
    <2>2. ASSUME NEW r \in SprintIds
          PROVE  /\ latest'[r] \in {Saved(r, cp) : cp \in Products} \cup {None}
                 /\ (pc'[r] \in {"working", "executed"}) <=> context'[r] # NoContext
                 /\ (pc'[r] \in {"working", "executed"}) <=> worker'[r] # None
        BY <1>1, <1>3, <1>4, <1>5 DEF IInv, TypeOK, Final
    <2> QED
        BY <1>1, <1>3, <1>4, <2>1, <2>2 DEF IInv, TypeOK
<1>7. LaddersEnd'
    BY <1>1, <1>3, <1>5 DEF IInv, LaddersEnd
<1>8. ContextHonest'
    BY <1>1, <1>4 DEF IInv, ContextHonest, HonestContext, Sprint
<1>9. WorkersMayTake'
    BY <1>1, <1>3, <1>4 DEF IInv, WorkersMayTake
<1>10. AcceptanceProven'
    <2> SUFFICES ASSUME NEW r \in SprintIds, pc'[r] = "accepted"
                 PROVE  /\ latest'[r].outcome = "PASS"
                        /\ latest'[r].status # "REJECTED"
                        /\ \A c \in Sprint(r)'.criteria :
                              c.optional \/ CriterionStatus(c, latest'[r]) = "PASS"
                        /\ \A key \in Sprint(r)'.contract : ContractStatus(key, latest'[r]) = "PASS"
                        /\ \A d \in Sprint(r)'.deps :
                              d \in DOMAIN basis'[r] /\ basis'[r][d].outcome = "PASS"
        BY Zenon DEF AcceptanceProven
    <2>1. Sprint(r)' = Sprint(r) /\ latest' = latest
        BY <1>1 DEF Sprint
    <2>2. CASE r = s
        <3>1. Validate(Sprint(s), latest[s], {Supplied(s)}).accepted /\ basis'[s] = Supplied(s)
            BY <1>5, <2>2 DEF Verdict
        <3> QED
            BY <2>1, <2>2, <3>1, AcceptedMeans DEF Dependencies
    <2>3. CASE r # s
        BY <1>3, <2>1, <2>3 DEF IInv, AcceptanceProven
    <2> QED
        BY <2>2, <2>3
<1> QED
    BY <1>6, <1>7, <1>8, <1>9, <1>10 DEF IInv

LEMMA NextIInv == IInv /\ [Next]_vars => IInv'
<1> SUFFICES ASSUME IInv, [Next]_vars PROVE IInv'
    OBVIOUS
<1>1. CASE Next
    <2>1. PICK s \in SprintIds : Step(s)
        BY <1>1 DEF Next
    <2>2. CASE Unroutable(s) \/ Uncompilable(s)
        BY <2>2, StopIInv
    <2>3. CASE Prepare(s)
        BY <2>3, PrepareIInv
    <2>4. CASE Execute(s)
        BY <2>4, ExecuteIInv
    <2>5. CASE Judge(s)
        BY <2>5, JudgeIInv
    <2> QED
        BY <2>1, <2>2, <2>3, <2>4, <2>5 DEF Step
<1>2. CASE UNCHANGED vars
    BY <1>2 DEF vars, attempts, IInv, TypeOK, LaddersEnd, ContextHonest, HonestContext,
                WorkersMayTake, AcceptanceProven, Sprint
<1> QED
    BY <1>1, <1>2

-----------------------------------------------------------------------------
(* The theorems.                                                           *)

\* IInv holds in every state drivers of bounded execution can reach.
THEOREM Invariant == Spec => []IInv
<1>1. Init => IInv
    BY InitIInv
<1>2. IInv /\ [Next]_vars => IInv'
    BY NextIInv
<1> QED
    BY <1>1, <1>2, PTL DEF Spec

\* The drivers' tables stay tables: who works has a context and a specialist.
THEOREM TypeCorrect == Spec => []TypeOK
<1>1. IInv => TypeOK
    BY DEF IInv
<1> QED
    BY <1>1, Invariant, PTL

\* AttemptState.same_failure_count is a circuit breaker: decide_remediation lets
\* no failure repeat more than max_same_retry times, but for the Endless classes.
THEOREM LaddersAlwaysEnd == Spec => []LaddersEnd
<1>1. IInv => LaddersEnd
    BY DEF IInv
<1> QED
    BY <1>1, Invariant, PTL

\* compile_context keeps the sprint's own state before what it inherits, within
\* the budget, for every order and every size of the texts.
THEOREM ContextAlwaysHonest == Spec => []ContextHonest
<1>1. IInv => ContextHonest
    BY DEF IInv
<1> QED
    BY <1>1, Invariant, PTL

\* route_specialist hands a sprint only to a specialist that passes every gate of
\* its requirements; decide_remediation never takes an escalation back, and from
\* then on the specialist is one of the authorized profile.
THEOREM EscalationAlwaysKept == Spec => EscalationKept
<1> DEFINE Stands == \A s \in SprintIds : target[s] # NoTarget => target'[s] = target[s]
<1>1. IInv => WorkersMayTake
    BY DEF IInv
<1>2. ASSUME IInv, [Next]_vars PROVE Stands \/ UNCHANGED vars
    <2> SUFFICES ASSUME NEW r \in SprintIds, Step(r), NEW s \in SprintIds, target[s] # NoTarget
                 PROVE  target'[s] = target[s]
        BY <1>2, Zenon DEF Next
    <2>1. CASE Judge(r)
        <3>1. DOMAIN target = SprintIds /\ target[r] \in {NoTarget, mission.policy.target}
            BY <1>2 DEF IInv, TypeOK
        <3>2. \E t \in {NoTarget, mission.policy.target} :
                  target' = [target EXCEPT ![r] = IF t # NoTarget THEN t ELSE @]
            BY <2>1 DEF Judge, Decide
        <3> QED
            BY <3>1, <3>2
    <2>2. CASE Unroutable(r) \/ Uncompilable(r) \/ Prepare(r) \/ Execute(r)
        BY <2>2, Zenon DEF Unroutable, Uncompilable, Prepare, Execute, attempts
    <2> QED
        BY <2>1, <2>2 DEF Step
<1>3. IInv /\ [Next]_vars => [Stands]_vars
    BY <1>2
<1> QED
    BY <1>1, <1>3, Invariant, PTL DEF Spec, EscalationKept

\* An accepted sprint is one whose every criterion was read and found satisfied.
THEOREM AcceptanceAlwaysProven == Spec => []AcceptanceProven
<1>1. IInv => AcceptanceProven
    BY DEF IInv
<1> QED
    BY <1>1, Invariant, PTL

\* A sprint with a dependency that has not passed is judged once: no escalation
\* and no retry is spent on it.
THEOREM BlockedSprintsStop == Spec => BlockedSprintStops
<1> DEFINE Stops == \A s \in SprintIds :
               /\ pc[s] = "executed"
               /\ pc'[s] # "executed"
               /\ \E d \in Sprint(s).deps : latest[d].outcome # "PASS"
               => pc'[s] \in {"halted", "human"}
<1>1. ASSUME IInv, [Next]_vars PROVE Stops
    <2> SUFFICES ASSUME NEW s \in SprintIds, pc[s] = "executed", pc'[s] # "executed",
                        \E d \in Sprint(s).deps : latest[d].outcome # "PASS"
                 PROVE  pc'[s] \in {"halted", "human"}
        OBVIOUS
    <2>1. PICK r \in SprintIds : Step(r)
        BY <1>1 DEF Next, vars
    <2>2. \E p : pc' = [pc EXCEPT ![r] = p]
        BY <2>1, Zenon DEF Step, Unroutable, Uncompilable, Prepare, Execute, Judge, Goto
    <2>3. r = s
        BY <1>1, <2>2 DEF IInv, TypeOK
    <2>4. Judge(s)
        BY <2>1, <2>3 DEF Step, Unroutable, Uncompilable, Prepare, Execute
    <2>5. ~Dependencies(Sprint(s), Supplied(s))
        <3>1. PICK d \in Sprint(s).deps : latest[d].outcome # "PASS"
            OBVIOUS
        <3>2. d \in DOMAIN Supplied(s) => Supplied(s)[d] = latest[d]
            BY DEF Supplied
        <3> QED
            BY <3>1, <3>2 DEF Dependencies
    <2> QED
        BY <1>1, <2>4, <2>5, Judged DEF IInv
<1>2. IInv /\ [Next]_vars => [Stops]_vars
    BY <1>1
<1> QED
    BY <1>2, Invariant, PTL DEF Spec, BlockedSprintStops

=============================================================================
