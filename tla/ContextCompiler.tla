-------------------------- MODULE ContextCompiler --------------------------
(***************************************************************************)
(* compile_context (meizex_air/context_compiler.py): the bounded working   *)
(* set of one sprint.  Items (facts, questions, evidence refs) are numbers *)
(* in the order of their texts; Tokens is estimate_tokens.                 *)
(***************************************************************************)
EXTENDS BoundedExecution, Orders, SequencesExt

CONSTANTS Texts,              \* the texts of facts, questions and evidence refs
          Tokens(_),          \* estimate_tokens of a text
          Notice(_)           \* the question "dependency d did not PASS"

ASSUME TextsAssumption == Texts \subseteq Nat /\ \A t \in Texts : Tokens(t) \in Nat

TextList(texts) == texts \subseteq Texts /\ IsFiniteSet(texts)

Items(kind, values, from) ==
    LET sorted == Sorted(values)
    IN [i \in DOMAIN sorted |-> [kind |-> kind, value |-> sorted[i], from |-> from]]

\* The sequences of every tier, one after the other.
Concat(tiers) == FlattenSeq(tiers)

Own == 0                      \* an item of the sprint itself

\* P1: the current sprint's own state.
OwnItems(sprint) ==
    Items("fact", sprint.facts, Own) \o Items("question", sprint.questions, Own)
    \o Items("evidence", sprint.evidence, Own)

\* The texts a sprint brings along itself, each with its kind.
OwnTexts(sprint) ==
    ({"fact"} \X sprint.facts) \cup ({"question"} \X sprint.questions)
    \cup ({"evidence"} \X sprint.evidence)

\* What a dependency that passed contributes, and one that did not.
TrustedItems(d, cp) ==
    Items("fact", cp.paths \cup cp.findings, d) \o Items("evidence", cp.evidence, d)

DistrustedItems(d, cp) ==
    Items("question", {Notice(d)}, d) \o Items("question", cp.questions, d)
    \o Items("question", cp.unresolved, d)

Passed(deps) == {d \in DOMAIN deps : deps[d].outcome = "PASS"}

\* P2 (dependencies that passed), then P3 (those that did not).
InheritedItems(deps) ==
    LET trusted == Sorted(Passed(deps))
        distrusted == Sorted(DOMAIN deps \ Passed(deps))
    IN Concat([i \in DOMAIN trusted |-> TrustedItems(trusted[i], deps[trusted[i]])])
       \o Concat([i \in DOMAIN distrusted |->
                     DistrustedItems(distrusted[i], deps[distrusted[i]])])

\* The sprint's own state last.
InheritedFirst(sprint, deps) == InheritedItems(deps) \o OwnItems(sprint)

Prioritized(sprint, deps) == OwnItems(sprint) \o InheritedItems(deps)

Nothing(core) == [items |-> {}, tokens |-> core, omitted |-> <<>>]

\* _try_add_fact, _try_add_question, _try_add_evidence: whole items, each text
\* once, skip what does not fit and go on.
TryAdd(ctx, item, budget) ==
    LET held == \E i \in ctx.items : i.kind = item.kind /\ i.value = item.value
    IN CASE held -> ctx
         [] ~held /\ ctx.tokens + Tokens(item.value) <= budget ->
              [ctx EXCEPT !.items = @ \cup {item}, !.tokens = @ + Tokens(item.value)]
         [] OTHER -> [ctx EXCEPT !.omitted = Append(@, item)]

\* The context after the first n of the items offered, for every n.
Selection(sprint, deps) ==
    LET offered == Prioritized(sprint, deps)
        taken[n \in 0..Len(offered)] ==
            IF n = 0 THEN Nothing(sprint.core)
            ELSE TryAdd(taken[n - 1], offered[n], sprint.token_budget)
    IN taken[Len(offered)]

\* The fail-closed errors, in the order they are raised.
Refusal(plan, sprint, deps) ==
    CASE ~BelongsToPlan(plan, sprint) -> "invalid_input"
      [] \E d \in DOMAIN deps \cap sprint.deps : deps[d].mission # sprint.mission ->
            "invalid_dependency_state"
      [] ~(sprint.deps \subseteq DOMAIN deps) -> "dependency_checkpoint_missing"
      [] sprint.core > sprint.token_budget -> "budget_unsatisfiable"
      [] OTHER -> "none"

\* deps is cut to the declared dependencies whatever the caller passed.
Compile(plan, sprint, deps) ==
    LET declared == [d \in DOMAIN deps \cap sprint.deps |-> deps[d]]
        refusal == Refusal(plan, sprint, deps)
        chosen == Selection(sprint, declared)
    IN IF refusal # "none" THEN [error |-> refusal]
       ELSE [error |-> "none",
             items |-> chosen.items,
             tokens |-> chosen.tokens,
             truncated |-> chosen.omitted # <<>>,
             thinned |-> {chosen.omitted[i].from : i \in DOMAIN chosen.omitted} \ {Own},
             sources |-> DOMAIN declared]

=============================================================================
