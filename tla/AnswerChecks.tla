---------------------------- MODULE AnswerChecks ----------------------------
(***************************************************************************)
(* The checks a final answer has to pass (meizex_mrw/verifier.py,          *)
(* format_constraint.py, context_contradiction.py).  An answer is the set  *)
(* of traits their patterns find in it, the paths it names and the one     *)
(* number it states; a tool call is what the worker recorded of it.        *)
(***************************************************************************)
EXTENDS Integers, Sequences

CONSTANTS Paths,            \* what an answer or a tool call may name
          NoNumber          \* no number, or more than one

Formats == {"exact_word", "bare_number", "single_word", "json_keys", "list_count"}
Traits == Formats \cup
    {"empty", "markup", "json", "fenced_json", "tool_code", "tool_claim",
     "passive_claim", "truncated", "read_claim", "error_hint", "all_values",
     "hedge", "bare_yes_no"}

\* Some traits come with others: JSON with the right keys is JSON.  A bare number
\* need not be: 42 is JSON, 2,5 and 007 are not, and all three are bare.
WellFormed(a) ==
    /\ a.traits \subseteq Traits
    /\ a.paths \subseteq Paths
    /\ "json_keys" \in a.traits => "json" \in a.traits
    /\ "empty" \in a.traits => a.traits = {"empty"} /\ a.paths = {} /\ a.number = NoNumber

-----------------------------------------------------------------------------
(* format_constraint.py and context_contradiction.py: they read the request. *)

FormatViolated(request, a) ==
    request.format \in Formats \ a.traits

ConflictIgnored(request, a) ==
    \/ request.conflict = "measurements" /\ "all_values" \notin a.traits
    \/ request.conflict = "claims" /\ "bare_yes_no" \in a.traits /\ "hedge" \notin a.traits

-----------------------------------------------------------------------------
(* verifier.py: it reads the answer, the calls made and the tools offered. *)

RawToolBlock(a) == a.traits \cap {"markup", "json", "fenced_json"} # {}

EntriesOf(executed) == {executed[i] : i \in DOMAIN executed}

\* Exactly one successful call returned a single number, and the answer
\* states another one.
NumericMismatch(a, executed) ==
    LET numeric == {i \in DOMAIN executed :
                        executed[i].ok /\ executed[i].number # NoNumber}
    IN /\ a.number # NoNumber
       /\ \E i \in numeric : numeric = {i} /\ executed[i].number # a.number

\* The evidence is every call's arguments and result, a failed call's too.
Evidence(executed) == UNION {{e.path} \cup e.found : e \in EntriesOf(executed)}

UnseenPath(a, executed, offered) ==
    /\ offered # {}
    /\ a.paths \ Evidence(executed) # {}
    /\ executed # <<>> \/ "read_claim" \in a.traits

FailureHidden(a, executed) ==
    /\ \E e \in EntriesOf(executed) : ~e.ok
    /\ "error_hint" \notin a.traits

FalseClaim(a, executed) ==
    /\ executed = <<>>
    /\ a.traits \cap {"tool_claim", "passive_claim"} # {}

\* verify_synthesis: the checks in their order; the first that speaks decides.
Verdict(a, executed, offered) ==
    IF "empty" \in a.traits \/ RawToolBlock(a) THEN "FAIL"
    ELSE IF "tool_code" \in a.traits THEN "RETRY"
    ELSE IF FalseClaim(a, executed) THEN "FAIL"
    ELSE IF "truncated" \in a.traits THEN "RETRY"
    ELSE IF NumericMismatch(a, executed) \/ UnseenPath(a, executed, offered) THEN "FAIL"
    ELSE IF FailureHidden(a, executed) THEN "RETRY"
    ELSE "PASS"
=============================================================================
