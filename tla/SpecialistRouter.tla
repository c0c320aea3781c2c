-------------------------- MODULE SpecialistRouter --------------------------
(***************************************************************************)
(* route_specialist (meizex_air/specialist_router.py) with the profile     *)
(* checks it takes from execution_profiles.py: who may execute a sprint.   *)
(* A specialist's capabilities and its supports_ flags are one set offers, *)
(* what the requirements ask of them is one set needs; ids are numbers in  *)
(* the order of specialist_id.                                             *)
(***************************************************************************)
EXTENDS Orders, Sequences

Unknown == -1                 \* an Optional that is None
AnyMode == "any"              \* execution_mode_constraints=None
NoProfile == "none"           \* execution_profile_ref=None

SpecialistKinds == 
    {"DETERMINISTIC_PYTHON", "LOCAL_LLM", "CLOUD_LLM", "HARNESS", "MCP", "API", "CLI",
     "FILESYSTEM", "STRUCTURED_AUTOMATION", "HUMAN"}

Scopes == {"LOCAL", "HYBRID", "CLOUD"}

ValidRequirements(r) ==
    /\ r.probabilistic \in BOOLEAN /\ r.network \in BOOLEAN /\ r.human_approval \in BOOLEAN
    /\ r.cloud_policy \in {"YES", "NO", "CONDITIONAL"}
    /\ r.modes = AnyMode \/ r.modes \subseteq Scopes
    /\ r.min_context \in Nat \cup {Unknown}
    /\ (r.preferred \cup r.forbidden) \subseteq SpecialistKinds

SpecialistFields ==
    {"id", "kind", "profile", "scope", "offers", "classifications", "available",
     "priority", "cost", "latency"}

ValidSpecialist(s) ==
    /\ s = [f \in SpecialistFields |-> s[f]]
    /\ s.id \in Nat
    /\ s.kind \in SpecialistKinds
    /\ s.scope \in Scopes
    /\ s.available \in BOOLEAN
    /\ s.priority \in Int
    /\ {s.cost, s.latency} \subseteq 0..3

(* execution_profiles.py *)

\* evaluate_hardware_preflight never answers FAIL: a CPU-only profile has its
\* offload corrected to 0, an unknown one stays unknown.
HardwareFit(profile) == IF profile.gpu = "unknown" THEN "UNKNOWN" ELSE "PASS"

ContextFit(capacity, required) ==
    CASE Unknown \in {capacity, required} -> "UNKNOWN"
      [] capacity # Unknown /\ required # Unknown /\ required <= capacity -> "FITS"
      [] OTHER -> "DOES_NOT_FIT"

(* specialist_router.py *)

IsHuman(s) == s.kind = "HUMAN"

\* The reasons that do not look at what the specialist can do.
PolicyReasons(r, s) ==
    {reason \in {"SPECIALIST_KIND_FORBIDDEN", "HUMAN_APPROVAL_REQUIRED",
                 "NETWORK_FORBIDDEN", "DATA_POLICY_FORBIDDEN", "UNAVAILABLE"} :
        CASE reason = "SPECIALIST_KIND_FORBIDDEN" -> s.kind \in r.forbidden
          [] reason = "HUMAN_APPROVAL_REQUIRED" -> r.human_approval /\ ~IsHuman(s)
          [] reason = "NETWORK_FORBIDDEN" ->
                \/ r.cloud_policy = "NO" /\ s.scope \in {"HYBRID", "CLOUD"}
                \/ r.network /\ s.scope = "LOCAL" /\ "NETWORK_ACCESS" \notin s.offers
          [] reason = "DATA_POLICY_FORBIDDEN" -> r.classification \notin s.classifications
          [] OTHER -> ~s.available}

\* A human is exempt from the technical ones.
AbilityReasons(r, s) ==
    (IF r.probabilistic /\ s.kind = "DETERMINISTIC_PYTHON"
     THEN {"PROBABILISTIC_REASONING_REQUIRED"} ELSE {})
    \cup (IF ~IsHuman(s) /\ ~(r.needs \subseteq s.offers)
          THEN {"MISSING_CAPABILITY"} ELSE {})

\* The target forgotten.
TargetIgnored(r, s, target) == r.modes # AnyMode /\ s.scope \notin r.modes

\* The profile a remediation decision authorized is the only one left.
ProfileMismatch(r, s, target) ==
    \/ r.modes # AnyMode /\ s.scope \notin r.modes
    \/ target # NoProfile /\ s.profile # target

\* profiles: the resolved profiles, possibly not this one.
ProfileReasons(r, s, target, profiles) ==
    (IF ProfileMismatch(r, s, target) THEN {"PROFILE_MISMATCH"} ELSE {})
    \cup (IF /\ s.profile \in DOMAIN profiles
             /\ \/ HardwareFit(profiles[s.profile]) = "FAIL"
                \/ /\ r.min_context # Unknown
                   /\ ContextFit(profiles[s.profile].capacity, r.min_context) # "FITS"
          THEN {"RESOURCE_MISMATCH"} ELSE {})

Reasons(r, s, target, profiles) ==
    PolicyReasons(r, s) \cup AbilityReasons(r, s) \cup ProfileReasons(r, s, target, profiles)

Eligible(r, specialists, target, profiles) ==
    {s \in specialists : Reasons(r, s, target, profiles) = {}}

\* Lower wins: deterministic first, preferred kind, priority, cost, latency.
Rank(r, s) ==
    <<IF ~r.probabilistic /\ s.kind # "DETERMINISTIC_PYTHON" THEN 1 ELSE 0,
      IF s.kind \in r.preferred THEN 0 ELSE 1,
      s.priority, s.cost, s.latency>>

\* The tie-break is the id.
RankKey(r, s) == Append(Rank(r, s), s.id)

Outranks(r, s, t) == RankKey(r, s) = RankKey(r, t) \/ Before(RankKey(r, s), RankKey(r, t))

Winner(r, eligible) == CHOOSE s \in eligible : \A t \in eligible : Outranks(r, s, t)

Confidence(r, eligible) ==
    CASE Cardinality(eligible) = 1 -> "DETERMINISTIC"
      [] \E s \in eligible \ {Winner(r, eligible)} : Rank(r, s) = Rank(r, Winner(r, eligible)) ->
            "AMBIGUOUS"
      [] OTHER -> "RANKED"

\* HUMAN_REQUIRED names the first human of the registry, eligible or not.
FirstHuman(specialists) ==
    LET humans == {s \in specialists : IsHuman(s)}
    IN IF humans = {} THEN {} ELSE {CHOOSE s \in humans : \A t \in humans : s.id <= t.id}

RouteSpecialist(r, specialists, target, profiles, allow_hitl) ==
    LET eligible == Eligible(r, specialists, target, profiles)
    IN CASE eligible # {} ->
              [outcome |-> "SELECTED", selected |-> {Winner(r, eligible)},
               strength |-> Confidence(r, eligible)]
         [] eligible = {} /\ allow_hitl ->
              [outcome |-> "HUMAN_REQUIRED", selected |-> FirstHuman(specialists),
               strength |-> "ABSTAINED"]
         [] OTHER ->
              [outcome |-> "NO_ELIGIBLE_SPECIALIST", selected |-> {},
               strength |-> "ABSTAINED"]

=============================================================================
