-------------------------- MODULE CapabilityRouter --------------------------
(***************************************************************************)
(* capabilities/router.py: from a mission to an execution plan.  A message *)
(* is classified into capability requirements by the first descriptor that *)
(* matches; for each requirement the resources of the registry are         *)
(* filtered, ranked and one is chosen; the route then concludes.           *)
(*                                                                         *)
(* A message is the set of word groups it hits.  A resource's id is its    *)
(* place in the order of ids, named the executors its id text stands for.  *)
(***************************************************************************)
EXTENDS Orders, Sequences

CONSTANTS Queries             \* what route() may be called with and find

\* The outputs of a rule: a list, each entry required or optional.
OutputList(outputs) ==
    /\ outputs \in Seq({outputs[j] : j \in DOMAIN outputs})
    /\ \A j \in DOMAIN outputs : outputs[j].required \in BOOLEAN

\* A finite registry in which an id names one resource, and a document whose
\* rules list their outputs.
ASSUME QueriesAssumption == \A q \in Queries :
    /\ q.economy \in {"economical", "maximum", "balance"}
    /\ IsFiniteSet(q.registry.resources)
    /\ \A c \in q.registry.resources : c.id \in Int
    /\ \A c, d \in q.registry.resources : c.id = d.id => c = d
    /\ DOMAIN q.document.rules \subseteq Nat
    /\ \A i \in DOMAIN q.document.rules : OutputList(q.document.rules[i].outputs)

VARIABLES query,              \* mission, document, registry, profile, economy
          pc,
          left,               \* the requirements still to route
          plan,               \* steps, with selected and preferred resources
          degradations,       \* degradation_reasons
          unroutable,         \* has_required_unroutable
          unexecutable,       \* has_required_no_executor
          status              \* route_status

vars == <<query, pc, left, plan, degradations, unroutable, unexecutable, status>>

(* descriptors.py, requirements.py *)

Needs(capability, required, modality, preferred, least) ==
    [capability |-> capability, required |-> required, modality |-> modality,
     cloud |-> FALSE, preferred |-> preferred, least |-> least]

NoModality == "any"
NoKind == "any"
AnyEvidence == "FOUND_NOT_TESTED_ALLOWED"

Plainly(capability, required) == Needs(capability, required, NoModality, NoKind, AnyEvidence)

\* A rule is fit unless an output names a kind or a level of evidence that no
\* requirement has: the document's own schema takes any text for both.
Rule(groups, path, outputs) ==
    [groups |-> groups, path |-> path, outputs |-> outputs, fit |-> TRUE]

\* A rule's groups: at least one word of each.
EmbeddedDescriptors == <<
    Rule({{"image"}, {"person"}}, FALSE,
         <<Needs("person_detection", TRUE, "image", "detector", "VALIDATED_REQUIRED"),
           Needs("object_detection", FALSE, "image", "detector", AnyEvidence)>>),
    Rule({{"document"}, {"extract"}}, FALSE,
         <<Needs("document_parsing", TRUE, "pdf", NoKind, AnyEvidence), Plainly("ocr", FALSE)>>),
    Rule({{"audio"}, {"transcribe"}}, FALSE,
         <<Needs("speech_to_text", TRUE, "audio", NoKind, AnyEvidence)>>),
    Rule({{"sum"}, {"records"}}, FALSE, <<Plainly("deterministic_processing", TRUE)>>),
    Rule({{"repository"}, {"bug"}}, FALSE,
         <<Plainly("coding", TRUE), Plainly("general_reasoning", TRUE),
           Plainly("filesystem_read", FALSE)>>),
    Rule({{"summarize"}}, FALSE,
         <<Plainly("general_reasoning", TRUE), Plainly("summarization", FALSE)>>),
    Rule({{"analyze"}, {"file", "repository"}}, TRUE, <<Plainly("filesystem_read", TRUE)>>)>>

\* The file of descriptors: [state, rules], missing, malformed or read.
LoadDescriptors(document) ==
    IF document.state = "missing" THEN EmbeddedDescriptors ELSE document.rules

Matches(rule, mission) ==
    \/ rule.path /\ "path" \in mission.words
    \/ \A group \in rule.groups : group \cap mission.words # {}

Hits(mission, rules) == {i \in DOMAIN rules : Matches(rules[i], mission)}

First(hits) == CHOOSE i \in hits : \A j \in hits : i <= j

\* The first rule that matches; no requirement for a message under three letters.
Requirements(mission, document) ==
    LET rules == LoadDescriptors(document)
        hits == Hits(mission, rules)
    IN IF mission.short \/ hits = {} THEN <<>> ELSE rules[First(hits)].outputs

\* The ValidationError of a requirement made from a rule that is not fit.
Refused(mission, document) ==
    LET rules == LoadDescriptors(document)
        hits == Hits(mission, rules)
    IN ~mission.short /\ hits # {} /\ ~rules[First(hits)].fit

(* registry.py *)

Position(order, x) == CHOOSE i \in DOMAIN order : order[i] = x

ValidationOrder == <<"VALIDATED", "OBSERVED", "DECLARED", "FOUND_NOT_TESTED">>

\* CAPABILITY_ALIASES, for the capabilities of EmbeddedDescriptors; the labels
\* of one capability in the order of their texts.
Aliases(capability) ==
    CASE capability = "general_reasoning" -> <<"reasoning", "summarization", "text-generation">>
      [] capability = "summarization" -> <<"summarization", "text-generation">>
      [] capability = "filesystem_read" -> <<"filesystem-analysis", "routing">>
      [] capability = "document_parsing" -> <<"document-parsing", "form-field-extraction">>
      [] capability = "ocr" -> <<"ocr", "text-extraction">>
      [] capability = "object_detection" -> <<"object-detection">>
      [] capability = "person_detection" -> <<"object-detection", "person-detection">>
      [] capability = "speech_to_text" -> <<"speech-to-text", "transcription">>
      [] capability = "deterministic_processing" ->
            <<"bm25-search", "filesystem-analysis", "fts5", "routing">>
      [] OTHER -> <<capability>>

\* validated maps a label to a truth value.
Labels(resource) == resource.declared \cup DOMAIN resource.validated

Satisfying(resource, capability) ==
    {i \in DOMAIN Aliases(capability) : Aliases(capability)[i] \in Labels(resource)}

Found(registry, capability) ==
    {resource \in registry.resources : Satisfying(resource, capability) # {}}

Matched(resource, capability) ==
    LET hits == Satisfying(resource, capability)
    IN Aliases(capability)[CHOOSE i \in hits : \A j \in hits : i <= j]

\* validation_level: never inherited from another label.
Evidence(resource, capability) ==
    LET label == Matched(resource, capability)
    IN IF label \in DOMAIN resource.validated /\ resource.validated[label] THEN "VALIDATED"
       ELSE CASE resource.status = "AVAILABLE" -> "OBSERVED"
              [] resource.status = "FOUND_NOT_TESTED" -> "FOUND_NOT_TESTED"
              [] OTHER -> "DECLARED"

Strength(resource, capability) == Position(ValidationOrder, Evidence(resource, capability))

(* executor_compat.py *)

ExecutorCompatible(resource) ==
    \/ resource.kind = "tool" /\ "mrw-deterministic-router" \in resource.named
    \/ resource.kind = "mcp" \/ "mcp" \in resource.named
    \/ resource.kind \in {"slm", "llm", "vlm"}
    \/ resource.boundary = "PROCESS"

(* ranking.py *)

LlmKinds == {"llm", "slm", "vlm", "api"}
SpecializedKinds == {"detector", "parser", "tool", "embedding", "library", "mcp"}

CostTier(kind) == CASE kind = "slm" -> 1 [] kind \in {"llm", "vlm", "api"} -> 3 [] OTHER -> 2
QualityTier(kind) == IF kind \in {"llm", "vlm", "api"} THEN 3 ELSE 2

\* Positions in ValidationOrder.
Threshold(policy) ==
    CASE policy = "VALIDATED_REQUIRED" -> 1 [] policy = "OBSERVED_OR_BETTER" -> 2 [] OTHER -> 4

Mark(holds) == IF holds THEN 0 ELSE 1

EconomyKey(kind, economy) ==
    CASE economy = "economical" -> <<CostTier(kind), -QualityTier(kind)>>
      [] economy = "maximum" -> <<-QualityTier(kind), CostTier(kind)>>
      [] OTHER -> <<QualityTier(kind) - 2, CostTier(kind)>>

\* What can run ranked above what is known to be better.
AvailableFirst(requirement, c, economy) ==
    <<Mark(c.available), Strength(c, requirement.capability)>>
    \o EconomyKey(c.kind, economy) \o <<c.id>>

\* deterministic_preferred weighs all candidates alike and is left out.
RankKey(requirement, c, economy) ==
    <<Strength(c, requirement.capability),
      Mark(requirement.preferred # NoKind /\ c.kind = requirement.preferred),
      Mark(c.kind \in SpecializedKinds),
      Mark(c.local /\ ~c.cloud_required),
      Mark(c.available)>> \o EconomyKey(c.kind, economy) \o <<c.id>>

Best(requirement, candidates, economy) ==
    CHOOSE c \in candidates : \A d \in candidates \ {c} :
        Before(RankKey(requirement, c, economy), RankKey(requirement, d, economy))

(* router.py *)

\* profile is [cloud, grid, least, kinds, hardware], where cloud says
\* cloud_allowed and not local_only and kinds holds the set of kinds allowed, or
\* nothing when the profile names none; an empty set allows no kind.  Without a
\* profile nothing is forbidden but the grid.
NoProfile == [cloud |-> TRUE, grid |-> FALSE, least |-> AnyEvidence,
              kinds |-> {}, hardware |-> {}]

\* The profile's own cloud switches forgotten.
CloudByRequirement(requirement, profile) == requirement.cloud

CloudAllowed(requirement, profile) == requirement.cloud /\ profile.cloud

\* The stricter of the requirement's evidence policy and the profile's.
Policy(requirement, profile) ==
    IF /\ requirement.least # "VALIDATED_REQUIRED"
       /\ \/ profile.least = "VALIDATED_REQUIRED"
          \/ requirement.least = AnyEvidence
    THEN profile.least
    ELSE requirement.least

\* The gates after the location's are alternatives of one elif chain, in which
\* a profile with hardware constraints takes the place of what follows.
EvidenceGates(resource, requirement, profile) ==
    CASE requirement.modality \notin resource.modalities \cup {NoModality} ->
            "input_modality_incompatible"
      [] /\ requirement.modality \in resource.modalities \cup {NoModality}
         /\ Strength(resource, requirement.capability) > Threshold(Policy(requirement, profile)) ->
            "validation_required_not_met"
      [] OTHER -> IF ExecutorCompatible(resource) THEN "none" ELSE "no_compatible_executor"

KindForbidden(resource, profile) == \E allowed \in profile.kinds : resource.kind \notin allowed

LegacyGates(resource, requirement, profile) ==
    IF /\ ~CloudAllowed(requirement, profile)
       /\ resource.cloud_required \/ ~resource.local
    THEN "cloud_forbidden"
    ELSE CASE KindForbidden(resource, profile) ->
                "profile_resource_kind_forbidden"
           [] ~KindForbidden(resource, profile) /\ profile.hardware # {} ->
                IF profile.hardware \subseteq resource.hardware THEN "none"
                ELSE "profile_hardware_constraint_not_met"
           [] OTHER -> EvidenceGates(resource, requirement, profile)

\* A resource with a location is asked for nothing else.
Exclusion(resource, requirement, profile) ==
    CASE resource.location = "grid" -> IF profile.grid THEN "none" ELSE "grid_forbidden"
      [] resource.location = "cloud" ->
            IF CloudAllowed(requirement, profile) THEN "none" ELSE "cloud_forbidden"
      [] resource.location = "local" -> "none"
      [] OTHER -> LegacyGates(resource, requirement, profile)

Candidates(requirement) ==
    {c \in Found(query.registry, requirement.capability) :
        Exclusion(c, requirement, query.profile) = "none"}

DeadEnd(requirement) ==
    \E c \in Found(query.registry, requirement.capability) :
        Exclusion(c, requirement, query.profile) = "no_compatible_executor"

Init ==
    /\ query \in Queries
    /\ pc = "derive"
    /\ left = <<>> /\ plan = <<>> /\ degradations = {}
    /\ unroutable = FALSE /\ unexecutable = FALSE
    /\ status = "none"

\* DescriptorLoadError, a ValidationError, or RegistryLoadError once there is
\* something to find.
Raise ==
    /\ \/ pc = "derive" /\ ~query.mission.short /\ query.document.state = "malformed"
       \/ pc = "derive" /\ Refused(query.mission, query.document)
       \/ pc = "routing" /\ left # <<>> /\ query.registry.broken
    /\ pc' = "raised"
    /\ UNCHANGED <<query, left, plan, degradations, unroutable, unexecutable, status>>

Derive ==
    /\ pc = "derive"
    /\ query.mission.short \/ query.document.state # "malformed"
    /\ ~Refused(query.mission, query.document)
    /\ left' = Requirements(query.mission, query.document)
    /\ pc' = "routing"
    /\ UNCHANGED <<query, plan, degradations, unroutable, unexecutable, status>>

Routing == pc = "routing" /\ left # <<>> /\ ~query.registry.broken

\* Nothing is within policy.
NoCandidate ==
    /\ Routing
    /\ Candidates(Head(left)) = {}
    /\ unexecutable' = (unexecutable \/ (Head(left).required /\ DeadEnd(Head(left))))
    /\ unroutable' = (unroutable \/ (Head(left).required /\ ~DeadEnd(Head(left))))
    /\ left' = Tail(left)
    /\ UNCHANGED <<query, pc, plan, degradations, status>>

Available(requirement) == {c \in Candidates(requirement) : c.available}

\* The next requirement, whatever this one was.
PassOver ==
    /\ Routing
    /\ Candidates(Head(left)) # {} /\ Available(Head(left)) = {}
    /\ left' = Tail(left)
    /\ UNCHANGED <<query, pc, plan, degradations, unroutable, unexecutable, status>>

\* Something is within policy and nothing of it can run.
NoneAvailable ==
    /\ Routing
    /\ Candidates(Head(left)) # {} /\ Available(Head(left)) = {}
    /\ unroutable' = (unroutable \/ Head(left).required)
    /\ left' = Tail(left)
    /\ UNCHANGED <<query, pc, plan, degradations, unexecutable, status>>

Selected == {plan[i].resource : i \in DOMAIN plan}

\* A step for every choice, also of a resource chosen before.
StepAlways(chosen, step) == Append(plan, step)

StepOnce(chosen, step) == IF chosen \in Selected THEN plan ELSE Append(plan, step)

DegradationReason(requirement, best_known) ==
    IF Evidence(best_known, requirement.capability) = "VALIDATED"
    THEN "validated_candidate_unavailable" ELSE "best_known_candidate_unavailable"

Select ==
    /\ Routing
    /\ Available(Head(left)) # {}
    /\ LET requirement == Head(left)
           best_known == Best(requirement, Candidates(requirement), query.economy)
           chosen == Best(requirement, Available(requirement), query.economy)
           reason == IF chosen = best_known THEN {}
                     ELSE {DegradationReason(requirement, best_known)}
       IN /\ degradations' = degradations \cup reason
          /\ plan' = StepOnce(chosen.id, [capability |-> requirement.capability,
                                          resource |-> chosen.id, kind |-> chosen.kind,
                                          best_known |-> best_known.id,
                                          degraded |-> reason # {}])
    /\ left' = Tail(left)
    /\ UNCHANGED <<query, pc, unroutable, unexecutable, status>>

\* A required capability is missing: no plan at all.
FailClosed ==
    /\ pc = "routing" /\ left = <<>>
    /\ unexecutable \/ unroutable
    /\ plan' = <<>> /\ degradations' = {}
    /\ status' = IF unexecutable THEN "NO_EXECUTABLE_RESOURCE" ELSE "NO_ELIGIBLE_RESOURCE"
    /\ pc' = "done"
    /\ UNCHANGED <<query, left, unroutable, unexecutable>>

Conclude ==
    /\ pc = "routing" /\ left = <<>>
    /\ ~unexecutable /\ ~unroutable
    /\ status' = CASE degradations # {} -> "DEGRADED"
                   [] degradations = {} /\ plan # <<>> -> "NORMAL"
                   [] OTHER -> "NO_ELIGIBLE_RESOURCE"
    /\ pc' = "done"
    /\ UNCHANGED <<query, left, plan, degradations, unroutable, unexecutable>>

LlmRequired == \E i \in DOMAIN plan : plan[i].kind \in LlmKinds

Next ==
    \/ Raise \/ Derive \/ NoCandidate \/ NoneAvailable \/ Select
    \/ FailClosed \/ Conclude

Spec == Init /\ [][Next]_vars

-----------------------------------------------------------------------------
(* Properties.                                                             *)

Statuses == {"none", "NORMAL", "DEGRADED", "NO_ELIGIBLE_RESOURCE", "NO_EXECUTABLE_RESOURCE"}

Wanted == Requirements(query.mission, query.document)

Resource(id) == CHOOSE c \in query.registry.resources : c.id = id

\* Types; a resource is selected once.
TypeOK ==
    /\ pc \in {"derive", "routing", "done", "raised"}
    /\ \A i \in DOMAIN plan : \E c \in query.registry.resources : c.id = plan[i].resource
    /\ Cardinality(Selected) = Len(plan)
    /\ degradations \subseteq {"validated_candidate_unavailable",
                               "best_known_candidate_unavailable"}
    /\ unroutable \in BOOLEAN /\ unexecutable \in BOOLEAN
    /\ status \in Statuses
    /\ status \in {"NORMAL", "DEGRADED"} <=> pc = "done" /\ plan # <<>>

\* "Never a partial plan that looks executable while a required step is
\* missing": if there is a plan, it covers each required capability with a
\* resource that is available and in whose place no gate stands.
RequiredCovered == pc = "done" /\ plan # <<>> =>
    \A i \in DOMAIN Wanted : Wanted[i].required =>
        \E id \in Selected : Resource(id) \in Available(Wanted[i])

\* Cloud and grid are entered on explicit permission of the requirement and of
\* the profile, never as what is left over when something else is unavailable.
OptInOnly == \A id \in Selected :
    LET c == Resource(id)
    IN /\ c.location = "grid" => query.profile.grid
       /\ c.location = "cloud" \/ (c.location = "unset" /\ (c.cloud_required \/ ~c.local))
          => /\ query.profile.cloud
             /\ \E i \in DOMAIN Wanted : Wanted[i].cloud /\ c \in Candidates(Wanted[i])

\* A route that does not say DEGRADED runs, for every required capability, a
\* resource with evidence as good as that of any resource policy admits.
DegradedHonest == pc = "done" /\ status = "NORMAL" =>
    \A i \in DOMAIN Wanted : Wanted[i].required =>
        \A c \in Candidates(Wanted[i]) : \E id \in Selected :
            /\ Resource(id) \in Candidates(Wanted[i])
            /\ Strength(Resource(id), Wanted[i].capability)
                 <= Strength(c, Wanted[i].capability)

\* "A validation policy of VALIDATED_REQUIRED fails closed rather than silently
\* selecting an unvalidated fallback."
ValidatedOrNothing == pc = "done" /\ plan # <<>> =>
    \A i \in DOMAIN Wanted :
        Wanted[i].required /\ Policy(Wanted[i], query.profile) = "VALIDATED_REQUIRED"
        => \E id \in Selected : Resource(id) \in Found(query.registry, Wanted[i].capability)
                                /\ Evidence(Resource(id), Wanted[i].capability) = "VALIDATED"

=============================================================================
