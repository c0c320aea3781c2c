------------------------- MODULE MCCapabilityRouter -------------------------
(***************************************************************************)
(* Instances of CapabilityRouter for TLC: seven resources, each available  *)
(* or not, after the kinds of the registry; every rule of the vocabulary   *)
(* but transcription, and a document that admits the cloud.                *)
(***************************************************************************)
EXTENDS CapabilityRouter, TLC

Anyhow(id, kind, declared, validated, modalities) ==
    [id |-> id, kind |-> kind, declared |-> declared,
     validated |-> [label \in validated |-> TRUE], modalities |-> modalities,
     local |-> TRUE, cloud_required |-> FALSE, location |-> "unset", hardware |-> {},
     status |-> "AVAILABLE", boundary |-> "IN_PROCESS", named |-> {}, available |-> TRUE]

MCResources ==
    {[Anyhow(1, "detector", {"person-detection"}, {"object-detection", "person-detection"},
             {"image"}) EXCEPT !.boundary = "PROCESS", !.hardware = {"gpu"}],
     Anyhow(2, "vlm", {"object-detection"}, {}, {"image"}),
     Anyhow(3, "slm", {"coding", "reasoning"}, {"text-generation"}, {"text"}),
     [Anyhow(4, "llm", {"coding", "text-generation"}, {"coding"}, {"text"})
         EXCEPT !.location = "cloud", !.local = FALSE, !.cloud_required = TRUE],
     [Anyhow(5, "tool", {"routing"}, {}, {"text"})
         EXCEPT !.location = "grid", !.local = FALSE, !.boundary = "PROCESS"],
     [Anyhow(6, "tool", {"filesystem-analysis"}, {"routing"}, {"text"})
         EXCEPT !.named = {"mrw-deterministic-router"}, !.status = "VALIDATED"],
     [Anyhow(7, "library", {"document-parsing"}, {}, {"pdf"}) EXCEPT !.status = "FOUND_NOT_TESTED"]}

MCRegistries ==
    {[broken |-> FALSE,
      resources |-> {[c EXCEPT !.available = c.id \in up] : c \in MCResources}] :
        up \in SUBSET (1..7)}

Mission(words) == [words |-> words, short |-> FALSE]

MCMissions == {Mission({"image", "person"}), Mission({"repository", "bug"}),
               Mission({"sum", "records"}), Mission({"path"}), Mission({"document", "extract"}),
               Mission({"summarize"}), Mission({"bug"})}

Missing == [state |-> "missing", rules |-> <<>>]
Malformed == [state |-> "malformed", rules |-> <<>>]

Cloudy == [state |-> "read",
           rules |-> <<Rule({{"bug"}}, FALSE,
                            <<[Needs("coding", TRUE, NoModality, NoKind, "OBSERVED_OR_BETTER")
                                  EXCEPT !.cloud = TRUE],
                              Plainly("general_reasoning", FALSE)>>)>>]

\* Its second rule is not fit.
Misspelt == [Cloudy EXCEPT
    !.rules = Append(@, [Rule({{"path"}}, TRUE, <<Plainly("filesystem_read", TRUE)>>)
                            EXCEPT !.fit = FALSE])]

MCProfiles == {NoProfile,
               [NoProfile EXCEPT !.cloud = FALSE, !.least = "VALIDATED_REQUIRED"],
               [NoProfile EXCEPT !.grid = TRUE, !.least = "VALIDATED_REQUIRED"],
               [NoProfile EXCEPT !.cloud = FALSE, !.kinds = {{"detector", "tool"}}],
               [NoProfile EXCEPT !.grid = TRUE, !.kinds = {{}}],
               [NoProfile EXCEPT !.hardware = {"gpu"}]}

Query(mission, document, registry, profile, economy) ==
    [mission |-> mission, document |-> document, registry |-> registry,
     profile |-> profile, economy |-> economy]

MCQueries ==
    {Query(m, d, r, p, "balance") : m \in MCMissions, d \in {Missing, Cloudy},
                                    r \in MCRegistries, p \in MCProfiles}
    \cup {Query(Mission({"repository", "bug"}), Cloudy, r, NoProfile, e) :
             r \in MCRegistries, e \in {"economical", "maximum"}}
    \cup {Query([words |-> {}, short |-> TRUE], Malformed, r, NoProfile, "balance") :
             r \in MCRegistries}
    \cup {Query(Mission({"path"}), d, [broken |-> TRUE, resources |-> {}], NoProfile, "balance") :
             d \in {Missing, Malformed}}
    \cup {Query(m, Misspelt, r, NoProfile, "balance") :
             m \in {Mission({"path"}), Mission({"path", "bug"})}, r \in MCRegistries}

=============================================================================
