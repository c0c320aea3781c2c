----------------------------- MODULE ToolRouter -----------------------------
(***************************************************************************)
(* Which tools a turn offers and which calls it lets through: the catalog  *)
(* (meizex_mrw/mcp/catalog.py), tool_router.py and the worker's own gate   *)
(* (worker/engine.py, _policy_block_reason).                               *)
(***************************************************************************)
EXTENDS Integers, FiniteSets

CONSTANTS ServerTools,      \* the names tools/list returns
          Overrides         \* [name |-> what the caller declares of that tool]

\* A tool nobody tagged is taken for one that writes.
UntaggedTool == [read_only |-> FALSE, shell |-> FALSE, categories |-> {}]

Catalog(names) ==
    [n \in names |-> IF n \in DOMAIN Overrides THEN Overrides[n] ELSE UntaggedTool]

Candidate(profile, catalog, n) ==
    /\ n \in DOMAIN catalog
    /\ profile.write_allowed \/ catalog[n].read_only
    /\ profile.shell_allowed \/ ~catalog[n].shell

\* The order of the route: the tools of the task's category first, those and the
\* others in the profile's order.  i and j are places in the profile's list.
Outranks(profile, task, catalog, i, j) ==
    LET Matches(k) == task \in catalog[profile.allowed[k]].categories
    IN IF Matches(i) = Matches(j) THEN i < j ELSE Matches(i)

\* tool_router.select: the candidates that fewer than max_selected others outrank.
Selected(profile, task, catalog) ==
    LET candidates == {i \in DOMAIN profile.allowed :
                          Candidate(profile, catalog, profile.allowed[i])}
        Above(j) == {i \in candidates : Outranks(profile, task, catalog, i, j)}
    IN {profile.allowed[j] :
           j \in {k \in candidates : Cardinality(Above(k)) < profile.max_selected}}

\* A mutant of Blocked: what was offered is let through.
NotOffered(name, catalog, selected) ==
    name \notin selected \/ name \notin DOMAIN catalog

\* _policy_block_reason: the gate does not ask the profile; it never lets a
\* tool through that is not read-only, whatever was offered.
Blocked(name, catalog, selected) ==
    \/ name \notin selected
    \/ name \notin DOMAIN catalog
    \/ ~catalog[name].read_only
    \/ catalog[name].shell
=============================================================================
