------------------------- MODULE ReadOnlyFilesystem -------------------------
(***************************************************************************)
(* The read-only filesystem server (meizex_mrw/mcp_filesystem_readonly.py) *)
(* as a function of the request and of what the server instance has seen:  *)
(* a path is read only after this very process discovered it.  Contents,   *)
(* sizes and the caps on them are left out; a path stands for what it      *)
(* resolves to inside the root.                                            *)
(***************************************************************************)
EXTENDS AnswerChecks

CONSTANTS Directories,      \* the paths that are directories,
          Files,            \* that are files; the other Paths do not exist
          ChildrenOf,       \* [directory |-> the paths it holds]
          NumberIn          \* [<<tool, path>> |-> the one number in the result]

ASSUME PathsAssumption ==
    /\ Directories \cup Files \subseteq Paths
    /\ Directories \cap Files = {}
    /\ ChildrenOf \in [Directories -> SUBSET (Directories \cup Files)]

FilesystemTools ==
    {"stat_path", "list_directory", "search_files", "read_document_bounded",
     "read_document_range"}

ReadTools == {"read_document_bounded", "read_document_range"}

\* What a result states: a text, an entry's name or a size may hold one number; a
\* range comes with its offsets and lengths, which are always several.
ResultNumber(tool, path) ==
    IF <<tool, path>> \in DOMAIN NumberIn /\ tool # "read_document_range"
    THEN NumberIn[<<tool, path>>] ELSE NoNumber

\* filesystem_tool_overrides: the caller's tags for exactly these tools.
FilesystemOverrides ==
    [n \in FilesystemTools |-> [read_only |-> TRUE, shell |-> FALSE,
                                categories |-> {"filesystem_read"}]]

\* The names that match a search: here a search is for one path's own name.
Matches(path) == {path} \cap (UNION {ChildrenOf[d] : d \in Directories})

\* What a call adds to _grounded.  stat grounds a path before it looks for it;
\* a listing grounds every child, also those it has no room to show.
Discovered(tool, path) ==
    CASE tool = "stat_path" -> {path}
      [] tool = "list_directory" /\ path \in Directories -> {path} \cup ChildrenOf[path]
      [] tool = "search_files" -> Matches(path)
      [] OTHER -> {}

\* A mutant of Grounded: a file in the root may be read unseen.
GroundedByParent(grounded, path) ==
    path \in grounded \/ \E d \in Directories : path \in ChildrenOf[d]

\* _require_grounded, before the file itself is looked for.
Grounded(grounded, path) == path \in grounded

Succeeds(tool, path, grounded) ==
    \/ tool = "stat_path" /\ path \in Directories \cup Files
    \/ tool = "list_directory" /\ path \in Directories
    \/ tool = "search_files"
    \/ tool \in ReadTools /\ Grounded(grounded, path) /\ path \in Files

Found(tool, path) ==
    CASE tool = "list_directory" -> {path} \cup ChildrenOf[path]
      [] tool = "search_files" -> Matches(path)
      [] OTHER -> {path}

\* One line of main's loop: the result of a call, an error for a tool that
\* failed or is unknown, a bare result for the two other methods.
Handled(request, grounded) ==
    LET ok == \/ request.method # "tools/call"
              \/ Succeeds(request.tool, request.path, grounded)
    IN [id |-> request.id, method |-> request.method,
        tool |-> request.tool, path |-> request.path, ok |-> ok,
        found |-> IF ok /\ request.method = "tools/call"
                  THEN Found(request.tool, request.path) ELSE {},
        number |-> IF ok /\ request.method = "tools/call"
                   THEN ResultNumber(request.tool, request.path) ELSE NoNumber]

GroundedAfter(request, grounded) ==
    IF request.method = "tools/call"
    THEN grounded \cup Discovered(request.tool, request.path) ELSE grounded
=============================================================================
