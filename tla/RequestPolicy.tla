--------------------------- MODULE RequestPolicy ---------------------------
(***************************************************************************)
(* What a request's own words decide before any model is asked             *)
(* (meizex_mrw/request_policy, task_classifier.py).  A request is the set  *)
(* of the signals its text carries: the classes whose patterns it matches, *)
(* and the tokens the filesystem and task rules look for.  The patterns    *)
(* themselves are regular expressions and word lists, and stay out.        *)
(***************************************************************************)
EXTENDS Integers, Sequences

\* The order in which classify_request_class tries the classes.
ClassPrecedence ==
    <<"ARITHMETIC", "TEXT_COUNTING", "DATE_COMPUTATION", "UNIT_CONVERSION",
      "SEQUENCE_ANALYSIS", "BOOLEAN_LOGIC", "CODE_TRACE", "FILESYSTEM",
      "CURRENT_STATE", "CREATIVE_GENERATION", "TEXT_TRANSFORMATION">>

Classes == {ClassPrecedence[i] : i \in DOMAIN ClassPrecedence} \cup {"UNKNOWN"}

MutatingVerbs == {"delete", "rename", "move", "copy", "write"}
FilesystemTokens == {"list", "read_doc", "latest", "dir_noun", "file_noun", "create"}
TaskTokens == {"short", "path", "fs_verb", "fs_noun"}
Signals == (Classes \ {"UNKNOWN"}) \cup MutatingVerbs \cup FilesystemTokens \cup TaskTokens

\* A request that needs both arithmetic and the filesystem is nobody's.
RequestClass(s) ==
    LET matched == {i \in DOMAIN ClassPrecedence : ClassPrecedence[i] \in s}
    IN IF matched = {} \/ {"ARITHMETIC", "FILESYSTEM"} \subseteq s THEN "UNKNOWN"
       ELSE ClassPrecedence[CHOOSE i \in matched : \A j \in matched : i <= j]

\* "Create" is a change only when exactly one kind of noun says of what.
Creation(s) ==
    CASE "create" \in s /\ s \cap {"dir_noun", "file_noun"} = {"dir_noun"} -> {"create_dir"}
      [] "create" \in s /\ s \cap {"dir_noun", "file_noun"} = {"file_noun"} -> {"create_file"}
      [] OTHER -> {}

\* A mutant of Mutations: a deletion is not among them.
MutationsButDelete(s) == (s \cap (MutatingVerbs \ {"delete"})) \cup Creation(s)

Mutations(s) == (s \cap MutatingVerbs) \cup Creation(s)

Observes(s) == "list" \in s \/ ("dir_noun" \in s /\ "create" \notin s)
ReadSignal(s) == Observes(s) \/ "read_doc" \in s

\* classify_filesystem_operation: signals that conflict are never resolved.
Operation(s) ==
    CASE Mutations(s) # {} /\ ReadSignal(s) -> "MIXED_SIGNAL"
      [] Mutations(s) # {} /\ ~ReadSignal(s) -> "MUTATION"
      [] Mutations(s) = {} /\ \/ {"list", "read_doc"} \subseteq s
                              \/ "latest" \in s /\ ReadSignal(s)
                              -> "COMPOUND_LATEST_CONTENT"
      [] OTHER -> IF "list" \in s THEN "DIRECTORY_OBSERVATION"
                  ELSE IF "read_doc" \in s THEN "DOCUMENT_READ"
                  ELSE "NO_OPERATION_SIGNAL"

FilesystemIntent(s) ==
    CASE Operation(s) = "MUTATION" -> "MUTATING"
      [] Operation(s) \in {"COMPOUND_LATEST_CONTENT", "DIRECTORY_OBSERVATION",
                           "DOCUMENT_READ"} -> "READ_ONLY"
      [] OTHER -> "UNKNOWN"

\* What the user asks for: to look, to change, neither, or it cannot be told.
EffectIntent(s) ==
    CASE RequestClass(s) = "FILESYSTEM" -> FilesystemIntent(s)
      [] RequestClass(s) = "CURRENT_STATE" -> "READ_ONLY"
      [] RequestClass(s) = "UNKNOWN" -> "UNKNOWN"
      [] OTHER -> "NON_TOOL"

\* The policy table: may a model answer a request of this class directly?
ModelDirectAnswer(class) ==
    CASE class \in {"CREATIVE_GENERATION", "TEXT_TRANSFORMATION"} -> "ALLOWED"
      [] class = "UNKNOWN" -> "UNRESOLVED"
      [] OTHER -> "FORBIDDEN"

\* The classes the worker has a deterministic executor for.
Computable ==
    {"ARITHMETIC", "TEXT_COUNTING", "DATE_COMPUTATION", "UNIT_CONVERSION",
     "SEQUENCE_ANALYSIS", "BOOLEAN_LOGIC", "CODE_TRACE"}

\* task_classifier.classify, the type the tool router ranks by.
TaskType(s) ==
    CASE "short" \in s -> "unknown"
      [] "short" \notin s /\ ("path" \in s \/ {"fs_verb", "fs_noun"} \subseteq s)
                          -> "filesystem_read"
      [] OTHER -> "general_chat"
=============================================================================
