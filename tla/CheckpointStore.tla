-------------------------- MODULE CheckpointStore --------------------------
(***************************************************************************)
(* BoundedExecutionStore (meizex_air/bounded_execution_store.py): one      *)
(* directory of versioned records, shared by processes with a store object *)
(* each.  The store keeps nothing in memory and takes no lock, so what its *)
(* callers share is the directory.  Plans, sprints and checkpoints are     *)
(* saved and loaded by the same three steps and differ in their paths and  *)
(* in the class of the conflict; the names here are those of checkpoints.  *)
(*                                                                         *)
(* An action is what a process does between two accesses to the directory. *)
(***************************************************************************)
EXTENDS Integers, FiniteSetsExt

CONSTANTS Versions,           \* checkpoint_version: file <version>.json
          Contents,           \* records, up to canonical_json equality
          Temps,              \* names .tmp-*.json mkstemp may choose
          Writers,            \* processes that save
          Readers,            \* processes that load; they may be writers too
          Saves,              \* <<writer, version>>: what each writer may save
          Absent,             \* there is no such file
          Torn,               \* a file whose text is not complete
          None

Processes == Writers \cup Readers

ASSUME VersionsAssumption == Versions \subseteq Nat \ {0}     \* _safe_int_component
ASSUME SavesAssumption == Saves \subseteq Writers \X Versions
ASSUME NamesAssumption ==
    Temps \cap Versions = {} /\ {Absent, Torn} \cap Contents = {} /\ Absent # Torn

VARIABLES dir,                \* dir[n]: the file of that name
          pc,                 \* pc[p]: where p is in its call
          request,            \* request[p]: the call's arguments
          temp,               \* temp[p]: the temporary file p made
          answer,             \* answer[p]: how p's last call ended
          seen,               \* history: seen[v], the records loads of v returned
          acked,              \* history: the versions whose save has returned
          floor               \* history: floor[p], acked when p's "latest" began

ghosts == <<seen, acked, floor>>
vars == <<dir, pc, request, temp, answer, ghosts>>

Names == Versions \cup Temps

Call(op, v, c) == [op |-> op, version |-> v, content |-> c]
Answer(op, outcome, v, c) ==
    [op |-> op, outcome |-> outcome, version |-> v, content |-> c]

Init ==
    /\ dir = [n \in Names |-> Absent]
    /\ pc = [p \in Processes |-> "idle"]
    /\ request = [p \in Processes |-> None]
    /\ temp = [p \in Processes |-> None]
    /\ answer = [p \in Processes |-> None]
    /\ seen = [v \in Versions |-> {}]
    /\ acked = {}
    /\ floor = [p \in Processes |-> {}]

Goto(p, to) == pc' = [pc EXCEPT ![p] = to]

Begin(p, call, to) ==
    /\ pc[p] = "idle"
    /\ Goto(p, to)
    /\ request' = [request EXCEPT ![p] = call]
    /\ floor' = [floor EXCEPT ![p] = IF call.op = "latest" THEN acked ELSE {}]
    /\ answer' = [answer EXCEPT ![p] = None]
    /\ UNCHANGED <<dir, temp, seen, acked>>

Return(p, a) ==
    /\ Goto(p, "idle")
    /\ request' = [request EXCEPT ![p] = None]
    /\ temp' = [temp EXCEPT ![p] = None]
    /\ answer' = [answer EXCEPT ![p] = a]
    /\ acked' = IF a # None /\ a.outcome = "saved" THEN acked \cup {a.version} ELSE acked
    /\ UNCHANGED floor

-----------------------------------------------------------------------------
(* save_task_plan, save_sprint, save_checkpoint.                           *)

Save(p) ==
    \E v \in Versions, c \in Contents :
        <<p, v>> \in Saves /\ Begin(p, Call("save", v, c), "exists")

\* The check left out.
NeverTaken(v) == FALSE

\* path.exists(): all that a save ever checks before it replaces the file.
Taken(v) == dir[v] # Absent

Exists(p) ==
    /\ pc[p] = "exists"
    /\ Goto(p, IF Taken(request[p].version) THEN "compare" ELSE "mkstemp")
    /\ UNCHANGED <<dir, request, temp, answer, ghosts>>

\* A save that takes any record already there for its own.
VerdictExists(stored, offered) == "saved"

Verdict(stored, offered) ==
    CASE stored = Absent -> "not_found"
      [] stored = Torn -> "invalid"
      [] stored = offered -> "saved"
      [] OTHER -> "conflict"

Compare(p) ==
    /\ pc[p] = "compare"
    /\ LET v == request[p].version
           c == request[p].content
       IN Return(p, Answer("save", Verdict(dir[v], c), v, c))
    /\ UNCHANGED <<dir, seen>>

\* A fixed temporary name instead of mkstemp's.
AnyTemps == Temps

FreeTemps == {t \in Temps : dir[t] = Absent}

\* _atomic_write_text: a sibling file, its text, then os.replace.
MakeTemp(p) ==
    /\ pc[p] = "mkstemp"
    /\ \E t \in FreeTemps :
          /\ dir' = [dir EXCEPT ![t] = Torn]
          /\ temp' = [temp EXCEPT ![p] = t]
    /\ Goto(p, "write")
    /\ UNCHANGED <<request, answer, ghosts>>

\* The text left in the buffer.
Unflushed(p) == dir

\* write, flush, fsync, close.
Written(p) == [dir EXCEPT ![temp[p]] = request[p].content]

Write(p) ==
    /\ pc[p] = "write"
    /\ dir' = Written(p)
    /\ Goto(p, "replace")
    /\ UNCHANGED <<request, temp, answer, ghosts>>

Renamed(from, to) == [dir EXCEPT ![to] = dir[from], ![from] = Absent]

Replace(p) ==
    /\ pc[p] = "replace"
    /\ dir' = Renamed(temp[p], request[p].version)
    /\ temp' = [temp EXCEPT ![p] = None]
    /\ Goto(p, "replaced")
    /\ UNCHANGED <<request, answer, ghosts>>

\* The record is there; only now does the caller learn of it.
Saved(p) ==
    /\ pc[p] = "replaced"
    /\ Return(p, Answer("save", "saved", request[p].version, request[p].content))
    /\ UNCHANGED <<dir, seen>>

\* An OSError anywhere in _atomic_write_text; os.remove may fail as well.
Discarded(p) == IF temp[p] = None THEN dir ELSE [dir EXCEPT ![temp[p]] = Absent]

IOError(p) == Answer(request[p].op, "io_error", request[p].version, None)

WriteFails(p) ==
    /\ pc[p] \in {"mkstemp", "write", "replace"}
    /\ dir' \in {dir, Discarded(p)}
    /\ Return(p, IOError(p))
    /\ UNCHANGED seen

-----------------------------------------------------------------------------
(* load_task_plan, load_sprint, load_checkpoint, load_latest_checkpoint.   *)

Load(p) ==
    p \in Readers /\ \E v \in Versions : Begin(p, Call("load", v, None), "read")

LoadLatest(p) == p \in Readers /\ Begin(p, Call("latest", None, None), "list")

\* list_checkpoint_versions: the stems that int() accepts, so no .tmp- name.
Listed == {v \in Versions : dir[v] # Absent}

\* The first version instead.
Earliest(versions) == Min(versions)

Latest(versions) == Max(versions)

List(p) ==
    /\ pc[p] = "list"
    /\ IF Listed = {}
       THEN /\ Return(p, Answer("latest", "not_found", None, None))
            /\ UNCHANGED <<dir, seen>>
       ELSE /\ Goto(p, "read")
            /\ request' = [request EXCEPT ![p] = Call("latest", Latest(Listed), None)]
            /\ UNCHANGED <<dir, temp, answer, ghosts>>

Read(p) ==
    /\ pc[p] = "read"
    /\ LET v == request[p].version
           found == dir[v]
           outcome == CASE found = Absent -> "not_found"
                        [] found = Torn -> "invalid"
                        [] OTHER -> "loaded"
       IN /\ Return(p, Answer(request[p].op, outcome, v,
                              IF outcome = "loaded" THEN found ELSE None))
          /\ seen' = IF outcome = "loaded"
                     THEN [seen EXCEPT ![v] = @ \cup {found}] ELSE seen
    /\ UNCHANGED dir

\* An OSError from read_text.
ReadFails(p) ==
    /\ pc[p] \in {"compare", "read"}
    /\ Return(p, IOError(p))
    /\ UNCHANGED <<dir, seen>>

\* The process dies inside a call and another starts in its place.  Its
\* temporary file stays.
Crash(p) ==
    /\ pc[p] # "idle"
    /\ Return(p, None)
    /\ UNCHANGED <<dir, seen>>

-----------------------------------------------------------------------------
\* A version holds what its file holds; temporary files are nothing.
WriteOnce == INSTANCE WriteOnceStore WITH
                 Callers <- Processes,
                 record <- [v \in Versions |-> dir[v]]

Next == \E p \in Processes :
    \/ Save(p) \/ Exists(p) \/ Compare(p)
    \/ MakeTemp(p) \/ Write(p) \/ Replace(p) \/ Saved(p) \/ WriteFails(p)
    \/ Load(p) \/ LoadLatest(p) \/ List(p) \/ Read(p) \/ ReadFails(p)
    \/ Crash(p)

Spec == Init /\ [][Next]_vars

-----------------------------------------------------------------------------
(* Properties.                                                             *)

\* The type invariant.  The last conjunct is what makes the temporary names
\* usable: between mkstemp and os.replace the file is there and is p's alone.
TypeOK ==
    /\ dir \in [Names -> Contents \cup {Absent, Torn}]
    /\ pc \in [Processes -> {"idle", "exists", "compare", "mkstemp", "write",
                             "replace", "replaced", "list", "read"}]
    /\ request \in [Processes -> WriteOnce!Requests \cup {None}]
    /\ answer \in [Processes -> WriteOnce!Answers \cup {None}]
    /\ temp \in [Processes -> Temps \cup {None}]
    /\ seen \in [Versions -> SUBSET Contents]
    /\ acked \subseteq Versions
    /\ floor \in [Processes -> SUBSET Versions]
    /\ \A p, q \in Processes : temp[p] # None =>
          /\ dir[temp[p]] # Absent
          /\ temp[q] = temp[p] => q = p

\* "Never partially visible" (_atomic_write_text): whatever crashes and fails
\* between mkstemp and os.replace, a record's own name never shows a part of
\* it, and no call is ever answered with a malformed record.
NeverPartiallyVisible ==
    /\ \A v \in Versions : dir[v] # Torn
    /\ \A p \in Processes : answer[p] # None => answer[p].outcome # "invalid"

\* PERSIST BEFORE CONTINUING: a load_latest_checkpoint that begins after some
\* saves have returned finds a checkpoint, and none older than theirs, also
\* when it lists the directory while other saves and crashes go on.
LatestNotStale == \A p \in Processes :
    /\ answer[p] # None
    /\ answer[p].op = "latest"
    /\ answer[p].outcome # "io_error"
    /\ floor[p] # {}
    => /\ answer[p].outcome = "loaded"
       /\ answer[p].version >= Max(floor[p])

\* "Checkpoint history is versioned state": two loads of one version never
\* return different records, however far apart they are.
ReadersAgree == \A v \in Versions : Cardinality(seen[v]) <= 1

\* NO SILENT OVERWRITE: no step replaces a record by a different one.
NoSilentOverwrite ==
    [][\A v \in Versions : dir[v] # Absent => dir'[v] = dir[v]]_vars

\* As long as no two processes save one version at once, the store of files
\* is a store of write-once registers: every save, conflict and load is
\* answered as if it had happened at one instant.
ImplementsWriteOnce == WriteOnce!Spec

=============================================================================
