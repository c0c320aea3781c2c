--------------------------- MODULE WriteOnceStore ---------------------------
(***************************************************************************)
(* What BoundedExecutionStore promises its callers                         *)
(* (meizex_air/bounded_execution_store.py, "Immutability semantics"):      *)
(* each version is a register written once.  A save of what is already     *)
(* there changes nothing, a save of something else is refused, a load      *)
(* returns what was written.  A caller may die or fail at any moment,      *)
(* before it has written or after.  Nothing here knows of files.           *)
(***************************************************************************)
EXTENDS Integers, FiniteSets

CONSTANTS Versions, Contents, Callers, Absent, None

VARIABLES record,             \* record[v]: what version v holds
          request,            \* request[p]: the operation p waits for
          answer              \* answer[p]: how p's last operation ended

vars == <<record, request, answer>>

Requests == [op : {"save"}, version : Versions, content : Contents]
            \cup [op : {"load"}, version : Versions, content : {None}]
            \cup [op : {"latest"}, version : Versions \cup {None}, content : {None}]

Answers == [op : {"save", "load", "latest"},
            outcome : {"saved", "conflict", "loaded", "not_found", "io_error"},
            version : Versions \cup {None}, content : Contents \cup {None}]

Init ==
    /\ record = [v \in Versions |-> Absent]
    /\ request = [p \in Callers |-> None]
    /\ answer = [p \in Callers |-> None]

Ask(p) ==
    /\ request[p] = None
    /\ \E r \in Requests :
          /\ r.op = "latest" => r.version = None
          /\ request' = [request EXCEPT ![p] = r]
    /\ answer' = [answer EXCEPT ![p] = None]
    /\ UNCHANGED record

Reply(p, outcome, content) ==
    /\ request' = [request EXCEPT ![p] = None]
    /\ answer' = [answer EXCEPT ![p] =
                     [op |-> request[p].op, outcome |-> outcome,
                      version |-> request[p].version, content |-> content]]

\* The only step that writes, at most one different record per version.  The
\* save is not answered yet, and may never be.
Write(p) ==
    /\ request[p].op = "save"
    /\ record[request[p].version] \in {Absent, request[p].content}
    /\ record' = [record EXCEPT ![request[p].version] = request[p].content]
    /\ UNCHANGED <<request, answer>>

\* What was saved is there, from this save or from an earlier one.
Confirm(p) ==
    /\ request[p].op = "save"
    /\ record[request[p].version] = request[p].content
    /\ Reply(p, "saved", request[p].content)
    /\ UNCHANGED record

Refuse(p) ==
    /\ request[p].op = "save"
    /\ record[request[p].version] \notin {Absent, request[p].content}
    /\ Reply(p, "conflict", request[p].content)
    /\ UNCHANGED record

\* The latest version there is when p looks.
Aim(p) ==
    /\ request[p].op = "latest"
    /\ request[p].version = None
    /\ \E v \in Versions :
          /\ record[v] # Absent
          /\ \A w \in Versions : record[w] # Absent => w <= v
          /\ request' = [request EXCEPT ![p].version = v]
    /\ UNCHANGED <<record, answer>>

Deliver(p) ==
    /\ request[p].op \in {"load", "latest"}
    /\ request[p].version # None
    /\ record[request[p].version] # Absent
    /\ Reply(p, "loaded", record[request[p].version])
    /\ UNCHANGED record

Missing(p) ==
    /\ \/ /\ request[p].op = "load"
          /\ record[request[p].version] = Absent
       \/ /\ request[p].op = "latest"
          /\ \A v \in Versions : record[v] = Absent
    /\ Reply(p, "not_found", None)
    /\ UNCHANGED record

\* An I/O error is answered, a crash is not.
Fail(p) ==
    /\ \/ Reply(p, "io_error", None)
       \/ /\ request' = [request EXCEPT ![p] = None]
          /\ UNCHANGED answer
    /\ UNCHANGED record

Next == \E p \in Callers :
    \/ Ask(p)
    \/ /\ request[p] # None
       /\ Write(p) \/ Confirm(p) \/ Refuse(p) \/ Aim(p) \/ Deliver(p) \/ Missing(p) \/ Fail(p)

Spec == Init /\ [][Next]_vars

=============================================================================
