------------------------- MODULE CheckpointStoreInv -------------------------
(***************************************************************************)
(* The inductive invariants of CheckpointStore: one for every use of the   *)
(* store, and what is added to it when no two writers share a version.     *)
(***************************************************************************)
EXTENDS CheckpointStore

ASSUME NoneAssumption == None \notin Temps \cup Versions \cup WriteOnce!Requests

SaveRequests == [op : {"save"}, version : Versions, content : Contents]
LoadRequests == [op : {"load", "latest"}, version : Versions, content : {None}]

\* Where a process is in its call tells what it was asked and what it holds.
CallInStep(p) ==
    /\ pc[p] = "idle" => request[p] = None
    /\ pc[p] \in {"exists", "compare", "mkstemp", "write", "replace", "replaced"} =>
          request[p] \in SaveRequests /\ <<p, request[p].version>> \in Saves
    /\ pc[p] = "list" => request[p] = Call("latest", None, None)
    /\ pc[p] = "read" => request[p] \in LoadRequests
    /\ temp[p] # None <=> pc[p] \in {"write", "replace"}
    /\ pc[p] # "idle" => answer[p] = None

\* The text is complete before the file gets the name of a record.
WholeBeforeNamed ==
    /\ \A v \in Versions : dir[v] # Torn
    /\ \A p \in Processes : pc[p] = "replace" => dir[temp[p]] = request[p].content

\* A record that was there when it was looked for, or written, is there for good.
Found(p) ==
    /\ pc[p] \in {"compare", "replaced"} => dir[request[p].version] # Absent
    /\ pc[p] = "read" /\ request[p].op = "latest" => dir[request[p].version] # Absent

FoundStays ==
    /\ \A p \in Processes : Found(p)
    /\ \A v \in acked : dir[v] # Absent

\* Nothing that was saved before a load of the latest began is newer than what
\* the load has aimed at, or has answered.
NoneNewer(p, v) == \A w \in floor[p] : w <= v

AimedHigh(p) ==
    /\ floor[p] \subseteq acked
    /\ pc[p] = "read" /\ request[p].op = "latest" => NoneNewer(p, request[p].version)
    /\ answer[p] # None /\ answer[p].op = "latest" /\ answer[p].outcome # "io_error" =>
          \/ /\ answer[p].outcome = "loaded" /\ answer[p].version \in Versions
             /\ NoneNewer(p, answer[p].version)
          \/ floor[p] = {}

\* There are only as many records as were saved, so one is the latest.
HasLatest(versions) ==
    versions = {} \/ \E v \in versions : \A w \in versions : w <= v

LatestExist ==
    /\ HasLatest(Listed)
    /\ HasLatest(acked)
    /\ \A p \in Processes : HasLatest(floor[p])

IInv ==
    /\ TypeOK
    /\ \A p \in Processes : CallInStep(p)
    /\ LatestExist
    /\ WholeBeforeNamed
    /\ FoundStays
    /\ \A p \in Processes : AimedHigh(p)

-----------------------------------------------------------------------------

\* No two writers save the same version.
WritersApart ==
    \A p, q \in Writers, v \in Versions : <<p, v>> \in Saves /\ <<q, v>> \in Saves => p = q

\* A writer that has looked and found nothing is the only one who could change that.
StillAbsent(p) ==
    pc[p] \in {"mkstemp", "write", "replace"} => dir[request[p].version] = Absent

\* What it has written then stays.
StillThere(p) ==
    pc[p] = "replaced" => dir[request[p].version] = request[p].content

\* What was read is what is there.
SeenIsThere == \A v \in Versions : seen[v] \subseteq {dir[v]} \ {Absent}

OnceInv ==
    /\ IInv
    /\ \A p \in Processes : StillAbsent(p) /\ StillThere(p)
    /\ SeenIsThere

=============================================================================
