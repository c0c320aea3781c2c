--------------------------- MODULE WorkerTurnInv ---------------------------
(***************************************************************************)
(* The inductive invariant of WorkerTurn behind TypeOK, AnswersOwnCall,    *)
(* ServerOwned and WorkBounded.                                            *)
(***************************************************************************)
EXTENDS WorkerTurn

Tools == {"none"} \cup {c.name : c \in AllCalls}
Names == {"none"} \cup {c.path : c \in AllCalls} \cup Paths
Numbers == {NoNumber} \cup {NumberIn[c] : c \in DOMAIN NumberIn}
Methods == {"initialize", "tools/list", "tools/call"}

\* What the client writes: only a call names a tool.
Requested ==
    {r \in [id : Nat, method : Methods, tool : Tools, path : Names] :
        r.method = "tools/call" \/ r.tool = "none"}

\* What the server writes, and what a turn keeps of it.
Lines == [id : Nat, method : Methods, tool : Tools, path : Names, ok : BOOLEAN,
          found : SUBSET Names, number : Numbers]

Entries == [name : Tools, path : Names, sent : BOOLEAN, ok : BOOLEAN,
            got : Tools \X Names, found : SUBSET Names, number : Numbers]

ASSUME NoRequestAssumption == NoRequest \notin Requested

TurnFields ==
    {"kind", "request", "started", "selected", "messages", "executed", "rounds",
     "retries", "blocks", "todo", "done", "answer", "verification", "inferences",
     "audits", "status"}

-----------------------------------------------------------------------------

ClientShape ==
    /\ process \in BOOLEAN /\ alive \in BOOLEAN /\ ready \in BOOLEAN
    /\ nextId \in Nat
    /\ stdin \in Seq(Requested) /\ stdout \in Seq(Lines)
    /\ held \subseteq Lines /\ responses \subseteq Lines
    /\ pending \in Requested \cup {NoRequest}

\* Everything that carries an id: requests, lines and answers, of this process
\* and of those before it.
InFlight ==
    {stdin[i] : i \in DOMAIN stdin} \cup {stdout[i] : i \in DOMAIN stdout}
    \cup held \cup responses

Echoes(x, request) == x.tool = request.tool /\ x.path = request.path

\* An id is given once: what carries the id that is waited for is about the
\* same call.
IdsUnique ==
    /\ \A x \in InFlight : x.id < nextId
    /\ pending # NoRequest =>
          /\ pending.id < nextId
          /\ \A x \in InFlight : x.id = pending.id => Echoes(x, pending)

ClientInv ==
    /\ ClientShape
    /\ alive => process
    /\ ready => process
    /\ IdsUnique

WellFormedTurn(t) ==
    /\ t = [f \in TurnFields |-> t[f]]
    /\ t.kind \in Kinds /\ t.status \in Statuses /\ t.started \in BOOLEAN
    /\ t.todo \in Seq(AllCalls)
    /\ t.executed \in Seq(Entries)
    /\ t.inferences \in Nat /\ t.audits \in 0..1
    /\ t.retries \in 0..MaxRetries /\ t.rounds \in 0..(ToolRoundLimit + 1)

TurnShape ==
    /\ setting \in Settings
    /\ uses \in 0..setting.uses
    /\ pc \in Locations
    /\ WellFormedTurn(turn)
    /\ pc # "idle" => turn.kind # "none"
    /\ (turn.status = "none") <=> (pc \notin {"idle", "close"} \/ turn.kind = "none")

\* Before its end a turn has asked once per retry spent and once per round.
Counted(t) ==
    /\ t.inferences = (MaxRetries - t.retries) + t.rounds
    /\ t.rounds <= ToolRoundLimit
    /\ t.audits = 0

Bounded(t) == t.inferences + t.audits <= MaxRetries + ToolRoundLimit + 2

WorkCounted ==
    /\ pc \notin {"idle", "close", "audit"} => Counted(turn)
    /\ pc = "audit" =>
          /\ turn.inferences <= MaxRetries + ToolRoundLimit + 1
          /\ turn.audits = 0
    /\ Bounded(turn)

TurnInv == TurnShape /\ WorkCounted

\* The request that is waited for is the one the turn stands at.
WaitsForOwn ==
    /\ pending # NoRequest <=> pc \in {"handshake", "listing", "calling"}
    /\ pc = "calling" => turn.todo # <<>> /\ Echoes(pending, [tool |-> Head(turn.todo).name,
                                                              path |-> Head(turn.todo).path])

\* A server that completed its handshake belongs to the turn that started it.
Ownership ==
    /\ pc = "handshake" => process /\ ~ready /\ ~turn.started
    /\ pc # "idle" => (turn.started <=> process /\ ready)
    /\ pc = "idle" /\ process => ~ready /\ setting.caller # "run"

IInv ==
    /\ ClientInv
    /\ TurnInv
    /\ WaitsForOwn
    /\ Ownership
    /\ AnswersOwnCall

-----------------------------------------------------------------------------
(* What is true besides, at each place of a turn: the inductive part of    *)
(* GatedRequests, CompletedHonestly, OnlyReadTools and                     *)
(* ReadsFollowDiscovery.                                                   *)

\* A step of a dispatch only calls its tool.
StepStands ==
    turn.kind = "step" =>
       /\ pc \in {"idle", "attach", "handshake", "call", "calling", "close"}
       /\ pc \in {"attach", "handshake", "call"} => turn.todo # <<>>

\* The request is one the policy lets through to a model.
Admitted(t) ==
    /\ ~(ClassOf(t.request) \in Computable /\ t.request.computes)
    /\ ~MutationRefused(t.request)

Gated ==
    /\ pc \in {"policy", "attach", "handshake", "list", "listing", "context"} =>
          turn.inferences = 0
    /\ turn.kind = "worker" /\ pc \notin {"idle", "policy", "close"} => Admitted(turn)
    /\ turn.kind = "worker" /\ pc \in {"infer", "audit", "call", "calling"} => ~BlindRead(turn)
    /\ turn.inferences > 0 => Admitted(turn) /\ ~BlindRead(turn)

\* What the verifier will see of a call that went wrong, and of a round.
Honest ==
    /\ turn.kind = "worker" /\ pc \notin {"idle", "close"} =>
          /\ turn.blocks > 0 => \E e \in EntriesOf(turn.executed) : ~e.ok
          /\ turn.rounds = 0 => turn.executed = <<>>
          /\ pc \in {"call", "calling"} => turn.rounds > 0
    /\ CompletedHonestly

ReadOnlyCalls ==
    /\ turn.selected \subseteq {Profile.allowed[i] : i \in DOMAIN Profile.allowed}
    /\ pc = "calling" => ~CallBlocked
    /\ OnlyReadTools

\* What the calls a turn has made, and the one it waits for, let a server see.
Seen(t) == UNION {Discovered(e.name, e.path) : e \in {d \in EntriesOf(t.executed) : d.sent}}
Sought == IF pc = "calling" THEN Discovered(Head(turn.todo).name, Head(turn.todo).path) ELSE {}

\* A server of the turn's own knows no path but through the turn's calls, and
\* answers the read that is waited for only if an earlier call found its path.
DiscoveredFirst ==
    /\ pc \in {"policy", "attach", "handshake"} => turn.executed = <<>>
    /\ pc = "handshake" =>
          grounded = {} /\ \A i \in DOMAIN stdin : stdin[i].method # "tools/call"
    /\ turn.started =>
          /\ grounded \subseteq Seen(turn) \cup Sought
          /\ \A i \in DOMAIN stdin : stdin[i].method = "tools/call" =>
                Discovered(stdin[i].tool, stdin[i].path) \subseteq Seen(turn) \cup Sought
          /\ pc = "calling" /\ Head(turn.todo).name \in ReadTools =>
                \A x \in {stdout[i] : i \in DOMAIN stdout} \cup held \cup responses :
                   x.id = pending.id /\ x.ok => x.path \in Seen(turn)
    /\ ReadsFollowDiscovery

-----------------------------------------------------------------------------
(* The message list, place by place: the inductive part of ContextCoherent. *)

Roles == {"system", "user", "assistant", "tool"}
Messages == [role : Roles, ids : Seq(Int)]

\* A call is followed by all of its results, and a result has its call.
Groups(m) ==
    /\ m \in Seq(Messages)
    /\ Len(m) >= 2 /\ m[1] = Message("system", <<>>) /\ m[2] = Message("user", <<>>)
    /\ \A i \in 1..Len(m) : IsToolCall(m[i]) =>
          \A k \in 1..Len(m[i].ids) :
             i + k \in 1..Len(m) /\ m[i + k] = Message("tool", <<m[i].ids[k]>>)
    /\ \A i \in 1..Len(m) : m[i].role = "tool" =>
          \E j \in 1..(i - 1) : IsToolCall(m[j]) /\ i - j <= Len(m[j].ids)

ToolTurns(m) == {i \in 1..Len(m) : IsToolCall(m[i])}

Coherent(m) == Groups(m) /\ Cardinality(ToolTurns(m)) <= MaxToolTurns

WindowKept == turn.done \in Nat /\ Coherent(turn.messages)

Promised == StepStands /\ Gated /\ Honest /\ ReadOnlyCalls /\ DiscoveredFirst /\ WindowKept
=============================================================================
