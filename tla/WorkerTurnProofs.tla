-------------------------- MODULE WorkerTurnProofs --------------------------
(***************************************************************************)
(* Theorems about WorkerTurn, for every set of settings, answers and tool  *)
(* calls, every file system and every number of retries and crashes.       *)
(***************************************************************************)
EXTENDS WorkerTurnInv, OrderTheorems, TLAPS

-----------------------------------------------------------------------------
(* The client and its server.                                              *)

\* A server's line is well-formed and echoes the request it answers.
LEMMA HandledEchoes ==
    ASSUME NEW request \in Requested, NEW g
    PROVE  /\ Handled(request, g) \in Lines
           /\ Handled(request, g).id = request.id
           /\ Echoes(Handled(request, g), request)
<1> DEFINE ok == \/ request.method # "tools/call"
                 \/ Succeeds(request.tool, request.path, g)
           found == IF ok /\ request.method = "tools/call"
                    THEN Found(request.tool, request.path) ELSE {}
           number == IF ok /\ request.method = "tools/call"
                     THEN ResultNumber(request.tool, request.path) ELSE NoNumber
<1>1. /\ request.id \in Nat /\ request.method \in Methods
      /\ request.tool \in Tools /\ request.path \in Names
      /\ request.method = "tools/call" \/ request.tool = "none"
  BY DEF Requested
<1>2. ok \in BOOLEAN
  OBVIOUS
<1>3. found \in SUBSET Names
  <2>1. CASE ~ok \/ request.method # "tools/call"
    BY <2>1
  <2>2. CASE Succeeds(request.tool, request.path, g) /\ request.method = "tools/call"
    <3>1. Matches(request.path) \subseteq {request.path}
      BY DEF Matches
    <3>2. request.tool = "list_directory" => request.path \in Directories
      BY <2>2 DEF Succeeds, ReadTools
    <3>3. request.tool = "list_directory" => ChildrenOf[request.path] \subseteq Paths
      BY <3>2, PathsAssumption
    <3> QED BY <1>1, <2>2, <3>1, <3>3 DEF Found, Names
  <2> QED BY <2>1, <2>2
<1>4. number \in Numbers
  <2>1. ResultNumber(request.tool, request.path) \in Numbers
    BY DEF ResultNumber, Numbers
  <2>2. NoNumber \in Numbers
    BY DEF Numbers
  <2> QED BY <2>1, <2>2
<1>5. Handled(request, g) =
        [id |-> request.id, method |-> request.method, tool |-> request.tool,
         path |-> request.path, ok |-> ok, found |-> found, number |-> number]
  BY DEF Handled
<1> HIDE DEF ok, found, number
<1>6. \A o \in BOOLEAN, f \in SUBSET Names, n \in Numbers :
         [id |-> request.id, method |-> request.method, tool |-> request.tool,
          path |-> request.path, ok |-> o, found |-> f, number |-> n] \in Lines
  BY <1>1 DEF Lines
<1>7. Handled(request, g) \in Lines
  BY <1>2, <1>3, <1>4, <1>5, <1>6
<1>8. Handled(request, g).id = request.id /\ Echoes(Handled(request, g), request)
  BY <1>5 DEF Echoes
<1> QED BY <1>7, <1>8

\* A request the client makes is well-formed.
LEMMA RequestShape ==
    ASSUME ClientShape, NEW method \in Methods, NEW tool \in Tools, NEW path \in Names,
           method = "tools/call" \/ tool = "none"
    PROVE  Request(method, tool, path) \in Requested
BY DEF ClientShape, Request, Requested

\* What keeps IdsUnique: no request is waited for but the one that was, nothing
\* is in flight but what was, or what echoes it.
LEMMA KeepsIds ==
    ASSUME ClientInv, nextId' >= nextId, nextId' \in Nat,
           pending' = pending \/ pending' = NoRequest,
           \A x \in InFlight' : \E y \in InFlight : x.id = y.id /\ Echoes(x, y),
           \A y \in InFlight : y.id \in Nat
    PROVE  IdsUnique'
<1> USE DEF ClientInv, ClientShape, IdsUnique
<1>1. ASSUME NEW x \in InFlight' PROVE x.id < nextId'
  <2>1. PICK y \in InFlight : x.id = y.id /\ Echoes(x, y)
    OBVIOUS
  <2> QED BY <2>1
<1>2. ASSUME pending' # NoRequest
      PROVE  /\ pending'.id < nextId'
             /\ \A x \in InFlight' : x.id = pending'.id => Echoes(x, pending')
  <2>1. pending' = pending /\ pending \in Requested
    BY <1>2
  <2>2. pending.id \in Nat
    BY <2>1 DEF Requested
  <2>3. pending'.id < nextId'
    BY <1>2, <2>1, <2>2
  <2>4. ASSUME NEW x \in InFlight', x.id = pending'.id PROVE Echoes(x, pending')
    <3>1. PICK y \in InFlight : x.id = y.id /\ Echoes(x, y)
      OBVIOUS
    <3>2. Echoes(y, pending)
      BY <1>2, <2>1, <2>4, <3>1
    <3> QED BY <2>1, <3>1, <3>2 DEF Echoes
  <2> QED BY <2>3, <2>4
<1> QED BY <1>1, <1>2

\* Every id in flight is a number.
LEMMA IdsAreNumbers ==
    ASSUME ClientShape
    PROVE  \A y \in InFlight : y.id \in Nat
<1>1. \A i \in DOMAIN stdin : stdin[i] \in Requested
  BY DEF ClientShape
<1>2. \A i \in DOMAIN stdout : stdout[i] \in Lines
  BY DEF ClientShape
<1> QED BY <1>1, <1>2 DEF ClientShape, InFlight, Requested, Lines

LEMMA ClientStutters ==
    ASSUME ClientInv, UNCHANGED clientVars
    PROVE  ClientInv'
BY DEF clientVars, ClientInv, ClientShape, IdsUnique, InFlight, Echoes

LEMMA SpawnKeepsClient ==
    ASSUME ClientInv, Spawn
    PROVE  ClientInv'
<1> DEFINE request == [Request("initialize", "none", "none") EXCEPT !.id = FirstId]
<1>1. request \in Requested /\ request.id = nextId
  <2>1. request = Request("initialize", "none", "none")
    BY DEF Request, FirstId
  <2>2. "initialize" \in Methods /\ "none" \in Tools /\ "none" \in Names
    BY DEF Methods, Tools, Names
  <2>3. Request("initialize", "none", "none") \in Requested
    BY <2>2, RequestShape DEF ClientInv
  <2> QED BY <2>1, <2>3 DEF Request
<1>2. /\ process' = TRUE /\ alive' = TRUE /\ ready' = FALSE /\ pending' = request
      /\ stdin' = <<request>> /\ nextId' = request.id + 1 /\ stdout' = <<>>
      /\ held' = held /\ responses' = responses
  BY DEF Spawn
<1> HIDE DEF request
<1>3. ClientShape'
  <2>1. stdin' \in Seq(Requested) /\ stdout' \in Seq(Lines)
    BY <1>1, <1>2
  <2>2. nextId' \in Nat
    BY <1>1, <1>2 DEF ClientInv, ClientShape
  <2> QED BY <1>1, <1>2, <2>1, <2>2 DEF ClientInv, ClientShape
<1>4. \A x \in InFlight' : x = request \/ x \in InFlight
  BY <1>2 DEF InFlight
<1>5. IdsUnique'
  BY <1>1, <1>2, <1>4, IdsAreNumbers DEF ClientInv, ClientShape, IdsUnique, Echoes
<1> QED BY <1>2, <1>3, <1>5 DEF ClientInv

LEMMA SendKeepsClient ==
    ASSUME ClientInv, NEW method \in Methods, NEW tool \in Tools, NEW path \in Names,
           method = "tools/call" \/ tool = "none", Send(method, tool, path)
    PROVE  ClientInv'
<1> DEFINE request == Request(method, tool, path)
<1>1. request \in Requested /\ request.id = nextId
  BY RequestShape DEF Request, ClientInv
<1>2. stdin' = Append(stdin, request)
  BY DEF Send
<1>3. pending' = request /\ nextId' = nextId + 1
  BY DEF Send
<1>4. UNCHANGED <<process, alive, ready, stdout, held, responses>>
  BY DEF Send
<1> HIDE DEF request
<1>5. stdin \in Seq(Requested) /\ nextId \in Nat
  BY DEF ClientInv, ClientShape
<1>6. stdin' \in Seq(Requested)
  BY <1>1, <1>2, <1>5
<1>7. ClientShape'
  BY <1>1, <1>3, <1>4, <1>5, <1>6 DEF ClientInv, ClientShape
<1>8. \A x \in InFlight' : x = request \/ x \in InFlight
  <2>1. \A i \in DOMAIN stdin' :
           stdin'[i] = request \/ \E j \in DOMAIN stdin : stdin'[i] = stdin[j]
    BY <1>1, <1>2, <1>5
  <2> QED BY <1>4, <2>1 DEF InFlight
<1>9. IdsUnique'
  BY <1>1, <1>3, <1>5, <1>8, IdsAreNumbers DEF ClientInv, IdsUnique, Echoes
<1> QED BY <1>4, <1>7, <1>9 DEF ClientInv

LEMMA SendBreaksKeepsClient ==
    ASSUME ClientInv, SendBreaks
    PROVE  ClientInv'
<1>1. ClientShape'
  BY DEF ClientInv, ClientShape, SendBreaks
<1>2. pending' = pending /\ nextId \in Nat /\ nextId' = nextId + 1
  BY DEF ClientInv, ClientShape, SendBreaks
<1>3. InFlight' = InFlight
  BY DEF SendBreaks, InFlight
<1>4. \A x \in InFlight' : \E y \in InFlight : x.id = y.id /\ Echoes(x, y)
  BY <1>3 DEF Echoes
<1>5. IdsUnique'
  <2>1. nextId' >= nextId /\ nextId' \in Nat
    BY <1>2
  <2>2. \A y \in InFlight : y.id \in Nat
    BY IdsAreNumbers DEF ClientInv
  <2> QED BY <1>2, <1>4, <2>1, <2>2, KeepsIds
<1> QED BY <1>1, <1>5 DEF ClientInv, SendBreaks

LEMMA ReceiveKeepsClient ==
    ASSUME ClientInv, NEW answer, Receive(answer), ready' \in BOOLEAN, ready' => process
    PROVE  ClientInv'
<1>1. ClientShape'
  BY DEF ClientInv, ClientShape, Receive
<1>2. InFlight' \subseteq InFlight
  BY DEF Receive, InFlight
<1>3. IdsUnique'
  BY <1>2, IdsAreNumbers, KeepsIds DEF ClientInv, ClientShape, Receive, Echoes
<1> QED BY <1>1, <1>3 DEF ClientInv, Receive

LEMMA ReceiveFailsKeepsClient ==
    ASSUME ClientInv, ReceiveFails
    PROVE  ClientInv'
<1>1. ClientShape'
  BY DEF ClientInv, ClientShape, ReceiveFails
<1>2. InFlight' \subseteq InFlight
  BY DEF ReceiveFails, InFlight
<1>3. IdsUnique'
  BY <1>2, IdsAreNumbers, KeepsIds DEF ClientInv, ClientShape, ReceiveFails, Echoes
<1> QED BY <1>1, <1>3 DEF ClientInv, ReceiveFails

LEMMA StopKeepsClient ==
    ASSUME ClientInv, Stop
    PROVE  ClientInv'
<1>1. stdout # <<>> => Head(stdout) \in Lines /\ Head(stdout) = stdout[1] /\ 1 \in DOMAIN stdout
  BY DEF ClientInv, ClientShape
<1>2. ClientShape'
  <2>1. held' \subseteq Lines
    BY <1>1 DEF ClientInv, ClientShape, Stop
  <2>2. stdin' = <<>> /\ stdout' = <<>> /\ process' = FALSE /\ alive' = FALSE /\ ready' = FALSE
    BY DEF Stop
  <2>3. stdin' \in Seq(Requested) /\ stdout' \in Seq(Lines)
    BY <2>2
  <2> QED BY <2>1, <2>2, <2>3 DEF ClientInv, ClientShape, Stop
<1>3. InFlight' \subseteq InFlight
  BY <1>1 DEF Stop, InFlight
<1>4. IdsUnique'
  BY <1>3, IdsAreNumbers, KeepsIds DEF ClientInv, ClientShape, Stop, Echoes
<1> QED BY <1>2, <1>4 DEF ClientInv, Stop

LEMMA ServeKeepsClient ==
    ASSUME ClientInv, Serve
    PROVE  ClientInv'
<1> DEFINE line == Handled(Head(stdin), grounded)
<1>1. Head(stdin) \in Requested /\ Head(stdin) = stdin[1] /\ 1 \in DOMAIN stdin
  BY DEF ClientInv, ClientShape, Serve
<1>2. line \in Lines /\ line.id = Head(stdin).id /\ Echoes(line, Head(stdin))
  BY <1>1, HandledEchoes
<1>3. stdin' = Tail(stdin) /\ stdout' = Append(stdout, line)
  BY DEF Serve
<1> HIDE DEF line
<1>4. ClientShape'
  BY <1>2, <1>3 DEF ClientInv, ClientShape, Serve
<1>5. \A x \in InFlight' : x = line \/ x \in InFlight
  <2>1. \A i \in DOMAIN stdin' : \E j \in DOMAIN stdin : stdin'[i] = stdin[j]
    BY <1>3 DEF ClientInv, ClientShape, Serve
  <2>2. \A i \in DOMAIN stdout' : stdout'[i] = line \/ \E j \in DOMAIN stdout : stdout'[i] = stdout[j]
    BY <1>3 DEF ClientInv, ClientShape
  <2> QED BY <2>1, <2>2 DEF InFlight, Serve
<1>6. Head(stdin) \in InFlight
  BY <1>1 DEF InFlight
<1>7. \A x \in InFlight' : \E y \in InFlight : x.id = y.id /\ Echoes(x, y)
  BY <1>2, <1>5, <1>6 DEF Echoes
<1>8. IdsUnique'
  BY <1>7, IdsAreNumbers, KeepsIds DEF ClientInv, ClientShape, Serve
<1> QED BY <1>4, <1>8 DEF ClientInv, Serve

LEMMA ReadLineKeepsClient ==
    ASSUME ClientInv, ReadLine
    PROVE  ClientInv'
<1>1. Head(stdout) \in Lines /\ Head(stdout) = stdout[1] /\ 1 \in DOMAIN stdout
  BY DEF ClientInv, ClientShape, ReadLine
<1>2. ClientShape'
  BY <1>1 DEF ClientInv, ClientShape, ReadLine
<1>3. InFlight' \subseteq InFlight
  <2>1. \A i \in DOMAIN stdout' : \E j \in DOMAIN stdout : stdout'[i] = stdout[j]
    BY DEF ClientInv, ClientShape, ReadLine
  <2> QED BY <1>1, <2>1 DEF ReadLine, InFlight
<1>4. IdsUnique'
  BY <1>3, IdsAreNumbers, KeepsIds DEF ClientInv, ClientShape, ReadLine, Echoes
<1> QED BY <1>2, <1>4 DEF ClientInv, ReadLine

LEMMA ReaderQuitsKeepsClient ==
    ASSUME ClientInv, ReaderQuits
    PROVE  ClientInv'
<1>1. ClientShape'
  BY DEF ClientInv, ClientShape, ReaderQuits
<1>2. InFlight' \subseteq InFlight
  BY DEF ReaderQuits, InFlight
<1>3. IdsUnique'
  BY <1>2, IdsAreNumbers, KeepsIds DEF ClientInv, ClientShape, ReaderQuits, Echoes
<1> QED BY <1>1, <1>3 DEF ClientInv, ReaderQuits

LEMMA StoreHeldKeepsClient ==
    ASSUME ClientInv, StoreHeld
    PROVE  ClientInv'
<1>1. ClientShape'
  BY DEF ClientInv, ClientShape, StoreHeld
<1>2. InFlight' \subseteq InFlight
  BY DEF StoreHeld, InFlight
<1>3. IdsUnique'
  BY <1>2, IdsAreNumbers, KeepsIds DEF ClientInv, ClientShape, StoreHeld, Echoes
<1> QED BY <1>1, <1>3 DEF ClientInv, StoreHeld

LEMMA ReadBesideKeepsClient ==
    ASSUME ClientInv, ReadBeside
    PROVE  ClientInv'
<1>1. Head(stdout) \in Lines /\ Head(stdout) = stdout[1] /\ 1 \in DOMAIN stdout
  BY DEF ClientInv, ClientShape, ReadBeside
<1>2. ClientShape'
  BY <1>1 DEF ClientInv, ClientShape, ReadBeside
<1>3. InFlight' \subseteq InFlight
  <2>1. \A i \in DOMAIN stdout' : \E j \in DOMAIN stdout : stdout'[i] = stdout[j]
    BY DEF ClientInv, ClientShape, ReadBeside
  <2> QED BY <1>1, <2>1 DEF ReadBeside, InFlight
<1>4. IdsUnique'
  BY <1>3, IdsAreNumbers, KeepsIds DEF ClientInv, ClientShape, ReadBeside, Echoes
<1> QED BY <1>2, <1>4 DEF ClientInv, ReadBeside

LEMMA CrashKeepsClient ==
    ASSUME ClientInv, Crash
    PROVE  ClientInv'
<1>1. ClientShape'
  <2>1. stdin' = <<>> /\ alive' = FALSE
    BY DEF Crash
  <2>2. stdin' \in Seq(Requested)
    BY <2>1
  <2> QED BY <2>1, <2>2 DEF ClientInv, ClientShape, Crash
<1>2. InFlight' \subseteq InFlight
  BY DEF Crash, InFlight
<1>3. IdsUnique'
  BY <1>2, IdsAreNumbers, KeepsIds DEF ClientInv, ClientShape, Crash, Echoes
<1> QED BY <1>1, <1>3 DEF ClientInv, Crash

LEMMA ServerKeepsClient ==
    ASSUME ClientInv, ServerSide
    PROVE  ClientInv'
BY ServeKeepsClient, ReadLineKeepsClient, ReaderQuitsKeepsClient, StoreHeldKeepsClient,
   ReadBesideKeepsClient, CrashKeepsClient DEF ServerSide

-----------------------------------------------------------------------------
(* The turn.                                                               *)

LEMMA LimitIsNat ==
    ASSUME TurnShape
    PROVE  ToolRoundLimit \in Nat /\ setting.uses \in Nat
BY SettingsAssumption DEF TurnShape, ToolRoundLimit, Profile

\* A turn that goes on keeps its count.
LEMMA TurnGoesOn ==
    ASSUME TurnInv, NEW t, NEW l \in Locations \ {"idle", "close", "audit"},
           WellFormedTurn(t), t.kind # "none", t.status = "none", Counted(t), Update(t, l)
    PROVE  TurnInv'
<1>1. setting' = setting /\ uses' = uses /\ pc' = l /\ turn' = t
  BY DEF Update, Goto
<1>2. ToolRoundLimit' = ToolRoundLimit /\ ToolRoundLimit \in Nat
  BY <1>1, LimitIsNat DEF ToolRoundLimit, Profile, TurnInv
<1>3. TurnShape'
  BY <1>1, <1>2 DEF TurnInv, TurnShape, WellFormedTurn
<1>4. Counted(turn)' /\ Bounded(turn)'
  BY <1>1, <1>2, RetriesAssumption DEF Counted, Bounded, WellFormedTurn
<1> QED BY <1>1, <1>3, <1>4 DEF TurnInv, WorkCounted

LEMMA TurnEnds ==
    ASSUME TurnInv, NEW t, NEW status \in Statuses \ {"none"},
           WellFormedTurn(t), t.kind # "none", Bounded(t), Ends(t, status)
    PROVE  /\ TurnInv'
           /\ pc' = "close" /\ setting' = setting
           /\ turn'.started = t.started /\ turn'.executed = t.executed
<1>1. setting' = setting /\ uses' = uses /\ pc' = "close" /\ turn' = [t EXCEPT !.status = status]
  BY DEF Ends, Update, Goto
<1>2. ToolRoundLimit' = ToolRoundLimit
  BY <1>1 DEF ToolRoundLimit, Profile
<1>3. /\ turn' = [f \in TurnFields |-> turn'[f]]
      /\ turn'.status = status
      /\ UNCHANGED setting /\ turn'.kind = t.kind /\ turn'.started = t.started
      /\ turn'.todo = t.todo /\ turn'.executed = t.executed
      /\ turn'.inferences = t.inferences /\ turn'.audits = t.audits
      /\ turn'.retries = t.retries /\ turn'.rounds = t.rounds
  BY <1>1 DEF WellFormedTurn, TurnFields
<1>4. TurnShape'
  BY <1>1, <1>2, <1>3 DEF TurnInv, TurnShape, WellFormedTurn, Locations
<1>5. Bounded(turn)'
  BY <1>2, <1>3 DEF Bounded
<1> QED BY <1>1, <1>3, <1>4, <1>5 DEF TurnInv, WorkCounted

LEMMA KeepsAnswers ==
    ASSUME AnswersOwnCall, turn'.executed = turn.executed
    PROVE  AnswersOwnCall'
BY DEF AnswersOwnCall, EntriesOf

\* What is true of every turn that has not come to its end.
LEMMA RunningTurn ==
    ASSUME TurnInv, pc \notin {"idle", "close"}
    PROVE  /\ WellFormedTurn(turn) /\ turn.kind # "none" /\ turn.status = "none"
           /\ Bounded(turn)
           /\ pc # "audit" => Counted(turn)
BY DEF TurnInv, TurnShape, WorkCounted

\* A turn that only moves, or only ends.
LEMMA TurnMoves ==
    ASSUME IInv, NEW l \in Locations \ {"idle", "close", "audit"},
           pc \notin {"idle", "close", "audit"}, Goto(l), SameTurn
    PROVE  TurnInv' /\ AnswersOwnCall'
<1>1. turn' = turn /\ Update(turn, l)
  BY DEF SameTurn, Update, Goto
<1> QED BY <1>1, TurnGoesOn, RunningTurn, KeepsAnswers DEF IInv

\* A turn that ends as it stands, with its client left alone.
LEMMA TurnEndsHere ==
    ASSUME IInv, NEW status \in Statuses \ {"none"},
           pc \notin {"idle", "close", "handshake", "listing", "calling"},
           NEW t, WellFormedTurn(t), t.kind # "none", Bounded(t),
           t.started = turn.started, t.executed = turn.executed,
           Ends(t, status), UNCHANGED clientVars
    PROVE  IInv'
<1>1. TurnInv' /\ pc' = "close" /\ setting' = setting
      /\ turn'.started = turn.started /\ turn'.executed = turn.executed
  BY TurnEnds DEF IInv
<1>2. ClientInv'
  BY ClientStutters DEF IInv
<1>3. WaitsForOwn'
  BY <1>1 DEF IInv, WaitsForOwn, clientVars
<1>4. Ownership'
  BY <1>1 DEF IInv, Ownership, clientVars
<1> QED BY <1>1, <1>2, <1>3, <1>4, KeepsAnswers DEF IInv

\* A turn that goes on without its client.
LEMMA TurnMovesHere ==
    ASSUME IInv, NEW t, NEW l \in {"policy", "attach", "list", "context", "infer", "call"},
           pc \notin {"idle", "close", "audit", "handshake", "listing", "calling"},
           WellFormedTurn(t), t.kind # "none", t.status = "none", Counted(t),
           t.started = turn.started,
           \A e \in EntriesOf(t.executed) : e.ok => e.got = <<e.name, e.path>>,
           Update(t, l), UNCHANGED clientVars
    PROVE  IInv'
<1>1. TurnInv'
  BY TurnGoesOn DEF IInv, Locations
<1>2. setting' = setting /\ pc' = l /\ turn' = t
  BY DEF Update, Goto
<1>3. ClientInv'
  BY ClientStutters DEF IInv
<1>4. WaitsForOwn'
  BY <1>2 DEF IInv, WaitsForOwn, clientVars
<1>5. Ownership'
  BY <1>2 DEF IInv, Ownership, clientVars
<1>6. AnswersOwnCall'
  BY <1>2 DEF AnswersOwnCall
<1> QED BY <1>1, <1>3, <1>4, <1>5, <1>6 DEF IInv

LEMMA NewTurnShape ==
    ASSUME TurnShape, NEW kind \in Kinds, NEW request
    PROVE  LET t == NewTurn(kind, request)
           IN /\ WellFormedTurn(t) /\ Counted(t) /\ Bounded(t)
              /\ t.kind = kind /\ t.status = "none" /\ t.started = FALSE
              /\ t.executed = <<>> /\ t.todo = <<>>
<1> DEFINE t == NewTurn(kind, request)
<1>1. /\ t = [f \in TurnFields |-> t[f]]
      /\ t.kind = kind /\ t.status = "none" /\ t.started = FALSE
      /\ t.executed = <<>> /\ t.todo = <<>> /\ t.rounds = 0 /\ t.retries = MaxRetries
      /\ t.inferences = 0 /\ t.audits = 0
  BY DEF NewTurn, TurnFields
<1>2. <<>> \in Seq(AllCalls) /\ <<>> \in Seq(Entries)
  OBVIOUS
<1> HIDE DEF t
<1>3. WellFormedTurn(t)
  <2>1. t.inferences \in Nat /\ t.audits \in 0..1
    BY <1>1
  <2>2. t.retries \in 0..MaxRetries /\ t.rounds \in 0..(ToolRoundLimit + 1)
    BY <1>1, LimitIsNat, RetriesAssumption
  <2>3. t.kind \in Kinds /\ t.status \in Statuses /\ t.started \in BOOLEAN
    BY <1>1 DEF Statuses
  <2> QED BY <1>1, <1>2, <2>1, <2>2, <2>3 DEF WellFormedTurn
<1>4. Counted(t) /\ Bounded(t)
  BY <1>1, LimitIsNat, RetriesAssumption DEF Counted, Bounded
<1> QED BY <1>1, <1>3, <1>4 DEF t

\* Worker.run is called.
LEMMA BeginTurnKeeps ==
    ASSUME IInv, NEW request, BeginTurn(request)
    PROVE  IInv'
<1> DEFINE t == NewTurn("worker", request)
<1>1. /\ uses' = uses + 1 /\ turn' = t /\ pc' = "policy" /\ setting' = setting
      /\ UNCHANGED clientVars /\ pc = "idle" /\ uses < setting.uses
  BY DEF BeginTurn, Goto
<1>2. /\ WellFormedTurn(t) /\ Counted(t) /\ Bounded(t)
      /\ t.kind = "worker" /\ t.status = "none" /\ t.started = FALSE /\ t.executed = <<>>
  BY NewTurnShape DEF IInv, TurnInv, Kinds
<1> HIDE DEF t
<1>3. uses' \in 0..setting.uses
  BY <1>1, LimitIsNat DEF IInv, TurnInv, TurnShape
<1>4. TurnInv'
  <2>1. ToolRoundLimit' = ToolRoundLimit
    BY <1>1 DEF ToolRoundLimit, Profile
  <2>2. TurnShape'
    BY <1>1, <1>2, <1>3, <2>1 DEF IInv, TurnInv, TurnShape, WellFormedTurn, Locations
  <2>3. WorkCounted'
    BY <1>1, <1>2, <2>1 DEF WorkCounted, Counted, Bounded
  <2> QED BY <2>2, <2>3 DEF TurnInv
<1>5. ClientInv'
  BY <1>1, ClientStutters DEF IInv
<1>6. WaitsForOwn'
  BY <1>1 DEF IInv, WaitsForOwn, clientVars
<1>7. Ownership'
  BY <1>1, <1>2 DEF IInv, ClientInv, Ownership, clientVars
<1>8. AnswersOwnCall'
  BY <1>1, <1>2 DEF AnswersOwnCall, EntriesOf
<1> QED BY <1>4, <1>5, <1>6, <1>7, <1>8 DEF IInv

\* MCPExecutor.execute is called.
LEMMA BeginStepKeeps ==
    ASSUME IInv, NEW call \in StepCalls, BeginStep(call)
    PROVE  IInv'
<1> DEFINE status == IF setting.attached THEN "none" ELSE "failed"
           new == NewTurn("step", turn.request)
           t == [new EXCEPT !.todo = <<call>>, !.status = status]
           l == IF setting.attached THEN "attach" ELSE "close"
<1>1. /\ uses' = uses + 1 /\ turn' = t /\ pc' = l /\ setting' = setting
      /\ UNCHANGED clientVars /\ pc = "idle" /\ uses < setting.uses
  BY DEF BeginStep, Goto
<1>2. /\ WellFormedTurn(new) /\ Counted(new) /\ Bounded(new)
      /\ new.kind = "step" /\ new.started = FALSE /\ new.executed = <<>>
  BY NewTurnShape DEF IInv, TurnInv, Kinds
<1>3. <<call>> \in Seq(AllCalls)
  BY DEF AllCalls
<1>4. \/ status = "none" /\ l = "attach"
      \/ status = "failed" /\ l = "close"
  OBVIOUS
<1> HIDE DEF new, status, l
<1>5. /\ t = [f \in TurnFields |-> t[f]]
      /\ t.kind = "step" /\ t.status = status /\ t.started = FALSE
      /\ t.executed = new.executed /\ t.todo = <<call>> /\ t.rounds = new.rounds
      /\ t.retries = new.retries /\ t.inferences = new.inferences /\ t.audits = new.audits
  BY <1>2 DEF WellFormedTurn, TurnFields
<1> HIDE DEF t
<1>6. WellFormedTurn(t) /\ Counted(t) /\ Bounded(t)
  <2>1. WellFormedTurn(t)
    BY <1>2, <1>3, <1>4, <1>5 DEF WellFormedTurn, Statuses
  <2>2. Counted(t) /\ Bounded(t)
    BY <1>2, <1>5 DEF Counted, Bounded
  <2> QED BY <2>1, <2>2
<1>7. uses' \in 0..setting.uses
  BY <1>1, LimitIsNat DEF IInv, TurnInv, TurnShape
<1>8. TurnInv'
  <2>1. ToolRoundLimit' = ToolRoundLimit
    BY <1>1 DEF ToolRoundLimit, Profile
  <2>2. TurnShape'
    BY <1>1, <1>4, <1>5, <1>6, <1>7, <2>1
       DEF IInv, TurnInv, TurnShape, WellFormedTurn, Locations
  <2>3. WorkCounted'
    BY <1>1, <1>4, <1>6, <2>1 DEF WorkCounted, Counted, Bounded
  <2> QED BY <2>2, <2>3 DEF TurnInv
<1>9. ClientInv'
  BY <1>1, ClientStutters DEF IInv
<1>10. WaitsForOwn'
  BY <1>1, <1>4 DEF IInv, WaitsForOwn, clientVars
<1>11. Ownership'
  BY <1>1, <1>4, <1>5 DEF IInv, ClientInv, Ownership, clientVars
<1>12. AnswersOwnCall'
  BY <1>1, <1>2, <1>5 DEF AnswersOwnCall, EntriesOf
<1> QED BY <1>8, <1>9, <1>10, <1>11, <1>12 DEF IInv

-----------------------------------------------------------------------------
(* The actions that end a turn, or move it on, without its client.         *)

\* AnswerDirectly, RefuseMutation, CannotSpawn, RefuseBlindRead,
\* ProviderUnreachable, ProviderFails.
LEMMA EarlyEndKeeps ==
    ASSUME IInv,
           \/ AnswerDirectly \/ RefuseMutation \/ CannotSpawn
           \/ RefuseBlindRead \/ ProviderUnreachable \/ ProviderFails
    PROVE  IInv'
<1> DEFINE blocked == [turn EXCEPT !.blocks = @ + 1]
<1>1. pc \in {"policy", "attach", "context", "infer"} /\ UNCHANGED clientVars
  BY DEF AnswerDirectly, RefuseMutation, CannotSpawn, RefuseBlindRead,
         ProviderUnreachable, ProviderFails
<1>2. WellFormedTurn(turn) /\ turn.kind # "none" /\ Bounded(turn)
  BY <1>1, RunningTurn DEF IInv
<1>3. /\ WellFormedTurn(blocked) /\ blocked.kind # "none" /\ Bounded(blocked)
      /\ blocked.started = turn.started /\ blocked.executed = turn.executed
  BY <1>2 DEF WellFormedTurn, TurnFields, Bounded
<1> HIDE DEF blocked
<1>4. \E status \in Statuses \ {"none"} : Ends(turn, status) \/ Ends(blocked, status)
  BY DEF AnswerDirectly, RefuseMutation, CannotSpawn, RefuseBlindRead,
         ProviderUnreachable, ProviderFails, Statuses, blocked
<1> QED BY <1>1, <1>2, <1>3, <1>4, TurnEndsHere

\* The answer of a model, kept in the turn.
LEMMA AnsweredShape ==
    ASSUME WellFormedTurn(turn), Counted(turn), TurnShape, NEW a
    PROVE  LET t == Answered(turn, a)
           IN /\ WellFormedTurn(t) /\ t.kind = turn.kind /\ t.status = turn.status
              /\ t.started = turn.started /\ t.executed = turn.executed
              /\ t.inferences = turn.inferences + 1 /\ t.audits = 0
              /\ t.retries = turn.retries /\ t.rounds = turn.rounds /\ t.todo = turn.todo
              /\ t.inferences <= MaxRetries + ToolRoundLimit + 1 /\ Bounded(t)
<1> DEFINE t == Answered(turn, a)
<1>1. /\ t = [f \in TurnFields |-> t[f]] /\ t.kind = turn.kind /\ t.status = turn.status
      /\ t.started = turn.started /\ t.executed = turn.executed
      /\ t.inferences = turn.inferences + 1 /\ t.audits = turn.audits
      /\ t.retries = turn.retries /\ t.rounds = turn.rounds /\ t.todo = turn.todo
  BY DEF Answered, WellFormedTurn, TurnFields
<1> HIDE DEF t
<1>2. WellFormedTurn(t)
  BY <1>1 DEF WellFormedTurn
<1>3. t.audits = 0 /\ t.inferences <= MaxRetries + ToolRoundLimit + 1 /\ Bounded(t)
  <2>1. /\ turn.inferences \in Nat /\ turn.retries \in Nat /\ turn.rounds \in Nat
        /\ MaxRetries \in Nat /\ ToolRoundLimit \in Nat
    BY LimitIsNat, RetriesAssumption DEF WellFormedTurn
  <2>2. turn.inferences <= MaxRetries + ToolRoundLimit
    BY <2>1 DEF Counted
  <2>3. t.audits = 0
    BY <1>1 DEF Counted
  <2> QED BY <1>1, <2>1, <2>2, <2>3 DEF Bounded
<1> QED BY <1>1, <1>2, <1>3 DEF t

LEMMA AcceptAnswerKeeps ==
    ASSUME IInv, NEW a, AcceptAnswer(a)
    PROVE  IInv'
<1>1. pc = "infer" /\ UNCHANGED clientVars /\ Ends(Answered(turn, a), "verified")
  BY DEF AcceptAnswer
<1>2. WellFormedTurn(turn) /\ turn.kind # "none" /\ Counted(turn) /\ TurnShape
  BY <1>1, RunningTurn DEF IInv, TurnInv
<1> QED BY <1>1, <1>2, AnsweredShape, TurnEndsHere DEF Statuses

\* The last word without an auditor, or the way to the auditor.
LEMMA DoubtAnswerKeeps ==
    ASSUME IInv, NEW a, DoubtAnswer(a)
    PROVE  IInv'
<1> DEFINE t == Answered(turn, a)
<1>1. pc = "infer" /\ UNCHANGED clientVars
  BY DEF DoubtAnswer
<1>2. /\ WellFormedTurn(turn) /\ turn.kind # "none" /\ turn.status = "none"
      /\ Counted(turn) /\ TurnShape
  BY <1>1, RunningTurn DEF IInv, TurnInv
<1>3. /\ WellFormedTurn(t) /\ t.kind = turn.kind /\ t.status = turn.status
      /\ t.started = turn.started /\ t.executed = turn.executed /\ t.audits = 0
      /\ t.inferences <= MaxRetries + ToolRoundLimit + 1 /\ Bounded(t)
  BY <1>2, AnsweredShape
<1>4. Ends(t, "failed") \/ Update(t, "audit")
  BY DEF DoubtAnswer
<1> HIDE DEF t
<1>5. CASE Ends(t, "failed")
  BY <1>1, <1>2, <1>3, <1>5, TurnEndsHere DEF Statuses
<1>6. CASE Update(t, "audit")
  <2>1. setting' = setting /\ uses' = uses /\ pc' = "audit" /\ turn' = t
    BY <1>6 DEF Update, Goto
  <2>2. ToolRoundLimit' = ToolRoundLimit
    BY <2>1 DEF ToolRoundLimit, Profile
  <2>3. TurnInv'
    <3>1. TurnShape'
      BY <1>2, <1>3, <2>1, <2>2 DEF TurnShape, WellFormedTurn, Locations
    <3>2. WorkCounted'
      BY <1>3, <2>1, <2>2 DEF WorkCounted, Bounded
    <3> QED BY <3>1, <3>2 DEF TurnInv
  <2>4. ClientInv'
    BY <1>1, ClientStutters DEF IInv
  <2>5. WaitsForOwn'
    BY <1>1, <2>1 DEF IInv, WaitsForOwn, clientVars
  <2>6. Ownership'
    BY <1>1, <1>3, <2>1 DEF IInv, Ownership, clientVars
  <2>7. AnswersOwnCall'
    BY <1>3, <2>1, KeepsAnswers DEF IInv
  <2> QED BY <2>3, <2>4, <2>5, <2>6, <2>7 DEF IInv
<1> QED BY <1>4, <1>5, <1>6

LEMMA RetryAnswerKeeps ==
    ASSUME IInv, NEW a, RetryAnswer(a)
    PROVE  IInv'
<1> DEFINE answered == Answered(turn, a)
           t == Noted(answered)
<1>1. pc = "infer" /\ UNCHANGED clientVars /\ Update(t, "infer") /\ turn.retries > 0
  BY DEF RetryAnswer, MayRetry
<1>2. /\ WellFormedTurn(turn) /\ turn.kind # "none" /\ turn.status = "none"
      /\ Counted(turn) /\ TurnShape
  BY <1>1, RunningTurn DEF IInv, TurnInv
<1>3. /\ WellFormedTurn(answered) /\ answered.kind = turn.kind
      /\ answered.status = turn.status /\ answered.started = turn.started
      /\ answered.executed = turn.executed /\ answered.inferences = turn.inferences + 1
      /\ answered.audits = 0 /\ answered.retries = turn.retries
      /\ answered.rounds = turn.rounds
  BY <1>2, AnsweredShape
<1> HIDE DEF answered
<1>4. /\ t = [f \in TurnFields |-> t[f]] /\ t.kind = turn.kind /\ t.status = turn.status
      /\ t.started = turn.started /\ t.executed = turn.executed /\ t.todo = answered.todo
      /\ t.inferences = turn.inferences + 1 /\ t.audits = 0
      /\ t.retries = turn.retries - 1 /\ t.rounds = turn.rounds
  BY <1>3 DEF Noted, WellFormedTurn, TurnFields
<1> HIDE DEF t
<1>5. t.retries \in 0..MaxRetries
  BY <1>1, <1>2, <1>4, RetriesAssumption DEF WellFormedTurn
<1>6. WellFormedTurn(t)
  BY <1>2, <1>3, <1>4, <1>5 DEF WellFormedTurn
<1>7. Counted(t)
  BY <1>2, <1>4, LimitIsNat, RetriesAssumption DEF Counted, WellFormedTurn
<1>8. \A e \in EntriesOf(t.executed) : e.ok => e.got = <<e.name, e.path>>
  BY <1>4 DEF IInv, AnswersOwnCall
<1> QED BY <1>1, <1>2, <1>4, <1>6, <1>7, <1>8, TurnMovesHere

LEMMA AuditKeeps ==
    ASSUME IInv, AuditFails \/ \E a \in Answers : AuditPasses(a)
    PROVE  IInv'
<1>1. pc = "audit" /\ UNCHANGED clientVars
  BY DEF AuditFails, AuditPasses
<1>2. /\ WellFormedTurn(turn) /\ turn.kind # "none" /\ turn.audits = 0
      /\ turn.inferences <= MaxRetries + ToolRoundLimit + 1
  BY <1>1, RunningTurn DEF IInv, TurnInv, WorkCounted
<1>3. ToolRoundLimit \in Nat
  BY LimitIsNat DEF IInv, TurnInv
<1>4. CASE AuditFails
  <2> DEFINE t == [turn EXCEPT !.audits = @ + 1]
  <2>1. /\ t = [f \in TurnFields |-> t[f]] /\ t.kind = turn.kind /\ t.status = turn.status
        /\ t.started = turn.started /\ t.executed = turn.executed /\ t.todo = turn.todo
        /\ t.inferences = turn.inferences /\ t.audits = turn.audits + 1
        /\ t.retries = turn.retries /\ t.rounds = turn.rounds
    BY <1>2 DEF WellFormedTurn, TurnFields
  <2>2. Ends(t, "failed")
    BY <1>4 DEF AuditFails
  <2> HIDE DEF t
  <2>3. WellFormedTurn(t) /\ Bounded(t)
    BY <1>2, <1>3, <2>1, RetriesAssumption DEF WellFormedTurn, Bounded
  <2> QED BY <1>1, <1>2, <2>1, <2>2, <2>3, TurnEndsHere DEF Statuses
<1>5. ASSUME NEW a \in Answers, AuditPasses(a) PROVE IInv'
  <2> DEFINE t == [turn EXCEPT !.audits = @ + 1, !.answer = a]
  <2>1. /\ t = [f \in TurnFields |-> t[f]] /\ t.kind = turn.kind /\ t.status = turn.status
        /\ t.started = turn.started /\ t.executed = turn.executed /\ t.todo = turn.todo
        /\ t.inferences = turn.inferences /\ t.audits = turn.audits + 1
        /\ t.retries = turn.retries /\ t.rounds = turn.rounds
    BY <1>2 DEF WellFormedTurn, TurnFields
  <2>2. Ends(t, "audited")
    BY <1>5 DEF AuditPasses
  <2> HIDE DEF t
  <2>3. WellFormedTurn(t) /\ Bounded(t)
    BY <1>2, <1>3, <2>1, RetriesAssumption DEF WellFormedTurn, Bounded
  <2> QED BY <1>1, <1>2, <2>1, <2>2, <2>3, TurnEndsHere DEF Statuses
<1> QED BY <1>4, <1>5

LEMMA RefuseCallsKeeps ==
    ASSUME IInv, RefuseCalls
    PROVE  IInv'
<1> DEFINE rounds == IF turn.selected = {} THEN turn.rounds ELSE turn.rounds + 1
           t == [turn EXCEPT !.inferences = @ + 1, !.rounds = rounds]
<1>1. pc = "infer" /\ UNCHANGED clientVars /\ Ends(t, "failed")
  BY DEF RefuseCalls
<1>2. /\ WellFormedTurn(turn) /\ turn.kind # "none" /\ Counted(turn)
      /\ ToolRoundLimit \in Nat
  BY <1>1, RunningTurn, LimitIsNat DEF IInv, TurnInv
<1>3. rounds \in 0..(ToolRoundLimit + 1)
  BY <1>2 DEF WellFormedTurn, Counted
<1> HIDE DEF rounds
<1>4. /\ t = [f \in TurnFields |-> t[f]] /\ t.kind = turn.kind /\ t.status = turn.status
      /\ t.started = turn.started /\ t.executed = turn.executed /\ t.todo = turn.todo
      /\ t.inferences = turn.inferences + 1 /\ t.audits = turn.audits
      /\ t.retries = turn.retries /\ t.rounds = rounds
  BY <1>2 DEF WellFormedTurn, TurnFields
<1> HIDE DEF t
<1>5. WellFormedTurn(t)
  BY <1>2, <1>3, <1>4 DEF WellFormedTurn
<1>6. Bounded(t)
  BY <1>2, <1>4, RetriesAssumption DEF WellFormedTurn, Counted, Bounded
<1> QED BY <1>1, <1>2, <1>4, <1>5, <1>6, TurnEndsHere DEF Statuses

LEMMA TakeCallsKeeps ==
    ASSUME IInv, NEW calls \in CallLists, TakeCalls(calls)
    PROVE  IInv'
<1> DEFINE t == [turn EXCEPT !.inferences = @ + 1, !.rounds = @ + 1,
                             !.todo = calls, !.done = 0]
<1>1. /\ pc = "infer" /\ UNCHANGED clientVars /\ Update(t, "call")
      /\ turn.rounds + 1 <= ToolRoundLimit
  BY DEF TakeCalls
<1>2. /\ WellFormedTurn(turn) /\ turn.kind # "none" /\ turn.status = "none"
      /\ Counted(turn) /\ ToolRoundLimit \in Nat
  BY <1>1, RunningTurn, LimitIsNat DEF IInv, TurnInv
<1>3. /\ t = [f \in TurnFields |-> t[f]] /\ t.kind = turn.kind /\ t.status = turn.status
      /\ t.started = turn.started /\ t.executed = turn.executed /\ t.todo = calls
      /\ t.inferences = turn.inferences + 1 /\ t.audits = turn.audits
      /\ t.retries = turn.retries /\ t.rounds = turn.rounds + 1
  BY <1>2 DEF WellFormedTurn, TurnFields
<1> HIDE DEF t
<1>4. WellFormedTurn(t)
  <2>1. calls \in Seq(AllCalls)
    BY CallsAssumption
  <2>2. t.rounds \in 0..(ToolRoundLimit + 1)
    BY <1>1, <1>2, <1>3 DEF WellFormedTurn
  <2> QED BY <1>2, <1>3, <2>1, <2>2 DEF WellFormedTurn
<1>5. Counted(t)
  <2>1. /\ turn.inferences \in Nat /\ turn.retries \in Nat /\ turn.rounds \in Nat
        /\ MaxRetries \in Nat
    BY <1>2, RetriesAssumption DEF WellFormedTurn
  <2>2. t.inferences = (MaxRetries - t.retries) + t.rounds
    BY <1>2, <1>3, <2>1 DEF Counted
  <2> QED BY <1>1, <1>2, <1>3, <2>2 DEF Counted
<1>6. \A e \in EntriesOf(t.executed) : e.ok => e.got = <<e.name, e.path>>
  BY <1>3 DEF IInv, AnswersOwnCall
<1> QED BY <1>1, <1>2, <1>3, <1>4, <1>5, <1>6, TurnMovesHere

\* PassPolicy, JoinServer, BuildContext: the turn as it is, one place further.
LEMMA PreludeMoveKeeps ==
    ASSUME IInv, PassPolicy \/ JoinServer \/ BuildContext
    PROVE  IInv'
<1>1. pc \in {"policy", "attach", "context"} /\ UNCHANGED clientVars
  BY DEF PassPolicy, JoinServer, BuildContext
<1>2. /\ WellFormedTurn(turn) /\ turn.kind # "none" /\ turn.status = "none"
      /\ Counted(turn)
  BY <1>1, RunningTurn DEF IInv
<1>3. \E l \in {"attach", "list", "context", "infer", "call"} : Update(turn, l)
  BY DEF PassPolicy, JoinServer, BuildContext, AfterAttach
<1> QED BY <1>1, <1>2, <1>3, TurnMovesHere DEF IInv, AnswersOwnCall

-----------------------------------------------------------------------------
(* The actions in which a turn and its client move together.               *)

\* A turn that ends while its client gives up, or fails, what it waited for.
LEMMA TurnEndsWithClient ==
    ASSUME IInv, ClientInv', pc \notin {"idle", "close"},
           NEW status \in Statuses \ {"none"},
           NEW t, WellFormedTurn(t), t.kind # "none", Bounded(t), t.started = turn.started,
           \A e \in EntriesOf(t.executed) : e.ok => e.got = <<e.name, e.path>>,
           Ends(t, status),
           pending' = NoRequest, process' = process, ready' = ready
    PROVE  IInv'
<1>1. TurnInv' /\ pc' = "close" /\ setting' = setting
      /\ turn'.started = turn.started /\ turn'.executed = t.executed
  BY TurnEnds DEF IInv
<1>2. WaitsForOwn'
  BY <1>1 DEF WaitsForOwn
<1>3. Ownership'
  BY <1>1 DEF IInv, Ownership
<1>4. AnswersOwnCall'
  BY <1>1 DEF AnswersOwnCall
<1> QED BY <1>1, <1>2, <1>3, <1>4 DEF IInv

LEMMA TurnMovesWithClient ==
    ASSUME IInv, ClientInv', pc \notin {"idle", "close", "handshake"},
           NEW l \in {"context", "call"},
           NEW t, WellFormedTurn(t), t.kind # "none", t.status = "none", Counted(t),
           t.started = turn.started,
           \A e \in EntriesOf(t.executed) : e.ok => e.got = <<e.name, e.path>>,
           Update(t, l),
           pending' = NoRequest, process' = process, ready' = ready
    PROVE  IInv'
<1>1. TurnInv'
  BY TurnGoesOn DEF IInv, Locations
<1>2. setting' = setting /\ pc' = l /\ turn' = t
  BY DEF Update, Goto
<1>3. WaitsForOwn'
  BY <1>2 DEF WaitsForOwn
<1>4. Ownership'
  BY <1>2 DEF IInv, Ownership
<1>5. AnswersOwnCall'
  BY <1>2 DEF AnswersOwnCall
<1> QED BY <1>1, <1>3, <1>4, <1>5 DEF IInv

LEMMA StartServerKeeps ==
    ASSUME IInv, StartServer
    PROVE  IInv'
<1>1. /\ pc = "attach" /\ ~process /\ Spawn /\ Goto("handshake") /\ SameTurn
      /\ pc' = "handshake" /\ turn' = turn /\ setting' = setting
  BY DEF StartServer, Goto, SameTurn
<1>2. ClientInv'
  BY <1>1, SpawnKeepsClient DEF IInv
<1>3. TurnInv' /\ AnswersOwnCall'
  BY <1>1, TurnMoves DEF Locations
<1>4. process' = TRUE /\ ready' = FALSE
  BY <1>1 DEF Spawn
<1>5. WaitsForOwn'
  <2>1. pending' \in Requested
    <3> DEFINE request == [Request("initialize", "none", "none") EXCEPT !.id = FirstId]
    <3>1. pending' = request
      BY <1>1 DEF Spawn
    <3>2. request = Request("initialize", "none", "none")
      BY DEF Request, FirstId
    <3> HIDE DEF request
    <3>3. "initialize" \in Methods /\ "none" \in Tools /\ "none" \in Names
      BY DEF Methods, Tools, Names
    <3>4. Request("initialize", "none", "none") \in Requested
      BY <3>3, RequestShape DEF IInv, ClientInv
    <3> QED BY <3>1, <3>2, <3>4
  <2> QED BY <1>1, <2>1, NoRequestAssumption DEF WaitsForOwn
<1>6. Ownership'
  BY <1>1, <1>4 DEF IInv, Ownership
<1> QED BY <1>2, <1>3, <1>5, <1>6 DEF IInv

LEMMA AskToolsKeeps ==
    ASSUME IInv, AskTools
    PROVE  IInv'
<1>1. /\ pc = "list" /\ Send("tools/list", "none", "none") /\ Goto("listing") /\ SameTurn
      /\ pc' = "listing" /\ turn' = turn /\ setting' = setting
  BY DEF AskTools, Goto, SameTurn
<1>2. "tools/list" \in Methods /\ "none" \in Tools /\ "none" \in Names
  BY DEF Methods, Tools, Names
<1>3. ClientInv'
  BY <1>1, <1>2, SendKeepsClient DEF IInv
<1>4. TurnInv' /\ AnswersOwnCall'
  BY <1>1, TurnMoves DEF Locations
<1>5. Request("tools/list", "none", "none") \in Requested
  BY <1>2, RequestShape DEF IInv, ClientInv
<1>6. WaitsForOwn'
  BY <1>1, <1>5, NoRequestAssumption DEF WaitsForOwn, Send
<1>7. Ownership'
  BY <1>1 DEF IInv, Ownership, Send
<1> QED BY <1>3, <1>4, <1>6, <1>7 DEF IInv

LEMMA SendCallKeeps ==
    ASSUME IInv, SendCall
    PROVE  IInv'
<1> DEFINE name == Head(turn.todo).name
           path == Head(turn.todo).path
<1>1. /\ pc = "call" /\ turn.todo # <<>> /\ Send("tools/call", name, path)
      /\ Goto("calling") /\ SameTurn
      /\ pc' = "calling" /\ turn' = turn /\ setting' = setting
  BY DEF SendCall, Goto, SameTurn
<1>2. Head(turn.todo) \in AllCalls
  BY <1>1 DEF IInv, TurnInv, TurnShape, WellFormedTurn
<1>3. "tools/call" \in Methods /\ name \in Tools /\ path \in Names
  BY <1>2 DEF Methods, Tools, Names
<1>4. ClientInv'
  BY <1>1, <1>3, SendKeepsClient DEF IInv
<1>5. TurnInv' /\ AnswersOwnCall'
  BY <1>1, TurnMoves DEF Locations
<1>6. Request("tools/call", name, path) \in Requested
  BY <1>3, RequestShape DEF IInv, ClientInv
<1>7. pending' = Request("tools/call", name, path)
  BY <1>1 DEF Send
<1>8. WaitsForOwn'
  <2>1. Echoes(Request("tools/call", name, path), [tool |-> name, path |-> path])
    BY DEF Echoes, Request
  <2> QED BY <1>1, <1>6, <1>7, <2>1, NoRequestAssumption DEF WaitsForOwn
<1>9. Ownership'
  BY <1>1 DEF IInv, Ownership, Send
<1> QED BY <1>4, <1>5, <1>8, <1>9 DEF IInv

\* start() returns: from here on the turn owns the server.
LEMMA HandshakeDoneKeeps ==
    ASSUME IInv, HandshakeDone
    PROVE  IInv'
<1> DEFINE t == [turn EXCEPT !.started = TRUE]
           l == IF t.kind = "worker" THEN "list" ELSE "call"
<1>1. /\ pc = "handshake" /\ ready' = TRUE /\ Update(t, l)
      /\ \E answer \in responses : Receive(answer)
  BY DEF HandshakeDone, AfterAttach
<1>2. process' = process /\ process = TRUE /\ pending' = NoRequest
  BY <1>1 DEF IInv, Ownership, ClientInv, ClientShape, Receive
<1>3. ClientInv'
  BY <1>1, <1>2, ReceiveKeepsClient DEF IInv
<1>4. /\ WellFormedTurn(turn) /\ turn.kind # "none" /\ turn.status = "none"
      /\ Counted(turn)
  BY <1>1, RunningTurn DEF IInv
<1>5. /\ WellFormedTurn(t) /\ t.kind = turn.kind /\ t.status = turn.status
      /\ t.started = TRUE /\ t.executed = turn.executed /\ Counted(t)
  BY <1>4 DEF WellFormedTurn, TurnFields, Counted
<1>6. l \in {"list", "call"}
  OBVIOUS
<1> HIDE DEF t, l
<1>7. TurnInv'
  BY <1>1, <1>4, <1>5, <1>6, TurnGoesOn DEF IInv, Locations
<1>8. pc' = l /\ turn' = t
  BY <1>1 DEF Update, Goto
<1>9. WaitsForOwn'
  BY <1>2, <1>6, <1>8 DEF WaitsForOwn
<1>10. Ownership'
  BY <1>1, <1>2, <1>5, <1>6, <1>8 DEF Ownership
<1>11. AnswersOwnCall'
  BY <1>5, <1>8, KeepsAnswers DEF IInv
<1> QED BY <1>3, <1>7, <1>9, <1>10, <1>11 DEF IInv

LEMMA HandshakeBreaksKeeps ==
    ASSUME IInv, HandshakeBreaks
    PROVE  IInv'
<1>1. /\ pc = "handshake" /\ UNCHANGED ready /\ Ends(turn, "raised")
      /\ \E answer \in responses : Receive(answer)
  BY DEF HandshakeBreaks
<1>2. process' = process /\ pending' = NoRequest
  BY <1>1 DEF Receive
<1>3. ClientInv'
  BY <1>1, ReceiveKeepsClient DEF IInv, ClientInv, ClientShape
<1>4. WellFormedTurn(turn) /\ turn.kind # "none" /\ Bounded(turn)
  BY <1>1, RunningTurn DEF IInv
<1> QED BY <1>1, <1>2, <1>3, <1>4, TurnEndsWithClient DEF Statuses, IInv, AnswersOwnCall

LEMMA HandshakeFailsKeeps ==
    ASSUME IInv, HandshakeFails
    PROVE  IInv'
<1>1. /\ pc = "handshake" /\ ReceiveFails
      /\ Ends(turn, "failed") \/ Ends(turn, "raised")
  BY DEF HandshakeFails
<1>2. process' = process /\ ready' = ready /\ pending' = NoRequest
  BY <1>1 DEF ReceiveFails
<1>3. ClientInv'
  BY <1>1, ReceiveFailsKeepsClient DEF IInv
<1>4. WellFormedTurn(turn) /\ turn.kind # "none" /\ Bounded(turn)
  BY <1>1, RunningTurn DEF IInv
<1> QED BY <1>1, <1>2, <1>3, <1>4, TurnEndsWithClient DEF Statuses, IInv, AnswersOwnCall

LEMMA ListFailsKeeps ==
    ASSUME IInv, ListFails
    PROVE  IInv'
<1>1. pc \in {"list", "listing"} /\ Ends(turn, "failed") /\ (SendBreaks \/ ReceiveFails)
  BY DEF ListFails
<1>2. process' = process /\ ready' = ready /\ pending' = NoRequest
  BY <1>1 DEF ReceiveFails, SendBreaks
<1>3. ClientInv'
  BY <1>1, ReceiveFailsKeepsClient, SendBreaksKeepsClient DEF IInv
<1>4. WellFormedTurn(turn) /\ turn.kind # "none" /\ Bounded(turn)
  BY <1>1, RunningTurn DEF IInv
<1> QED BY <1>1, <1>2, <1>3, <1>4, TurnEndsWithClient DEF Statuses, IInv, AnswersOwnCall

LEMMA ToolsListedKeeps ==
    ASSUME IInv, ToolsListed
    PROVE  IInv'
<1> DEFINE t == [turn EXCEPT !.selected =
                    Selected(Profile, TaskType(turn.request.signals), OfferedCatalog)]
<1>1. /\ pc = "listing" /\ UNCHANGED ready /\ Update(t, "context")
      /\ \E answer \in responses : Receive(answer)
  BY DEF ToolsListed
<1>2. process' = process /\ pending' = NoRequest
  BY <1>1 DEF Receive
<1>3. ClientInv'
  BY <1>1, ReceiveKeepsClient DEF IInv, ClientInv, ClientShape
<1>4. /\ WellFormedTurn(turn) /\ turn.kind # "none" /\ turn.status = "none"
      /\ Counted(turn)
  BY <1>1, RunningTurn DEF IInv
<1>5. /\ WellFormedTurn(t) /\ t.kind = turn.kind /\ t.status = turn.status
      /\ t.started = turn.started /\ t.executed = turn.executed /\ Counted(t)
  BY <1>4 DEF WellFormedTurn, TurnFields, Counted
<1> HIDE DEF t
<1> QED BY <1>1, <1>2, <1>3, <1>4, <1>5, TurnMovesWithClient DEF IInv, AnswersOwnCall

-----------------------------------------------------------------------------
(* The calls of a round.                                                   *)

\* A call leaves a well-formed entry, and one that succeeded the answer to it.
LEMMA EntryShape ==
    ASSUME NEW call \in AllCalls, NEW sent \in BOOLEAN, NEW answer,
           answer \in Lines \/ answer = Nothing
    PROVE  /\ Entry(call, sent, answer) \in Entries
           /\ Entry(call, sent, answer).ok = answer.ok
           /\ Entry(call, sent, answer).name = call.name
           /\ Entry(call, sent, answer).path = call.path
           /\ Entry(call, sent, answer).got = <<answer.tool, answer.path>>
<1>1. /\ answer.tool \in Tools /\ answer.path \in Names /\ answer.ok \in BOOLEAN
      /\ answer.found \in SUBSET Names /\ answer.number \in Numbers
  <2>1. CASE answer \in Lines
    BY <2>1 DEF Lines
  <2>2. CASE answer = Nothing
    <3>1. "none" \in Tools /\ "none" \in Names /\ NoNumber \in Numbers
      BY DEF Tools, Names, Numbers
    <3> QED BY <2>2, <3>1 DEF Nothing
  <2> QED BY <2>1, <2>2
<1>2. call.name \in Tools /\ call.path \in Names
  BY DEF Tools, Names
<1> QED BY <1>1, <1>2 DEF Entry, Entries

\* What Recorded keeps of a turn.
LEMMA RecordedShape ==
    ASSUME WellFormedTurn(turn), turn.todo # <<>>, NEW sent \in BOOLEAN, NEW answer,
           answer \in Lines \/ answer = Nothing,
           AnswersOwnCall,
           answer.ok => Echoes(answer, [tool |-> Head(turn.todo).name,
                                        path |-> Head(turn.todo).path])
    PROVE  LET t == Recorded(turn, sent, answer)
           IN /\ WellFormedTurn(t) /\ t.kind = turn.kind /\ t.status = turn.status
              /\ t.started = turn.started /\ t.inferences = turn.inferences
              /\ t.audits = turn.audits /\ t.retries = turn.retries
              /\ t.rounds = turn.rounds
              /\ \A e \in EntriesOf(t.executed) : e.ok => e.got = <<e.name, e.path>>
<1> DEFINE call == Head(turn.todo)
           entry == Entry(call, sent, answer)
           t == Recorded(turn, sent, answer)
<1>1. turn.todo \in Seq(AllCalls) /\ turn.executed \in Seq(Entries)
  BY DEF WellFormedTurn
<1>2. call \in AllCalls /\ Tail(turn.todo) \in Seq(AllCalls)
  BY <1>1
<1>3. /\ entry \in Entries /\ entry.ok = answer.ok
      /\ entry.name = call.name /\ entry.path = call.path
      /\ entry.got = <<answer.tool, answer.path>>
  BY <1>2, EntryShape
<1>4. entry.ok => entry.got = <<entry.name, entry.path>>
  BY <1>3 DEF Echoes
<1>5. /\ t = [f \in TurnFields |-> t[f]] /\ t.kind = turn.kind /\ t.status = turn.status
      /\ t.started = turn.started /\ t.inferences = turn.inferences
      /\ t.audits = turn.audits /\ t.retries = turn.retries /\ t.rounds = turn.rounds
      /\ t.executed = Append(turn.executed, entry) /\ t.todo = Tail(turn.todo)
  BY DEF Recorded, WellFormedTurn, TurnFields
<1> HIDE DEF t, entry, call
<1>6. WellFormedTurn(t)
  <2>1. Append(turn.executed, entry) \in Seq(Entries)
    BY <1>1, <1>3
  <2>2. t.executed \in Seq(Entries) /\ t.todo \in Seq(AllCalls)
    BY <1>2, <1>5, <2>1
  <2> QED BY <1>5, <2>2 DEF WellFormedTurn
<1>7. ASSUME NEW e \in EntriesOf(t.executed)
      PROVE  e.ok => e.got = <<e.name, e.path>>
  <2>1. \A i \in DOMAIN Append(turn.executed, entry) :
           \/ Append(turn.executed, entry)[i] = entry
           \/ \E j \in DOMAIN turn.executed :
                 Append(turn.executed, entry)[i] = turn.executed[j]
    BY <1>1, <1>3
  <2>2. t.executed = Append(turn.executed, entry)
    BY <1>5
  <2>3. e = entry \/ e \in EntriesOf(turn.executed)
    BY <2>1, <2>2 DEF EntriesOf
  <2> QED BY <1>4, <2>3 DEF AnswersOwnCall
<1> QED BY <1>5, <1>6, <1>7 DEF t

LEMMA BlockCallKeeps ==
    ASSUME IInv, BlockCall
    PROVE  IInv'
<1> DEFINE recorded == Recorded(turn, FALSE, Nothing)
           t == [recorded EXCEPT !.blocks = @ + 1]
<1>1. /\ pc = "call" /\ turn.todo # <<>> /\ UNCHANGED clientVars /\ Update(t, "call")
  BY DEF BlockCall
<1>2. /\ WellFormedTurn(turn) /\ turn.kind # "none" /\ turn.status = "none"
      /\ Counted(turn)
  BY <1>1, RunningTurn DEF IInv
<1>3. ~Nothing.ok
  BY DEF Nothing
<1>4. /\ WellFormedTurn(recorded) /\ recorded.kind = turn.kind
      /\ recorded.status = turn.status /\ recorded.started = turn.started
      /\ recorded.inferences = turn.inferences /\ recorded.audits = turn.audits
      /\ recorded.retries = turn.retries /\ recorded.rounds = turn.rounds
      /\ \A e \in EntriesOf(recorded.executed) : e.ok => e.got = <<e.name, e.path>>
  BY <1>1, <1>2, <1>3, RecordedShape DEF IInv
<1> HIDE DEF recorded
<1>5. /\ WellFormedTurn(t) /\ t.kind = turn.kind /\ t.status = turn.status
      /\ t.started = turn.started /\ t.executed = recorded.executed /\ Counted(t)
  BY <1>2, <1>4 DEF WellFormedTurn, TurnFields, Counted
<1> HIDE DEF t
<1> QED BY <1>1, <1>2, <1>4, <1>5, TurnMovesHere

LEMMA EndRoundKeeps ==
    ASSUME IInv, EndRound
    PROVE  IInv'
<1> DEFINE t == [turn EXCEPT !.messages =
                    WithToolTurn(@, [k \in 1..turn.done |-> 10 * turn.rounds + k])]
<1>1. pc = "call" /\ UNCHANGED clientVars /\ Update(t, "infer")
  BY DEF EndRound
<1>2. /\ WellFormedTurn(turn) /\ turn.kind # "none" /\ turn.status = "none"
      /\ Counted(turn)
  BY <1>1, RunningTurn DEF IInv
<1>3. /\ WellFormedTurn(t) /\ t.kind = turn.kind /\ t.status = turn.status
      /\ t.started = turn.started /\ t.executed = turn.executed /\ Counted(t)
  BY <1>2 DEF WellFormedTurn, TurnFields, Counted
<1> HIDE DEF t
<1> QED BY <1>1, <1>2, <1>3, TurnMovesHere DEF IInv, AnswersOwnCall

\* The result of a call, or its failure, is recorded; a step ends with it.
LEMMA AfterCallKeeps ==
    ASSUME IInv, ClientInv', pc \in {"call", "calling"}, turn.todo # <<>>,
           NEW answer, answer \in Lines \/ answer = Nothing,
           answer.ok => Echoes(answer, [tool |-> Head(turn.todo).name,
                                        path |-> Head(turn.todo).path]),
           AfterCall(turn, answer),
           pending' = NoRequest, process' = process, ready' = ready
    PROVE  IInv'
<1> DEFINE t == Recorded(turn, TRUE, answer)
<1>1. /\ WellFormedTurn(turn) /\ turn.kind # "none" /\ turn.status = "none"
      /\ Counted(turn) /\ Bounded(turn)
  BY RunningTurn DEF IInv
<1>2. /\ WellFormedTurn(t) /\ t.kind = turn.kind /\ t.status = turn.status
      /\ t.started = turn.started /\ t.inferences = turn.inferences
      /\ t.audits = turn.audits /\ t.retries = turn.retries /\ t.rounds = turn.rounds
      /\ \A e \in EntriesOf(t.executed) : e.ok => e.got = <<e.name, e.path>>
  BY <1>1, RecordedShape DEF IInv
<1>3. Update(t, "call") \/ Ends(t, "direct") \/ Ends(t, "failed")
  BY DEF AfterCall
<1> HIDE DEF t
<1>4. Counted(t) /\ Bounded(t)
  BY <1>1, <1>2 DEF Counted, Bounded
<1>5. CASE Update(t, "call")
  BY <1>1, <1>2, <1>4, <1>5, TurnMovesWithClient
<1>6. CASE Ends(t, "direct") \/ Ends(t, "failed")
  BY <1>1, <1>2, <1>4, <1>6, TurnEndsWithClient DEF Statuses
<1> QED BY <1>3, <1>5, <1>6

\* The answer in the table that carries the id of the call is the call's own.
LEMMA ToolAnswersKeeps ==
    ASSUME IInv, ToolAnswers
    PROVE  IInv'
<1>1. /\ pc = "calling" /\ UNCHANGED ready
  BY DEF ToolAnswers
<1>2. PICK answer \in responses :
         /\ Receive(answer)
         /\ AfterCall(turn, IF answer.ok THEN answer ELSE Nothing)
  BY DEF ToolAnswers
<1> DEFINE kept == IF answer.ok THEN answer ELSE Nothing
<1>3. ClientInv'
  BY <1>1, <1>2, ReceiveKeepsClient DEF IInv, ClientInv, ClientShape
<1>4. /\ pending # NoRequest /\ answer.id = pending.id
      /\ pending' = NoRequest /\ process' = process
  BY <1>2 DEF Receive
<1>5. answer \in Lines /\ answer \in InFlight
  BY DEF IInv, ClientInv, ClientShape, InFlight
<1>6. Echoes(answer, pending)
  BY <1>4, <1>5 DEF IInv, ClientInv, IdsUnique
<1>7. turn.todo # <<>> /\ Echoes(pending, [tool |-> Head(turn.todo).name,
                                            path |-> Head(turn.todo).path])
  BY <1>1 DEF IInv, WaitsForOwn
<1>8. /\ kept \in Lines \/ kept = Nothing
      /\ kept.ok => Echoes(kept, [tool |-> Head(turn.todo).name,
                                  path |-> Head(turn.todo).path])
  BY <1>5, <1>6, <1>7 DEF Echoes, Nothing
<1>9. AfterCall(turn, kept)
  BY <1>2
<1> HIDE DEF kept
<1> QED BY <1>1, <1>3, <1>4, <1>7, <1>8, <1>9, AfterCallKeeps

LEMMA ToolFailsKeeps ==
    ASSUME IInv, ToolFails
    PROVE  IInv'
<1>1. /\ AfterCall(turn, Nothing)
      /\ \/ pc = "call" /\ turn.todo # <<>> /\ SendBreaks
         \/ pc = "calling" /\ ReceiveFails
  BY DEF ToolFails
<1>2. turn.todo # <<>>
  BY <1>1 DEF IInv, WaitsForOwn
<1>3. process' = process /\ ready' = ready /\ pending' = NoRequest
  BY <1>1 DEF ReceiveFails, SendBreaks
<1>4. ClientInv'
  BY <1>1, ReceiveFailsKeepsClient, SendBreaksKeepsClient DEF IInv
<1>5. ~Nothing.ok
  BY DEF Nothing
<1> QED BY <1>1, <1>2, <1>3, <1>4, <1>5, AfterCallKeeps

-----------------------------------------------------------------------------

\* The finally clause: a server of the turn's own is gone, one that never
\* completed its handshake may stay, unless `mrw run` is the caller.
LEMMA CloseKeeps ==
    ASSUME IInv, Close
    PROVE  IInv'
<1>1. pc = "close" /\ pc' = "idle" /\ turn' = turn /\ setting' = setting /\ uses' = uses
  BY DEF Close, Goto, SameTurn
<1>2. TurnInv'
  BY <1>1 DEF IInv, TurnInv, TurnShape, WorkCounted, WellFormedTurn, Bounded,
              ToolRoundLimit, Profile, Locations
<1>3. ClientInv' /\ pending' = pending
  BY StopKeepsClient, ClientStutters DEF IInv, Close, Stop, clientVars
<1>4. WaitsForOwn'
  BY <1>1, <1>3 DEF IInv, WaitsForOwn
<1>5. Ownership'
  <2>1. CASE StopsServer(turn)
    BY <1>1, <2>1 DEF Close, Stop, Ownership
  <2>2. CASE ~StopsServer(turn)
    BY <1>1, <2>2 DEF IInv, Close, StopsServer, Ownership, clientVars
  <2> QED BY <2>1, <2>2
<1>6. AnswersOwnCall'
  BY <1>1, KeepsAnswers DEF IInv
<1> QED BY <1>2, <1>3, <1>4, <1>5, <1>6 DEF IInv

\* The server and the readers change neither the turn nor what it waits for.
LEMMA ServerSideKeeps ==
    ASSUME IInv, ServerSide, UNCHANGED <<setting, uses, pc, turn>>
    PROVE  IInv'
<1>1. ClientInv'
  BY ServerKeepsClient DEF IInv
<1>2. process' = process /\ ready' = ready /\ pending' = pending
  BY DEF ServerSide, Serve, ReadLine, ReaderQuits, StoreHeld, ReadBeside, Crash
<1>3. TurnInv'
  BY DEF IInv, TurnInv, TurnShape, WorkCounted, WellFormedTurn, Counted, Bounded,
         ToolRoundLimit, Profile
<1>4. WaitsForOwn'
  BY <1>2 DEF IInv, WaitsForOwn, Echoes
<1>5. Ownership'
  BY <1>2 DEF IInv, Ownership
<1>6. AnswersOwnCall'
  BY KeepsAnswers DEF IInv
<1> QED BY <1>1, <1>3, <1>4, <1>5, <1>6 DEF IInv

LEMMA StutterKeeps ==
    ASSUME IInv, UNCHANGED vars
    PROVE  IInv'
<1>1. ClientInv'
  BY ClientStutters DEF IInv, vars
<1>2. TurnInv'
  BY DEF IInv, vars, TurnInv, TurnShape, WorkCounted, WellFormedTurn, Counted, Bounded,
         ToolRoundLimit, Profile
<1>3. WaitsForOwn' /\ Ownership'
  BY DEF IInv, vars, clientVars, WaitsForOwn, Ownership, Echoes
<1>4. AnswersOwnCall'
  BY KeepsAnswers DEF IInv, vars
<1> QED BY <1>1, <1>2, <1>3, <1>4 DEF IInv

-----------------------------------------------------------------------------
(* What the actions do to a turn, in short.                                *)

LEMMA TurnIsRecord ==
    ASSUME IInv
    PROVE  turn = [f \in TurnFields |-> turn[f]] /\ turn.rounds \in Nat
BY LimitIsNat DEF IInv, TurnInv, TurnShape, WellFormedTurn

\* Before any model is asked: the turn keeps what it has done, passes the
\* policy only when admitted and the context only when it does not read blindly.
LEMMA PreludeMoves ==
    ASSUME IInv, Prelude
    PROVE  /\ setting' = setting
           /\ turn'.kind = turn.kind /\ turn'.request = turn.request
           /\ turn'.executed = turn.executed /\ turn'.todo = turn.todo
           /\ turn'.rounds = turn.rounds /\ turn'.inferences = turn.inferences
           /\ \/ turn'.selected = turn.selected
              \/ /\ pc = "listing"
                 /\ turn'.selected = Selected(Profile, TaskType(turn.request.signals),
                                              OfferedCatalog)
           /\ pc \in {"policy", "attach", "handshake", "list", "listing", "context"}
           /\ \/ pc' = "close" /\ turn'.status \in {"direct", "failed", "raised"}
              \/ /\ pc' \in {"attach", "handshake", "list", "listing", "context",
                             "infer", "call"}
                 /\ turn'.blocks = turn.blocks
                 /\ pc = "policy" => Admitted(turn)
                 /\ pc' = "infer" => ~BlindRead(turn) /\ turn'.selected = turn.selected
                 /\ pc' = "call" => turn.kind # "worker"
                 /\ pc' \in {"list", "listing", "context", "infer"} =>
                       turn.kind = "worker" \/ pc \in {"policy", "list", "listing", "context"}
                 /\ pc' = "attach" => pc = "policy"
<1>1. CASE AnswerDirectly \/ RefuseMutation \/ PassPolicy
  BY <1>1, TurnIsRecord
     DEF AnswerDirectly, RefuseMutation, PassPolicy, Ends, Update, Goto, TurnFields, Admitted
<1>2. CASE StartServer \/ CannotSpawn \/ JoinServer
  BY <1>2, TurnIsRecord
     DEF StartServer, CannotSpawn, JoinServer, AfterAttach, Ends, Update, Goto, SameTurn,
         TurnFields
<1>3. CASE HandshakeDone \/ HandshakeBreaks \/ HandshakeFails
  BY <1>3, TurnIsRecord
     DEF HandshakeDone, HandshakeBreaks, HandshakeFails, AfterAttach, Ends, Update, Goto,
         TurnFields
<1>4. CASE AskTools \/ ToolsListed \/ ListFails
  BY <1>4, TurnIsRecord
     DEF AskTools, ToolsListed, ListFails, Ends, Update, Goto, SameTurn, TurnFields
<1>5. CASE RefuseBlindRead \/ ProviderUnreachable \/ BuildContext
  BY <1>5, TurnIsRecord
     DEF RefuseBlindRead, ProviderUnreachable, BuildContext, Ends, Update, Goto, TurnFields
<1> QED BY <1>1, <1>2, <1>3, <1>4, <1>5 DEF Prelude

\* ProviderFails, RefuseCalls, TakeCalls and the three ways to take an answer.
Infers ==
    \/ ProviderFails \/ RefuseCalls
    \/ \E a \in Answers : AcceptAnswer(a) \/ RetryAnswer(a) \/ DoubtAnswer(a)
    \/ \E calls \in CallLists : TakeCalls(calls)

LEMMA InfersMoves ==
    ASSUME IInv, Infers
    PROVE  /\ pc = "infer" /\ setting' = setting /\ UNCHANGED clientVars
           /\ turn'.kind = turn.kind /\ turn'.request = turn.request
           /\ turn'.selected = turn.selected /\ turn'.executed = turn.executed
           /\ turn'.blocks = turn.blocks /\ turn'.started = turn.started
           /\ \/ pc' = "close" /\ turn'.status = "failed"
              \/ /\ pc' = "close" /\ turn'.status = "verified"
                 /\ Doubt(turn, turn'.answer) = "PASS" /\ turn'.rounds = turn.rounds
              \/ pc' \in {"infer", "audit"} /\ turn'.rounds = turn.rounds
              \/ pc' = "call" /\ turn'.rounds > 0
<1>1. CASE \E a \in Answers : AcceptAnswer(a)
  BY <1>1, TurnIsRecord DEF AcceptAnswer, Answered, Ends, Update, Goto, TurnFields
<1>2. CASE \E a \in Answers : RetryAnswer(a)
  BY <1>2, TurnIsRecord DEF RetryAnswer, Answered, Noted, Update, Goto, TurnFields
<1>3. CASE \E a \in Answers : DoubtAnswer(a)
  <2>1. PICK a \in Answers : DoubtAnswer(a)
    BY <1>3
  <2>2. /\ pc = "infer" /\ UNCHANGED clientVars
        /\ Update(Answered(turn, a), "audit") \/ Ends(Answered(turn, a), "failed")
    BY <2>1 DEF DoubtAnswer
  <2> QED BY <2>2, TurnIsRecord DEF Answered, Ends, Update, Goto, TurnFields
<1>4. CASE ProviderFails
  BY <1>4, TurnIsRecord DEF ProviderFails, Ends, Update, Goto, TurnFields
<1>5. CASE RefuseCalls
  BY <1>5, TurnIsRecord DEF RefuseCalls, Ends, Update, Goto, TurnFields
<1>6. CASE \E calls \in CallLists : TakeCalls(calls)
  BY <1>6, TurnIsRecord DEF TakeCalls, Update, Goto, TurnFields
<1> QED BY <1>1, <1>2, <1>3, <1>4, <1>5, <1>6 DEF Infers

Audits == AuditFails \/ \E a \in Answers : AuditPasses(a)

LEMMA AuditsMoves ==
    ASSUME IInv, Audits
    PROVE  /\ pc = "audit" /\ pc' = "close" /\ setting' = setting /\ UNCHANGED clientVars
           /\ turn'.kind = turn.kind /\ turn'.request = turn.request
           /\ turn'.selected = turn.selected /\ turn'.executed = turn.executed
           /\ turn'.blocks = turn.blocks /\ turn'.started = turn.started
           /\ turn'.rounds = turn.rounds /\ turn'.inferences = turn.inferences
           /\ \/ turn'.status = "failed"
              \/ turn'.status = "audited" /\ Verdict(turn'.answer, turn.executed, {}) = "PASS"
BY TurnIsRecord
   DEF Audits, AuditFails, AuditPasses, AuditVerdict, Ends, Update, Goto, TurnFields

Records == BlockCall \/ ToolAnswers \/ ToolFails

\* A call leaves one entry, at the end of the list, and a blocked one is not ok.
LEMMA RecordsMoves ==
    ASSUME IInv, Records
    PROVE  /\ pc \in {"call", "calling"} /\ turn.todo # <<>> /\ setting' = setting
           /\ turn'.kind = turn.kind /\ turn'.request = turn.request
           /\ turn'.selected = turn.selected /\ turn'.started = turn.started
           /\ turn'.rounds = turn.rounds /\ turn'.inferences = turn.inferences
           /\ \/ pc' = "call" /\ turn.kind = "worker"
              \/ pc' = "close" /\ turn'.status \in {"direct", "failed"}
           /\ \/ /\ pc = "call" /\ turn.kind = "worker" /\ UNCHANGED clientVars
                 /\ turn'.executed = Append(turn.executed,
                                            Entry(Head(turn.todo), FALSE, Nothing))
              \/ /\ turn'.blocks = turn.blocks /\ (ReceiveFails \/ SendBreaks)
                 /\ pc = "calling" \/ ~CallBlocked
                 /\ turn'.executed = Append(turn.executed,
                                            Entry(Head(turn.todo), TRUE, Nothing))
              \/ /\ turn'.blocks = turn.blocks /\ pc = "calling"
                 /\ UNCHANGED ready
                 /\ \E answer \in responses :
                       /\ Receive(answer)
                       /\ turn'.executed =
                             Append(turn.executed,
                                    Entry(Head(turn.todo), TRUE,
                                          IF answer.ok THEN answer ELSE Nothing))
<1>1. CASE BlockCall
  BY <1>1, TurnIsRecord
     DEF BlockCall, CallBlocked, Recorded, Update, Goto, TurnFields
<1>2. CASE ToolAnswers
  BY <1>2, TurnIsRecord
     DEF ToolAnswers, AfterCall, Recorded, Ends, Update, Goto, TurnFields, IInv, WaitsForOwn
<1>3. CASE ToolFails
  BY <1>3, TurnIsRecord
     DEF ToolFails, AfterCall, Recorded, Ends, Update, Goto, TurnFields, IInv, WaitsForOwn
<1> QED BY <1>1, <1>2, <1>3 DEF Records

Passes == SendCall \/ EndRound \/ Close

LEMMA PassesMoves ==
    ASSUME IInv, Passes
    PROVE  /\ setting' = setting
           /\ turn'.kind = turn.kind /\ turn'.request = turn.request
           /\ turn'.selected = turn.selected /\ turn'.executed = turn.executed
           /\ turn'.todo = turn.todo /\ turn'.answer = turn.answer
           /\ turn'.status = turn.status /\ turn'.started = turn.started
           /\ turn'.blocks = turn.blocks /\ turn'.rounds = turn.rounds
           /\ turn'.inferences = turn.inferences
           /\ \/ pc = "call" /\ pc' = "calling" /\ turn.todo # <<>> /\ ~CallBlocked
              \/ pc = "call" /\ pc' = "infer" /\ turn.todo = <<>>
              \/ pc = "close" /\ pc' = "idle"
BY TurnIsRecord DEF Passes, SendCall, EndRound, Close, SameTurn, Update, Goto, TurnFields

\* Every action of the loop is one of these.
LEMMA LoopCases ==
    ASSUME Loop
    PROVE  Infers \/ Audits \/ Records \/ Passes
BY DEF Loop, Infers, Audits, Records, Passes

\* The beginning of a turn, or of a step.
LEMMA BeginMoves ==
    ASSUME Begin
    PROVE  /\ setting' = setting /\ UNCHANGED clientVars
           /\ turn'.executed = <<>> /\ turn'.selected = {} /\ turn'.inferences = 0
           /\ turn'.blocks = 0 /\ turn'.started = FALSE
           /\ \/ turn'.kind = "worker" /\ pc' = "policy" /\ turn'.status = "none"
              \/ /\ turn'.kind = "step" /\ pc' = "attach" /\ turn'.todo # <<>>
                 /\ turn'.status = "none"
              \/ turn'.kind = "step" /\ pc' = "close" /\ turn'.status = "failed"
<1>1. CASE \E request \in setting.requests : BeginTurn(request)
  BY <1>1 DEF BeginTurn, NewTurn, Goto
<1>2. ASSUME NEW call \in StepCalls, BeginStep(call)
      PROVE  /\ setting' = setting /\ UNCHANGED clientVars
             /\ turn'.executed = <<>> /\ turn'.selected = {} /\ turn'.inferences = 0
             /\ turn'.blocks = 0 /\ turn'.started = FALSE /\ turn'.kind = "step"
             /\ \/ pc' = "attach" /\ turn'.todo # <<>> /\ turn'.status = "none"
                \/ pc' = "close" /\ turn'.status = "failed"
  <2>1. <<call>> # <<>>
    OBVIOUS
  <2>2. CASE setting.attached
    BY <1>2, <2>1, <2>2 DEF BeginStep, NewTurn, Goto
  <2>3. CASE ~setting.attached
    BY <1>2, <2>1, <2>3 DEF BeginStep, NewTurn, Goto
  <2> QED BY <2>2, <2>3
<1> QED BY <1>1, <1>2 DEF Begin

\* The server's side of Next, a stutter and Finished.
Rests == UNCHANGED <<setting, pc, turn>> /\ (ServerSide \/ UNCHANGED clientVars)

LEMMA StepCases ==
    ASSUME [Next]_vars
    PROVE  Begin \/ Prelude \/ Infers \/ Audits \/ Records \/ Passes \/ Rests
BY LoopCases DEF Next, CallerStep, Finished, vars, Rests

\* Where the turn is one of the worker's: a step only calls.
LEMMA WorkerHere ==
    ASSUME IInv, StepStands
    PROVE  /\ pc # "idle" => turn.kind \in {"worker", "step"}
           /\ pc \in {"policy", "list", "listing", "context", "infer", "audit"}
                 => turn.kind = "worker"
BY DEF IInv, TurnInv, TurnShape, WellFormedTurn, Kinds, StepStands

LEMMA StepStandsKept ==
    ASSUME IInv, StepStands, [Next]_vars
    PROVE  StepStands'
<1>1. CASE Begin
  BY <1>1, BeginMoves DEF StepStands
<1>2. CASE Prelude
  BY <1>2, PreludeMoves, WorkerHere DEF StepStands
<1>3. CASE Infers
  BY <1>3, InfersMoves DEF StepStands
<1>4. CASE Audits
  BY <1>4, AuditsMoves DEF StepStands
<1>5. CASE Records
  BY <1>5, RecordsMoves DEF StepStands
<1>6. CASE Passes
  BY <1>6, PassesMoves DEF StepStands
<1>7. CASE Rests
  BY <1>7 DEF Rests, StepStands
<1> QED BY <1>1, <1>2, <1>3, <1>4, <1>5, <1>6, <1>7, StepCases

-----------------------------------------------------------------------------
(* What reaches a model.                                                   *)

\* The policy's decisions depend on the request, the profile and the tools.
LEMMA SameDecisions ==
    ASSUME setting' = setting, turn'.request = turn.request
    PROVE  /\ Admitted(turn)' = Admitted(turn)
           /\ turn'.selected = turn.selected => BlindRead(turn)' = BlindRead(turn)
BY DEF Admitted, MutationRefused, BlindRead, Profile, ClassOf, IntentOf

LEMMA GatedKept ==
    ASSUME IInv, StepStands, Gated, [Next]_vars
    PROVE  Gated'
<1>1. CASE Begin
  BY <1>1, BeginMoves DEF Gated
<1>2. CASE Prelude
  BY <1>2, PreludeMoves, SameDecisions, WorkerHere DEF Gated
<1>3. CASE Infers
  <2>1. Admitted(turn) /\ ~BlindRead(turn)
    BY <1>3, InfersMoves, WorkerHere DEF Gated
  <2> QED BY <1>3, <2>1, InfersMoves, SameDecisions DEF Gated
<1>4. CASE Audits
  BY <1>4, AuditsMoves, SameDecisions DEF Gated
<1>5. CASE Records
  BY <1>5, RecordsMoves, SameDecisions DEF Gated
<1>6. CASE Passes
  BY <1>6, PassesMoves, SameDecisions DEF Gated
<1>7. CASE Rests
  BY <1>7, SameDecisions DEF Rests, Gated
<1> QED BY <1>1, <1>2, <1>3, <1>4, <1>5, <1>6, <1>7, StepCases
\* What a request's class may be, and where the filesystem's comes last.
LEMMA ClassFacts ==
    ASSUME NEW s
    PROVE  /\ RequestClass(s) \in Classes
           /\ "FILESYSTEM" \in s /\ s \cap Computable = {} => RequestClass(s) = "FILESYSTEM"
<1> DEFINE matched == {i \in DOMAIN ClassPrecedence : ClassPrecedence[i] \in s}
           first == CHOOSE i \in matched : \A j \in matched : i <= j
<1>1. DOMAIN ClassPrecedence = 1..11
  BY DEF ClassPrecedence
<1>2. matched # {} => first \in matched /\ \A j \in matched : first <= j
  <2>1. matched \in SUBSET Nat
    BY <1>1
  <2>2. matched # {} => \E i \in matched : \A j \in matched : i <= j
    <3> HIDE DEF matched
    <3> QED BY <2>1, LeastNatural
  <2> QED BY <2>2
<1>3. RequestClass(s) = IF matched = {} \/ {"ARITHMETIC", "FILESYSTEM"} \subseteq s
                        THEN "UNKNOWN" ELSE ClassPrecedence[first]
  BY DEF RequestClass
<1>4. RequestClass(s) \in Classes
  <2>1. matched # {} => ClassPrecedence[first] \in Classes
    BY <1>2 DEF Classes
  <2>2. "UNKNOWN" \in Classes
    BY DEF Classes
  <2> QED BY <1>3, <2>1, <2>2
<1>5. ASSUME "FILESYSTEM" \in s, s \cap Computable = {}
      PROVE  RequestClass(s) = "FILESYSTEM"
  <2>1. 8 \in matched
    BY <1>1, <1>5 DEF ClassPrecedence
  <2>2. \A i \in 1..7 : i \notin matched
    BY <1>5 DEF ClassPrecedence, Computable
  <2>3. first \in matched /\ first <= 8 /\ matched \subseteq 1..11
    BY <1>1, <1>2, <2>1
  <2>4. first = 8
    <3> HIDE DEF first, matched
    <3>1. first \in 1..11 /\ first \notin 1..7
      BY <2>2, <2>3
    <3> QED BY <2>3, <3>1
  <2>5. "ARITHMETIC" \notin s
    BY <1>5 DEF Computable
  <2>6. ClassPrecedence[8] = "FILESYSTEM"
    BY DEF ClassPrecedence
  <2> QED BY <1>3, <2>1, <2>4, <2>5, <2>6
<1> QED BY <1>4, <1>5

\* What the operation of a request on files says of its intent.
LEMMA OperationFacts ==
    ASSUME NEW s
    PROVE  /\ Mutations(s) # {} /\ ~ReadSignal(s) => FilesystemIntent(s) = "MUTATING"
           /\ Mutations(s) = {} /\ s \cap {"list", "read_doc"} # {}
                 => FilesystemIntent(s) = "READ_ONLY"
<1>1. Mutations(s) # {} /\ ~ReadSignal(s) => Operation(s) = "MUTATION"
  BY DEF Operation
<1>2. Mutations(s) = {} /\ s \cap {"list", "read_doc"} # {}
         => Operation(s) \in {"COMPOUND_LATEST_CONTENT", "DIRECTORY_OBSERVATION",
                              "DOCUMENT_READ"}
  BY DEF Operation
<1> QED BY <1>1, <1>2 DEF FilesystemIntent

LEMMA GatedFollows ==
    ASSUME Gated
    PROVE  GatedRequests
<1> DEFINE s == turn.request.signals
           FilesOnly == "FILESYSTEM" \in s /\ s \cap Computable = {}
           Reads == s \cap {"list", "read_doc"} # {}
           Changes == s \cap MutatingVerbs # {}
<1> SUFFICES ASSUME turn.inferences > 0
             PROVE
          /\ ~(FilesOnly /\ Changes /\ ~Reads /\ "dir_noun" \notin s /\ ~Profile.write_allowed)
          /\ ~(FilesOnly /\ Reads /\ ~Changes /\ "create" \notin s /\ turn.selected = {})
          /\ ModelDirectAnswer(ClassOf(turn.request)) = "FORBIDDEN" =>
                \/ ClassOf(turn.request) \in {"FILESYSTEM", "CURRENT_STATE"}
                \/ ~turn.request.computes
  BY DEF GatedRequests
<1>1. Admitted(turn) /\ ~BlindRead(turn)
  BY DEF Gated
<1>2. FilesOnly => EffectIntent(s) = FilesystemIntent(s) /\ ClassOf(turn.request) = "FILESYSTEM"
  BY ClassFacts DEF EffectIntent, ClassOf
<1>3. ~(FilesOnly /\ Changes /\ ~Reads /\ "dir_noun" \notin s /\ ~Profile.write_allowed)
  <2>1. Changes => Mutations(s) # {}
    BY DEF Mutations
  <2>2. ~Reads /\ "dir_noun" \notin s => ~ReadSignal(s)
    BY DEF ReadSignal, Observes
  <2> QED BY <1>1, <1>2, <2>1, <2>2, OperationFacts DEF Admitted, MutationRefused, IntentOf
<1>4. ~(FilesOnly /\ Reads /\ ~Changes /\ "create" \notin s /\ turn.selected = {})
  <2>1. ~Changes /\ "create" \notin s => Mutations(s) = {}
    BY DEF Mutations, Creation
  <2> QED BY <1>1, <1>2, <2>1, OperationFacts DEF BlindRead, IntentOf
<1>5. ModelDirectAnswer(ClassOf(turn.request)) = "FORBIDDEN" =>
         \/ ClassOf(turn.request) \in {"FILESYSTEM", "CURRENT_STATE"}
         \/ ~turn.request.computes
  <2> DEFINE class == ClassOf(turn.request)
  <2>1. class \in Classes
    BY ClassFacts DEF ClassOf
  <2>2. Classes \subseteq Computable \cup {"FILESYSTEM", "CURRENT_STATE", "UNKNOWN",
                                           "CREATIVE_GENERATION", "TEXT_TRANSFORMATION"}
    BY DEF Classes, ClassPrecedence, Computable
  <2> HIDE DEF class
  <2>3. ModelDirectAnswer(class) = "FORBIDDEN" =>
           class \notin {"UNKNOWN", "CREATIVE_GENERATION", "TEXT_TRANSFORMATION"}
    BY DEF ModelDirectAnswer
  <2> QED BY <1>1, <2>1, <2>2, <2>3 DEF Admitted, class
<1> QED BY <1>3, <1>4, <1>5

-----------------------------------------------------------------------------
(* What a completed turn says.                                             *)

\* The entries of a list with one more at its end.
LEMMA OneMoreEntry ==
    ASSUME NEW S, NEW executed \in Seq(S), NEW e
    PROVE  \A x : x \in EntriesOf(Append(executed, e)) <=> x \in EntriesOf(executed) \/ x = e
<1>1. executed \in Seq(S \cup {e}) /\ e \in S \cup {e}
  OBVIOUS
<1>2. /\ DOMAIN Append(executed, e) = 1..(Len(executed) + 1) /\ DOMAIN executed = 1..Len(executed)
      /\ Len(executed) \in Nat
      /\ \A i \in 1..Len(executed) : Append(executed, e)[i] = executed[i]
      /\ Append(executed, e)[Len(executed) + 1] = e
  BY <1>1
<1> QED BY <1>2 DEF EntriesOf

\* verify_synthesis passes no false claim and no hidden failure.
LEMMA VerdictPasses ==
    ASSUME NEW a, NEW executed, NEW offered, Verdict(a, executed, offered) = "PASS"
    PROVE  ~FalseClaim(a, executed) /\ ~FailureHidden(a, executed)
BY DEF Verdict

LEMMA DoubtPasses ==
    ASSUME NEW t, NEW a, Doubt(t, a) = "PASS"
    PROVE  /\ ~FormatViolated(t.request, a) /\ ~ConflictIgnored(t.request, a)
           /\ Verdict(a, t.executed, t.selected) = "PASS"
BY DEF Doubt

\* An answer that passes, after a turn that was honest so far.
LEMMA PassIsHonest ==
    ASSUME Honest, pc \notin {"idle", "close"}, turn.kind = "worker",
           NEW a, ~FalseClaim(a, turn.executed), ~FailureHidden(a, turn.executed)
    PROVE  /\ turn.blocks > 0 \/ (\E e \in EntriesOf(turn.executed) : ~e.ok)
                 => "error_hint" \in a.traits
           /\ turn.rounds = 0 => a.traits \cap {"tool_claim", "passive_claim"} = {}
BY DEF Honest, FalseClaim, FailureHidden

LEMMA NotCompleted ==
    ASSUME turn.status \notin {"verified", "audited"}
    PROVE  CompletedHonestly
BY DEF CompletedHonestly

LEMMA HonestKept ==
    ASSUME IInv, IInv', StepStands, Honest, [Next]_vars
    PROVE  Honest'
<1>1. pc' \notin {"idle", "close"} => CompletedHonestly'
  <2>1. pc' \notin {"idle", "close"} => turn'.status = "none"
    BY DEF IInv, TurnInv, TurnShape
  <2> QED BY <2>1, NotCompleted DEF CompletedHonestly
<1>2. CASE Begin
  <2>1. turn'.status \notin {"verified", "audited"}
    BY <1>2, BeginMoves
  <2> QED BY <1>2, <2>1, BeginMoves DEF Honest, CompletedHonestly
<1>3. CASE Prelude
  <2>1. pc' = "close" => CompletedHonestly'
    BY <1>3, PreludeMoves DEF CompletedHonestly
  <2> QED BY <1>1, <1>3, <2>1, PreludeMoves DEF Honest
<1>4. CASE Infers
  <2>1. turn.kind = "worker" /\ pc = "infer"
    BY <1>4, InfersMoves, WorkerHere
  <2>2. pc' = "close" => CompletedHonestly'
    <3>1. CASE turn'.status = "failed"
      BY <3>1 DEF CompletedHonestly
    <3>2. CASE /\ turn'.status = "verified" /\ Doubt(turn, turn'.answer) = "PASS"
               /\ turn'.rounds = turn.rounds
      <4>1. /\ ~FormatViolated(turn.request, turn'.answer)
            /\ ~ConflictIgnored(turn.request, turn'.answer)
            /\ ~FalseClaim(turn'.answer, turn.executed)
            /\ ~FailureHidden(turn'.answer, turn.executed)
        BY <3>2, DoubtPasses, VerdictPasses
      <4>2. /\ turn.blocks > 0 \/ (\E e \in EntriesOf(turn.executed) : ~e.ok)
                  => "error_hint" \in turn'.answer.traits
            /\ turn.rounds = 0 => turn'.answer.traits \cap {"tool_claim", "passive_claim"} = {}
        BY <2>1, <4>1, PassIsHonest
      <4> QED BY <1>4, <3>2, <4>1, <4>2, InfersMoves
              DEF CompletedHonestly, FormatViolated, ConflictIgnored
    <3> QED BY <1>4, <3>1, <3>2, InfersMoves
  <2> QED BY <1>1, <1>4, <2>1, <2>2, InfersMoves DEF Honest
<1>5. CASE Audits
  <2>1. turn.kind = "worker" /\ pc = "audit"
    BY <1>5, AuditsMoves, WorkerHere
  <2>2. CompletedHonestly'
    <3>1. CASE turn'.status = "failed"
      BY <3>1 DEF CompletedHonestly
    <3>2. CASE turn'.status = "audited" /\ Verdict(turn'.answer, turn.executed, {}) = "PASS"
      <4>1. /\ ~FalseClaim(turn'.answer, turn.executed)
            /\ ~FailureHidden(turn'.answer, turn.executed)
        BY <3>2, VerdictPasses
      <4>2. /\ turn.blocks > 0 \/ (\E e \in EntriesOf(turn.executed) : ~e.ok)
                  => "error_hint" \in turn'.answer.traits
            /\ turn.rounds = 0 => turn'.answer.traits \cap {"tool_claim", "passive_claim"} = {}
        BY <2>1, <4>1, PassIsHonest
      <4> QED BY <1>5, <3>2, <4>2, AuditsMoves DEF CompletedHonestly
    <3> QED BY <1>5, <3>1, <3>2, AuditsMoves
  <2> QED BY <1>5, <2>2, AuditsMoves DEF Honest
<1>6. CASE Records
  <2>1. pc' = "close" => CompletedHonestly'
    BY <1>6, RecordsMoves DEF CompletedHonestly
  <2>2. turn.executed \in Seq(Entries)
    BY DEF IInv, TurnInv, TurnShape, WellFormedTurn
  <2>3. \A e : turn'.executed = Append(turn.executed, e)
                => /\ e \in EntriesOf(turn'.executed)
                   /\ \A d \in EntriesOf(turn.executed) : d \in EntriesOf(turn'.executed)
    <3>1. \A e, d : d \in EntriesOf(Append(turn.executed, e))
                      <=> d \in EntriesOf(turn.executed) \/ d = e
      BY <2>2, OneMoreEntry
    <3> QED BY <3>1
  <2>4. ASSUME turn'.blocks > 0, turn.kind = "worker"
        PROVE  \E e \in EntriesOf(turn'.executed) : ~e.ok
    <3>1. CASE turn'.blocks = turn.blocks
      <4>1. PICK e \in EntriesOf(turn.executed) : ~e.ok
        BY <1>6, <2>4, <3>1, RecordsMoves DEF Honest
      <4> QED BY <1>6, <2>3, <4>1, RecordsMoves
    <3>2. CASE turn'.executed = Append(turn.executed, Entry(Head(turn.todo), FALSE, Nothing))
      <4>1. Entry(Head(turn.todo), FALSE, Nothing) \in EntriesOf(turn'.executed)
        BY <2>3, <3>2
      <4> QED BY <4>1 DEF Entry, Nothing
    <3> QED BY <1>6, <3>1, <3>2, RecordsMoves
  <2>5. pc' = "call" => turn.kind = "worker" /\ turn.rounds > 0
    BY <1>6, RecordsMoves DEF Honest
  <2> QED BY <1>1, <1>6, <2>1, <2>4, <2>5, RecordsMoves DEF Honest
<1>7. CASE Passes
  <2>1. pc' \in {"idle", "close"} => CompletedHonestly'
    BY <1>7, PassesMoves
       DEF Honest, CompletedHonestly, FormatViolated, ConflictIgnored
  <2> QED BY <1>1, <1>7, <2>1, PassesMoves DEF Honest
<1>8. CASE Rests
  BY <1>8 DEF Rests, Honest, CompletedHonestly, FormatViolated, ConflictIgnored
<1> QED BY <1>2, <1>3, <1>4, <1>5, <1>6, <1>7, <1>8, StepCases

-----------------------------------------------------------------------------
(* What a worker has the server run.                                       *)

\* select chooses from the profile's list.
LEMMA SelectedFromProfile ==
    ASSUME NEW profile, NEW task, NEW catalog
    PROVE  Selected(profile, task, catalog)
              \subseteq {profile.allowed[i] : i \in DOMAIN profile.allowed}
BY DEF Selected

\* _policy_block_reason lets through what was offered and is tagged read-only.
LEMMA LetThrough ==
    ASSUME NEW name, NEW selected, ~Blocked(name, OfferedCatalog, selected)
    PROVE  name \in selected /\ name \in DOMAIN Overrides /\ Overrides[name].read_only
BY DEF Blocked, OfferedCatalog, Catalog, UntaggedTool

LEMMA ReadOnlyCallsKept ==
    ASSUME IInv, StepStands, ReadOnlyCalls, [Next]_vars
    PROVE  ReadOnlyCalls'
<1>1. ASSUME turn'.executed = turn.executed, turn'.kind = turn.kind, setting' = setting
      PROVE  OnlyReadTools'
  BY <1>1 DEF ReadOnlyCalls, OnlyReadTools, EntriesOf, Profile
<1>2. ASSUME setting' = setting, turn'.selected = turn.selected
      PROVE  turn'.selected \subseteq {Profile'.allowed[i] : i \in DOMAIN Profile'.allowed}
  BY <1>2 DEF ReadOnlyCalls, Profile
<1>3. CASE Begin
  BY <1>3, BeginMoves DEF ReadOnlyCalls, OnlyReadTools, EntriesOf
<1>4. CASE Prelude
  <2>1. turn'.selected \subseteq {Profile.allowed[i] : i \in DOMAIN Profile.allowed}
    BY <1>4, PreludeMoves, SelectedFromProfile DEF ReadOnlyCalls
  <2> QED BY <1>1, <1>4, <2>1, PreludeMoves DEF ReadOnlyCalls, Profile
<1>5. CASE Infers
  BY <1>1, <1>2, <1>5, InfersMoves DEF ReadOnlyCalls
<1>6. CASE Audits
  BY <1>1, <1>2, <1>6, AuditsMoves DEF ReadOnlyCalls
<1>7. CASE Records
  <2>1. turn.executed \in Seq(Entries)
    BY DEF IInv, TurnInv, TurnShape, WellFormedTurn
  <2>2. PICK sent, answer :
           /\ turn'.executed = Append(turn.executed, Entry(Head(turn.todo), sent, answer))
           /\ sent => ~CallBlocked
    BY <1>7, RecordsMoves DEF ReadOnlyCalls
  <2>3. ASSUME NEW e \in EntriesOf(turn'.executed), turn'.kind = "worker", e.sent
        PROVE  /\ e.name \in DOMAIN Overrides /\ Overrides[e.name].read_only
               /\ \E i \in DOMAIN Profile.allowed : Profile.allowed[i] = e.name
    <3>1. CASE e \in EntriesOf(turn.executed)
      BY <1>7, <2>3, <3>1, RecordsMoves DEF ReadOnlyCalls, OnlyReadTools
    <3>2. CASE e = Entry(Head(turn.todo), sent, answer)
      <4>1. e.name = Head(turn.todo).name /\ sent
        BY <2>3, <3>2 DEF Entry
      <4>2. ~Blocked(Head(turn.todo).name, OfferedCatalog, turn.selected)
        BY <1>7, <2>2, <2>3, <4>1, RecordsMoves DEF CallBlocked
      <4> QED BY <4>1, <4>2, LetThrough DEF ReadOnlyCalls
    <3> QED BY <2>1, <2>2, <3>1, <3>2, OneMoreEntry
  <2>4. OnlyReadTools'
    BY <1>7, <2>3, RecordsMoves DEF OnlyReadTools, Profile
  <2> QED BY <1>2, <1>7, <2>4, RecordsMoves DEF ReadOnlyCalls
<1>8. CASE Passes
  <2>1. pc' = "calling" => ~CallBlocked'
    BY <1>8, PassesMoves DEF CallBlocked
  <2> QED BY <1>1, <1>2, <1>8, <2>1, PassesMoves DEF ReadOnlyCalls
<1>9. CASE Rests
  BY <1>9 DEF Rests, ReadOnlyCalls, OnlyReadTools, CallBlocked, Profile, EntriesOf
<1> QED BY <1>3, <1>4, <1>5, <1>6, <1>7, <1>8, <1>9, StepCases

-----------------------------------------------------------------------------
(* What a server of the turn's own has seen.                               *)

\* The lines and answers of which one may be what the turn waits for.
Answering == {stdout[i] : i \in DOMAIN stdout} \cup held \cup responses

LEMMA SeenKept ==
    ASSUME turn'.executed = turn.executed
    PROVE  Seen(turn)' = Seen(turn)
BY DEF Seen, EntriesOf

\* An action that calls no tool and waits for none.
LEMMA NothingSought ==
    ASSUME DiscoveredFirst, turn'.executed = turn.executed,
           pc \notin {"handshake", "calling"}, pc' \notin {"handshake", "calling"},
           pc' \in {"policy", "attach"} => turn.executed = <<>>,
           turn'.started => turn.started, grounded' = grounded,
           \A i \in DOMAIN stdin' : stdin'[i].method = "tools/call" =>
              \E j \in DOMAIN stdin : stdin'[i] = stdin[j]
    PROVE  DiscoveredFirst'
<1>1. Seen(turn)' = Seen(turn) /\ Sought = {} /\ Sought' = {}
  BY SeenKept DEF Sought
<1>2. ReadsFollowDiscovery'
  BY DEF DiscoveredFirst, ReadsFollowDiscovery
<1> QED BY <1>1, <1>2 DEF DiscoveredFirst

LEMMA PreludeDiscovers ==
    ASSUME IInv, DiscoveredFirst, Prelude
    PROVE  DiscoveredFirst'
<1> USE TurnIsRecord DEF Ends, Update, Goto, SameTurn, TurnFields
<1>1. turn'.executed = turn.executed
  BY PreludeMoves
<1>0. pc' \in {"policy", "attach"} => turn.executed = <<>>
  BY PreludeMoves DEF DiscoveredFirst
<1>2. CASE \/ AnswerDirectly \/ RefuseMutation \/ PassPolicy \/ CannotSpawn \/ JoinServer
           \/ RefuseBlindRead \/ ProviderUnreachable \/ BuildContext
  <2>1. /\ pc \in {"policy", "attach", "context"} /\ pc' \notin {"handshake", "calling"}
        /\ UNCHANGED clientVars /\ turn'.started = turn.started
    BY <1>2 DEF AnswerDirectly, RefuseMutation, PassPolicy, CannotSpawn, JoinServer,
                AfterAttach, RefuseBlindRead, ProviderUnreachable, BuildContext
  <2> QED BY <1>0, <1>1, <2>1, NothingSought DEF clientVars
<1>3. CASE StartServer
  <2>1. pc = "attach" /\ pc' = "handshake" /\ turn' = turn /\ ~process /\ Spawn
    BY <1>3 DEF StartServer
  <2>2. ~turn.started
    BY <2>1 DEF IInv, Ownership
  <2>3. grounded' = {} /\ \A i \in DOMAIN stdin' : stdin'[i].method = "initialize"
    BY <2>1 DEF Spawn, Request
  <2>4. turn'.executed = <<>>
    BY <2>1 DEF DiscoveredFirst
  <2> QED BY <2>1, <2>2, <2>3, <2>4 DEF DiscoveredFirst, ReadsFollowDiscovery
<1>4. CASE HandshakeDone
  <2>1. pc = "handshake" /\ pc' \in {"list", "call"} /\ \E answer \in responses : Receive(answer)
    BY <1>4 DEF HandshakeDone, AfterAttach
  <2>2. grounded' = grounded /\ stdin' = stdin
    BY <2>1 DEF Receive
  <2>3. ReadsFollowDiscovery'
    BY <1>1, <2>1 DEF DiscoveredFirst, ReadsFollowDiscovery
  <2> QED BY <2>1, <2>2, <2>3 DEF DiscoveredFirst
<1>5. CASE HandshakeBreaks \/ HandshakeFails
  <2>1. pc = "handshake" /\ pc' = "close" /\ turn'.started = turn.started
    BY <1>5 DEF HandshakeBreaks, HandshakeFails
  <2>2. ~turn.started
    BY <2>1 DEF IInv, Ownership
  <2> QED BY <2>1, <2>2 DEF DiscoveredFirst, ReadsFollowDiscovery
<1>6. CASE AskTools
  <2>1. /\ pc = "list" /\ pc' = "listing" /\ turn' = turn /\ grounded' = grounded
        /\ stdin' = Append(stdin, Request("tools/list", "none", "none"))
    BY <1>6 DEF AskTools, Send
  <2>2. stdin \in Seq(Requested) /\ Request("tools/list", "none", "none") \in Requested
    BY RequestShape DEF IInv, ClientInv, ClientShape, Methods, Tools, Names
  <2>3. \A i \in DOMAIN stdin' :
           \/ stdin'[i] = Request("tools/list", "none", "none")
           \/ \E j \in DOMAIN stdin : stdin'[i] = stdin[j]
    BY <2>1, <2>2
  <2>4. Request("tools/list", "none", "none").method # "tools/call"
    BY DEF Request
  <2> QED BY <1>1, <2>1, <2>3, <2>4, NothingSought
<1>7. CASE ToolsListed \/ ListFails
  <2>1. /\ pc \in {"list", "listing"} /\ pc' \in {"context", "close"}
        /\ turn'.started = turn.started
    BY <1>7 DEF ToolsListed, ListFails
  <2>2. grounded' = grounded /\ stdin' = stdin
    BY <1>7 DEF ToolsListed, ListFails, Receive, SendBreaks, ReceiveFails
  <2> QED BY <1>1, <2>1, <2>2, NothingSought
<1> QED BY <1>2, <1>3, <1>4, <1>5, <1>6, <1>7 DEF Prelude

\* A call that is recorded counts as made; an answer to a read is one that an
\* earlier call made possible.
LEMMA RecordsDiscover ==
    ASSUME IInv, DiscoveredFirst, Records
    PROVE  DiscoveredFirst'
<1> DEFINE call == Head(turn.todo)
<1>1. /\ pc \in {"call", "calling"} /\ pc' \in {"call", "close"}
      /\ turn'.started = turn.started /\ grounded' = grounded /\ stdin' = stdin
  BY RecordsMoves DEF Receive, ReceiveFails, SendBreaks, clientVars
<1>2. turn.executed \in Seq(Entries)
  BY DEF IInv, TurnInv, TurnShape, WellFormedTurn
<1>3. PICK sent, answer :
         /\ turn'.executed = Append(turn.executed, Entry(call, sent, answer))
         /\ pc = "calling" => sent
         /\ \/ answer = Nothing
            \/ pc = "calling" /\ Receive(answer) /\ answer.ok
  <2>1. ASSUME NEW answer, Receive(answer)
        PROVE  \/ (IF answer.ok THEN answer ELSE Nothing) = Nothing
               \/ answer.ok /\ (IF answer.ok THEN answer ELSE Nothing) = answer
    OBVIOUS
  <2> QED BY <2>1, RecordsMoves
<1> DEFINE entry == Entry(call, sent, answer)
<1>4. entry.name = call.name /\ entry.path = call.path /\ entry.sent = sent /\ entry.ok = answer.ok
  BY DEF Entry
<1>5. \A x : x \in EntriesOf(turn'.executed) <=> x \in EntriesOf(turn.executed) \/ x = entry
  BY <1>2, <1>3, OneMoreEntry
<1>6. Seen(turn) \cup Sought \subseteq Seen(turn)'
  <2>1. Seen(turn) \subseteq Seen(turn)'
    BY <1>5 DEF Seen
  <2>2. pc = "calling" => Sought \subseteq Seen(turn)'
    BY <1>3, <1>4, <1>5 DEF Seen, Sought
  <2> QED BY <2>1, <2>2 DEF Sought
<1>7. turn.started /\ entry.ok /\ entry.name \in ReadTools => entry.path \in Seen(turn)
  <2> SUFFICES ASSUME turn.started, entry.ok, entry.name \in ReadTools
               PROVE  entry.path \in Seen(turn)
    OBVIOUS
  <2>1. pc = "calling" /\ Receive(answer) /\ answer.ok
    BY <1>3, <1>4 DEF Nothing
  <2>2. answer \in responses /\ answer.id = pending.id /\ pending # NoRequest
    BY <2>1 DEF Receive
  <2>3. answer.path = call.path
    BY <2>1, <2>2 DEF IInv, ClientInv, IdsUnique, InFlight, WaitsForOwn, Echoes
  <2>4. answer.path \in Seen(turn)
    BY <1>4, <2>1, <2>2 DEF DiscoveredFirst
  <2> QED BY <1>4, <2>3, <2>4
<1>8. ReadsFollowDiscovery'
  <2> SUFFICES ASSUME turn.started, NEW i \in DOMAIN turn'.executed,
                      turn'.executed[i].ok, turn'.executed[i].name \in ReadTools
               PROVE  \E j \in 1..(i - 1) :
                         /\ turn'.executed[j].sent
                         /\ turn'.executed[i].path \in
                               Discovered(turn'.executed[j].name, turn'.executed[j].path)
    BY <1>1 DEF ReadsFollowDiscovery
  <2>1. /\ DOMAIN turn'.executed = 1..(Len(turn.executed) + 1)
        /\ DOMAIN turn.executed = 1..Len(turn.executed) /\ Len(turn.executed) \in Nat
        /\ \A j \in 1..Len(turn.executed) : turn'.executed[j] = turn.executed[j]
        /\ turn'.executed[Len(turn.executed) + 1] = entry
    <3> HIDE DEF entry
    <3>1. turn.executed \in Seq(Entries \cup {entry}) /\ entry \in Entries \cup {entry}
      BY <1>2
    <3>2. turn'.executed = Append(turn.executed, entry)
      BY <1>3 DEF entry
    <3> QED BY <3>1, <3>2
  <2>2. CASE i \in DOMAIN turn.executed
    <3>1. turn'.executed[i] = turn.executed[i]
      BY <2>1, <2>2
    <3>2. PICK j \in 1..(i - 1) :
             /\ turn.executed[j].sent
             /\ turn.executed[i].path \in
                   Discovered(turn.executed[j].name, turn.executed[j].path)
      BY <2>2, <3>1 DEF DiscoveredFirst, ReadsFollowDiscovery
    <3>3. turn'.executed[j] = turn.executed[j]
      BY <2>1, <2>2
    <3> QED BY <3>1, <3>2, <3>3
  <2>3. CASE i = Len(turn.executed) + 1
    <3>1. entry.path \in Seen(turn)
      BY <1>7, <2>1, <2>3
    <3>2. PICK j \in DOMAIN turn.executed :
             /\ turn.executed[j].sent
             /\ entry.path \in Discovered(turn.executed[j].name, turn.executed[j].path)
      BY <3>1 DEF Seen, EntriesOf
    <3> QED BY <2>1, <2>3, <3>2
  <2> QED BY <2>1, <2>2, <2>3
<1> QED BY <1>1, <1>6, <1>8 DEF DiscoveredFirst, Sought

\* A call that is sent carries an id nothing in flight has.
LEMMA PassesDiscover ==
    ASSUME IInv, DiscoveredFirst, Passes
    PROVE  DiscoveredFirst'
<1>1. turn'.executed = turn.executed /\ turn'.started = turn.started /\ turn'.todo = turn.todo
  BY PassesMoves
<1>2. CASE SendCall
  <2> DEFINE call == Head(turn.todo)
             request == Request("tools/call", call.name, call.path)
  <2>1. /\ pc = "call" /\ pc' = "calling" /\ turn.todo # <<>>
        /\ stdin' = Append(stdin, request) /\ pending' = request
        /\ grounded' = grounded /\ UNCHANGED <<stdout, held, responses>>
    BY <1>2 DEF SendCall, Goto, Send
  <2>2. request.id = nextId /\ request.method = "tools/call"
        /\ request.tool = call.name /\ request.path = call.path
    BY DEF Request
  <2> HIDE DEF request
  <2>3. \A x \in Answering : x.id # nextId
    <3>1. \A x \in Answering : x.id < nextId
      BY DEF IInv, ClientInv, IdsUnique, InFlight, Answering
    <3>2. \A x \in Answering : x.id \in Nat
      BY IdsAreNumbers DEF IInv, ClientInv, InFlight, Answering
    <3> QED BY <3>1, <3>2 DEF IInv, ClientInv, ClientShape
  <2>4. Seen(turn)' = Seen(turn) /\ Sought = {} /\ Sought' = Discovered(call.name, call.path)
    BY <1>1, <2>1, SeenKept DEF Sought
  <2>5. \A i \in DOMAIN stdin' :
           stdin'[i] = request \/ \E j \in DOMAIN stdin : stdin'[i] = stdin[j]
    <3>1. stdin \in Seq(Requested \cup {request}) /\ request \in Requested \cup {request}
      BY DEF IInv, ClientInv, ClientShape
    <3> QED BY <2>1, <3>1
  <2>6. ReadsFollowDiscovery'
    BY <1>1 DEF DiscoveredFirst, ReadsFollowDiscovery
  <2>7. turn.started =>
           \A i \in DOMAIN stdin' : stdin'[i].method = "tools/call" =>
              Discovered(stdin'[i].tool, stdin'[i].path) \subseteq Seen(turn)' \cup Sought'
    BY <2>2, <2>4, <2>5 DEF DiscoveredFirst
  <2>8. \A x \in Answering' : x.id # pending'.id
    BY <2>1, <2>2, <2>3 DEF Answering
  <2> QED BY <1>1, <2>1, <2>4, <2>6, <2>7, <2>8 DEF DiscoveredFirst, Answering
<1>3. CASE EndRound
  <2>1. pc = "call" /\ pc' = "infer" /\ UNCHANGED clientVars
    BY <1>3 DEF EndRound, Update, Goto
  <2> QED BY <1>1, <2>1, NothingSought DEF clientVars
<1>4. CASE Close
  <2>1. pc = "close" /\ pc' = "idle" /\ grounded' = grounded
        /\ \A i \in DOMAIN stdin' : stdin' = stdin
    BY <1>4 DEF Close, Goto, Stop, clientVars
  <2> QED BY <1>1, <2>1, NothingSought
<1> QED BY <1>2, <1>3, <1>4 DEF Passes

\* The server grounds only what the requests it was sent discover, and a read
\* succeeds only on what is grounded.
LEMMA ServeDiscovers ==
    ASSUME IInv, DiscoveredFirst, UNCHANGED <<setting, pc, turn>>, Serve
    PROVE  DiscoveredFirst'
<1> DEFINE request == Head(stdin)
           line == Handled(request, grounded)
<1>1. /\ stdin \in Seq(Requested) /\ stdin # <<>> /\ stdout \in Seq(Lines)
  BY DEF IInv, ClientInv, ClientShape, Serve
<1>2. request \in Requested /\ request = stdin[1] /\ 1 \in DOMAIN stdin
  BY <1>1
<1>3. line \in Lines /\ line.id = request.id /\ Echoes(line, request)
  BY <1>2, HandledEchoes
<1>4. /\ stdout' = Append(stdout, line) /\ stdin' = Tail(stdin)
      /\ grounded' = GroundedAfter(request, grounded)
      /\ UNCHANGED <<held, responses, pending>>
  BY DEF Serve
<1>5. line.ok /\ request.method = "tools/call" /\ request.tool \in ReadTools
         => request.path \in grounded
  BY DEF Handled, Succeeds, Grounded, ReadTools
<1> HIDE DEF line, request
<1>6. \A i \in DOMAIN stdin' : \E j \in DOMAIN stdin : stdin'[i] = stdin[j]
  BY <1>1, <1>4
<1>7. \A x \in Answering' : x = line \/ x \in Answering
  <2>1. \A i \in DOMAIN stdout' : stdout'[i] = line \/ \E j \in DOMAIN stdout : stdout'[i] = stdout[j]
    BY <1>1, <1>3, <1>4
  <2> QED BY <1>4, <2>1 DEF Answering
<1>8. Seen(turn)' = Seen(turn) /\ Sought' = Sought
  BY SeenKept DEF Sought
<1>9. pc = "handshake" => grounded' = {}
  BY <1>2, <1>4 DEF DiscoveredFirst, GroundedAfter
<1>10. turn.started => grounded' \subseteq Seen(turn) \cup Sought
  BY <1>2, <1>4 DEF DiscoveredFirst, GroundedAfter
<1>11. ASSUME turn.started, pc = "calling", Head(turn.todo).name \in ReadTools,
              line.id = pending.id, line.ok
       PROVE  line.path \in Seen(turn)
  <2>1. request \in InFlight /\ pending # NoRequest
    BY <1>2, <1>11 DEF InFlight, IInv, WaitsForOwn
  <2>2. /\ request.tool = Head(turn.todo).name /\ request.path = Head(turn.todo).path
    BY <1>3, <1>11, <2>1 DEF IInv, ClientInv, IdsUnique, WaitsForOwn, Echoes
  <2>3. request.method = "tools/call"
    BY <1>2, <1>11, <2>2 DEF Requested, ReadTools
  <2>4. Sought = {}
    BY <1>11 DEF Sought, Discovered, ReadTools
  <2>5. request.path \in grounded
    BY <1>5, <1>11, <2>2, <2>3
  <2> QED BY <1>3, <1>11, <2>4, <2>5 DEF DiscoveredFirst, Echoes
<1>12. ReadsFollowDiscovery'
  BY DEF DiscoveredFirst, ReadsFollowDiscovery
<1> QED BY <1>4, <1>6, <1>7, <1>8, <1>9, <1>10, <1>11, <1>12 DEF DiscoveredFirst, Answering

\* The readers only move what the server wrote.
LEMMA RestsDiscover ==
    ASSUME IInv, DiscoveredFirst, Rests
    PROVE  DiscoveredFirst'
<1>1. UNCHANGED <<setting, pc, turn>> /\ (ServerSide \/ UNCHANGED clientVars)
  BY DEF Rests
<1>2. CASE Serve
  BY <1>1, <1>2, ServeDiscovers
<1>3. CASE ~Serve
  <2>1. /\ grounded' = grounded /\ pending' = pending
        /\ \A i \in DOMAIN stdin' : stdin' = stdin
    BY <1>1, <1>3 DEF ServerSide, ReadLine, ReaderQuits, StoreHeld, ReadBeside, Crash, clientVars
  <2>2. Answering' \subseteq Answering
    <3>1. CASE ReadLine \/ ReadBeside
      <4>1. stdout \in Seq(Lines) /\ stdout # <<>>
        BY <3>1 DEF IInv, ClientInv, ClientShape, ReadLine, ReadBeside
      <4>2. /\ Head(stdout) = stdout[1] /\ 1 \in DOMAIN stdout
            /\ \A i \in DOMAIN Tail(stdout) : \E j \in DOMAIN stdout : Tail(stdout)[i] = stdout[j]
        BY <4>1
      <4>3. stdout' = Tail(stdout) \/ stdout' = <<>>
        BY <3>1 DEF ReadLine, ReadBeside
      <4>4. \A i \in DOMAIN stdout' : \E j \in DOMAIN stdout : stdout'[i] = stdout[j]
        BY <4>2, <4>3
      <4> QED BY <3>1, <4>2, <4>4 DEF ReadLine, ReadBeside, Answering
    <3>2. CASE ReaderQuits
      BY <3>2 DEF ReaderQuits, Answering
    <3>3. CASE StoreHeld
      BY <3>3 DEF StoreHeld, Answering
    <3>4. CASE Crash \/ UNCHANGED clientVars
      BY <3>4 DEF Crash, clientVars, Answering
    <3> QED BY <1>1, <1>3, <3>1, <3>2, <3>3, <3>4 DEF ServerSide
  <2>3. Seen(turn)' = Seen(turn) /\ Sought' = Sought
    BY <1>1, SeenKept DEF Sought
  <2>4. ReadsFollowDiscovery'
    BY <1>1 DEF DiscoveredFirst, ReadsFollowDiscovery
  <2> QED BY <1>1, <2>1, <2>2, <2>3, <2>4 DEF DiscoveredFirst, Answering
<1> QED BY <1>2, <1>3

LEMMA DiscoveredFirstKept ==
    ASSUME IInv, DiscoveredFirst, [Next]_vars
    PROVE  DiscoveredFirst'
<1>1. CASE Begin
  <2>1. /\ turn'.executed = <<>> /\ turn'.started = FALSE
        /\ pc' \in {"policy", "attach", "close"}
    BY <1>1, BeginMoves
  <2> QED BY <2>1 DEF DiscoveredFirst, ReadsFollowDiscovery
<1>2. CASE Infers \/ Audits
  <2>1. /\ turn'.executed = turn.executed /\ turn'.started = turn.started
        /\ pc \in {"infer", "audit"} /\ pc' \in {"infer", "audit", "call", "close"}
        /\ UNCHANGED clientVars
    BY <1>2, InfersMoves, AuditsMoves
  <2> QED BY <2>1, NothingSought DEF clientVars
<1> QED BY <1>1, <1>2, PreludeDiscovers, RecordsDiscover, PassesDiscover, RestsDiscover, StepCases

-----------------------------------------------------------------------------
(* WindowKept: _trim_tool_history drops whole groups, so a list of whole   *)
(* groups stays one, and what stays fits the window.                       *)

\* The places of the messages that stay.
Kept(m) == {j \in 1..Len(m) : \A i \in Dropped(m) : ~InGroup(m, i, j)}

LEMMA TrimmedPicks ==
    ASSUME NEW m \in Seq(Messages)
    PROVE  Picks(Trimmed(m), m, Kept(m))
<1> DEFINE n == Len(m)
           K == Kept(m)
           Stays(j) == \A i \in Dropped(m) : ~InGroup(m, i, j)
           upTo[i \in 0..n] ==
               IF i = 0 THEN <<>>
               ELSE IF Stays(i) THEN Append(upTo[i - 1], m[i]) ELSE upTo[i - 1]
<1>1. Trimmed(m) = upTo[n]
    BY Zenon DEF Trimmed
<1>2. n \in Nat /\ m \in [1..n -> Messages] /\ K \in SUBSET (1..n)
      /\ \A j \in 1..n : j \in K <=> Stays(j)
    BY DEF Kept
<1> HIDE DEF K, Stays
<1>3. \E f : Walks(f, m, K, n)
    BY <1>2, WalkExists
<1>4. \A f : Walks(f, m, K, n) <=>
         f = [i \in 0..n |-> IF i = 0 THEN <<>>
                             ELSE IF Stays(i) THEN Append(f[i - 1], m[i]) ELSE f[i - 1]]
    <2> SUFFICES ASSUME NEW f
                 PROVE  Walks(f, m, K, n) <=>
                          f = [i \in 0..n |-> IF i = 0 THEN <<>>
                                 ELSE IF Stays(i) THEN Append(f[i - 1], m[i]) ELSE f[i - 1]]
        OBVIOUS
    <2>1. \A i \in 0..n : i # 0 => (i \in K <=> Stays(i))
        BY <1>2
    <2>2. [i \in 0..n |-> IF i = 0 THEN <<>>
             ELSE IF i \in K THEN Append(f[i - 1], m[i]) ELSE f[i - 1]]
          = [i \in 0..n |-> IF i = 0 THEN <<>>
                ELSE IF Stays(i) THEN Append(f[i - 1], m[i]) ELSE f[i - 1]]
        BY <2>1
    <2> QED
        BY <2>2 DEF Walks
<1>5. Walks(upTo, m, K, n)
    <2>1. upTo = CHOOSE f : f = [i \in 0..n |-> IF i = 0 THEN <<>>
                   ELSE IF Stays(i) THEN Append(f[i - 1], m[i]) ELSE f[i - 1]]
        BY Zenon
    <2> HIDE DEF upTo
    <2>2. upTo = [i \in 0..n |-> IF i = 0 THEN <<>>
                   ELSE IF Stays(i) THEN Append(upTo[i - 1], m[i]) ELSE upTo[i - 1]]
        BY Zenon, <1>3, <1>4, <2>1
    <2> QED
        BY <1>4, <2>2
<1> HIDE DEF upTo, n
<1>6. Picks(upTo[n], m, K)
    BY <1>2, <1>5, WalkPicks
<1> QED
    BY <1>1, <1>6 DEF K
\* The results of a call stay exactly if the call does.
LEMMA GroupsStayWhole ==
    ASSUME NEW m, Groups(m), NEW i \in ToolTurns(m), NEW k \in 1..Len(m[i].ids)
    PROVE  i + k \in Kept(m) <=> i \in Kept(m)
<1>1. /\ i \in 1..Len(m) /\ Len(m) \in Nat /\ i \in Int /\ k \in Int /\ k >= 1
      /\ \A l \in 1..Len(m[i].ids) : i + l \in 1..Len(m) /\ m[i + l].role = "tool"
    <2>1. i \in 1..Len(m) /\ IsToolCall(m[i]) /\ Len(m) \in Nat
        BY DEF ToolTurns, Groups
    <2>2. \A l \in 1..Len(m[i].ids) :
             i + l \in 1..Len(m) /\ m[i + l] = Message("tool", <<m[i].ids[l]>>)
        BY <2>1 DEF Groups
    <2>3. \A l \in 1..Len(m[i].ids) : m[i + l].role = "tool"
        <3> SUFFICES ASSUME NEW l \in 1..Len(m[i].ids) PROVE m[i + l].role = "tool"
            OBVIOUS
        <3>1. m[i + l] = [role |-> "tool", ids |-> <<m[i].ids[l]>>]
            BY <2>2 DEF Message
        <3> QED
            BY <3>1
    <2>4. i \in Int /\ k \in Int /\ k >= 1
        BY <2>1
    <2> QED
        BY <2>1, <2>2, <2>3, <2>4
<1>2. m[i].role = "assistant" /\ \A d \in Dropped(m) : d \in Int /\ m[d].role = "assistant"
    BY DEF ToolTurns, Dropped, IsToolCall
<1>3. ASSUME NEW d \in Dropped(m) PROVE InGroup(m, d, i + k) <=> InGroup(m, d, i)
    <2>1. CASE d < i
        <3>1. i \in (d + 1)..i /\ i \in (d + 1)..(i + k)
            BY <1>1, <1>2, <1>3, <2>1
        <3> QED
            BY <1>2, <3>1 DEF InGroup
    <2>2. CASE d = i
        <3>1. \A l \in (i + 1)..(i + k) : m[l].role = "tool"
            <4> SUFFICES ASSUME NEW l \in (i + 1)..(i + k) PROVE m[l].role = "tool"
                OBVIOUS
            <4>1. l - i \in 1..k /\ i + (l - i) = l
                BY <1>1
            <4>2. l - i \in 1..Len(m[i].ids)
                BY <4>1
            <4>3. m[i + (l - i)].role = "tool"
                BY <1>1, <4>2
            <4> QED
                BY <4>1, <4>3
        <3>2. (i + 1)..i = {} /\ i <= i + k
            BY <1>1
        <3> QED
            BY <1>1, <2>2, <3>1, <3>2 DEF InGroup
    <2>3. CASE i < d
        <3>1. ~InGroup(m, d, i)
            BY <1>1, <1>2, <2>3 DEF InGroup
        <3>2. ASSUME d <= i + k PROVE FALSE
            <4>1. d - i \in 1..k /\ i + (d - i) = d
                BY <1>1, <1>2, <1>3, <2>3, <3>2
            <4>2. d - i \in 1..Len(m[i].ids)
                BY <4>1
            <4>3. m[i + (d - i)].role = "tool"
                BY <1>1, <4>2
            <4> QED
                BY <1>2, <1>3, <4>1, <4>3
        <3> QED
            BY <3>1, <3>2 DEF InGroup
    <2> QED
        BY <1>1, <1>2, <1>3, <2>1, <2>2, <2>3
<1> QED
    BY <1>1, <1>3 DEF Kept

\* The instruction and the request stay; no more tool turns stay than the window.
LEMMA FirstTwoStay ==
    ASSUME NEW m, Groups(m)
    PROVE  1 \in Kept(m) /\ 2 \in Kept(m)
<1>1. \A d \in Dropped(m) : d \in Int /\ 3 <= d
    BY DEF Dropped, Groups
<1>2. 1 \in 1..Len(m) /\ 2 \in 1..Len(m)
    BY DEF Groups
<1> QED
    BY <1>1, <1>2 DEF Kept, InGroup

LEMMA WindowHolds ==
    ASSUME NEW m, Groups(m)
    PROVE  /\ IsFiniteSet(ToolTurns(m) \cap Kept(m))
           /\ Cardinality(ToolTurns(m) \cap Kept(m)) <= MaxToolTurns
<1> DEFINE turns == {i \in 3..Len(m) : IsToolCall(m[i])}
           Later(i) == {j \in turns : j > i}
           R == ToolTurns(m) \cap Kept(m)
<1>1. Len(m) \in Nat /\ MaxToolTurns \in Nat /\ MaxToolTurns >= 1
    BY MaxToolTurnsAssumption DEF Groups
<1>2. IsFiniteSet(turns) /\ \A i \in turns : IsFiniteSet(Later(i))
    <2>1. IsFiniteSet(3..Len(m))
        BY <1>1, FS_Interval
    <2>2. turns \in SUBSET (3..Len(m)) /\ \A i \in turns : Later(i) \in SUBSET (3..Len(m))
        OBVIOUS
    <2> HIDE DEF turns, Later
    <2> QED
        BY <2>1, <2>2, FS_Subset
<1>3. ASSUME NEW i \in R
      PROVE  i \in turns /\ i \in Nat /\ ~(Cardinality(Later(i)) >= MaxToolTurns)
    <2>1. i \in 1..Len(m) /\ IsToolCall(m[i]) /\ i \in Kept(m)
        BY DEF ToolTurns
    <2>2. i # 1 /\ i # 2
        BY <2>1 DEF Groups, Message, IsToolCall
    <2>3. i \in turns
        BY <1>1, <2>1, <2>2
    <2>4. i \notin Dropped(m)
        <3>1. InGroup(m, i, i)
            BY <2>1 DEF InGroup
        <3> QED
            BY <2>1, <3>1 DEF Kept
    <2>5. Dropped(m) = {d \in turns : Cardinality(Later(d)) >= MaxToolTurns}
        BY DEF Dropped
    <2> QED
        BY <2>1, <2>3, <2>4, <2>5
<1>4. R \in SUBSET turns
    BY <1>3
<1> HIDE DEF turns, R
<1>5. IsFiniteSet(R)
    BY <1>2, <1>4, FS_Subset
<1>6. CASE R = {}
    BY <1>1, <1>5, <1>6, FS_EmptySet DEF R
<1>7. CASE R # {}
    <2>1. PICK first \in R : \A x \in R : first <= x
        <3>1. R \in SUBSET Nat
            BY <1>3
        <3> QED
            BY <1>7, <3>1, LeastNatural
    <2>2. R \in SUBSET (Later(first) \cup {first})
        <3>1. \A x \in R : x \in turns /\ (x > first \/ x = first)
            <4>1. \A x \in R : x \in turns /\ x \in Nat
                BY <1>3
            <4>2. \A x \in R : first <= x
                BY <2>1
            <4>3. ASSUME NEW x \in R PROVE x > first \/ x = first
                <5>1. x \in Nat /\ first \in Nat /\ first <= x
                    BY <4>1, <4>2
                <5> QED
                    BY <5>1
            <4> QED
                BY <4>1, <4>3
        <3> QED
            BY <3>1
    <2> HIDE DEF Later
    <2>3. IsFiniteSet(Later(first)) /\ Cardinality(Later(first)) \in Nat
        BY <1>2, <1>3, FS_CardinalityType
    <2>4. /\ IsFiniteSet(Later(first) \cup {first})
          /\ Cardinality(Later(first) \cup {first}) \in Nat
          /\ Cardinality(Later(first) \cup {first}) <= Cardinality(Later(first)) + 1
        <3>1. /\ IsFiniteSet(Later(first) \cup {first})
              /\ Cardinality(Later(first) \cup {first}) =
                    IF first \in Later(first) THEN Cardinality(Later(first))
                    ELSE Cardinality(Later(first)) + 1
            BY <2>3, FS_AddElement
        <3> QED
            BY <2>3, <3>1
    <2>5. Cardinality(R) <= Cardinality(Later(first) \cup {first}) /\ Cardinality(R) \in Nat
        BY <1>5, <2>2, <2>4, FS_Subset, FS_CardinalityType
    <2>6. ~(Cardinality(Later(first)) >= MaxToolTurns)
        BY <1>3
    <2>7. Cardinality(R) <= MaxToolTurns
        BY <1>1, <2>3, <2>4, <2>5, <2>6
    <2> QED
        BY <1>5, <2>7 DEF R
<1> QED
    BY <1>6, <1>7

LEMMA TrimmedCoherent ==
    ASSUME NEW m, Groups(m)
    PROVE  Coherent(Trimmed(m))
<1> DEFINE K == Kept(m)
           N == Cardinality(K)
           t == Trimmed(m)
<1>1. m \in Seq(Messages) /\ Len(m) \in Nat /\ m \in [1..Len(m) -> Messages]
    BY DEF Groups
<1>2. IsFiniteSet(K) /\ K \in SUBSET Int /\ K \in SUBSET (1..Len(m))
    <2>1. K \in SUBSET (1..Len(m))
        BY DEF Kept
    <2> HIDE DEF K
    <2> QED
        BY <1>1, <2>1, PlacesAreFinite
<1>3. PICK s : Sorts(s, K) /\ t = [k \in 1..N |-> m[s[k]]]
    BY <1>1, TrimmedPicks DEF Picks
<1> HIDE DEF K, t
<1>4. /\ N \in Nat /\ s \in [1..N -> K]
      /\ \A i, j \in 1..N : i < j => s[i] < s[j]
      /\ \A i, j \in 1..N : s[i] = s[j] => i = j
      /\ \A x \in K : \E k \in 1..N : s[k] = x
    BY <1>2, <1>3, FS_CardinalityType, SortsAll DEF Sorts
<1>5. \A k \in 1..N : s[k] \in K /\ s[k] \in 1..Len(m) /\ t[k] = m[s[k]]
    BY <1>2, <1>3, <1>4
<1>6. t \in Seq(Messages) /\ Len(t) = N
    <2>1. t \in [1..N -> Messages]
        BY <1>1, <1>3, <1>5
    <2> HIDE DEF N
    <2> QED
        BY <1>4, <2>1, FunctionIsSeq
<1>7. ASSUME NEW b \in 1..N, IsToolCall(t[b])
      PROVE  /\ s[b] \in ToolTurns(m)
             /\ \A k \in 0..Len(t[b].ids) : b + k \in 1..N /\ s[b + k] = s[b] + k
    <2>1. s[b] \in ToolTurns(m) /\ t[b] = m[s[b]] /\ s[b] \in K
        BY <1>5, <1>7 DEF ToolTurns
    <2>2. Len(t[b].ids) \in Nat
        BY <1>6 DEF Messages
    <2>3. \A k \in 1..Len(t[b].ids) : s[b] + k \in K
        BY <2>1, GroupsStayWhole DEF K
    <2>4. \A k \in 0..Len(t[b].ids) : b + k \in 1..N /\ s[b + k] = s[b] + k
        <3> DEFINE l == Len(t[b].ids)
        <3>1. l \in Nat /\ \A k \in 1..l : s[b] + k \in K
            BY <2>2, <2>3
        <3> HIDE DEF l
        <3>2. \A k \in 0..l : b + k \in 1..N /\ s[b + k] = s[b] + k
            BY <1>2, <1>3, <3>1, ListedRun
        <3> QED
            BY <3>2 DEF l
    <2> QED
        BY <2>1, <2>4
<1>8. N >= 2 /\ s[1] = 1 /\ s[2] = 2
    <2>1. 1 \in K /\ 2 \in K
        BY FirstTwoStay DEF K
    <2>2. PICK c \in 1..N : s[c] = 1
        BY <1>4, <2>1
    <2>3. c = 1
        <3>1. 1 \in 1..N /\ s[1] >= 1
            BY <1>4, <1>5
        <3>2. ~(1 < c)
            <4>1. 1 < c => s[1] < s[c]
                BY <1>4, <3>1
            <4>2. s[1] \in Int
                BY <1>5, <3>1
            <4> QED
                BY <2>2, <3>1, <4>1, <4>2
        <3> QED
            BY <1>4, <3>2
    <2>4. c + 1 \in 1..N /\ s[c + 1] = 2
        <3>1. s[c] + 1 \in K
            BY <2>1, <2>2
        <3> QED
            BY <1>2, <1>3, <2>2, <3>1, ListedNext
    <2> QED
        BY <1>4, <2>2, <2>3, <2>4
<1>9. t[1] = Message("system", <<>>) /\ t[2] = Message("user", <<>>)
    BY <1>4, <1>5, <1>8 DEF Groups
<1>10. ASSUME NEW b \in 1..N, IsToolCall(t[b]), NEW k \in 1..Len(t[b].ids)
       PROVE  b + k \in 1..N /\ t[b + k] = Message("tool", <<t[b].ids[k]>>)
    <2>1. b + k \in 1..N /\ s[b + k] = s[b] + k /\ s[b] \in ToolTurns(m)
        BY <1>6, <1>7, <1>10 DEF Messages
    <2>2. m[s[b] + k] = Message("tool", <<m[s[b]].ids[k]>>)
        BY <1>5, <1>10, <2>1 DEF Groups, ToolTurns
    <2> QED
        BY <1>5, <2>1, <2>2
<1>11. ASSUME NEW a \in 1..N, t[a].role = "tool"
       PROVE  \E b \in 1..(a - 1) : IsToolCall(t[b]) /\ a - b <= Len(t[b].ids)
    <2>1. s[a] \in 1..Len(m) /\ m[s[a]].role = "tool" /\ s[a] \in K
        BY <1>5, <1>11
    <2>2. PICK j \in 1..(s[a] - 1) : IsToolCall(m[j]) /\ s[a] - j <= Len(m[j].ids)
        BY <2>1 DEF Groups
    <2>3. j \in ToolTurns(m) /\ s[a] - j \in 1..Len(m[j].ids) /\ j + (s[a] - j) = s[a]
        <3>1. j \in 1..Len(m) /\ s[a] \in Int /\ j \in Int
            BY <1>1, <2>1
        <3>2. Len(m[j].ids) \in Nat
            BY <1>1, <3>1 DEF Messages
        <3> QED
            BY <2>2, <3>1, <3>2 DEF ToolTurns
    <2>4. j \in K
        BY <2>1, <2>3, GroupsStayWhole DEF K
    <2>5. PICK b \in 1..N : s[b] = j
        BY <1>4, <2>4
    <2>6. t[b] = m[j] /\ IsToolCall(t[b])
        BY <1>5, <2>2, <2>5
    <2>7. b + (s[a] - j) \in 1..N /\ s[b + (s[a] - j)] = s[a]
        BY <1>7, <2>3, <2>5, <2>6
    <2>8. a = b + (s[a] - j)
        BY <1>4, <2>7
    <2>9. b \in 1..(a - 1) /\ a - b <= Len(t[b].ids)
        BY <2>2, <2>3, <2>6, <2>8
    <2> QED
        BY <2>6, <2>9
<1>12. Cardinality(ToolTurns(t)) <= MaxToolTurns
    <2> DEFINE R == ToolTurns(m) \cap K
               g == [b \in ToolTurns(t) |-> s[b]]
    <2>1. IsFiniteSet(R) /\ Cardinality(R) <= MaxToolTurns
        BY WindowHolds DEF K
    <2>2. \A b \in ToolTurns(t) : b \in 1..N /\ IsToolCall(t[b])
        BY <1>6 DEF ToolTurns
    <2>3. \A b \in ToolTurns(t) : s[b] \in R
        BY <1>5, <1>7, <2>2
    <2> HIDE DEF R
    <2>4. g \in Injection(ToolTurns(t), R)
        BY <1>4, <2>2, <2>3 DEF Injection, IsInjective
    <2>5. IsFiniteSet(ToolTurns(t)) /\ Cardinality(ToolTurns(t)) <= Cardinality(R)
        <3> HIDE DEF g
        <3> QED
            BY <2>1, <2>4, FS_Injection
    <2>6. Cardinality(ToolTurns(t)) \in Nat /\ Cardinality(R) \in Nat /\ MaxToolTurns \in Nat
        BY <2>1, <2>5, FS_CardinalityType, MaxToolTurnsAssumption
    <2> QED
        BY <2>1, <2>5, <2>6
<1>13. Groups(t)
    BY <1>6, <1>8, <1>9, <1>10, <1>11 DEF Groups
<1> QED
    BY <1>12, <1>13 DEF Coherent, t
LEMMA MessageType ==
    ASSUME NEW role \in Roles, NEW ids \in Seq(Int)
    PROVE  /\ Message(role, ids) \in Messages
           /\ Message(role, ids).role = role /\ Message(role, ids).ids = ids
BY DEF Message, Messages

LEMMA FirstCoherent == Coherent(FirstMessages)
<1> DEFINE m == FirstMessages
<1>1. <<>> \in Seq(Int) /\ "system" \in Roles /\ "user" \in Roles
    BY DEF Roles
<1>2. Message("system", <<>>) \in Messages /\ Message("user", <<>>) \in Messages
    BY <1>1, MessageType
<1>3. m \in Seq(Messages) /\ Len(m) = 2
      /\ m[1] = Message("system", <<>>) /\ m[2] = Message("user", <<>>)
    BY <1>2 DEF FirstMessages
<1> HIDE DEF m
<1>4. \A i \in 1..Len(m) : ~IsToolCall(m[i]) /\ m[i].role # "tool"
    <2>1. \A i \in 1..Len(m) : i = 1 \/ i = 2
        BY <1>3
    <2>2. m[1].role = "system" /\ m[2].role = "user"
        BY <1>3 DEF Message
    <2> QED
        BY <2>1, <2>2 DEF IsToolCall
<1>5. ToolTurns(m) = {}
    BY <1>4 DEF ToolTurns
<1>6. Cardinality(ToolTurns(m)) <= MaxToolTurns
    BY <1>5, FS_EmptySet, MaxToolTurnsAssumption
<1> QED
    BY <1>3, <1>4, <1>6 DEF Coherent, Groups, m

LEMMA NoteCoherent ==
    ASSUME NEW m, Coherent(m)
    PROVE  Coherent(WithNote(m))
<1> DEFINE w == WithNote(m)
           n == Len(m)
<1>1. m \in Seq(Messages) /\ n \in Nat /\ Message("user", <<>>) \in Messages
    <2>1. <<>> \in Seq(Int) /\ "user" \in Roles
        BY DEF Roles
    <2> QED
        BY <2>1, MessageType DEF Coherent, Groups
<1>2. /\ w \in Seq(Messages) /\ Len(w) = n + 1 /\ w[n + 1] = Message("user", <<>>)
      /\ \A i \in 1..n : w[i] = m[i]
    BY <1>1 DEF WithNote
<1> HIDE DEF w, n
<1>3. ~IsToolCall(w[n + 1]) /\ w[n + 1].role # "tool"
    BY <1>2 DEF Message, IsToolCall
<1>4. \A i \in 1..(n + 1) : i \in 1..n \/ i = n + 1
    BY <1>1
<1>5. ToolTurns(w) = ToolTurns(m)
    <2>1. \A i \in 1..(n + 1) : IsToolCall(w[i]) <=> i \in 1..n /\ IsToolCall(m[i])
        BY <1>1, <1>2, <1>3, <1>4
    <2>2. \A i : i \in ToolTurns(w) <=> i \in ToolTurns(m)
        BY <1>1, <1>2, <1>4, <2>1 DEF ToolTurns, n
    <2> QED
        BY <2>2 DEF ToolTurns
<1>6. ASSUME NEW i \in 1..(n + 1), IsToolCall(w[i]), NEW k \in 1..Len(w[i].ids)
      PROVE  i + k \in 1..(n + 1) /\ w[i + k] = Message("tool", <<w[i].ids[k]>>)
    <2>1. i \in 1..n /\ w[i] = m[i]
        BY <1>2, <1>3, <1>4, <1>6
    <2>2. i + k \in 1..n /\ m[i + k] = Message("tool", <<m[i].ids[k]>>)
        BY <1>6, <2>1 DEF Coherent, Groups, n
    <2> QED
        BY <1>1, <1>2, <2>1, <2>2
<1>7. ASSUME NEW i \in 1..(n + 1), w[i].role = "tool"
      PROVE  \E j \in 1..(i - 1) : IsToolCall(w[j]) /\ i - j <= Len(w[j].ids)
    <2>1. i \in 1..n /\ w[i] = m[i]
        BY <1>2, <1>3, <1>4, <1>7
    <2>2. PICK j \in 1..(i - 1) : IsToolCall(m[j]) /\ i - j <= Len(m[j].ids)
        BY <1>7, <2>1 DEF Coherent, Groups, n
    <2>3. j \in 1..n
        BY <1>1, <2>1
    <2> QED
        BY <1>2, <2>2, <2>3
<1>8. n + 1 >= 2 /\ w[1] = Message("system", <<>>) /\ w[2] = Message("user", <<>>)
    BY <1>1, <1>2 DEF Coherent, Groups, n
<1>9. Groups(w)
    BY <1>2, <1>6, <1>7, <1>8 DEF Groups
<1> QED
    BY <1>5, <1>9 DEF Coherent, w

\* The list before the window is applied.
Extended(m, ids) ==
    Append(m, Message("assistant", ids)) \o [k \in 1..Len(ids) |-> Message("tool", <<ids[k]>>)]

LEMMA ExtendedList ==
    ASSUME NEW m \in Seq(Messages), NEW ids \in Seq(Int)
    PROVE  /\ Extended(m, ids) \in Seq(Messages)
           /\ Len(Extended(m, ids)) = Len(m) + 1 + Len(ids)
           /\ \A i \in 1..Len(m) : Extended(m, ids)[i] = m[i]
           /\ Extended(m, ids)[Len(m) + 1] = Message("assistant", ids)
           /\ \A k \in 1..Len(ids) :
                 Extended(m, ids)[Len(m) + 1 + k] = Message("tool", <<ids[k]>>)
<1> DEFINE n == Len(m)
           L == Len(ids)
           p == Append(m, Message("assistant", ids))
           r == [k \in 1..L |-> Message("tool", <<ids[k]>>)]
<1>1. n \in Nat /\ L \in Nat /\ Message("assistant", ids) \in Messages
    BY MessageType DEF Roles
<1>2. p \in Seq(Messages) /\ Len(p) = n + 1 /\ p[n + 1] = Message("assistant", ids)
      /\ \A i \in 1..n : p[i] = m[i]
    BY <1>1
<1>3. \A k \in 1..L : Message("tool", <<ids[k]>>) \in Messages
    <2> SUFFICES ASSUME NEW k \in 1..L PROVE Message("tool", <<ids[k]>>) \in Messages
        OBVIOUS
    <2>1. <<ids[k]>> \in Seq(Int) /\ "tool" \in Roles
        BY DEF Roles
    <2> QED
        BY <2>1, MessageType
<1>4. r \in Seq(Messages) /\ Len(r) = L /\ \A k \in 1..L : r[k] = Message("tool", <<ids[k]>>)
    <2>1. r \in [1..L -> Messages] /\ \A k \in 1..L : r[k] = Message("tool", <<ids[k]>>)
        BY <1>3
    <2> HIDE DEF r
    <2> QED
        BY <1>1, <2>1, FunctionIsSeq
<1>5. Extended(m, ids) = p \o r
    BY DEF Extended
<1> HIDE DEF p, r, n, L
<1>6. /\ p \o r \in Seq(Messages) /\ Len(p \o r) = n + 1 + L
      /\ \A i \in 1..(n + 1) : (p \o r)[i] = p[i]
      /\ \A k \in 1..L : (p \o r)[n + 1 + k] = r[k]
    <2>1. p \o r \in Seq(Messages) /\ Len(p \o r) = n + 1 + L
        <3>1. p \in Seq(Messages) /\ r \in Seq(Messages)
            BY <1>2, <1>4
        <3>2. Len(p) = n + 1 /\ Len(r) = L
            BY <1>2, <1>4
        <3>3. p \o r \in Seq(Messages)
            BY <3>1
        <3>4. Len(p \o r) = Len(p) + Len(r)
            BY <3>1
        <3> QED
            BY <3>2, <3>3, <3>4
    <2>2. \A i \in 1..(n + 1 + L) :
             (p \o r)[i] = IF i <= n + 1 THEN p[i] ELSE r[i - (n + 1)]
        BY <1>1, <1>2, <1>4
    <2>3. \A i \in 1..(n + 1) : i \in 1..(n + 1 + L) /\ i <= n + 1
        BY <1>1
    <2>4. \A k \in 1..L : /\ n + 1 + k \in 1..(n + 1 + L) /\ ~(n + 1 + k <= n + 1)
                          /\ (n + 1 + k) - (n + 1) = k
        BY <1>1
    <2> QED
        BY <2>1, <2>2, <2>3, <2>4
<1>7. 1..n \subseteq 1..(n + 1) /\ n + 1 \in 1..(n + 1)
    BY <1>1
<1> QED
    BY <1>2, <1>4, <1>5, <1>6, <1>7 DEF n, L

LEMMA ExtendedGroups ==
    ASSUME NEW m, Groups(m), NEW ids \in Seq(Int)
    PROVE  Groups(Extended(m, ids))
<1> DEFINE w == Extended(m, ids)
           n == Len(m)
           L == Len(ids)
<1>1. m \in Seq(Messages) /\ n \in Nat /\ n >= 2 /\ L \in Nat
    BY DEF Groups
<1>2. /\ w \in Seq(Messages) /\ Len(w) = n + 1 + L
      /\ \A i \in 1..n : w[i] = m[i]
      /\ w[n + 1] = Message("assistant", ids)
      /\ \A k \in 1..L : w[n + 1 + k] = Message("tool", <<ids[k]>>)
    BY <1>1, ExtendedList
<1> HIDE DEF w, n, L
<1>3. w[n + 1].role = "assistant" /\ w[n + 1].ids = ids
    BY <1>2 DEF Message
<1>4. ASSUME NEW k \in 1..L
      PROVE w[n + 1 + k].role = "tool" /\ ~IsToolCall(w[n + 1 + k])
    <2>1. w[n + 1 + k] = [role |-> "tool", ids |-> <<ids[k]>>]
        BY <1>2 DEF Message
    <2> QED
        BY <2>1 DEF IsToolCall
<1>5. ASSUME NEW i \in 1..(n + 1 + L)
      PROVE i \in 1..n \/ i = n + 1 \/ (i - (n + 1) \in 1..L /\ n + 1 + (i - (n + 1)) = i)
    BY <1>1
<1>6. ASSUME NEW i \in 1..(n + 1 + L), IsToolCall(w[i]), NEW k \in 1..Len(w[i].ids)
      PROVE  i + k \in 1..(n + 1 + L) /\ w[i + k] = Message("tool", <<w[i].ids[k]>>)
    <2>1. CASE i \in 1..n
        <3>1. i + k \in 1..n /\ m[i + k] = Message("tool", <<m[i].ids[k]>>)
            BY <1>2, <1>6, <2>1 DEF Groups, n
        <3>2. w[i + k] = m[i + k] /\ w[i] = m[i]
            BY <1>2, <2>1, <3>1
        <3>3. i + k \in 1..(n + 1 + L)
            BY <1>1, <3>1
        <3> QED
            BY <3>1, <3>2, <3>3
    <2>2. CASE i = n + 1
        <3>1. k \in 1..L /\ w[i].ids[k] = ids[k]
            BY <1>3, <2>2 DEF L
        <3> QED
            BY <1>1, <1>2, <2>2, <3>1
    <2>3. CASE i - (n + 1) \in 1..L /\ n + 1 + (i - (n + 1)) = i
        BY <1>4, <1>6, <2>3
    <2> QED
        BY <1>5, <2>1, <2>2, <2>3
<1>7. ASSUME NEW i \in 1..(n + 1 + L), w[i].role = "tool"
      PROVE  \E j \in 1..(i - 1) : IsToolCall(w[j]) /\ i - j <= Len(w[j].ids)
    <2>1. CASE i \in 1..n
        <3>1. PICK j \in 1..(i - 1) : IsToolCall(m[j]) /\ i - j <= Len(m[j].ids)
            BY <1>2, <1>7, <2>1 DEF Groups, n
        <3>2. j \in 1..n
            BY <1>1, <2>1
        <3> QED
            BY <1>2, <3>1, <3>2
    <2>2. CASE i = n + 1
        BY <1>3, <1>7, <2>2
    <2>3. CASE i - (n + 1) \in 1..L /\ n + 1 + (i - (n + 1)) = i
        <3>1. ids # <<>>
            BY <1>1, <2>3 DEF L
        <3>2. IsToolCall(w[n + 1])
            BY <1>3, <3>1 DEF IsToolCall
        <3>3. n + 1 \in 1..(i - 1) /\ i - (n + 1) <= L
            BY <1>1, <2>3
        <3> QED
            BY <1>3, <3>2, <3>3 DEF L
    <2> QED
        BY <1>5, <2>1, <2>2, <2>3
<1>8. n + 1 + L >= 2 /\ w[1] = Message("system", <<>>) /\ w[2] = Message("user", <<>>)
    BY <1>1, <1>2 DEF Groups, n
<1>9. Groups(w)
    BY <1>2, <1>6, <1>7, <1>8 DEF Groups
<1> QED
    BY <1>9 DEF w

LEMMA ToolTurnCoherent ==
    ASSUME NEW m, Coherent(m), NEW ids \in Seq(Int)
    PROVE  Coherent(WithToolTurn(m, ids))
<1>1. Groups(Extended(m, ids))
    BY ExtendedGroups DEF Coherent
<1>2. WithToolTurn(m, ids) = Trimmed(Extended(m, ids))
    BY DEF WithToolTurn, Extended
<1> QED
    BY <1>1, <1>2, TrimmedCoherent

\* What a step does to the messages, and to the count of calls of a round.
LEMMA WindowMoves ==
    ASSUME IInv, turn.done \in Nat, [Next]_vars
    PROVE  /\ turn'.done \in Nat
           /\ \/ turn'.messages = turn.messages
              \/ turn'.messages = FirstMessages
              \/ turn'.messages = WithNote(turn.messages)
              \/ \E ids \in Seq(Int) : turn'.messages = WithToolTurn(turn.messages, ids)
<1>1. CASE \E request \in setting.requests : BeginTurn(request)
  BY <1>1 DEF BeginTurn, NewTurn
<1>2. CASE \E call \in StepCalls : BeginStep(call)
  BY <1>2 DEF BeginStep, NewTurn
<1>3. CASE Prelude
  <2>1. CASE AnswerDirectly \/ RefuseMutation \/ PassPolicy
    BY <2>1, TurnIsRecord
       DEF AnswerDirectly, RefuseMutation, PassPolicy, Ends, Update, Goto, TurnFields
  <2>2. CASE StartServer \/ CannotSpawn \/ JoinServer
    BY <2>2, TurnIsRecord
       DEF StartServer, CannotSpawn, JoinServer, AfterAttach, Ends, Update, Goto, SameTurn,
           TurnFields
  <2>3. CASE HandshakeDone \/ HandshakeBreaks \/ HandshakeFails
    BY <2>3, TurnIsRecord
       DEF HandshakeDone, HandshakeBreaks, HandshakeFails, AfterAttach, Ends, Update, Goto,
           TurnFields
  <2>4. CASE AskTools \/ ToolsListed \/ ListFails
    BY <2>4, TurnIsRecord
       DEF AskTools, ToolsListed, ListFails, Ends, Update, Goto, SameTurn, TurnFields
  <2>5. CASE RefuseBlindRead \/ ProviderUnreachable \/ BuildContext
    BY <2>5, TurnIsRecord
       DEF RefuseBlindRead, ProviderUnreachable, BuildContext, Ends, Update, Goto, TurnFields
  <2> QED BY <1>3, <2>1, <2>2, <2>3, <2>4, <2>5 DEF Prelude
<1>4. CASE Infers
  <2>1. CASE \E a \in Answers : AcceptAnswer(a)
    BY <2>1, TurnIsRecord DEF AcceptAnswer, Answered, Ends, Update, Goto, TurnFields
  <2>2. CASE \E a \in Answers : RetryAnswer(a)
    BY <2>2, TurnIsRecord DEF RetryAnswer, Answered, Noted, Update, Goto, TurnFields
  <2>3. CASE \E a \in Answers : DoubtAnswer(a)
    <3>1. PICK a \in Answers :
             Update(Answered(turn, a), "audit") \/ Ends(Answered(turn, a), "failed")
      BY <2>3 DEF DoubtAnswer
    <3> QED BY <3>1, TurnIsRecord DEF Answered, Ends, Update, Goto, TurnFields
  <2>4. CASE ProviderFails \/ RefuseCalls
    BY <2>4, TurnIsRecord DEF ProviderFails, RefuseCalls, Ends, Update, Goto, TurnFields
  <2>5. CASE \E calls \in CallLists : TakeCalls(calls)
    BY <2>5, TurnIsRecord DEF TakeCalls, Update, Goto, TurnFields
  <2> QED BY <1>4, <2>1, <2>2, <2>3, <2>4, <2>5 DEF Infers
<1>5. CASE Audits
  BY <1>5, TurnIsRecord DEF Audits, AuditFails, AuditPasses, Ends, Update, Goto, TurnFields
<1>6. CASE Records
  <2>1. CASE BlockCall
    BY <2>1, TurnIsRecord DEF BlockCall, Recorded, Update, Goto, TurnFields
  <2>2. ASSUME NEW answer, AfterCall(turn, answer)
        PROVE  turn'.done = turn.done + 1 /\ turn'.messages = turn.messages
    BY <2>2, TurnIsRecord DEF AfterCall, Recorded, Ends, Update, Goto, TurnFields
  <2>3. CASE ToolAnswers \/ ToolFails
    <3>1. \E answer : AfterCall(turn, answer)
      BY <2>3 DEF ToolAnswers, ToolFails
    <3> QED BY <2>2, <3>1
  <2> QED BY <1>6, <2>1, <2>3 DEF Records
<1>7. CASE Passes
  <2>1. CASE SendCall \/ Close
    BY <2>1, TurnIsRecord DEF SendCall, Close, SameTurn, Goto
  <2>2. CASE EndRound
    <3> DEFINE ids == [k \in 1..turn.done |-> 10 * turn.rounds + k]
    <3>1. ids \in Seq(Int)
      <4>1. ids \in [1..turn.done -> Int]
        BY TurnIsRecord
      <4> HIDE DEF ids
      <4> QED BY <4>1, FunctionIsSeq
    <3>2. turn'.done = turn.done /\ turn'.messages = WithToolTurn(turn.messages, ids)
      BY <2>2, TurnIsRecord DEF EndRound, Update, Goto, TurnFields
    <3> QED BY <3>1, <3>2
  <2> QED BY <1>7, <2>1, <2>2 DEF Passes
<1>8. CASE Rests
  BY <1>8 DEF Rests
<1> QED BY <1>1, <1>2, <1>3, <1>4, <1>5, <1>6, <1>7, <1>8, StepCases DEF Begin

LEMMA WindowStays ==
    ASSUME IInv, WindowKept, [Next]_vars
    PROVE  WindowKept'
<1>1. turn'.done \in Nat
  BY WindowMoves DEF WindowKept
<1>2. Coherent(turn'.messages)
  BY WindowMoves, FirstCoherent, NoteCoherent, ToolTurnCoherent DEF WindowKept
<1>3. Coherent(turn.messages)' <=> Coherent(turn'.messages)
  BY DEF Coherent, Groups, ToolTurns
<1> QED BY <1>1, <1>2, <1>3 DEF WindowKept

\* Place by place or list by list: the two statements of coherence agree.
LEMMA CoherentFollows ==
    ASSUME WindowKept
    PROVE  ContextCoherent
<1> DEFINE m == turn.messages
           Results(i) == [k \in 1..Len(m[i].ids) |-> Message("tool", <<m[i].ids[k]>>)]
<1>1. Coherent(m)
  BY DEF WindowKept
<1>2. m \in Seq(Messages) /\ Len(m) \in Nat /\ DOMAIN m = 1..Len(m) /\ Len(m) >= 2
  BY <1>1 DEF Coherent, Groups
<1>3. SubSeq(m, 1, 2) = FirstMessages
  <2>1. m[1] = Message("system", <<>>) /\ m[2] = Message("user", <<>>)
    BY <1>1 DEF Coherent, Groups
  <2> HIDE DEF m
  <2>2. SubSeq(m, 1, 2) = [k \in 1..2 |-> m[k]]
    BY <1>2
  <2>3. [k \in 1..2 |-> m[k]] = <<m[1], m[2]>>
    OBVIOUS
  <2> QED BY <2>1, <2>2, <2>3 DEF FirstMessages
<1>4. Cardinality({i \in DOMAIN m : IsToolCall(m[i])}) <= MaxToolTurns
  BY <1>1, <1>2 DEF Coherent, ToolTurns
<1>5. ASSUME NEW i \in DOMAIN m, IsToolCall(m[i])
      PROVE  SubSeq(m, i + 1, i + Len(m[i].ids)) = Results(i)
  <2> DEFINE l == Len(m[i].ids)
  <2>1. l \in Nat /\ i \in 1..Len(m)
    BY <1>2 DEF Messages
  <2>2. \A k \in 1..l : i + k \in 1..Len(m) /\ m[i + k] = Message("tool", <<m[i].ids[k]>>)
    BY <1>1, <1>5, <2>1 DEF Coherent, Groups
  <2> HIDE DEF m, l
  <2>3. SubSeq(m, i + 1, i + l) = [k \in 1..l |-> m[i + k]]
    BY <1>2, <2>1, <2>2
  <2>4. [k \in 1..l |-> m[i + k]] = [k \in 1..l |-> Message("tool", <<m[i].ids[k]>>)]
    BY <2>2
  <2> QED BY <2>3, <2>4 DEF l
<1>6. \A i \in DOMAIN m : m[i].role = "tool" =>
         \E j \in 1..(i - 1) : IsToolCall(m[j]) /\ i - j <= Len(m[j].ids)
  BY <1>1, <1>2 DEF Coherent, Groups
<1> QED BY <1>3, <1>4, <1>5, <1>6 DEF ContextCoherent

-----------------------------------------------------------------------------

LEMMA InitPromises ==
    ASSUME Init
    PROVE  Promised
<1>1. PICK request : turn = NewTurn("none", request)
  BY DEF Init
<1>2. /\ pc = "idle" /\ turn.kind = "none" /\ turn.status = "none" /\ turn.executed = <<>>
      /\ turn.selected = {} /\ turn.inferences = 0 /\ turn.started = FALSE
  BY <1>1 DEF Init, NewTurn
<1>3. StepStands /\ Gated
  BY <1>2 DEF StepStands, Gated
<1>4. Honest
  BY <1>2 DEF Honest, CompletedHonestly
<1>5. ReadOnlyCalls
  BY <1>2 DEF ReadOnlyCalls, OnlyReadTools, EntriesOf
<1>6. DiscoveredFirst
  BY <1>2 DEF DiscoveredFirst, ReadsFollowDiscovery
<1>7. WindowKept
  <2>1. turn.done = 0 /\ turn.messages = FirstMessages
    BY <1>1 DEF NewTurn
  <2> QED BY <2>1, FirstCoherent DEF WindowKept
<1> QED BY <1>3, <1>4, <1>5, <1>6, <1>7 DEF Promised

LEMMA NextPromises ==
    ASSUME IInv, IInv', Promised, [Next]_vars
    PROVE  Promised'
BY StepStandsKept, GatedKept, HonestKept, ReadOnlyCallsKept, DiscoveredFirstKept,
   WindowStays DEF Promised

-----------------------------------------------------------------------------
(* The theorems.                                                           *)

LEMMA InitEstablishes ==
    ASSUME Init
    PROVE  IInv
<1>0. PICK request : turn = NewTurn("none", request)
  BY DEF Init
<1> DEFINE t == NewTurn("none", request)
<1>1. /\ setting \in Settings /\ uses = 0 /\ pc = "idle" /\ turn = t /\ ClientInit
  BY <1>0 DEF Init
<1>2. setting.uses \in Nat /\ ToolRoundLimit \in Nat
  BY <1>1, SettingsAssumption DEF ToolRoundLimit, Profile
<1>3. /\ t = [f \in TurnFields |-> t[f]]
      /\ t.kind = "none" /\ t.status = "none" /\ t.started = FALSE
      /\ t.executed = <<>> /\ t.todo = <<>> /\ t.rounds = 0 /\ t.retries = MaxRetries
      /\ t.inferences = 0 /\ t.audits = 0
  BY DEF NewTurn, TurnFields
<1>4. <<>> \in Seq(AllCalls) /\ <<>> \in Seq(Entries)
      /\ <<>> \in Seq(Requested) /\ <<>> \in Seq(Lines)
  OBVIOUS
<1> HIDE DEF t
<1>5. WellFormedTurn(turn)
  <2>1. turn.inferences \in Nat /\ turn.audits \in 0..1
    BY <1>1, <1>3
  <2>2. turn.retries \in 0..MaxRetries /\ turn.rounds \in 0..(ToolRoundLimit + 1)
    BY <1>1, <1>2, <1>3, RetriesAssumption
  <2>3. turn.kind \in Kinds /\ turn.status \in Statuses /\ turn.started \in BOOLEAN
    BY <1>1, <1>3 DEF Kinds, Statuses
  <2> QED BY <1>1, <1>3, <1>4, <2>1, <2>2, <2>3 DEF WellFormedTurn
<1>6. TurnInv
  <2>1. TurnShape
    BY <1>1, <1>2, <1>3, <1>5 DEF TurnShape, Locations
  <2>2. WorkCounted
    BY <1>1, <1>2, <1>3, RetriesAssumption DEF WorkCounted, Bounded
  <2> QED BY <2>1, <2>2 DEF TurnInv
<1>7. ClientInv
  <2>1. ClientShape
    BY <1>1, <1>4 DEF ClientInit, ClientShape
  <2>2. InFlight = {}
    BY <1>1 DEF ClientInit, InFlight
  <2>3. pending = NoRequest /\ ~alive /\ ~ready
    BY <1>1 DEF ClientInit
  <2> QED BY <2>1, <2>2, <2>3 DEF ClientInv, IdsUnique
<1>8. WaitsForOwn
  BY <1>1 DEF ClientInit, WaitsForOwn
<1>9. Ownership
  BY <1>1 DEF ClientInit, Ownership
<1>10. AnswersOwnCall
  BY <1>1, <1>3 DEF AnswersOwnCall, EntriesOf
<1> QED BY <1>6, <1>7, <1>8, <1>9, <1>10 DEF IInv

LEMMA NextKeeps ==
    ASSUME IInv, [Next]_vars
    PROVE  IInv'
<1>1. CASE Begin
  BY <1>1, BeginTurnKeeps, BeginStepKeeps DEF Begin
<1>2. CASE Prelude
  BY <1>2, EarlyEndKeeps, PreludeMoveKeeps, StartServerKeeps, HandshakeDoneKeeps,
     HandshakeBreaksKeeps, HandshakeFailsKeeps, AskToolsKeeps, ToolsListedKeeps,
     ListFailsKeeps DEF Prelude
<1>3. CASE Loop
  BY <1>3, EarlyEndKeeps, AuditKeeps, RefuseCallsKeeps, AcceptAnswerKeeps,
     RetryAnswerKeeps, DoubtAnswerKeeps, TakeCallsKeeps, BlockCallKeeps, SendCallKeeps,
     ToolAnswersKeeps, ToolFailsKeeps, EndRoundKeeps, CloseKeeps DEF Loop
<1>4. CASE ServerSide /\ UNCHANGED <<setting, uses, pc, turn>>
  BY <1>4, ServerSideKeeps
<1>5. CASE Finished \/ UNCHANGED vars
  BY <1>5, StutterKeeps DEF Finished
<1> QED BY <1>1, <1>2, <1>3, <1>4, <1>5 DEF Next, CallerStep

\* The inductive invariant of the turns and their client.
THEOREM Invariant == Spec => []IInv
BY InitEstablishes, NextKeeps, PTL DEF Spec

\* Type correctness of WorkerTurn and MCPClient; in particular a turn waits for
\* an answer exactly where its code calls send_request.
THEOREM TypeCorrect == Spec => []TypeOK
<1>1. IInv => TypeOK
  <2> SUFFICES ASSUME IInv PROVE TypeOK
    OBVIOUS
  <2>1. ClientTypeOK
    <3>1. \A r \in responses \cup held : r.id < nextId
      BY DEF IInv, ClientInv, IdsUnique, InFlight
    <3> QED BY <3>1 DEF IInv, ClientInv, ClientShape, IdsUnique, ClientTypeOK
  <2> QED BY <2>1 DEF IInv, TurnInv, TurnShape, WellFormedTurn, WaitsForOwn, TypeOK
<1> QED BY <1>1, Invariant, PTL

\* send_request and _read_stdout, across timeouts, crashes and restarts of the
\* server: no tool call is ever given the answer to another one.
THEOREM AnswersReachTheirCall == Spec => []AnswersOwnCall
<1>1. IInv => AnswersOwnCall
  BY DEF IInv
<1> QED BY <1>1, Invariant, PTL

\* The finally clauses of Worker.run, MCPExecutor and `mrw run`: who got the
\* server started stops it, and nobody else does.
THEOREM ServerStoppedByOwner == Spec => []ServerOwned
<1>1. IInv => ServerOwned
  BY DEF IInv, Ownership, ServerOwned
<1> QED BY <1>1, Invariant, PTL

\* The turn loop: retries, rounds and the audit never feed each other.
THEOREM WorkIsBounded == Spec => []WorkBounded
<1>1. IInv => WorkBounded
  BY DEF IInv, TurnInv, WorkCounted, Bounded, WorkBounded
<1> QED BY <1>1, Invariant, PTL

\* What holds at each place of a turn, on top of the inductive invariant.
THEOREM Promises == Spec => []Promised
<1>1. IInv /\ IInv' /\ Promised /\ [Next]_vars => Promised'
  BY NextPromises
<1> QED BY <1>1, InitPromises, Invariant, PTL DEF Spec

\* The policy of Worker.run: what never reaches a model, for every request and
\* every profile.
THEOREM RequestsAreGated == Spec => []GatedRequests
<1>1. Promised => GatedRequests
  BY GatedFollows DEF Promised
<1> QED BY <1>1, Promises, PTL

\* The verifier's word, with the calls of the turn behind it: a completed turn
\* admits what went wrong and claims no tool it did not call.
THEOREM CompletionIsHonest == Spec => []CompletedHonestly
<1>1. Promised => CompletedHonestly
  BY DEF Promised, Honest
<1> QED BY <1>1, Promises, PTL

\* tool_router.select and _policy_block_reason: a worker has the server run
\* only read-only tools of its profile.
THEOREM ToolsOnlyRead == Spec => []OnlyReadTools
<1>1. Promised => OnlyReadTools
  BY DEF Promised, ReadOnlyCalls
<1> QED BY <1>1, Promises, PTL

\* _require_grounded, with a client that sends one request at a time: a server
\* of the turn's own reads only what the same turn discovered before.
THEOREM ReadsAfterDiscovery == Spec => []ReadsFollowDiscovery
<1>1. Promised => ReadsFollowDiscovery
  BY DEF Promised, DiscoveredFirst
<1> QED BY <1>1, Promises, PTL

\* append_tool_turn and _trim_tool_history: the model never sees half a tool turn,
\* nor more of them than the window, and the first two messages stay.
THEOREM ContextStaysCoherent == Spec => []ContextCoherent
<1>1. Promised => ContextCoherent
  BY CoherentFollows DEF Promised
<1> QED BY <1>1, Promises, PTL
=============================================================================
