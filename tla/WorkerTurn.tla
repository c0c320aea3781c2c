----------------------------- MODULE WorkerTurn -----------------------------
(***************************************************************************)
(* One caller and its MCP client: turns of the worker engine               *)
(* (meizex_mrw/worker/engine.py, Worker.run) and steps of the MCP executor *)
(* (dispatch/executors/mcp.py), one after the other, each starting the     *)
(* server if nobody did and stopping it if it started it.  The server, its *)
(* reader threads and its crashes run beside them.                         *)
(*                                                                         *)
(* The model behind a provider is outside: it answers anything, calls any  *)
(* tool, or its provider raises.                                           *)
(***************************************************************************)
EXTENDS MCPClient, RequestPolicy, ToolRouter, ContextWindow

CONSTANTS Settings,         \* [caller, attached, auditor, profile, requests, uses]
          Answers,          \* what the model, or the auditor, may say
          CallLists,        \* the lists of [name, path] a model may call
          StepCalls,        \* the invocations an MCP step may be resolved to
          MaxRetries,       \* Worker(max_retries=...)
          NoAnswer

\* Every call a model may make or a step may be resolved to.
AllCalls == StepCalls \cup UNION {{calls[i] : i \in DOMAIN calls} : calls \in CallLists}

ASSUME RetriesAssumption == MaxRetries \in Nat
ASSUME AnswersAssumption == \A a \in Answers : WellFormed(a)
ASSUME CallsAssumption == \A calls \in CallLists : calls \in Seq(AllCalls)
ASSUME SettingsAssumption ==
    \A s \in Settings : s.profile.max_tool_rounds \in Nat /\ s.uses \in Nat

VARIABLES setting,          \* who calls, with which client and which profile; the
                            \* requests [signals, computes, format, conflict] it may
                            \* make, and a bound on its turns and steps
          uses,             \* the turns and steps begun so far
          pc,               \* where the current one is
          turn              \* its locals; those of the last one when idle

vars == <<clientVars, setting, uses, pc, turn>>

-----------------------------------------------------------------------------
(* A turn.                                                                 *)

Kinds == {"none", "worker", "step"}
Locations == {"idle", "policy", "attach", "handshake", "list", "listing", "context",
              "infer", "audit", "call", "calling", "close"}
Statuses == {"none", "direct", "verified", "audited", "failed", "raised"}

NewTurn(kind, request) ==
    [kind |-> kind, request |-> request, started |-> FALSE, selected |-> {},
     messages |-> FirstMessages, executed |-> <<>>, rounds |-> 0,
     retries |-> MaxRetries, blocks |-> 0, todo |-> <<>>, done |-> 0,
     answer |-> NoAnswer, verification |-> "none", inferences |-> 0, audits |-> 0,
     status |-> "none"]

Profile == setting.profile
OfferedCatalog == Catalog(ServerTools)
IntentOf(request) == EffectIntent(request.signals)
ClassOf(request) == RequestClass(request.signals)

\* _tool_round_limit: the profile's, no constructor value being given.
ToolRoundLimit == Profile.max_tool_rounds

Goto(l) == pc' = l
SameTurn == UNCHANGED <<setting, uses, turn>>
Update(t, l) == Goto(l) /\ turn' = t /\ UNCHANGED <<setting, uses>>

\* Every return and every raise goes through the finally clause.
Ends(t, status) == Update([t EXCEPT !.status = status], "close")

Completed(t) == t.status \in {"direct", "verified", "audited"}

\* LLMExecutor: a failed turn in which anything was blocked asks for approval.
Reported(t) ==
    CASE Completed(t) -> "COMPLETED"
      [] ~Completed(t) /\ t.blocks > 0 -> "APPROVAL_REQUIRED"
      [] OTHER -> "FAILED"

\* `mrw run` is one turn; a dispatch goes on while its steps complete and
\* does not survive an exception; any other caller may go on whatever happened.
MayGoOn ==
    \/ uses = 0
    \/ setting.caller = "dispatch" /\ Reported(turn) = "COMPLETED"
    \/ setting.caller = "library"

Init ==
    /\ ClientInit
    /\ setting \in Settings
    /\ uses = 0
    /\ pc = "idle"
    /\ turn = NewTurn("none", CHOOSE r \in setting.requests : TRUE)

\* Worker.run: classification, profile, route and the decision of the policy.
BeginTurn(request) ==
    /\ pc = "idle" /\ uses < setting.uses /\ MayGoOn
    /\ uses' = uses + 1
    /\ turn' = NewTurn("worker", request)
    /\ Goto("policy")
    /\ UNCHANGED <<clientVars, setting>>

\* MCPExecutor.execute, of a step whose invocation is resolved.
BeginStep(call) ==
    /\ pc = "idle" /\ uses < setting.uses /\ MayGoOn
    /\ setting.caller # "run"
    /\ uses' = uses + 1
    /\ turn' = [NewTurn("step", turn.request) EXCEPT
                   !.todo = <<call>>,
                   !.status = IF setting.attached THEN "none" ELSE "failed"]
    /\ Goto(IF setting.attached THEN "attach" ELSE "close")
    /\ UNCHANGED <<clientVars, setting>>

-----------------------------------------------------------------------------
(* Before any model is asked.                                              *)

\* A deterministic executor knows the answer: no verification, no tools.
AnswerDirectly ==
    /\ pc = "policy"
    /\ ClassOf(turn.request) \in Computable /\ turn.request.computes
    /\ Ends(turn, "direct")
    /\ UNCHANGED clientVars

MutationRefused(request) ==
    IntentOf(request) = "MUTATING" /\ ~Profile.write_allowed

RefuseMutation ==
    /\ pc = "policy"
    /\ ~(ClassOf(turn.request) \in Computable /\ turn.request.computes)
    /\ MutationRefused(turn.request)
    /\ Ends([turn EXCEPT !.blocks = @ + 1], "failed")
    /\ UNCHANGED clientVars

PassPolicy ==
    /\ pc = "policy"
    /\ ~(ClassOf(turn.request) \in Computable /\ turn.request.computes)
    /\ ~MutationRefused(turn.request)
    /\ Update(turn, IF setting.attached THEN "attach" ELSE "context")
    /\ UNCHANGED clientVars

\* The first request of a worker is tools/list; a step calls its tool at once.
AfterAttach(t) == Update(t, IF t.kind = "worker" THEN "list" ELSE "call")

StartServer ==
    /\ pc = "attach" /\ ~process
    /\ Spawn
    /\ Goto("handshake") /\ SameTurn

\* Popen raises, or the pipe is broken when the notification is written: an
\* OSError nobody here catches.
CannotSpawn ==
    /\ pc = "attach" /\ ~process
    /\ Ends(turn, "raised")
    /\ UNCHANGED clientVars

JoinServer ==
    /\ pc = "attach" /\ process
    /\ AfterAttach(turn)
    /\ UNCHANGED clientVars

\* start() returns, and only now is the server known to be this turn's own.
HandshakeDone ==
    /\ pc = "handshake" /\ alive
    /\ \E answer \in responses : Receive(answer)
    /\ ready' = TRUE
    /\ AfterAttach([turn EXCEPT !.started = TRUE])

HandshakeBreaks ==
    /\ pc = "handshake" /\ ~alive
    /\ \E answer \in responses : Receive(answer)
    /\ Ends(turn, "raised")
    /\ UNCHANGED ready

\* "initialize" fails: the executor reports it, the worker does not catch it.
HandshakeFails ==
    /\ pc = "handshake"
    /\ ReceiveFails
    /\ Ends(turn, IF turn.kind = "step" THEN "failed" ELSE "raised")

AskTools ==
    /\ pc = "list"
    /\ Send("tools/list", "none", "none")
    /\ Goto("listing") /\ SameTurn

\* list_tools returns: the catalog is made and the profile's tools are selected.
ToolsListed ==
    /\ pc = "listing"
    /\ \E answer \in responses : Receive(answer)
    /\ Update([turn EXCEPT !.selected =
                  Selected(Profile, TaskType(turn.request.signals), OfferedCatalog)],
              "context")
    /\ UNCHANGED ready

ListFails ==
    /\ \/ pc = "list" /\ SendBreaks
       \/ pc = "listing" /\ ReceiveFails
    /\ Ends(turn, "failed")

\* A request to read, and no tool to read with.
BlindRead(t) ==
    /\ ClassOf(t.request) = "FILESYSTEM"
    /\ IntentOf(t.request) = "READ_ONLY"
    /\ t.selected = {}

RefuseBlindRead ==
    /\ pc = "context"
    /\ BlindRead(turn)
    /\ Ends([turn EXCEPT !.blocks = @ + 1], "failed")
    /\ UNCHANGED clientVars

ProviderUnreachable ==
    /\ pc = "context"
    /\ ~BlindRead(turn)
    /\ Ends(turn, "failed")
    /\ UNCHANGED clientVars

BuildContext ==
    /\ pc = "context"
    /\ ~BlindRead(turn)
    /\ Update(turn, "infer")
    /\ UNCHANGED clientVars

-----------------------------------------------------------------------------
(* The loop: an inference, then the answer's checks or a round of tools.   *)

\* What is wrong with an answer.  Format and conflict are looked at before the
\* verifier, and count as its RETRY.
Doubt(t, a) ==
    IF FormatViolated(t.request, a) THEN "format"
    ELSE IF ConflictIgnored(t.request, a) THEN "conflict"
    ELSE Verdict(a, t.executed, t.selected)

\* The turn once the model has answered: only the verifier's own verdict is kept.
Answered(t, a) ==
    [t EXCEPT !.inferences = @ + 1,
              !.answer = a,
              !.verification = IF Doubt(t, a) \in {"format", "conflict"} THEN @
                               ELSE Doubt(t, a)]

\* A mutant of MayRetry: retries_left is not looked at.
RetryAlways(t, a) == Doubt(t, a) \in {"format", "conflict", "RETRY"}

MayRetry(t, a) == Doubt(t, a) \in {"format", "conflict", "RETRY"} /\ t.retries > 0

\* A mutant of Noted: the retry is not counted.
NotedOnly(t) == [t EXCEPT !.messages = WithNote(@)]

\* A retry is spent, and a note asks for another answer.
Noted(t) == [t EXCEPT !.retries = @ - 1, !.messages = WithNote(@)]

ProviderFails ==
    /\ pc = "infer"
    /\ Ends(turn, "failed")
    /\ UNCHANGED clientVars

AcceptAnswer(a) ==
    /\ pc = "infer"
    /\ Doubt(turn, a) = "PASS"
    /\ Ends(Answered(turn, a), "verified")
    /\ UNCHANGED clientVars

RetryAnswer(a) ==
    /\ pc = "infer"
    /\ MayRetry(turn, a)
    /\ Update(Noted(Answered(turn, a)), "infer")
    /\ UNCHANGED clientVars

\* escalate_or_fail: with an auditor configured, it is asked, once.
DoubtAnswer(a) ==
    /\ pc = "infer"
    /\ Doubt(turn, a) # "PASS" /\ ~MayRetry(turn, a)
    /\ IF setting.auditor THEN Update(Answered(turn, a), "audit")
       ELSE Ends(Answered(turn, a), "failed")
    /\ UNCHANGED clientVars

\* The audited answer is verified too, but not against the tools offered, the
\* format or the conflict in the request.
AuditVerdict(t, a) == Verdict(a, t.executed, {})

AuditFails ==
    /\ pc = "audit"
    /\ Ends([turn EXCEPT !.audits = @ + 1], "failed")
    /\ UNCHANGED clientVars

AuditPasses(a) ==
    /\ pc = "audit"
    /\ AuditVerdict(turn, a) = "PASS"
    /\ Ends([turn EXCEPT !.audits = @ + 1, !.answer = a], "audited")
    /\ UNCHANGED clientVars

\* The model asks for tools where it was offered none, or once too often.
RefuseCalls ==
    /\ pc = "infer"
    /\ turn.selected = {} \/ turn.rounds + 1 > ToolRoundLimit
    /\ Ends([turn EXCEPT !.inferences = @ + 1,
                         !.rounds = IF turn.selected = {} THEN @ ELSE @ + 1], "failed")
    /\ UNCHANGED clientVars

TakeCalls(calls) ==
    /\ pc = "infer"
    /\ turn.selected # {} /\ turn.rounds + 1 <= ToolRoundLimit
    /\ Update([turn EXCEPT !.inferences = @ + 1, !.rounds = @ + 1,
                           !.todo = calls, !.done = 0], "call")
    /\ UNCHANGED clientVars

-----------------------------------------------------------------------------
(* The calls of a round, one after the other.                              *)

Nothing == [ok |-> FALSE, tool |-> "none", path |-> "none", found |-> {}, number |-> NoNumber]

\* ExecutedTool: every call leaves one, whatever became of it.  sent tells the
\* calls the server was asked for from the ones the policy stopped.
Entry(call, sent, answer) ==
    [name |-> call.name, path |-> call.path, sent |-> sent, ok |-> answer.ok,
     got |-> <<answer.tool, answer.path>>, found |-> answer.found,
     number |-> answer.number]

\* A mutant of Recorded: a failed or blocked call leaves no ExecutedTool.
RecordedIfOk(t, sent, answer) ==
    [t EXCEPT !.executed = IF answer.ok THEN Append(@, Entry(Head(t.todo), sent, answer)) ELSE @,
              !.todo = Tail(@), !.done = @ + 1]

Recorded(t, sent, answer) ==
    [t EXCEPT !.executed = Append(@, Entry(Head(t.todo), sent, answer)),
              !.todo = Tail(@), !.done = @ + 1]

\* A worker goes on with the next call; a step has only the one.
AfterCall(t, answer) ==
    IF t.kind = "worker" THEN Update(Recorded(t, TRUE, answer), "call")
    ELSE Ends(Recorded(t, TRUE, answer), IF answer.ok THEN "direct" ELSE "failed")

CallBlocked ==
    /\ turn.kind = "worker"
    /\ Blocked(Head(turn.todo).name, OfferedCatalog, turn.selected)

BlockCall ==
    /\ pc = "call" /\ turn.todo # <<>>
    /\ CallBlocked
    /\ Update([Recorded(turn, FALSE, Nothing) EXCEPT !.blocks = @ + 1], "call")
    /\ UNCHANGED clientVars

SendCall ==
    /\ pc = "call" /\ turn.todo # <<>>
    /\ ~CallBlocked
    /\ Send("tools/call", Head(turn.todo).name, Head(turn.todo).path)
    /\ Goto("calling") /\ SameTurn

\* The result, or the server's error, which is an MCPError here.
ToolAnswers ==
    /\ pc = "calling"
    /\ \E answer \in responses :
          /\ Receive(answer)
          /\ AfterCall(turn, IF answer.ok THEN answer ELSE Nothing)
    /\ UNCHANGED ready

\* The model is told that nothing was executed; after a timeout it may have been.
ToolFails ==
    /\ \/ pc = "call" /\ turn.todo # <<>> /\ ~CallBlocked /\ SendBreaks
       \/ pc = "calling" /\ ReceiveFails
    /\ AfterCall(turn, Nothing)

EndRound ==
    /\ pc = "call" /\ turn.todo = <<>>
    /\ Update([turn EXCEPT !.messages =
                  WithToolTurn(@, [k \in 1..turn.done |-> 10 * turn.rounds + k])],
              "infer")
    /\ UNCHANGED clientVars

\* A mutant of StopsServer: only a turn that completes stops its server.
StopsIfCompleted(t) ==
    (t.started /\ Completed(t)) \/ (setting.caller = "run" /\ process)

\* The finally clause stops what the turn started; `mrw run` stops what is left.
StopsServer(t) == t.started \/ (setting.caller = "run" /\ process)

Close ==
    /\ pc = "close"
    /\ IF StopsServer(turn) THEN Stop ELSE UNCHANGED clientVars
    /\ Goto("idle") /\ SameTurn

-----------------------------------------------------------------------------

Prelude ==
    \/ AnswerDirectly \/ RefuseMutation \/ PassPolicy
    \/ StartServer \/ CannotSpawn \/ JoinServer
    \/ HandshakeDone \/ HandshakeBreaks \/ HandshakeFails
    \/ AskTools \/ ToolsListed \/ ListFails
    \/ RefuseBlindRead \/ ProviderUnreachable \/ BuildContext

Loop ==
    \/ ProviderFails \/ AuditFails \/ RefuseCalls
    \/ \E a \in Answers : AcceptAnswer(a) \/ RetryAnswer(a) \/ DoubtAnswer(a)
    \/ \E a \in Answers : AuditPasses(a)
    \/ \E calls \in CallLists : TakeCalls(calls)
    \/ BlockCall \/ SendCall \/ ToolAnswers \/ ToolFails \/ EndRound
    \/ Close

CallerStep == Prelude \/ Loop

Begin ==
    \/ \E request \in setting.requests : BeginTurn(request)
    \/ \E call \in StepCalls : BeginStep(call)

Finished == pc = "idle" /\ (uses = setting.uses \/ ~MayGoOn) /\ UNCHANGED vars

Next ==
    \/ Begin
    \/ CallerStep
    \/ ServerSide /\ UNCHANGED <<setting, uses, pc, turn>>
    \/ Finished

\* The caller's thread runs, its timeouts expire, and a provider returns or
\* raises (its HTTP client has a timeout of its own).  Nothing is assumed of
\* the server or of the reader.
Spec == Init /\ [][Next]_vars /\ WF_vars(CallerStep)

-----------------------------------------------------------------------------
(* What the turns and the client promise together.                         *)

TypeOK ==
    /\ ClientTypeOK
    /\ setting \in Settings
    /\ uses \in 0..setting.uses
    /\ pc \in Locations
    /\ turn.kind \in Kinds
    /\ turn.status \in Statuses
    /\ (turn.status = "none") <=> (pc \notin {"idle", "close"} \/ turn.kind = "none")
    /\ turn.retries \in 0..MaxRetries
    /\ turn.rounds \in 0..(ToolRoundLimit + 1)
    /\ turn.audits \in 0..1
    /\ pending # NoRequest <=> pc \in {"handshake", "listing", "calling"}

\* A tool call is never given the answer to another one: not the late answer of
\* a call that was given up, not one of a server stopped long ago.
AnswersOwnCall ==
    \A e \in EntriesOf(turn.executed) : e.ok => e.got = <<e.name, e.path>>

\* Whoever got the server started stops it, however the turn ends, and nobody
\* else does while a turn goes on.  Between turns a server runs only if its
\* handshake never completed, and `mrw run` does not leave even that one.
ServerOwned ==
    /\ pc = "idle" /\ process => ~ready /\ setting.caller # "run"
    /\ turn.started /\ pc # "idle" => process /\ ready

\* Retries, tool rounds and the audit do not feed each other: the models are
\* asked at most once per retry, once per round, once for the last word and
\* once for an audit.
WorkBounded ==
    turn.inferences + turn.audits <= MaxRetries + ToolRoundLimit + 2

\* The model never sees a tool result without its call, a call without all of
\* its results, or more tool turns than the window; the first two messages stay.
ContextCoherent ==
    LET m == turn.messages
        Results(i) == [k \in 1..Len(m[i].ids) |-> Message("tool", <<m[i].ids[k]>>)]
    IN /\ SubSeq(m, 1, 2) = FirstMessages
       /\ Cardinality({i \in DOMAIN m : IsToolCall(m[i])}) <= MaxToolTurns
       /\ \A i \in DOMAIN m :
             IsToolCall(m[i]) => SubSeq(m, i + 1, i + Len(m[i].ids)) = Results(i)
       /\ \A i \in DOMAIN m : m[i].role = "tool" =>
             \E j \in 1..(i - 1) : IsToolCall(m[j]) /\ i - j <= Len(m[j].ids)

\* A turn that completes on the model's word admits that something went wrong
\* when a call failed or the policy blocked one, and claims no tool when it
\* took no round of tools, the audited answer included; one the verifier passed
\* also keeps the form its request demands and faces its conflict.
CompletedHonestly ==
    /\ turn.kind = "worker" /\ turn.status \in {"verified", "audited"} =>
          /\ turn.blocks > 0 \/ (\E e \in EntriesOf(turn.executed) : ~e.ok)
                => "error_hint" \in turn.answer.traits
          /\ turn.rounds = 0 => turn.answer.traits \cap {"tool_claim", "passive_claim"} = {}
    /\ turn.status = "verified" =>
          /\ ~FormatViolated(turn.request, turn.answer)
          /\ ~ConflictIgnored(turn.request, turn.answer)

\* Whatever the profile allows and the model asks, a worker has the server run
\* only tools that are tagged read-only and that the profile lists.
OnlyReadTools ==
    \A e \in EntriesOf(turn.executed) :
       turn.kind = "worker" /\ e.sent =>
          /\ e.name \in DOMAIN Overrides /\ Overrides[e.name].read_only
          /\ \E i \in DOMAIN Profile.allowed : Profile.allowed[i] = e.name

\* What never reaches a model: a request whose words only change files, under a
\* profile that writes nothing; one that only reads, without tools; one of a
\* class the policy forbids a model to answer, unless that class has no
\* executor or its executor could not compute it.
GatedRequests ==
    LET s == turn.request.signals
        FilesOnly == "FILESYSTEM" \in s /\ s \cap Computable = {}
        Reads == s \cap {"list", "read_doc"} # {}
        Changes == s \cap MutatingVerbs # {}
    IN turn.inferences > 0 =>
          /\ ~(FilesOnly /\ Changes /\ ~Reads /\ "dir_noun" \notin s /\ ~Profile.write_allowed)
          /\ ~(FilesOnly /\ Reads /\ ~Changes /\ "create" \notin s /\ turn.selected = {})
          /\ ModelDirectAnswer(ClassOf(turn.request)) = "FORBIDDEN" =>
                \/ ClassOf(turn.request) \in {"FILESYSTEM", "CURRENT_STATE"}
                \/ ~turn.request.computes

\* With a server of its own a turn reads only what it looked for before: each
\* document read follows a call of the same turn that discovered its path.
ReadsFollowDiscovery ==
    turn.started =>
       \A i \in DOMAIN turn.executed :
          turn.executed[i].ok /\ turn.executed[i].name \in ReadTools =>
             \E j \in 1..(i - 1) :
                /\ turn.executed[j].sent
                /\ turn.executed[i].path \in
                      Discovered(turn.executed[j].name, turn.executed[j].path)

\* Every turn and every step ends, whatever the server and the model do.
UseEnds == pc # "idle" ~> pc = "idle"

\* format_constraint.py: a request may demand "valid JSON with named keys"; an
\* answer that is exactly that is not a failure.
DemandedJsonPasses ==
    /\ turn.request.format = "json_keys"
    /\ turn.answer # NoAnswer
    /\ turn.answer.traits = {"json", "json_keys"}
    => turn.verification # "FAIL"
=============================================================================
