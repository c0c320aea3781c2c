----------------------------- MODULE MCPClient -----------------------------
(***************************************************************************)
(* MCPClient (meizex_mrw/mcp/client.py) and the server process behind it.  *)
(* One caller at a time sends a request and polls the table of responses;  *)
(* a reader thread moves the server's lines into that table; the server    *)
(* answers in order, as late as it likes, and may die at any moment.       *)
(***************************************************************************)
EXTENDS ReadOnlyFilesystem

CONSTANTS NoRequest,        \* no request is being waited for
          MaxCrashes        \* bounds how often a server dies on its own

ASSUME MaxCrashesAssumption == MaxCrashes \in Nat

VARIABLES process,          \* self.process is not None
          alive,            \* process.poll() is None
          ready,            \* start() has returned for this process
          stdin,            \* the requests the server has not handled yet
          stdout,           \* the lines the reader has not taken yet
          held,             \* lines taken by readers that survived a stop()
          responses,        \* self._responses
          nextId,           \* self._next_id
          pending,          \* the request send_request waits for
          grounded,         \* the server's _grounded
          crashes

clientVars == <<process, alive, ready, stdin, stdout, held, responses, nextId,
                pending, grounded, crashes>>

ClientInit ==
    /\ process = FALSE /\ alive = FALSE /\ ready = FALSE
    /\ stdin = <<>> /\ stdout = <<>> /\ held = {} /\ responses = {}
    /\ nextId = 1 /\ pending = NoRequest /\ grounded = {} /\ crashes = 0

-----------------------------------------------------------------------------
(* The caller's side.                                                      *)

Request(method, tool, path) ==
    [id |-> nextId, method |-> method, tool |-> tool, path |-> path]

\* A mutant of FirstId: every process counts from 1 again.
ResetId == 1

\* The id of a request that is the first of a new process.
FirstId == nextId

\* start(), up to the wait for "initialize": the table of responses and the
\* counter of ids are those of the process before it.
Spawn ==
    /\ ~process
    /\ process' = TRUE /\ alive' = TRUE /\ ready' = FALSE
    /\ LET request == [Request("initialize", "none", "none") EXCEPT !.id = FirstId]
       IN /\ pending' = request
          /\ stdin' = <<request>>
          /\ nextId' = request.id + 1
    /\ stdout' = <<>> /\ grounded' = {}
    /\ UNCHANGED <<held, responses, crashes>>

\* send_request writes its line.
Send(method, tool, path) ==
    /\ process /\ alive /\ pending = NoRequest
    /\ pending' = Request(method, tool, path)
    /\ stdin' = Append(stdin, Request(method, tool, path))
    /\ nextId' = nextId + 1
    /\ UNCHANGED <<process, alive, ready, stdout, held, responses, grounded, crashes>>

\* send_request finds the pipe broken: an id is spent, MCPError.
SendBreaks ==
    /\ process /\ ~alive /\ pending = NoRequest
    /\ nextId' = nextId + 1
    /\ UNCHANGED <<process, alive, ready, stdin, stdout, held, responses, pending,
                   grounded, crashes>>

\* send_request finds its answer in the table, and takes it out.
Receive(answer) ==
    /\ pending # NoRequest
    /\ answer \in responses
    /\ answer.id = pending.id
    /\ responses' = responses \ {answer}
    /\ pending' = NoRequest
    /\ UNCHANGED <<process, alive, stdin, stdout, held, nextId, grounded, crashes>>

ExitSeen == ~alive /\ \A r \in responses : r.id # pending.id

\* A mutant of DeadlinePassed: send_request polls without a deadline.
NeverPasses == FALSE

\* Time is not modelled: the 30 s of a request, the 120 s of a tool call may be
\* over whenever the caller looks, an answer in the table or not.
DeadlinePassed == TRUE

\* send_request gives up: MCPError.  The request stays with the server; its
\* answer, when it comes, stays in the table.
ReceiveFails ==
    /\ pending # NoRequest
    /\ ExitSeen \/ DeadlinePassed
    /\ pending' = NoRequest
    /\ UNCHANGED <<process, alive, ready, stdin, stdout, held, responses, nextId,
                   grounded, crashes>>

\* stop(): the reader may have taken one more line, the rest is gone.
Stop ==
    /\ process
    /\ process' = FALSE /\ alive' = FALSE /\ ready' = FALSE
    /\ \/ held' = held
       \/ stdout # <<>> /\ held' = held \cup {Head(stdout)}
    /\ stdin' = <<>> /\ stdout' = <<>>
    /\ UNCHANGED <<responses, nextId, pending, grounded, crashes>>

-----------------------------------------------------------------------------
(* The server and the reader threads.                                      *)

Serve ==
    /\ alive /\ stdin # <<>>
    /\ stdout' = Append(stdout, Handled(Head(stdin), grounded))
    /\ grounded' = GroundedAfter(Head(stdin), grounded)
    /\ stdin' = Tail(stdin)
    /\ UNCHANGED <<process, alive, ready, held, responses, nextId, pending, crashes>>

\* _read_stdout: after a line of a dead process the loop ends.
ReadLine ==
    /\ process /\ stdout # <<>>
    /\ responses' = responses \cup {Head(stdout)}
    /\ stdout' = IF alive THEN Tail(stdout) ELSE <<>>
    /\ UNCHANGED <<process, alive, ready, stdin, held, nextId, pending, grounded, crashes>>

\* The loop ends before the lines that are left.
ReaderQuits ==
    /\ process /\ ~alive /\ stdout # <<>>
    /\ stdout' = <<>>
    /\ UNCHANGED <<process, alive, ready, stdin, held, responses, nextId, pending,
                   grounded, crashes>>

\* A reader of a stopped process stores the line it holds, perhaps after the
\* next process has been started.
StoreHeld ==
    /\ \E line \in held : responses' = responses \cup {line} /\ held' = held \ {line}
    /\ UNCHANGED <<process, alive, ready, stdin, stdout, nextId, pending, grounded, crashes>>

\* start() has cleared the stop event: a reader that survived stop() goes on with
\* the new process's lines, beside that process's own reader.
ReadBeside ==
    /\ process /\ stdout # <<>>
    /\ \E line \in held :
          /\ responses' = responses \cup {line}
          /\ held' = (held \ {line}) \cup {Head(stdout)}
    /\ stdout' = Tail(stdout)
    /\ UNCHANGED <<process, alive, ready, stdin, nextId, pending, grounded, crashes>>

Crash ==
    /\ alive /\ crashes < MaxCrashes
    /\ crashes' = crashes + 1
    /\ alive' = FALSE /\ stdin' = <<>>
    /\ UNCHANGED <<process, ready, stdout, held, responses, nextId, pending, grounded>>

ServerSide == Serve \/ ReadLine \/ ReaderQuits \/ StoreHeld \/ ReadBeside \/ Crash

-----------------------------------------------------------------------------
(* What a client promises.                                                 *)

ClientTypeOK ==
    /\ {process, alive, ready} \subseteq BOOLEAN
    /\ alive => process
    /\ ready => process
    /\ \A r \in responses \cup held : r.id < nextId
    /\ pending # NoRequest => pending.id < nextId

=============================================================================
