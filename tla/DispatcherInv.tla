--------------------------- MODULE DispatcherInv ---------------------------
(***************************************************************************)
(* The inductive invariant of Dispatcher: what has to hold between any two *)
(* durable effects for the properties of Dispatcher to hold.               *)
(* DispatcherProofs proves that it is inductive.                           *)
(***************************************************************************)
EXTENDS Dispatcher

LifeIs(r, phase, step) == LifeOf(r) = [phase |-> phase, step |-> step]

\* p's run has reached p's step, and n results have been recorded for it.
At(p, phase, n) ==
    /\ LifeIs(task[p].run, phase, task[p].index)
    /\ task[p].results = n

InPlan(p) == task[p].index < Len(Plan(task[p]))
MayPause(p) == task[p].escalations < MaxEscalations

\* Where the stream of its run stands when p is about to do its next step.
OwnerAt(p) ==
    LET i == task[p].index
    IN  /\ pc[p] = "next" => At(p, "ready", i) /\ i <= Len(Plan(task[p]))
        /\ pc[p] \in {"step", "polling"} => At(p, "executing", i) /\ InPlan(p)
        /\ pc[p] \in {"completed", "failed"} => At(p, "executing", i + 1) /\ InPlan(p)
        /\ pc[p] \in {"save", "escalate"} =>
              At(p, "executing", i + 1) /\ InPlan(p) /\ MayPause(p)
        /\ pc[p] = "announce" => At(p, "pausing", i + 1) /\ InPlan(p) /\ MayPause(p)
        /\ pc[p] = "respond" => At(p, "paused", i + 1) /\ InPlan(p)
        /\ pc[p] = "close_completed" => At(p, "ready", i) /\ i = Len(Plan(task[p]))
        /\ pc[p] = "close_failed" =>
              \/ At(p, "failing", i + 1)
              \/ LifeIs(task[p].run, "ready", 0) /\ task[p].results = 0

OwnersInStep == \A p \in Procs : pc[p] \in Owning => OwnerAt(p)

\* A run that has not started has no owner, no envelope and no fate.
NothingBeforeStart ==
    \A r \in Runs : stream[r] = <<>> =>
        /\ fate[r] = "open"
        /\ \A p \in Procs : ~Owns(p, r)
        /\ \A t \in Tokens : ~Parked(t, r)

\* An envelope belongs to a token that was made, and a token a caller holds
\* finds its run paused at the envelope's step.
EnvelopesMatch ==
    \A t \in Tokens : pending[t] # None =>
        LET k == pending[t]
        IN  /\ t \in issued
            /\ k.results = k.index + 1
            /\ k.index < Len(Plan(k))
            /\ t \in known => LifeIs(k.run, "paused", k.index)

\* The maker of a token that nobody has been told yet still finds its own
\* envelope; a resumer that has loaded an envelope finds the same one, or none.
TokensMatch ==
    \A p \in Procs :
        /\ pc[p] \in {"escalate", "announce"} =>
              /\ token[p] \notin known
              /\ pending[token[p]] = Envelope(task[p])
        /\ pc[p] = "unlink" =>
              /\ token[p] \in known
              /\ pending[token[p]] \in {None, task[p]}

\* The pauses a stream shows were counted: by the owner of the run, by the
\* envelope a caller can resume.
PausesUpTo(r, n) ==
    \A i \in Positions(r, "RunEscalated") : stream[r][i].count <= n

PausesCounted ==
    /\ \A p \in Procs : pc[p] \in Owning => PausesUpTo(task[p].run, task[p].escalations)
    /\ \A t \in known : pending[t] # None => PausesUpTo(pending[t].run, pending[t].escalations)

IInv ==
    /\ TypeOK
    /\ SingleOwner
    /\ OwnersInStep
    /\ NothingBeforeStart
    /\ EnvelopesMatch
    /\ TokensMatch
    /\ PausesCounted
    /\ EscalationsBounded

=============================================================================
