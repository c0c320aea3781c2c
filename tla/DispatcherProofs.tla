-------------------------- MODULE DispatcherProofs --------------------------
(***************************************************************************)
(* Proofs about Dispatcher, for every set of callers, runs, tokens and     *)
(* routes and every bound on the escalations: about its state, and about   *)
(* what it leaves in a run's event stream.  With every interleaving and    *)
(* crash, the stream is a legal life of the run, and what RunCompleted     *)
(* says of the steps is what the stream shows of them.                     *)
(***************************************************************************)
EXTENDS DispatcherInv, FiniteSetTheorems, TLAPS

USE MaxEscalationsAssumption, RoutesAssumption, NoneAssumption

-----------------------------------------------------------------------------
(* Data.                                                                   *)

\* What the updates of a task keep and change.
LEMMA TaskUpdates ==
    ASSUME NEW k \in Task
    PROVE  /\ Recorded(k) \in Task /\ Recorded(k).run = k.run
           /\ Recorded(k).index = k.index /\ Recorded(k).escalations = k.escalations
           /\ Recorded(k).results = k.results + 1
           /\ Advanced(k) \in Task /\ Advanced(k).run = k.run
           /\ Advanced(k).index = k.index + 1 /\ Advanced(k).escalations = k.escalations
           /\ Advanced(k).results = k.results
<1>1. Recorded(k) \in Task /\ Advanced(k) \in Task
    BY DEF Task, Recorded, Advanced
<1> QED
    BY <1>1 DEF Task, Recorded, Advanced

LEMMA WithOutputUpdates ==
    ASSUME NEW k \in Task, NEW output \in Outputs
    PROVE  /\ WithOutput(k, output) \in Task /\ WithOutput(k, output).run = k.run
           /\ WithOutput(k, output).index = k.index
           /\ WithOutput(k, output).escalations = k.escalations
           /\ WithOutput(k, output).results = k.results
<1>1. WithOutput(k, output) \in Task
    BY DEF Task, WithOutput
<1> QED
    BY <1>1 DEF Task, WithOutput

LEMMA PatchedUpdates ==
    ASSUME NEW k \in Task
    PROVE  /\ Patched(k) \in Task /\ Patched(k).run = k.run
           /\ Patched(k).index = k.index + 1 /\ Patched(k).escalations = k.escalations
           /\ Patched(k).results = k.results
<1>1. Advanced(k) \in Task /\ "text" \in Outputs
    BY TaskUpdates DEF Outputs
<1> QED
    BY <1>1, TaskUpdates, WithOutputUpdates DEF Patched

LEMMA EnvelopeUpdates ==
    ASSUME NEW k \in Task, k.escalations < MaxEscalations
    PROVE  /\ Envelope(k) \in Task /\ Envelope(k).run = k.run
           /\ Envelope(k).index = k.index /\ Envelope(k).results = k.results
           /\ Envelope(k).escalations = k.escalations + 1
<1>1. Envelope(k) \in Task
    BY DEF Task, Envelope
<1> QED
    BY <1>1 DEF Task, Envelope

\* The task dispatch() starts with.
LEMMA FirstTask ==
    ASSUME NEW r \in Runs
    PROVE  [run |-> r, index |-> 0, output |-> "nothing", escalations |-> 0,
            results |-> 0] \in Task
BY DEF Task, Outputs

LEMMA EventsOK ==
    /\ \A type \in EventTypes, n \in Nat :
          Ev(type, n) \in Event /\ Ev(type, n).type = type /\ Ev(type, n).index = n
    /\ \A n, m \in Nat :
          /\ EscalatedEv(n, m) \in Event /\ EscalatedEv(n, m).type = "RunEscalated"
          /\ EscalatedEv(n, m).index = n /\ EscalatedEv(n, m).count = m
    /\ \A s \in {"COMPLETED", "FAILED"}, n \in Nat :
          /\ ClosedEv(s, n) \in Event /\ ClosedEv(s, n).type = "RunCompleted"
          /\ ClosedEv(s, n).status = s /\ ClosedEv(s, n).count = n
BY DEF Ev, EscalatedEv, ClosedEv, Event, EventTypes

\* A plan is a sequence of steps, so it has a length.
LEMMA PlanLength ==
    ASSUME TypeOK, NEW r \in Runs
    PROVE  route[r].plan \in Seq(Step) /\ Len(route[r].plan) \in Nat
BY DEF TypeOK, Route

-----------------------------------------------------------------------------
(* Appending to one stream.                                                *)

\* The stream ends with the new event; the other streams are as they were.
LEMMA Appended ==
    ASSUME TypeOK, NEW r \in Runs, NEW e \in Event, Append1(r, e)
    PROVE  /\ stream' \in [Runs -> Seq(Event)]
           /\ stream'[r] # <<>> /\ stream'[r][Len(stream'[r])] = e
           /\ \A q \in Runs \ {r} : stream'[q] = stream[q]
           /\ Len(stream'[r]) = Len(stream[r]) + 1
           /\ \A i \in 1..Len(stream[r]) : stream'[r][i] = stream[r][i]
<1>1. stream \in [Runs -> Seq(Event)] /\ stream' = [stream EXCEPT ![r] = Append(@, e)]
    BY DEF TypeOK, Append1
<1>2. stream' \in [Runs -> Seq(Event)]
    BY <1>1
<1>3. stream'[r] = Append(stream[r], e) /\ \A q \in Runs \ {r} : stream'[q] = stream[q]
    BY <1>1
<1>4. stream[r] \in Seq(Event)
    BY <1>1
<1>5. Append(stream[r], e) # <<>> /\ Len(Append(stream[r], e)) = Len(stream[r]) + 1
    BY <1>4
<1>6. Append(stream[r], e)[Len(Append(stream[r], e))] = e
    BY <1>4
<1>7. \A i \in 1..Len(stream[r]) : Append(stream[r], e)[i] = stream[r][i]
    BY <1>4
<1> QED
    BY <1>2, <1>3, <1>5, <1>6, <1>7

\* The life of the stream that grew is that of its new last event; the lives of
\* the others, and of all of them when none grew, are as they were.
LEMMA LifeGrows ==
    ASSUME TypeOK, NEW r \in Runs, NEW e \in Event, Append1(r, e)
    PROVE  /\ LifeOf(r)' = LifeAfter(e)
           /\ \A q \in Runs \ {r} : LifeOf(q)' = LifeOf(q)
BY Appended DEF LifeOf, LastEvent

LEMMA LifeStays ==
    ASSUME UNCHANGED stream
    PROVE  \A q \in Runs : LifeOf(q)' = LifeOf(q)
BY DEF LifeOf, LastEvent

\* The life after each event the dispatcher makes.
LEMMA LifeAfterEvents ==
    ASSUME NEW i \in Nat, NEW n \in Nat
    PROVE  /\ LifeAfter(Ev("RunStarted", i)) = [phase |-> "ready", step |-> i]
           /\ LifeAfter(Ev("StepStarted", i)) = [phase |-> "executing", step |-> i]
           /\ LifeAfter(Ev("StepCompleted", i)) = [phase |-> "ready", step |-> i + 1]
           /\ LifeAfter(Ev("StepFailed", i)) = [phase |-> "failing", step |-> i]
           /\ LifeAfter(Ev("StepEscalated", i)) = [phase |-> "pausing", step |-> i]
           /\ LifeAfter(EscalatedEv(i, n)) = [phase |-> "paused", step |-> i]
           /\ LifeAfter(ClosedEv("COMPLETED", n)) = [phase |-> "COMPLETED", step |-> n]
           /\ LifeAfter(ClosedEv("FAILED", n)) = [phase |-> "FAILED", step |-> n]
BY EventsOK DEF LifeAfter, PhaseAfter, EventTypes

\* The positions of an event type in a stream that has grown.
LEMMA PositionsGrow ==
    ASSUME TypeOK, NEW r \in Runs, NEW e \in Event, Append1(r, e), NEW type
    PROVE  /\ \A i \in Positions(r, type)' :
                 \/ i \in Positions(r, type) /\ stream'[r][i] = stream[r][i]
                 \/ i = Len(stream[r]) + 1 /\ stream'[r][i] = e /\ e.type = type
           /\ \A i \in Positions(r, type) : i <= Len(stream[r])
           /\ \A q \in Runs \ {r} : Positions(q, type)' = Positions(q, type)
<1>1. Len(stream[r]) \in Nat
    BY DEF TypeOK
<1>2. Len(stream'[r]) = Len(stream[r]) + 1
    BY Appended
<1>3. ASSUME NEW i \in Positions(r, type)'
      PROVE  \/ i \in Positions(r, type) /\ stream'[r][i] = stream[r][i]
             \/ i = Len(stream[r]) + 1 /\ stream'[r][i] = e /\ e.type = type
    <2>1. i \in 1..(Len(stream[r]) + 1) /\ stream'[r][i].type = type
        BY <1>2, <1>3 DEF Positions
    <2>2. CASE i = Len(stream[r]) + 1
        BY <2>1, <2>2, <1>2, Appended
    <2>3. CASE i \in 1..Len(stream[r])
        <3>1. stream'[r][i] = stream[r][i]
            BY <2>3, Appended
        <3> QED
            BY <3>1, <2>1, <2>3 DEF Positions
    <2> QED
        BY <1>1, <2>1, <2>2, <2>3
<1>4. \A i \in Positions(r, type) : i <= Len(stream[r])
    BY <1>1 DEF Positions
<1>5. \A q \in Runs \ {r} : Positions(q, type)' = Positions(q, type)
    BY Appended DEF Positions
<1> QED
    BY <1>3, <1>4, <1>5

\* The pauses a stream shows, after it has grown by an event.
LEMMA PausesGrow ==
    ASSUME TypeOK, NEW r \in Runs, NEW e \in Event, Append1(r, e), NEW n \in Nat,
           PausesUpTo(r, n), e.type = "RunEscalated" => e.count <= n
    PROVE  PausesUpTo(r, n)'
BY PositionsGrow DEF PausesUpTo

LEMMA PausesStay ==
    ASSUME NEW q, stream'[q] = stream[q], NEW n, PausesUpTo(q, n)
    PROVE  PausesUpTo(q, n)'
BY DEF PausesUpTo, Positions

\* A stream that grows by a pause with a count above all the earlier ones, or by
\* another event, keeps its pauses numbered.
LEMMA PausesNumbered ==
    ASSUME TypeOK, EscalationsBounded, NEW r \in Runs, NEW e \in Event, Append1(r, e),
           e.type = "RunEscalated" =>
               /\ e.count \in 1..MaxEscalations
               /\ \A i \in Positions(r, "RunEscalated") : stream[r][i].count < e.count
    PROVE  EscalationsBounded'
<1> SUFFICES ASSUME NEW q \in Runs,
                    NEW i \in Positions(q, "RunEscalated")', NEW j \in Positions(q, "RunEscalated")'
             PROVE  /\ stream'[q][i].count \in 1..MaxEscalations
                    /\ i < j => stream'[q][i].count < stream'[q][j].count
    BY DEF EscalationsBounded
<1>1. CASE q = r
    <2>1. i \in Nat /\ j \in Nat /\ Len(stream[r]) \in Nat
        BY <1>1, Appended DEF Positions, TypeOK
    <2>2. \/ i \in Positions(r, "RunEscalated") /\ stream'[r][i] = stream[r][i]
          \/ i = Len(stream[r]) + 1 /\ stream'[r][i] = e /\ e.type = "RunEscalated"
        BY <1>1, PositionsGrow
    <2>3. \/ j \in Positions(r, "RunEscalated") /\ stream'[r][j] = stream[r][j]
          \/ j = Len(stream[r]) + 1 /\ stream'[r][j] = e /\ e.type = "RunEscalated"
        BY <1>1, PositionsGrow
    <2>4. \A m \in Positions(r, "RunEscalated") : m <= Len(stream[r])
        BY PositionsGrow
    <2>5. stream'[r][i].count \in 1..MaxEscalations
        BY <2>2 DEF EscalationsBounded
    <2>6. ASSUME i < j PROVE stream'[r][i].count < stream'[r][j].count
        <3>1. i \in Positions(r, "RunEscalated") /\ stream'[r][i] = stream[r][i]
            <4>1. i # Len(stream[r]) + 1
                BY <2>1, <2>3, <2>4, <2>6
            <4> QED
                BY <2>2, <4>1
        <3>2. CASE j \in Positions(r, "RunEscalated") /\ stream'[r][j] = stream[r][j]
            BY <2>6, <3>1, <3>2 DEF EscalationsBounded
        <3>3. CASE stream'[r][j] = e /\ e.type = "RunEscalated"
            BY <3>1, <3>3
        <3> QED
            BY <2>3, <3>2, <3>3
    <2> QED
        BY <1>1, <2>5, <2>6
<1>2. CASE q # r
    <2>1. stream'[q] = stream[q]
        BY <1>2, Appended
    <2>2. i \in Positions(q, "RunEscalated") /\ j \in Positions(q, "RunEscalated")
        BY <2>1 DEF Positions
    <2> QED
        BY <2>1, <2>2 DEF EscalationsBounded
<1> QED
    BY <1>1, <1>2

-----------------------------------------------------------------------------
(* The invariant holds initially.                                          *)

LEMMA InitInv == Init => IInv
<1> SUFFICES ASSUME Init PROVE IInv
    OBVIOUS
<1>1. TypeOK
    BY DEF Init, TypeOK
<1>2. /\ \A p \in Procs : pc[p] = "idle"
      /\ \A t \in Tokens : pending[t] = None
      /\ \A r \in Runs : stream[r] = <<>> /\ fate[r] = "open"
      /\ known = {}
    BY DEF Init
<1>3. \A r \in Runs, type \in {"RunEscalated"} : Positions(r, type) = {}
    BY <1>2 DEF Positions
<1>4. SingleOwner /\ OwnersInStep /\ NothingBeforeStart
    BY <1>2 DEF SingleOwner, OwnersInStep, NothingBeforeStart, Owns, Parked, Owning
<1>5. EnvelopesMatch /\ TokensMatch
    BY <1>2 DEF EnvelopesMatch, TokensMatch
<1>6. PausesCounted
    BY <1>2 DEF PausesCounted, Owning
<1>7. EscalationsBounded
    BY <1>3 DEF EscalationsBounded
<1> QED
    BY <1>1, <1>4, <1>5, <1>6, <1>7 DEF IInv

-----------------------------------------------------------------------------
(* A step of the owner of a run that stays its owner: the shared store and *)
(* the tokens are left alone, the run's stream grows at most by an event   *)
(* that is not a pause, and the other runs do not notice.                  *)

StreamMoves(r) ==
    \/ UNCHANGED stream
    \/ \E e \in Event : e.type # "RunEscalated" /\ Append1(r, e)

LEMMA StreamMoved ==
    ASSUME TypeOK, EscalationsBounded, NEW r \in Runs, StreamMoves(r)
    PROVE  /\ stream' \in [Runs -> Seq(Event)]
           /\ stream[r] # <<>> => stream'[r] # <<>>
           /\ \A q \in Runs \ {r} : stream'[q] = stream[q] /\ LifeOf(q)' = LifeOf(q)
           /\ EscalationsBounded'
           /\ \A q \in Runs, n \in Nat : PausesUpTo(q, n) => PausesUpTo(q, n)'
<1>1. CASE UNCHANGED stream
    <2>1. \A q \in Runs : LifeOf(q)' = LifeOf(q)
        BY <1>1, LifeStays
    <2>2. EscalationsBounded'
        BY <1>1 DEF EscalationsBounded, Positions
    <2>3. \A q \in Runs, n \in Nat : PausesUpTo(q, n) => PausesUpTo(q, n)'
        BY <1>1, PausesStay
    <2> QED
        BY <1>1, <2>1, <2>2, <2>3 DEF TypeOK
<1>2. CASE \E e \in Event : e.type # "RunEscalated" /\ Append1(r, e)
    <2>1. PICK e \in Event : e.type # "RunEscalated" /\ Append1(r, e)
        BY <1>2
    <2>2. EscalationsBounded'
        BY <2>1, PausesNumbered
    <2>3. ASSUME NEW q \in Runs, NEW n \in Nat, PausesUpTo(q, n)
          PROVE  PausesUpTo(q, n)'
        <3>1. CASE q = r
            BY <3>1, <2>1, <2>3, PausesGrow
        <3>2. CASE q # r
            BY <3>2, <2>1, <2>3, Appended, PausesStay
        <3> QED
            BY <3>1, <3>2
    <2> QED
        BY <2>1, <2>2, <2>3, Appended, LifeGrows
<1> QED
    BY <1>1, <1>2 DEF StreamMoves

\* An owner of another run is where it was.
LEMMA OwnerStays ==
    ASSUME NEW q \in Procs, OwnerAt(q), pc'[q] = pc[q], task'[q] = task[q], UNCHANGED route,
           LifeOf(task[q].run)' = LifeOf(task[q].run)
    PROVE  OwnerAt(q)'
BY DEF OwnerAt, At, LifeIs, InPlan, MayPause, Plan

LEMMA OwnerMoves ==
    ASSUME IInv, NEW p \in Procs, pc[p] \in Owning \ {"announce"},
           NEW l \in Owning \ {"escalate"}, pc[p] = "escalate" <=> l = "announce",
           NEW k \in Task, k.run = task[p].run, k.escalations = task[p].escalations,
           l = "announce" => k = task[p],
           pc' = [pc EXCEPT ![p] = l], task' = [task EXCEPT ![p] = k],
           UNCHANGED <<route, pending, issued, known, token, fate>>,
           StreamMoves(k.run), OwnerAt(p)'
    PROVE  IInv'
<1> DEFINE r == k.run
<1> USE DEF IInv
<1>1. r \in Runs /\ task[p] \in Task /\ task[p].run = r /\ Owns(p, r)
    BY DEF Owns, TypeOK, Task, Owning
<1>2. pc'[p] = l /\ task'[p] = k /\ Owns(p, r)'
    BY DEF Owns, TypeOK
<1>3. \A q \in Procs \ {p} : pc'[q] = pc[q] /\ task'[q] = task[q]
    BY DEF TypeOK
<1>4. \A q \in Procs, s \in Runs : Owns(q, s)' => Owns(q, s)
    BY <1>1, <1>2, <1>3 DEF Owns
<1>5. /\ stream' \in [Runs -> Seq(Event)]
      /\ stream[r] # <<>> => stream'[r] # <<>>
      /\ \A q \in Runs \ {r} : stream'[q] = stream[q] /\ LifeOf(q)' = LifeOf(q)
      /\ EscalationsBounded'
      /\ \A q \in Runs, n \in Nat : PausesUpTo(q, n) => PausesUpTo(q, n)'
    BY <1>1, StreamMoved
<1>6. TypeOK'
    <2>1. k # None
        BY DEF Task
    <2>2. /\ pc' \in [Procs -> Owning \cup {"idle", "unlink"}]
          /\ task' \in [Procs -> Task \cup {None}]
        BY DEF TypeOK
    <2>3. \A q \in Procs : /\ pc'[q] = "idle" <=> task'[q] = None
                           /\ pc'[q] \in {"unlink", "escalate", "announce"} => token'[q] # None
        BY <1>2, <1>3, <2>1 DEF TypeOK, Owning
    <2> QED
        BY <1>5, <2>2, <2>3 DEF TypeOK
<1>7. SingleOwner'
    BY <1>1, <1>2, <1>3, <1>4 DEF SingleOwner, Owns, Parked
<1>8. OwnersInStep'
    <2> SUFFICES ASSUME NEW q \in Procs, q # p, pc'[q] \in Owning PROVE OwnerAt(q)'
        BY DEF OwnersInStep
    <2>1. pc[q] \in Owning /\ task[q].run \in Runs /\ Owns(q, task[q].run)
        BY <1>3 DEF TypeOK, Task, Owning, Owns
    <2>2. task[q].run # r
        BY <1>1, <2>1 DEF SingleOwner
    <2> QED
        BY <1>3, <1>5, <2>1, <2>2, OwnerStays DEF OwnersInStep
<1>9. NothingBeforeStart'
    <2>1. stream[r] # <<>>
        BY <1>1 DEF NothingBeforeStart
    <2> QED
        BY <1>4, <1>5, <2>1 DEF NothingBeforeStart, Parked
<1>10. EnvelopesMatch'
    <2>1. \A t \in known : pending[t] # None => pending[t].run # r
        BY <1>1 DEF SingleOwner, Parked, TokensMatch, TypeOK
    <2>2. \A t \in Tokens : pending[t] # None => pending[t].run \in Runs
        BY DEF TypeOK, Task
    <2> QED
        BY <1>5, <2>1, <2>2 DEF EnvelopesMatch, LifeIs, Plan
<1>11. TokensMatch'
    BY <1>2, <1>3 DEF TokensMatch, Owning
<1>12. PausesCounted'
    <2>1. \A q \in Procs : pc[q] \in Owning => task[q].run \in Runs /\ task[q].escalations \in Nat
        BY DEF TypeOK, Task, Owning
    <2>2. \A t \in Tokens : pending[t] # None => pending[t].run \in Runs /\ pending[t].escalations \in Nat
        BY DEF TypeOK, Task
    <2>3. \A q \in Procs : pc'[q] \in Owning =>
              pc[q] \in Owning /\ task'[q].run = task[q].run /\ task'[q].escalations = task[q].escalations
        BY <1>2, <1>3
    <2> QED
        BY <1>5, <2>1, <2>2, <2>3 DEF PausesCounted, TypeOK
<1> QED
    BY <1>5, <1>6, <1>7, <1>8, <1>9, <1>10, <1>11, <1>12

-----------------------------------------------------------------------------
(* A process that returns or dies: nobody owns its run any more, and a     *)
(* closing event is the last thing it may have appended.                   *)

LEMMA LeaveUpdates ==
    ASSUME TypeOK, NEW p \in Procs, Leave(p)
    PROVE  /\ pc'[p] = "idle" /\ task'[p] = None /\ token'[p] = None
           /\ \A q \in Procs \ {p} : /\ pc'[q] = pc[q] /\ task'[q] = task[q]
                                     /\ token'[q] = token[q]
           /\ pc' \in [Procs -> Owning \cup {"idle", "unlink"}]
           /\ task' \in [Procs -> Task \cup {None}]
           /\ token' \in [Procs -> Tokens \cup {None}]
BY DEF TypeOK, Leave, Goto

LEMMA OwnerLeaves ==
    ASSUME IInv, NEW p \in Procs, pc[p] # "idle", Leave(p),
           UNCHANGED <<route, pending, issued, known>>,
           StreamMoves(task[p].run),
           stream' = stream \/ pc[p] \in {"close_completed", "close_failed"},
           fate' \in [Runs -> {"open", "rejected", "aborted"}],
           \A r \in Runs : stream[r] = <<>> => fate'[r] = fate[r]
    PROVE  IInv'
<1> DEFINE r == task[p].run
<1> USE DEF IInv
<1>1. r \in Runs /\ task[p] \in Task
    BY DEF TypeOK, Task
<1>2. /\ pc'[p] = "idle" /\ task'[p] = None /\ token'[p] = None
      /\ \A q \in Procs \ {p} : pc'[q] = pc[q] /\ task'[q] = task[q] /\ token'[q] = token[q]
    BY LeaveUpdates
<1>3. \A q \in Procs, s \in Runs : Owns(q, s)' => q # p /\ Owns(q, s)
    BY <1>2 DEF Owns, Owning
<1>4. /\ stream' \in [Runs -> Seq(Event)]
      /\ stream[r] # <<>> => stream'[r] # <<>>
      /\ \A q \in Runs \ {r} : stream'[q] = stream[q] /\ LifeOf(q)' = LifeOf(q)
      /\ EscalationsBounded'
      /\ \A q \in Runs, n \in Nat : PausesUpTo(q, n) => PausesUpTo(q, n)'
    BY <1>1, StreamMoved
<1>5. stream' # stream => Owns(p, r)
    BY DEF Owns, Owning
<1>6. \A s \in Runs : stream'[s] = <<>> => stream[s] = <<>>
    BY <1>4
<1>7. TypeOK'
    <2>1. \A q \in Procs : /\ pc'[q] = "idle" <=> task'[q] = None
                           /\ pc'[q] \in {"unlink", "escalate", "announce"} => token'[q] # None
        BY <1>2 DEF TypeOK
    <2> QED
        BY <1>4, <2>1, LeaveUpdates DEF TypeOK
<1>8. SingleOwner'
    <2>1. \A q \in Procs, s \in Runs : Owns(q, s)' => pc'[q] = pc[q] /\ token'[q] = token[q]
        BY <1>2, <1>3
    <2> QED
        BY <1>3, <2>1 DEF SingleOwner, Parked
<1>9. OwnersInStep'
    <2> SUFFICES ASSUME NEW q \in Procs, pc'[q] \in Owning PROVE OwnerAt(q)'
        BY DEF OwnersInStep
    <2>1. q # p /\ pc'[q] = pc[q] /\ task'[q] = task[q]
        BY <1>2 DEF Owning
    <2>2. task[q].run \in Runs /\ Owns(q, task[q].run)
        BY <2>1 DEF TypeOK, Task, Owning, Owns
    <2>3. LifeOf(task[q].run)' = LifeOf(task[q].run)
        <3>1. CASE stream' = stream
            BY <3>1, <2>1, <2>2, LifeStays
        <3>2. CASE stream' # stream
            BY <3>2, <1>1, <1>4, <1>5, <2>1, <2>2 DEF SingleOwner
        <3> QED
            BY <3>1, <3>2
    <2> QED
        BY <2>1, <2>3, OwnerStays DEF OwnersInStep
<1>10. NothingBeforeStart'
    BY <1>3, <1>6 DEF NothingBeforeStart, Parked
<1>11. EnvelopesMatch'
    <2>1. ASSUME NEW t \in known, pending[t] # None
          PROVE  LifeOf(pending[t].run)' = LifeOf(pending[t].run)
        <3>1. pending[t].run \in Runs /\ t \in Tokens
            BY <2>1 DEF TypeOK, Task
        <3>2. CASE stream' = stream
            BY <3>1, <3>2, LifeStays
        <3>3. CASE stream' # stream
            <4>1. pending[t].run # r
                BY <1>1, <1>5, <2>1, <3>1, <3>3 DEF SingleOwner, Parked
            <4> QED
                BY <1>4, <3>1, <4>1
        <3> QED
            BY <3>2, <3>3
    <2> QED
        BY <2>1 DEF EnvelopesMatch, LifeIs, Plan
<1>12. TokensMatch'
    BY <1>2 DEF TokensMatch
<1>13. PausesCounted'
    <2>1. \A q \in Procs : pc'[q] \in Owning => q # p /\ pc'[q] = pc[q] /\ task'[q] = task[q]
        BY <1>2 DEF Owning
    <2>2. \A q \in Procs : pc[q] \in Owning => task[q].run \in Runs /\ task[q].escalations \in Nat
        BY DEF TypeOK, Task, Owning
    <2>3. \A t \in Tokens : pending[t] # None => pending[t].run \in Runs /\ pending[t].escalations \in Nat
        BY DEF TypeOK, Task
    <2> QED
        BY <1>4, <2>1, <2>2, <2>3 DEF PausesCounted, TypeOK
<1> QED
    BY <1>4, <1>7, <1>8, <1>9, <1>10, <1>11, <1>12, <1>13

-----------------------------------------------------------------------------
(* The steps that move a run between owner and store.                      *)

LEMMA DispatchInv ==
    ASSUME IInv, NEW p \in Procs, NEW r \in Runs, Dispatch(p, r)
    PROVE  IInv'
<1> DEFINE e == Ev("RunStarted", 0)
           k == [run |-> r, index |-> 0, output |-> "nothing", escalations |-> 0, results |-> 0]
<1> USE DEF IInv
<1>1. k \in Task /\ k # None
    BY FirstTask
<1>2. e \in Event /\ e.type = "RunStarted"
    BY EventsOK DEF EventTypes
<1>3. Append1(r, e) /\ UNCHANGED <<route, pending, issued, known, token, fate>>
    BY DEF Dispatch
<1>4. /\ pc[p] = "idle" /\ stream[r] = <<>>
      /\ pc'[p] \in {"next", "close_failed"} /\ task'[p] = k
      /\ \A q \in Procs \ {p} : pc'[q] = pc[q] /\ task'[q] = task[q]
      /\ pc' \in [Procs -> Owning \cup {"idle", "unlink"}]
      /\ task' \in [Procs -> Task \cup {None}]
    BY <1>1 DEF Dispatch, Goto, TypeOK, Owning
<1>5. /\ \A q \in Procs : ~Owns(q, r)
      /\ \A t \in Tokens : ~Parked(t, r)
    BY <1>4 DEF NothingBeforeStart
<1>6. \A q \in Procs, s \in Runs : Owns(q, s)' => (q = p /\ s = r) \/ (q # p /\ s # r /\ Owns(q, s))
    <2>1. task'[p].run = r
        BY <1>4
    <2>2. \A s \in Runs : Owns(p, s)' => s = r
        BY <2>1 DEF Owns
    <2>3. \A q \in Procs \ {p}, s \in Runs : Owns(q, s)' => Owns(q, s)
        BY <1>4 DEF Owns
    <2> QED
        BY <1>5, <2>2, <2>3
<1>7. \A q \in Runs \ {r} : stream'[q] = stream[q] /\ LifeOf(q)' = LifeOf(q)
    BY <1>2, <1>3, Appended, LifeGrows
<1>8. TypeOK'
    <2>1. \A q \in Procs : /\ pc'[q] = "idle" <=> task'[q] = None
                           /\ pc'[q] \in {"unlink", "escalate", "announce"} => token'[q] # None
        BY <1>1, <1>3, <1>4 DEF TypeOK
    <2>2. stream' \in [Runs -> Seq(Event)]
        BY <1>2, <1>3, Appended
    <2> QED
        BY <1>3, <1>4, <2>1, <2>2 DEF TypeOK
<1>9. SingleOwner'
    BY <1>3, <1>4, <1>5, <1>6 DEF SingleOwner, Parked
<1>10. OwnersInStep'
    <2>1. ASSUME NEW q \in Procs, q # p, pc'[q] \in Owning PROVE OwnerAt(q)'
        <3>1. pc[q] \in Owning /\ task[q].run \in Runs /\ Owns(q, task[q].run)
            BY <1>4, <2>1 DEF TypeOK, Task, Owning, Owns
        <3> QED
            BY <1>3, <1>4, <1>5, <1>7, <2>1, <3>1, OwnerStays DEF OwnersInStep
    <2>2. LifeOf(r)' = [phase |-> "ready", step |-> 0]
        BY <1>2, <1>3, LifeGrows, LifeAfterEvents
    <2>3. k.run = r /\ k.index = 0 /\ k.results = 0
        OBVIOUS
    <2>4. Len(route[r].plan) \in Nat /\ route' = route
        BY <1>3, PlanLength
    <2>5. OwnerAt(p)'
        BY <1>4, <2>2, <2>3, <2>4 DEF OwnerAt, At, LifeIs, Plan
    <2> QED
        BY <2>1, <2>5 DEF OwnersInStep
<1>11. NothingBeforeStart'
    <2>1. stream'[r] # <<>>
        BY <1>2, <1>3, Appended
    <2> QED
        BY <1>3, <1>6, <1>7, <2>1 DEF NothingBeforeStart, Parked
<1>12. EnvelopesMatch'
    <2>1. \A t \in known : pending[t] # None => pending[t].run \in Runs \ {r}
        BY <1>5 DEF Parked, TypeOK, Task
    <2> QED
        BY <1>3, <1>7, <2>1 DEF EnvelopesMatch, LifeIs, Plan
<1>13. TokensMatch'
    BY <1>3, <1>4 DEF TokensMatch
<1>14. PausesCounted'
    <2>1. PausesUpTo(r, 0)
        BY <1>4 DEF PausesUpTo, Positions
    <2>2. PausesUpTo(r, 0)'
        BY <1>2, <1>3, <2>1, PausesGrow
    <2>3. \A q \in Runs \ {r}, n \in Nat : PausesUpTo(q, n) => PausesUpTo(q, n)'
        BY <1>7, PausesStay
    <2>4. \A q \in Procs : pc'[q] \in Owning /\ q # p =>
              /\ pc[q] \in Owning /\ task'[q] = task[q]
              /\ task[q].run \in Runs \ {r} /\ task[q].escalations \in Nat
        BY <1>4, <1>5 DEF TypeOK, Task, Owning, Owns
    <2>5. \A t \in known : pending[t] # None =>
              pending[t].run \in Runs \ {r} /\ pending[t].escalations \in Nat
        BY <1>5 DEF Parked, TypeOK, Task
    <2>6. task'[p].run = r /\ task'[p].escalations = 0
        BY <1>4
    <2> QED
        BY <1>3, <2>2, <2>3, <2>4, <2>5, <2>6 DEF PausesCounted
<1>15. EscalationsBounded'
    BY <1>2, <1>3, PausesNumbered
<1> QED
    BY <1>8, <1>9, <1>10, <1>11, <1>12, <1>13, <1>14, <1>15

LEMMA SavePendingInv ==
    ASSUME IInv, NEW p \in Procs, SavePending(p)
    PROVE  IInv'
<1> DEFINE r == task[p].run
           k == Envelope(task[p])
<1> USE DEF IInv
<1>1. /\ pc[p] = "save" /\ UNCHANGED <<route, stream, known, task, fate>>
      /\ pc' = [pc EXCEPT ![p] = "escalate"]
    BY DEF SavePending, Goto
<1>2. PICK t \in Tokens \ issued :
          /\ pending' = [pending EXCEPT ![t] = k]
          /\ issued' = issued \cup {t}
          /\ token' = [token EXCEPT ![p] = t]
    BY DEF SavePending, Save
<1>3. task[p] \in Task /\ r \in Runs /\ Owns(p, r) /\ OwnerAt(p)
    BY <1>1 DEF TypeOK, Task, Owns, Owning, OwnersInStep
<1>4. /\ task[p].escalations < MaxEscalations
      /\ task[p].results = task[p].index + 1 /\ task[p].index < Len(Plan(task[p]))
    BY <1>1, <1>3 DEF OwnerAt, At, InPlan, MayPause
<1>5. /\ k \in Task /\ k # None /\ k.run = r
      /\ k.index = task[p].index /\ k.results = task[p].results
    BY <1>3, <1>4, EnvelopeUpdates
<1> HIDE DEF k
<1>6. /\ pending[t] = None /\ pending'[t] = k /\ t \notin known
      /\ \A u \in Tokens \ {t} : pending'[u] = pending[u]
      /\ pending' \in [Tokens -> Task \cup {None}]
    BY <1>2, <1>5 DEF TypeOK, EnvelopesMatch
<1>7. /\ pc'[p] = "escalate" /\ token'[p] = t
      /\ \A q \in Procs \ {p} : pc'[q] = pc[q] /\ token'[q] = token[q]
      /\ pc' \in [Procs -> Owning \cup {"idle", "unlink"}]
      /\ token' \in [Procs -> Tokens \cup {None}]
    BY <1>1, <1>2 DEF TypeOK, Owning
<1>8. \A q \in Procs, s \in Runs : Owns(q, s)' <=> Owns(q, s)
    BY <1>1, <1>7 DEF Owns, Owning
<1>9. \A s \in Runs : LifeOf(s)' = LifeOf(s)
    BY <1>1, LifeStays
<1>10. TypeOK'
    <2>1. t # None
        OBVIOUS
    <2>2. \A q \in Procs : /\ pc'[q] = "idle" <=> task'[q] = None
                           /\ pc'[q] \in {"unlink", "escalate", "announce"} => token'[q] # None
        BY <1>1, <1>7, <2>1 DEF TypeOK
    <2>3. issued' \in SUBSET Tokens /\ known' \in SUBSET issued'
        BY <1>1, <1>2 DEF TypeOK
    <2> QED
        BY <1>1, <1>6, <1>7, <2>2, <2>3 DEF TypeOK
<1>11. SingleOwner'
    <2>1. \A u \in Tokens : ~Parked(u, r)
        BY <1>1, <1>3 DEF SingleOwner
    <2>2. \A u \in Tokens, s \in Runs : Parked(u, s)' => (u = t /\ s = r) \/ (s # r /\ Parked(u, s))
        <3>1. \A s \in Runs : Parked(t, s)' => s = r
            BY <1>5, <1>6 DEF Parked
        <3>2. \A u \in Tokens \ {t}, s \in Runs : Parked(u, s)' => Parked(u, s)
            BY <1>6 DEF Parked
        <3> QED
            BY <2>1, <3>1, <3>2
    <2>3. \A q \in Procs : Owns(q, r) => q = p
        BY <1>3 DEF SingleOwner
    <2>4. \A s \in Runs, q, o \in Procs : Owns(q, s)' /\ Owns(o, s)' => q = o
        BY <1>8 DEF SingleOwner
    <2>5. \A s \in Runs, u, v \in Tokens : Parked(u, s)' /\ Parked(v, s)' => u = v
        BY <2>2 DEF SingleOwner
    <2>6. ASSUME NEW s \in Runs, NEW q \in Procs, NEW u \in Tokens, Owns(q, s)', Parked(u, s)'
          PROVE  pc'[q] \in {"escalate", "announce"} /\ token'[q] = u
        <3>1. CASE s = r
            BY <1>7, <1>8, <2>2, <2>3, <2>6, <3>1
        <3>2. CASE s # r
            <4>1. q # p
                BY <1>3, <1>8, <2>6, <3>2 DEF Owns
            <4> QED
                BY <1>7, <1>8, <2>2, <2>6, <3>2, <4>1 DEF SingleOwner
        <3> QED
            BY <3>1, <3>2
    <2> QED
        BY <2>4, <2>5, <2>6 DEF SingleOwner
<1>12. OwnersInStep'
    <2>1. OwnerAt(p)'
        BY <1>1, <1>3, <1>7, <1>9 DEF OwnerAt, At, LifeIs, InPlan, MayPause, Plan
    <2>2. ASSUME NEW q \in Procs, q # p, pc'[q] \in Owning PROVE OwnerAt(q)'
        <3>1. pc'[q] = pc[q] /\ task'[q] = task[q] /\ task[q].run \in Runs
            BY <1>1, <1>7, <2>2 DEF TypeOK, Task, Owning
        <3> QED
            BY <1>1, <1>9, <2>2, <3>1, OwnerStays DEF OwnersInStep
    <2> QED
        BY <2>1, <2>2 DEF OwnersInStep
<1>13. NothingBeforeStart'
    <2>1. stream[r] # <<>>
        BY <1>3 DEF NothingBeforeStart
    <2>2. \A s \in Runs : stream[s] = <<>> => \A u \in Tokens : ~Parked(u, s)'
        BY <1>5, <1>6, <2>1 DEF NothingBeforeStart, Parked
    <2> QED
        BY <1>1, <1>8, <2>2 DEF NothingBeforeStart
<1>14. EnvelopesMatch'
    BY <1>1, <1>2, <1>4, <1>5, <1>6, <1>9 DEF EnvelopesMatch, LifeIs, Plan, TypeOK, Task
<1>15. TokensMatch'
    <2>1. k = Envelope(task[p])
        BY DEF k
    <2>2. \A q \in Procs \ {p} : pc[q] \in {"escalate", "announce", "unlink"} => token[q] # t
        <3>1. ASSUME NEW q \in Procs, pc[q] \in {"escalate", "announce"}
              PROVE  pending[token[q]] # None
            <4>1. task[q] \in Task /\ task[q].escalations < MaxEscalations
                BY <3>1 DEF TypeOK, OwnersInStep, OwnerAt, MayPause, Owning
            <4> QED
                BY <3>1, <4>1, EnvelopeUpdates DEF TokensMatch
        <3> QED
            BY <1>6, <3>1 DEF TokensMatch
    <2> QED
        BY <1>1, <1>6, <1>7, <2>1, <2>2 DEF TokensMatch, TypeOK
<1>16. PausesCounted'
    <2>1. \A s \in Runs, n \in Nat : PausesUpTo(s, n)' <=> PausesUpTo(s, n)
        BY <1>1 DEF PausesUpTo, Positions
    <2>2. \A q \in Procs : pc[q] \in Owning => task[q].run \in Runs /\ task[q].escalations \in Nat
        BY DEF TypeOK, Task, Owning
    <2>3. \A u \in known : u # t
              /\ (pending[u] # None => pending[u].run \in Runs /\ pending[u].escalations \in Nat)
        BY <1>6 DEF TypeOK, Task
    <2>4. \A q \in Procs : pc'[q] \in Owning => pc[q] \in Owning
        BY <1>1, <1>7 DEF Owning
    <2> QED
        BY <1>1, <1>6, <2>1, <2>2, <2>3, <2>4 DEF PausesCounted, TypeOK
<1>17. EscalationsBounded'
    BY <1>1 DEF EscalationsBounded, Positions
<1> QED
    BY <1>10, <1>11, <1>12, <1>13, <1>14, <1>15, <1>16, <1>17

LEMMA AnnounceInv ==
    ASSUME IInv, NEW p \in Procs, Announce(p)
    PROVE  IInv'
<1> USE DEF IInv
<1>1. /\ pc[p] = "announce" /\ UNCHANGED <<route, pending, issued, fate>>
      /\ Append1(task[p].run, EscalatedEv(task[p].index, task[p].escalations + 1))
      /\ known' = known \cup {token[p]} /\ Leave(p)
    BY DEF Announce, Emit
<1>2. task[p] \in Task /\ task[p].run \in Runs /\ OwnerAt(p) /\ token[p] \in Tokens
    BY <1>1 DEF TypeOK, Task, Owning, OwnersInStep
<1>3. /\ task[p].escalations \in Nat /\ task[p].escalations < MaxEscalations
      /\ task[p].index \in Nat
    BY <1>1, <1>2 DEF OwnerAt, MayPause, Task
<1>4. PICK r \in Runs, n \in Nat, i \in Nat, t \in Tokens :
          /\ r = task[p].run /\ i = task[p].index /\ t = token[p]
          /\ n = task[p].escalations + 1
    BY <1>2, <1>3
<1>5. PICK e \in Event : e = EscalatedEv(i, n) /\ e.type = "RunEscalated" /\ e.count = n
    BY EventsOK
<1>6. LifeAfter(e) = [phase |-> "paused", step |-> i]
    BY <1>5, LifeAfterEvents
<1>7. Append1(r, e) /\ known' = known \cup {t} /\ Owns(p, r)
    BY <1>1, <1>4, <1>5 DEF Owns, Owning
<1>8. t \notin known /\ pending[t] = Envelope(task[p])
    BY <1>1, <1>4 DEF TokensMatch
<1>9. /\ pending[t] \in Task /\ pending[t] # None /\ pending[t].run = r
      /\ pending[t].index = i /\ pending[t].escalations = n
    BY <1>2, <1>3, <1>4, <1>8, EnvelopeUpdates
<1>10. Parked(t, r) /\ t \in issued
    BY <1>9 DEF Parked, EnvelopesMatch
<1>11. /\ pc'[p] = "idle" /\ task'[p] = None /\ token'[p] = None
      /\ \A q \in Procs \ {p} : pc'[q] = pc[q] /\ task'[q] = task[q] /\ token'[q] = token[q]
    BY <1>1, LeaveUpdates
<1>12. \A q \in Procs, s \in Runs : Owns(q, s)' => q # p /\ s # r /\ Owns(q, s)
    <2>1. \A q \in Procs, s \in Runs : Owns(q, s)' => q # p /\ Owns(q, s)
        BY <1>11 DEF Owns, Owning
    <2> QED
        BY <1>7, <2>1 DEF SingleOwner
<1>13. /\ stream' \in [Runs -> Seq(Event)] /\ stream'[r] # <<>>
       /\ \A s \in Runs \ {r} : stream'[s] = stream[s] /\ LifeOf(s)' = LifeOf(s)
       /\ LifeOf(r)' = LifeAfter(e)
    BY <1>7, Appended, LifeGrows
<1>14. TypeOK'
    <2>1. \A q \in Procs : /\ pc'[q] = "idle" <=> task'[q] = None
                           /\ pc'[q] \in {"unlink", "escalate", "announce"} => token'[q] # None
        BY <1>11 DEF TypeOK
    <2>2. known' \in SUBSET issued
        BY <1>7, <1>10 DEF TypeOK
    <2> QED
        BY <1>1, <1>13, <2>1, <2>2, LeaveUpdates DEF TypeOK
<1>15. SingleOwner'
    BY <1>1, <1>11, <1>12 DEF SingleOwner, Parked
<1>16. OwnersInStep'
    <2> SUFFICES ASSUME NEW q \in Procs, pc'[q] \in Owning PROVE OwnerAt(q)'
        BY DEF OwnersInStep
    <2>1. q # p /\ pc'[q] = pc[q] /\ task'[q] = task[q] /\ task[q].run \in Runs
        BY <1>11 DEF Owning, TypeOK, Task
    <2>2. task[q].run # r
        BY <1>12, <2>1 DEF Owns
    <2> QED
        BY <1>1, <1>13, <2>1, <2>2, OwnerStays DEF OwnersInStep
<1>17. NothingBeforeStart'
    BY <1>1, <1>12, <1>13 DEF NothingBeforeStart, Parked
<1>18. EnvelopesMatch'
    <2> SUFFICES ASSUME NEW u \in Tokens, pending[u] # None
                 PROVE  /\ u \in issued
                        /\ pending[u].results = pending[u].index + 1
                        /\ pending[u].index < Len(Plan(pending[u]))
                        /\ u \in known' => LifeIs(pending[u].run, "paused", pending[u].index)'
        BY <1>1 DEF EnvelopesMatch, Plan
    <2>1. CASE u = t
        BY <1>1, <1>5, <1>6, <1>9, <1>10, <1>13, <2>1 DEF EnvelopesMatch, LifeIs
    <2>2. CASE u # t
        <3>1. pending[u].run \in Runs \ {r}
            BY <1>10, <2>2 DEF SingleOwner, Parked, TypeOK, Task
        <3> QED
            BY <1>1, <1>7, <1>13, <2>2, <3>1 DEF EnvelopesMatch, LifeIs
    <2> QED
        BY <2>1, <2>2
<1>19. TokensMatch'
    <2>1. ASSUME NEW q \in Procs \ {p}, pc[q] \in {"escalate", "announce"}
          PROVE  token[q] # t
        <3>1. task[q] \in Task /\ task[q].escalations < MaxEscalations /\ Owns(q, task[q].run)
            BY <2>1 DEF TypeOK, OwnersInStep, OwnerAt, MayPause, Owning, Owns
        <3>2. pending[token[q]].run = task[q].run
            BY <2>1, <3>1, EnvelopeUpdates DEF TokensMatch
        <3> QED
            BY <1>7, <1>9, <3>1, <3>2 DEF SingleOwner
    <2> QED
        BY <1>1, <1>7, <1>11, <2>1 DEF TokensMatch
<1>20. PausesUpTo(r, task[p].escalations)
    BY <1>1, <1>4 DEF PausesCounted, Owning
<1>21. PausesCounted'
    <2>1. \A k \in Positions(r, "RunEscalated") : stream[r][k].count \in Nat
        BY <1>2 DEF EscalationsBounded
    <2>2. PausesUpTo(r, n)
        BY <1>3, <1>4, <1>20, <2>1 DEF PausesUpTo
    <2>3. PausesUpTo(r, n)'
        BY <1>5, <1>7, <2>2, PausesGrow
    <2>4. \A s \in Runs \ {r}, m \in Nat : PausesUpTo(s, m) => PausesUpTo(s, m)'
        BY <1>13, PausesStay
    <2>5. \A q \in Procs : pc'[q] \in Owning =>
              /\ pc[q] \in Owning /\ task'[q] = task[q]
              /\ task[q].run \in Runs \ {r} /\ task[q].escalations \in Nat
        BY <1>11, <1>12 DEF TypeOK, Task, Owning, Owns
    <2>6. \A u \in known : pending[u] # None =>
              pending[u].run \in Runs \ {r} /\ pending[u].escalations \in Nat
        BY <1>2, <1>8, <1>10 DEF SingleOwner, Parked, TypeOK, Task
    <2> QED
        BY <1>1, <1>7, <1>9, <2>3, <2>4, <2>5, <2>6 DEF PausesCounted
<1>22. EscalationsBounded'
    <2>1. \A k \in Positions(r, "RunEscalated") : stream[r][k].count \in Nat
        BY <1>2 DEF EscalationsBounded
    <2>2. \A k \in Positions(r, "RunEscalated") : stream[r][k].count < n
        BY <1>3, <1>4, <1>20, <2>1 DEF PausesUpTo
    <2>3. n \in 1..MaxEscalations
        BY <1>3, <1>4
    <2> QED
        BY <1>5, <1>7, <2>2, <2>3, PausesNumbered
<1> QED
    BY <1>14, <1>15, <1>16, <1>17, <1>18, <1>19, <1>21, <1>22

LEMMA LoadInv ==
    ASSUME IInv, NEW p \in Procs, NEW t \in Tokens, Load(p, t)
    PROVE  IInv'
<1> USE DEF IInv
<1>1. /\ pc[p] = "idle" /\ t \in known /\ pending[t] # None
      /\ UNCHANGED <<route, stream, pending, issued, known, fate>>
    BY DEF Load
<1>2. /\ pc'[p] = "unlink" /\ task'[p] = pending[t] /\ token'[p] = t
      /\ \A q \in Procs \ {p} : pc'[q] = pc[q] /\ task'[q] = task[q] /\ token'[q] = token[q]
    BY DEF Load, Goto, TypeOK
<1>3. \A q \in Procs, s \in Runs : Owns(q, s)' => q # p /\ Owns(q, s)
    BY <1>2 DEF Owns, Owning
<1>4. \A s \in Runs : LifeOf(s)' = LifeOf(s)
    BY <1>1, LifeStays
<1>5. TypeOK'
    <2>1. /\ pc' \in [Procs -> Owning \cup {"idle", "unlink"}]
          /\ task' \in [Procs -> Task \cup {None}]
          /\ token' \in [Procs -> Tokens \cup {None}]
        BY DEF Load, Goto, TypeOK
    <2>2. \A q \in Procs : /\ pc'[q] = "idle" <=> task'[q] = None
                           /\ pc'[q] \in {"unlink", "escalate", "announce"} => token'[q] # None
        BY <1>1, <1>2 DEF TypeOK
    <2> QED
        BY <1>1, <2>1, <2>2 DEF TypeOK
<1>6. SingleOwner'
    BY <1>1, <1>2, <1>3 DEF SingleOwner, Parked
<1>7. OwnersInStep'
    <2> SUFFICES ASSUME NEW q \in Procs, pc'[q] \in Owning PROVE OwnerAt(q)'
        BY DEF OwnersInStep
    <2>1. pc'[q] = pc[q] /\ task'[q] = task[q] /\ task[q].run \in Runs
        BY <1>2 DEF Owning, TypeOK, Task
    <2> QED
        BY <1>1, <1>4, <2>1, OwnerStays DEF OwnersInStep
<1>8. NothingBeforeStart'
    BY <1>1, <1>3 DEF NothingBeforeStart, Parked
<1>9. EnvelopesMatch'
    BY <1>1, <1>4 DEF EnvelopesMatch, LifeIs, Plan, TypeOK, Task
<1>10. TokensMatch'
    BY <1>1, <1>2 DEF TokensMatch
<1>11. PausesCounted' /\ EscalationsBounded'
    <2>1. \A q \in Procs : pc'[q] \in Owning => pc[q] \in Owning /\ task'[q] = task[q]
        BY <1>2 DEF Owning
    <2> QED
        BY <1>1, <2>1 DEF PausesCounted, EscalationsBounded, PausesUpTo, Positions
<1> QED
    BY <1>5, <1>6, <1>7, <1>8, <1>9, <1>10, <1>11

\* The unlink that found its file: the caller becomes the owner of the run.
LEMMA TakeOverInv ==
    ASSUME IInv, NEW p \in Procs, Consume(p), pending[token[p]] # None
    PROVE  IInv'
<1> DEFINE r == task[p].run
           t == token[p]
<1> USE DEF IInv
<1>1. pc[p] = "unlink" /\ t \in Tokens /\ t \in known /\ pending[t] = task[p] /\ task[p] \in Task
    BY DEF Consume, TypeOK, TokensMatch
<1>3. /\ UNCHANGED <<route, stream, issued, known, fate, task, token>>
      /\ pending' = [pending EXCEPT ![t] = None] /\ pc' = [pc EXCEPT ![p] = "respond"]
    BY DEF Consume, Unlink, Goto
<1>4. /\ pc'[p] = "respond" /\ pending'[t] = None
      /\ \A q \in Procs \ {p} : pc'[q] = pc[q]
      /\ \A u \in Tokens \ {t} : pending'[u] = pending[u]
    BY <1>1, <1>3 DEF TypeOK
<1>5. /\ r \in Runs /\ Parked(t, r) /\ task[p].results = task[p].index + 1
      /\ task[p].index < Len(Plan(task[p])) /\ LifeIs(r, "paused", task[p].index)
    BY <1>1 DEF Parked, EnvelopesMatch, Task
<1> HIDE DEF r, t
<1>6. \A q \in Procs : ~Owns(q, r)
    BY <1>1, <1>5 DEF SingleOwner, TokensMatch
<1>7. \A q \in Procs, s \in Runs :
          Owns(q, s)' => (q = p /\ s = r) \/ (q # p /\ s # r /\ Owns(q, s))
    <2>1. \A q \in Procs \ {p}, s \in Runs : Owns(q, s)' => Owns(q, s)
        BY <1>3, <1>4 DEF Owns
    <2>2. \A s \in Runs : Owns(p, s)' => s = r
        BY <1>3 DEF Owns, r
    <2> QED
        BY <1>6, <2>1, <2>2
<1>8. \A u \in Tokens, s \in Runs : Parked(u, s)' => u # t /\ s # r /\ Parked(u, s)
    <2>1. \A u \in Tokens, s \in Runs : Parked(u, s)' => u # t /\ Parked(u, s)
        BY <1>4 DEF Parked
    <2> QED
        BY <1>1, <1>5, <2>1 DEF SingleOwner
<1>9. \A s \in Runs : LifeOf(s)' = LifeOf(s)
    BY <1>3, LifeStays
<1>10. TypeOK'
    <2>1. pc' \in [Procs -> Owning \cup {"idle", "unlink"}] /\ pending' \in [Tokens -> Task \cup {None}]
        BY <1>3 DEF TypeOK, Owning
    <2>2. \A q \in Procs : /\ pc'[q] = "idle" <=> task'[q] = None
                           /\ pc'[q] \in {"unlink", "escalate", "announce"} => token'[q] # None
        BY <1>1, <1>3, <1>4 DEF TypeOK
    <2> QED
        BY <1>3, <2>1, <2>2 DEF TypeOK
<1>11. SingleOwner'
    BY <1>3, <1>4, <1>7, <1>8 DEF SingleOwner
<1>12. OwnersInStep'
    <2>1. OwnerAt(p)'
        BY <1>3, <1>4, <1>5, <1>9 DEF OwnerAt, At, LifeIs, InPlan, Plan, r
    <2>2. ASSUME NEW q \in Procs, q # p, pc'[q] \in Owning PROVE OwnerAt(q)'
        <3>1. pc'[q] = pc[q] /\ task'[q] = task[q] /\ task[q].run \in Runs
            BY <1>3, <1>4, <2>2 DEF TypeOK, Task, Owning
        <3> QED
            BY <1>3, <1>9, <2>2, <3>1, OwnerStays DEF OwnersInStep
    <2> QED
        BY <2>1, <2>2 DEF OwnersInStep
<1>13. NothingBeforeStart'
    <2>1. stream[r] # <<>>
        BY <1>1, <1>5 DEF NothingBeforeStart
    <2> QED
        BY <1>3, <1>7, <1>8, <2>1 DEF NothingBeforeStart
<1>14. EnvelopesMatch'
    BY <1>3, <1>4, <1>9 DEF EnvelopesMatch, LifeIs, Plan, TypeOK, Task
<1>15. TokensMatch'
    BY <1>1, <1>3, <1>4 DEF TokensMatch, TypeOK
<1>16. PausesCounted'
    <2>1. PausesUpTo(r, task[p].escalations)
        BY <1>1, <1>5 DEF PausesCounted, r, Parked
    <2>2. \A s \in Runs, n \in Nat : PausesUpTo(s, n)' <=> PausesUpTo(s, n)
        BY <1>3 DEF PausesUpTo, Positions
    <2>3. \A q \in Procs : pc[q] \in Owning => task[q].run \in Runs /\ task[q].escalations \in Nat
        BY DEF TypeOK, Task, Owning
    <2>4. \A u \in known : u \in Tokens /\
              (pending'[u] # None => /\ pending'[u] = pending[u]
                                     /\ pending[u].run \in Runs /\ pending[u].escalations \in Nat)
        BY <1>4 DEF TypeOK, Task
    <2>5. task[p].escalations \in Nat
        BY <1>1 DEF Task
    <2> QED
        BY <1>3, <1>4, <1>5, <2>1, <2>2, <2>3, <2>4, <2>5 DEF PausesCounted, r
<1>17. EscalationsBounded'
    BY <1>3 DEF EscalationsBounded, Positions
<1> QED
    BY <1>10, <1>11, <1>12, <1>13, <1>14, <1>15, <1>16, <1>17

-----------------------------------------------------------------------------
(* The steps of an owner, one lemma per operation.                         *)

LEMMA OwnerFacts ==
    ASSUME IInv, NEW p \in Procs, pc[p] \in Owning
    PROVE  /\ task[p] \in Task /\ task[p].run \in Runs /\ task[p].index \in Nat
           /\ task[p].results \in Nat /\ OwnerAt(p)
           /\ Len(Plan(task[p])) \in Nat
           /\ task = [task EXCEPT ![p] = task[p]]
<1>1. task[p] \in Task
    BY DEF IInv, TypeOK, Owning
<1> QED
    BY <1>1, PlanLength DEF IInv, TypeOK, OwnersInStep, Task, Plan

LEMMA StartStepInv ==
    ASSUME IInv, NEW p \in Procs, StartStep(p)
    PROVE  IInv'
<1>1. /\ pc[p] = "next" /\ pc' = [pc EXCEPT ![p] = "step"] /\ pc'[p] = "step"
      /\ UNCHANGED <<route, pending, issued, known, task, token, fate>>
      /\ Append1(task[p].run, Ev("StepStarted", task[p].index))
      /\ InPlan(p)
    BY DEF StartStep, Goto, Emit, InPlan, IInv, TypeOK, Owning
<1>2. /\ task[p] \in Task /\ task[p].run \in Runs /\ task[p].index \in Nat /\ OwnerAt(p)
      /\ task' = [task EXCEPT ![p] = task[p]]
    BY <1>1, OwnerFacts DEF Owning
<1>3. /\ Ev("StepStarted", task[p].index) \in Event
      /\ Ev("StepStarted", task[p].index).type = "StepStarted"
    BY <1>2, EventsOK DEF EventTypes
<1>4. LifeOf(task[p].run)' = [phase |-> "executing", step |-> task[p].index]
    BY <1>1, <1>2, <1>3, LifeGrows, LifeAfterEvents DEF IInv
<1>5. OwnerAt(p)'
    BY <1>1, <1>2, <1>4 DEF OwnerAt, At, LifeIs, InPlan, Plan
<1>6. StreamMoves(task[p].run)
    BY <1>1, <1>3 DEF StreamMoves
<1> QED
    BY <1>1, <1>2, <1>5, <1>6, OwnerMoves DEF Owning

LEMMA PlanDoneInv ==
    ASSUME IInv, NEW p \in Procs, PlanDone(p)
    PROVE  IInv'
<1>1. /\ pc[p] = "next" /\ pc' = [pc EXCEPT ![p] = "close_completed"]
      /\ pc'[p] = "close_completed"
      /\ UNCHANGED <<route, stream, pending, issued, known, task, token, fate>>
      /\ task[p].index = Len(Plan(task[p]))
    BY DEF PlanDone, Goto, IInv, TypeOK, Owning
<1>2. /\ task[p] \in Task /\ task[p].run \in Runs /\ OwnerAt(p)
      /\ task' = [task EXCEPT ![p] = task[p]]
    BY <1>1, OwnerFacts DEF Owning
<1>3. LifeOf(task[p].run)' = LifeOf(task[p].run)
    BY <1>1, <1>2, LifeStays
<1>4. OwnerAt(p)'
    BY <1>1, <1>2, <1>3 DEF OwnerAt, At, LifeIs, Plan
<1>5. StreamMoves(task[p].run)
    BY <1>1 DEF StreamMoves
<1> QED
    BY <1>1, <1>2, <1>4, <1>5, OwnerMoves DEF Owning

LEMMA PollDeadJobInv ==
    ASSUME IInv, NEW p \in Procs, PollDeadJob(p)
    PROVE  IInv'
<1>1. /\ pc[p] = "step" /\ pc' = [pc EXCEPT ![p] = "polling"]
      /\ pc'[p] = "polling"
      /\ UNCHANGED <<route, stream, pending, issued, known, task, token, fate>>
    BY DEF PollDeadJob, Goto, IInv, TypeOK, Owning
<1>2. /\ task[p] \in Task /\ task[p].run \in Runs /\ OwnerAt(p)
      /\ task' = [task EXCEPT ![p] = task[p]]
    BY <1>1, OwnerFacts DEF Owning
<1>3. LifeOf(task[p].run)' = LifeOf(task[p].run)
    BY <1>1, <1>2, LifeStays
<1>4. OwnerAt(p)'
    BY <1>1, <1>2, <1>3 DEF OwnerAt, At, LifeIs, InPlan, Plan
<1>5. StreamMoves(task[p].run)
    BY <1>1 DEF StreamMoves
<1> QED
    BY <1>1, <1>2, <1>4, <1>5, OwnerMoves DEF Owning

\* A step whose executor has returned, or that never reached one: its result is
\* recorded and nothing is on the stream yet.
LEMMA ResultInv ==
    ASSUME IInv, NEW p \in Procs, pc[p] = "step",
           NEW l \in {"completed", "failed", "save"}, NEW k \in Task,
           k.run = task[p].run, k.index = task[p].index,
           k.escalations = task[p].escalations, k.results = task[p].results + 1,
           l = "save" => MayPause(p),
           Goto(p, l), task' = [task EXCEPT ![p] = k],
           UNCHANGED <<route, stream, pending, issued, known, token, fate>>
    PROVE  IInv'
<1>1. pc' = [pc EXCEPT ![p] = l] /\ pc'[p] = l /\ task'[p] = k
    BY DEF Goto, IInv, TypeOK
<1>2. /\ task[p] \in Task /\ task[p].run \in Runs /\ task[p].index \in Nat
      /\ task[p].results \in Nat /\ OwnerAt(p)
    BY OwnerFacts DEF Owning
<1>3. LifeOf(task[p].run)' = LifeOf(k.run)
    BY <1>1, <1>2, LifeStays
<1>4. \A r \in Runs : LifeOf(r)' = LifeOf(r)
    BY LifeStays
<1>5. OwnerAt(p)'
    BY <1>1, <1>2, <1>4 DEF OwnerAt, At, LifeIs, InPlan, MayPause, Plan
<1>6. StreamMoves(k.run)
    BY DEF StreamMoves
<1> QED
    BY <1>1, <1>5, <1>6, OwnerMoves DEF Owning

LEMMA StepCompletesInv ==
    ASSUME IInv, NEW p \in Procs, pc[p] = "step", NEW output \in Outputs, StepCompletes(p, output)
    PROVE  IInv'
<1>1. task[p] \in Task
    BY OwnerFacts DEF Owning
<1>2. Recorded(task[p]) \in Task
    BY <1>1, TaskUpdates
<1> QED
    BY <1>1, <1>2, TaskUpdates, WithOutputUpdates, ResultInv DEF StepCompletes

LEMMA StepFailsInv ==
    ASSUME IInv, NEW p \in Procs, pc[p] = "step", StepFails(p)
    PROVE  IInv'
<1>1. task[p] \in Task
    BY OwnerFacts DEF Owning
<1> QED
    BY <1>1, TaskUpdates, ResultInv DEF StepFails

LEMMA StepAsksInv ==
    ASSUME IInv, NEW p \in Procs, pc[p] = "step", StepAsks(p)
    PROVE  IInv'
<1>1. task[p] \in Task
    BY OwnerFacts DEF Owning
<1>2. CASE MayEscalate(task[p])
    BY <1>1, <1>2, TaskUpdates, ResultInv DEF StepAsks, MayEscalate, MayPause
<1>3. CASE ~MayEscalate(task[p])
    BY <1>1, <1>3, TaskUpdates, ResultInv DEF StepAsks
<1> QED
    BY <1>2, <1>3

LEMMA ExecuteInv ==
    ASSUME IInv, NEW p \in Procs, NoExecutor(p) \/ PlanningError(p) \/ Execute(p)
    PROVE  IInv'
<1>1. CASE NoExecutor(p)
    BY <1>1, StepFailsInv DEF NoExecutor
<1>2. CASE PlanningError(p)
    BY <1>2, StepAsksInv DEF PlanningError
<1>3. CASE Execute(p)
    <2>1. pc[p] = "step" /\ (\/ \E o \in Outputs : StepCompletes(p, o)
                             \/ StepAsks(p) \/ StepFails(p))
        BY <1>3 DEF Execute, Outputs
    <2> QED
        BY <2>1, StepCompletesInv, StepAsksInv, StepFailsInv
<1> QED
    BY <1>1, <1>2, <1>3

\* The step completed, or its answer arrived: StepCompleted, and on to the next.
LEMMA NextStepInv ==
    ASSUME IInv, NEW p \in Procs, pc[p] \in {"completed", "respond"},
           NEW k \in Task, k.run = task[p].run, k.index = task[p].index + 1,
           k.escalations = task[p].escalations, k.results = task[p].results,
           Emit(p, Ev("StepCompleted", task[p].index)),
           Goto(p, "next"), task' = [task EXCEPT ![p] = k],
           UNCHANGED <<route, pending, issued, known, token, fate>>
    PROVE  IInv'
<1>1. /\ pc' = [pc EXCEPT ![p] = "next"] /\ pc'[p] = "next" /\ task'[p] = k
      /\ Append1(k.run, Ev("StepCompleted", task[p].index))
    BY DEF Goto, Emit, IInv, TypeOK
<1>2. /\ task[p] \in Task /\ k.run \in Runs /\ task[p].index \in Nat
      /\ task[p].results \in Nat /\ OwnerAt(p) /\ Len(Plan(task[p])) \in Nat
    BY OwnerFacts DEF Owning
<1>3. /\ Ev("StepCompleted", task[p].index) \in Event
      /\ Ev("StepCompleted", task[p].index).type = "StepCompleted"
    BY <1>2, EventsOK DEF EventTypes
<1>4. LifeOf(k.run)' = [phase |-> "ready", step |-> task[p].index + 1]
    BY <1>1, <1>2, <1>3, LifeGrows, LifeAfterEvents DEF IInv
<1>5. OwnerAt(p)'
    BY <1>1, <1>2, <1>4 DEF OwnerAt, At, LifeIs, InPlan, Plan
<1>6. StreamMoves(k.run)
    BY <1>1, <1>3 DEF StreamMoves
<1> QED
    BY <1>1, <1>5, <1>6, OwnerMoves DEF Owning

LEMMA CompleteStepInv ==
    ASSUME IInv, NEW p \in Procs, CompleteStep(p)
    PROVE  IInv'
<1>1. pc[p] = "completed" /\ task[p] \in Task
    BY OwnerFacts DEF CompleteStep, Owning
<1> QED
    BY <1>1, TaskUpdates, NextStepInv DEF CompleteStep

LEMMA AcceptInv ==
    ASSUME IInv, NEW p \in Procs, Accept(p)
    PROVE  IInv'
<1>1. pc[p] = "respond" /\ task[p] \in Task
    BY OwnerFacts DEF Accept, Owning
<1> QED
    BY <1>1, PatchedUpdates, NextStepInv DEF Accept

LEMMA FailStepInv ==
    ASSUME IInv, NEW p \in Procs, FailStep(p)
    PROVE  IInv'
<1>1. /\ pc[p] = "failed" /\ pc' = [pc EXCEPT ![p] = "close_failed"]
      /\ pc'[p] = "close_failed"
      /\ UNCHANGED <<route, pending, issued, known, task, token, fate>>
      /\ Append1(task[p].run, Ev("StepFailed", task[p].index))
    BY DEF FailStep, Goto, Emit, IInv, TypeOK, Owning
<1>2. /\ task[p] \in Task /\ task[p].run \in Runs /\ task[p].index \in Nat /\ OwnerAt(p)
      /\ task' = [task EXCEPT ![p] = task[p]]
    BY <1>1, OwnerFacts DEF Owning
<1>3. /\ Ev("StepFailed", task[p].index) \in Event
      /\ Ev("StepFailed", task[p].index).type = "StepFailed"
    BY <1>2, EventsOK DEF EventTypes
<1>4. LifeOf(task[p].run)' = [phase |-> "failing", step |-> task[p].index]
    BY <1>1, <1>2, <1>3, LifeGrows, LifeAfterEvents DEF IInv
<1>5. OwnerAt(p)'
    BY <1>1, <1>2, <1>4 DEF OwnerAt, At, LifeIs
<1>6. StreamMoves(task[p].run)
    BY <1>1, <1>3 DEF StreamMoves
<1> QED
    BY <1>1, <1>2, <1>5, <1>6, OwnerMoves DEF Owning

LEMMA EscalateStepInv ==
    ASSUME IInv, NEW p \in Procs, EscalateStep(p)
    PROVE  IInv'
<1>1. /\ pc[p] = "escalate" /\ pc' = [pc EXCEPT ![p] = "announce"]
      /\ pc'[p] = "announce"
      /\ UNCHANGED <<route, pending, issued, known, task, token, fate>>
      /\ Append1(task[p].run, Ev("StepEscalated", task[p].index))
    BY DEF EscalateStep, Goto, Emit, IInv, TypeOK, Owning
<1>2. /\ task[p] \in Task /\ task[p].run \in Runs /\ task[p].index \in Nat /\ OwnerAt(p)
      /\ task' = [task EXCEPT ![p] = task[p]]
    BY <1>1, OwnerFacts DEF Owning
<1>3. /\ Ev("StepEscalated", task[p].index) \in Event
      /\ Ev("StepEscalated", task[p].index).type = "StepEscalated"
    BY <1>2, EventsOK DEF EventTypes
<1>4. LifeOf(task[p].run)' = [phase |-> "pausing", step |-> task[p].index]
    BY <1>1, <1>2, <1>3, LifeGrows, LifeAfterEvents DEF IInv
<1>5. OwnerAt(p)'
    BY <1>1, <1>2, <1>4 DEF OwnerAt, At, LifeIs, InPlan, MayPause, Plan
<1>6. StreamMoves(task[p].run)
    BY <1>1, <1>3 DEF StreamMoves
<1> QED
    BY <1>1, <1>2, <1>5, <1>6, OwnerMoves DEF Owning

LEMMA CloseInv ==
    ASSUME IInv, NEW p \in Procs, NEW status \in {"COMPLETED", "FAILED"},
           NEW l \in {"close_completed", "close_failed"}, Close(p, l, status)
    PROVE  IInv'
<1>1. /\ pc[p] = l /\ Leave(p) /\ UNCHANGED <<route, pending, issued, known, fate>>
      /\ Append1(task[p].run, ClosedEv(status, task[p].results))
    BY DEF Close, Emit
<1>2. task[p] \in Task /\ task[p].results \in Nat
    BY <1>1, OwnerFacts DEF Owning
<1>3. /\ ClosedEv(status, task[p].results) \in Event
      /\ ClosedEv(status, task[p].results).type = "RunCompleted"
    BY <1>2, EventsOK
<1>4. StreamMoves(task[p].run)
    BY <1>1, <1>3 DEF StreamMoves
<1> QED
    BY <1>1, <1>4, OwnerLeaves DEF IInv, TypeOK

\* A process that gives up: the token had no file, the request was rejected, or
\* it died.
LEMMA GiveUpInv ==
    ASSUME IInv, NEW p \in Procs,
           \/ Consume(p) /\ pending[token[p]] = None
           \/ Reject(p)
           \/ Abort(p)
    PROVE  IInv'
<1>1. StreamMoves(task[p].run)
    BY DEF StreamMoves, Consume, Reject, Abort
<1>2. \A r \in Runs : stream[r] = <<>> => ~Owns(p, r)
    BY DEF IInv, NothingBeforeStart
<1>3. CASE Consume(p) /\ pending[token[p]] = None
    BY <1>1, <1>3, OwnerLeaves DEF Consume, Unlink, IInv, TypeOK
<1>4. CASE Reject(p)
    <2>1. /\ pc[p] = "respond" /\ Leave(p) /\ UNCHANGED <<route, stream, pending, issued, known>>
          /\ fate' = [fate EXCEPT ![task[p].run] = "rejected"]
        BY <1>4 DEF Reject
    <2>2. /\ fate' \in [Runs -> {"open", "rejected", "aborted"}]
          /\ \A r \in Runs : stream[r] = <<>> => fate'[r] = fate[r]
        BY <1>2, <2>1 DEF Owns, Owning, IInv, TypeOK
    <2> QED
        BY <1>1, <2>1, <2>2, OwnerLeaves
<1>5. CASE Abort(p)
    <2>1. /\ pc[p] # "idle" /\ Leave(p) /\ UNCHANGED <<route, stream, pending, issued, known>>
          /\ fate' = IF pc[p] \in Owning
                         THEN [fate EXCEPT ![task[p].run] = "aborted"] ELSE fate
        BY <1>5 DEF Abort
    <2>2. /\ fate' \in [Runs -> {"open", "rejected", "aborted"}]
          /\ \A r \in Runs : stream[r] = <<>> => fate'[r] = fate[r]
        BY <1>2, <2>1 DEF Owns, IInv, TypeOK
    <2> QED
        BY <1>1, <2>1, <2>2, OwnerLeaves
<1> QED
    BY <1>3, <1>4, <1>5

-----------------------------------------------------------------------------
(* The invariant is kept by every step, so it always holds.                *)

LEMMA NextInv == IInv /\ [Next]_vars => IInv'
<1> SUFFICES ASSUME IInv, [Next]_vars PROVE IInv'
    OBVIOUS
<1>1. ASSUME NEW p \in Procs, NEW r \in Runs, Dispatch(p, r) PROVE IInv'
    BY <1>1, DispatchInv
<1>2. ASSUME NEW p \in Procs, NEW t \in Tokens, Load(p, t) PROVE IInv'
    BY <1>2, LoadInv
<1>3. ASSUME NEW p \in Procs, Proceed(p) PROVE IInv'
    <2>1. CASE StartStep(p)
        BY <2>1, StartStepInv
    <2>2. CASE PlanDone(p) \/ PollDeadJob(p)
        BY <2>2, PlanDoneInv, PollDeadJobInv
    <2>3. CASE NoExecutor(p) \/ PlanningError(p) \/ Execute(p)
        BY <2>3, ExecuteInv
    <2>4. CASE CompleteStep(p) \/ Accept(p)
        BY <2>4, CompleteStepInv, AcceptInv
    <2>5. CASE FailStep(p) \/ EscalateStep(p)
        BY <2>5, FailStepInv, EscalateStepInv
    <2>6. CASE SavePending(p) \/ Announce(p)
        BY <2>6, SavePendingInv, AnnounceInv
    <2>7. CASE CloseCompleted(p) \/ CloseFailed(p)
        BY <2>7, CloseInv DEF CloseCompleted, CloseFailed
    <2>8. CASE Consume(p)
        BY <2>8, TakeOverInv, GiveUpInv
    <2>9. CASE Reject(p)
        BY <2>9, GiveUpInv
    <2> QED
        BY <1>3, <2>1, <2>2, <2>3, <2>4, <2>5, <2>6, <2>7, <2>8, <2>9 DEF Proceed
<1>4. ASSUME NEW p \in Procs, Abort(p) PROVE IInv'
    BY <1>4, GiveUpInv
<1>5. CASE UNCHANGED vars
    <2> USE <1>5 DEF vars, IInv
    <2>1. TypeOK'
        BY DEF TypeOK
    <2>2. SingleOwner' /\ NothingBeforeStart'
        BY DEF SingleOwner, NothingBeforeStart, Owns, Parked
    <2>3. OwnersInStep'
        BY DEF OwnersInStep, OwnerAt, At, LifeIs, LifeOf, LastEvent, InPlan, MayPause, Plan
    <2>4. EnvelopesMatch'
        BY DEF EnvelopesMatch, LifeIs, LifeOf, LastEvent, Plan
    <2>5. TokensMatch'
        BY DEF TokensMatch
    <2>6. PausesCounted' /\ EscalationsBounded'
        BY DEF PausesCounted, EscalationsBounded, PausesUpTo, Positions
    <2> QED
        BY <2>1, <2>2, <2>3, <2>4, <2>5, <2>6
<1> QED
    BY <1>1, <1>2, <1>3, <1>4, <1>5 DEF Next

\* The inductive invariant of the dispatcher, for every set of callers, runs,
\* tokens and routes, and every max_escalations.
THEOREM Invariant == Spec => []IInv
<1> QED
    BY InitInv, NextInv, PTL DEF Spec

\* Every variable keeps to its type; no envelope in pending/*.json carries more
\* than max_escalations pauses.
THEOREM TypeCorrect == Spec => []TypeOK
<1>1. IInv => TypeOK
    BY DEF IInv
<1> QED
    BY <1>1, Invariant, PTL

\* Two resumes of one token never both go on, whatever the interleaving of
\* their loads and unlinks: a run is driven by one process, or parked once.
THEOREM OneOwner == Spec => []SingleOwner
<1>1. IInv => SingleOwner
    BY DEF IInv
<1> QED
    BY <1>1, Invariant, PTL

\* escalation_count rises from pause to pause and never passes max_escalations,
\* although every resume starts from a file another process has written.
THEOREM PausesBounded == Spec => []EscalationsBounded
<1>1. IInv => EscalationsBounded
    BY DEF IInv
<1> QED
    BY <1>1, Invariant, PTL

-----------------------------------------------------------------------------
(* No started run is lost.                                                 *)

Held(r) == \/ \E p \in Procs : Owns(p, r)
           \/ \E t \in known : Parked(t, r)

\* A run is not lost by a step that holds it, and not by one that leaves its
\* stream, its fate and its holder alone.
LEMMA HeldRun ==
    ASSUME NoStrandedRun, NEW s \in Runs,
           \/ Held(s)' \/ Closed(s)' \/ fate'[s] # "open"
           \/ stream'[s] = stream[s] /\ fate'[s] = fate[s] /\ (Held(s) => Held(s)')
    PROVE  stream'[s] # <<>> /\ ~Closed(s)' /\ fate'[s] = "open" => Held(s)'
BY DEF NoStrandedRun, Held, Closed, LastEvent

\* p goes on as an owner of r: the holders of the other runs are not touched.
LEMMA HeldByOwner ==
    ASSUME TypeOK, NoStrandedRun, NEW p \in Procs, NEW r \in Runs,
           Owns(p, r)', \A q \in Procs \ {p} : pc'[q] = pc[q] /\ task'[q] = task[q],
           \A s \in Runs \ {r} : ~Owns(p, s) /\ stream'[s] = stream[s],
           \A t \in Tokens : pending[t] # None => pending'[t] = pending[t] \/ Parked(t, r),
           UNCHANGED <<known, fate>>
    PROVE  NoStrandedRun'
<1>1. \A s \in Runs \ {r} : Held(s) => Held(s)'
    <2>1. \A s \in Runs \ {r}, q \in Procs : Owns(q, s) => Owns(q, s)'
        BY DEF Owns
    <2>2. \A s \in Runs \ {r}, t \in known : Parked(t, s) => t \in known' /\ Parked(t, s)'
        BY DEF Parked, TypeOK
    <2> QED
        BY <2>1, <2>2 DEF Held
<1>2. Held(r)'
    BY DEF Held
<1>3. ASSUME NEW s \in Runs
      PROVE  stream'[s] # <<>> /\ ~Closed(s)' /\ fate'[s] = "open" => Held(s)'
    BY <1>1, <1>2, HeldRun
<1> QED
    BY <1>3 DEF NoStrandedRun, Held

\* p leaves: if it owned a run, that run is closed, parked or given up.
LEMMA HeldAfterLeave ==
    ASSUME TypeOK, NoStrandedRun, NEW p \in Procs, Leave(p), UNCHANGED pending,
           known \subseteq known',
           \A s \in Runs : \/ ~Owns(p, s) /\ stream'[s] = stream[s] /\ fate'[s] = fate[s]
                           \/ Closed(s)' \/ fate'[s] # "open"
                           \/ \E t \in known' : Parked(t, s)
    PROVE  NoStrandedRun'
<1> SUFFICES ASSUME NEW s \in Runs
             PROVE  stream'[s] # <<>> /\ ~Closed(s)' /\ fate'[s] = "open" => Held(s)'
    BY DEF NoStrandedRun, Held
<1>1. \A q \in Procs : Owns(q, s) => q = p \/ Owns(q, s)'
    BY LeaveUpdates DEF Owns
<1>2. \A t \in Tokens : Parked(t, s) => Parked(t, s)'
    BY DEF Parked
<1>3. ASSUME ~Owns(p, s), Held(s) PROVE Held(s)'
    BY <1>1, <1>2, <1>3 DEF Held, TypeOK
<1>4. ASSUME \E t \in known' : Parked(t, s) PROVE Held(s)'
    BY <1>4 DEF Held, Parked
<1> QED
    BY <1>3, <1>4, HeldRun

LEMMA NoStrandedNext == IInv /\ NoStrandedRun /\ [Next]_vars => NoStrandedRun'
<1> SUFFICES ASSUME IInv, NoStrandedRun, [Next]_vars PROVE NoStrandedRun'
    OBVIOUS
<1> USE DEF IInv
<1>1. ASSUME NEW p \in Procs, NEW r \in Runs, Dispatch(p, r) PROVE NoStrandedRun'
    <2>1. /\ pc[p] = "idle" /\ pc'[p] \in Owning
          /\ \A q \in Procs \ {p} : pc'[q] = pc[q] /\ task'[q] = task[q]
          /\ UNCHANGED <<pending, known, fate>>
          /\ Append1(r, Ev("RunStarted", 0))
        BY <1>1 DEF Dispatch, Goto, TypeOK, Owning
    <2>2. task'[p].run = r
        BY <1>1 DEF Dispatch, TypeOK
    <2>3. \A s \in Runs \ {r} : ~Owns(p, s) /\ stream'[s] = stream[s]
        BY <2>1 DEF Owns, Owning, Append1, TypeOK
    <2> QED
        BY <2>1, <2>2, <2>3, HeldByOwner DEF Owns
<1>2. ASSUME NEW p \in Procs, pc[p] \in Owning, pc'[p] \in Owning, task'[p].run = task[p].run,
             \A q \in Procs \ {p} : pc'[q] = pc[q] /\ task'[q] = task[q],
             \A s \in Runs \ {task[p].run} : stream'[s] = stream[s],
             \A t \in Tokens : pending[t] # None => pending'[t] = pending[t],
             UNCHANGED <<known, fate>>
      PROVE  NoStrandedRun'
    <2>1. task[p].run \in Runs
        BY <1>2, OwnerFacts
    <2>2. \A s \in Runs \ {task[p].run} : ~Owns(p, s)
        BY DEF Owns
    <2> QED
        BY <1>2, <2>1, <2>2, HeldByOwner DEF Owns
<1>3. ASSUME NEW p \in Procs, NEW t \in Tokens, Load(p, t) PROVE NoStrandedRun'
    <2>1. /\ pc[p] = "idle" /\ UNCHANGED <<stream, pending, known, fate>>
          /\ \A q \in Procs \ {p} : pc'[q] = pc[q] /\ task'[q] = task[q]
        BY <1>3 DEF Load, Goto, TypeOK
    <2>2. \A q \in Procs, s \in Runs : Owns(q, s) => Owns(q, s)'
        BY <2>1 DEF Owns, Owning
    <2>3. \A s \in Runs : Held(s) => Held(s)'
        BY <2>1, <2>2 DEF Held, Parked
    <2> QED
        BY <2>1, <2>3, HeldRun DEF NoStrandedRun, Held
<1>4. ASSUME NEW p \in Procs, Proceed(p) PROVE NoStrandedRun'
    <2>1. CASE \/ StartStep(p) \/ PlanDone(p) \/ PollDeadJob(p) \/ FailStep(p) \/ EscalateStep(p)
        <3>1. pc[p] \in Owning
            BY <2>1 DEF StartStep, PlanDone, PollDeadJob, FailStep, EscalateStep, Owning
        <3>2. /\ pc'[p] \in Owning /\ UNCHANGED <<task, pending, known, fate>>
              /\ \A q \in Procs \ {p} : pc'[q] = pc[q]
              /\ \A s \in Runs \ {task[p].run} : stream'[s] = stream[s]
            BY <2>1 DEF StartStep, PlanDone, PollDeadJob, FailStep, EscalateStep, Goto, Emit, Append1,
                        TypeOK, Owning
        <3> QED
            BY <1>2, <3>1, <3>2
    <2>2. CASE NoExecutor(p) \/ PlanningError(p) \/ Execute(p) \/ CompleteStep(p) \/ Accept(p)
        <3>1. pc[p] \in Owning
            BY <2>2 DEF NoExecutor, PlanningError, Execute, CompleteStep, Accept, Owning
        <3>2. task[p] \in Task /\ Recorded(task[p]) \in Task
            BY <3>1, OwnerFacts, TaskUpdates
        <3>3. /\ UNCHANGED <<pending, known, fate>>
              /\ \A s \in Runs \ {task[p].run} : stream'[s] = stream[s]
            BY <2>2 DEF NoExecutor, PlanningError, Execute, CompleteStep, Accept,
                        StepCompletes, StepFails, StepAsks, Emit, Append1, TypeOK
        <3>4. pc'[p] \in Owning /\ \A q \in Procs \ {p} : pc'[q] = pc[q]
            BY <2>2 DEF NoExecutor, PlanningError, Execute, CompleteStep, Accept,
                        StepCompletes, StepFails, StepAsks, Goto, TypeOK, Owning
        <3>5. PICK k \in Task : task' = [task EXCEPT ![p] = k] /\ k.run = task[p].run
            <4>1. ASSUME NEW o \in Outputs, StepCompletes(p, o)
                  PROVE  \E k \in Task : task' = [task EXCEPT ![p] = k] /\ k.run = task[p].run
                <5>1. /\ WithOutput(Recorded(task[p]), o) \in Task
                      /\ WithOutput(Recorded(task[p]), o).run = Recorded(task[p]).run
                    BY <3>2, WithOutputUpdates
                <5> QED
                    BY <3>2, <4>1, <5>1, TaskUpdates DEF StepCompletes
            <4>2. CASE StepFails(p) \/ StepAsks(p)
                BY <3>2, <4>2, TaskUpdates DEF StepFails, StepAsks
            <4>3. CASE CompleteStep(p) \/ Accept(p)
                BY <3>2, <4>3, TaskUpdates, PatchedUpdates DEF CompleteStep, Accept
            <4> QED
                BY <2>2, <4>1, <4>2, <4>3 DEF NoExecutor, PlanningError, Execute, Outputs
        <3>6. /\ task'[p].run = task[p].run
              /\ \A q \in Procs \ {p} : task'[q] = task[q]
            BY <3>5 DEF TypeOK
        <3> QED
            BY <1>2, <3>1, <3>3, <3>4, <3>6
    <2>3. CASE SavePending(p)
        <3>1. PICK t \in Tokens \ issued : pending' = [pending EXCEPT ![t] = Envelope(task[p])]
            BY <2>3 DEF SavePending, Save
        <3>2. pending[t] = None
            BY <3>1 DEF EnvelopesMatch
        <3>3. \A u \in Tokens : pending[u] # None => pending'[u] = pending[u]
            BY <3>1, <3>2 DEF TypeOK
        <3>4. /\ pc[p] \in Owning /\ pc'[p] \in Owning /\ UNCHANGED <<stream, task, known, fate>>
              /\ \A q \in Procs \ {p} : pc'[q] = pc[q]
            BY <2>3 DEF SavePending, Goto, TypeOK, Owning
        <3> QED
            BY <1>2, <3>3, <3>4
    <2>4. CASE Announce(p)
        <3>1. /\ pc[p] = "announce" /\ Leave(p) /\ UNCHANGED <<pending, fate>>
              /\ known' = known \cup {token[p]}
              /\ \A s \in Runs \ {task[p].run} : stream'[s] = stream[s]
            BY <2>4 DEF Announce, Emit, Append1, TypeOK
        <3>2. task[p] \in Task /\ task[p].escalations < MaxEscalations
            BY <3>1, OwnerFacts DEF OwnerAt, MayPause, Owning
        <3>3. Parked(token[p], task[p].run)
            BY <3>1, <3>2, EnvelopeUpdates DEF TokensMatch, Parked
        <3> QED
            BY <3>1, <3>3, HeldAfterLeave DEF Owns
    <2>5. CASE CloseCompleted(p) \/ CloseFailed(p)
        <3>1. PICK status \in {"COMPLETED", "FAILED"}, l \in {"close_completed", "close_failed"} :
                  Close(p, l, status)
            BY <2>5 DEF CloseCompleted, CloseFailed
        <3>2. /\ pc[p] = l /\ Leave(p) /\ UNCHANGED <<pending, known, fate>>
              /\ Append1(task[p].run, ClosedEv(status, task[p].results))
            BY <3>1 DEF Close, Emit
        <3>3. PICK r \in Runs : r = task[p].run /\ task[p].results \in Nat
            BY <3>2, OwnerFacts DEF Owning
        <3>4. /\ ClosedEv(status, task[p].results) \in Event
              /\ ClosedEv(status, task[p].results).type = "RunCompleted"
            BY <3>3, EventsOK
        <3>5. Closed(r)' /\ \A s \in Runs \ {r} : stream'[s] = stream[s]
            BY <3>2, <3>3, <3>4, Appended DEF Closed, LastEvent
        <3> QED
            BY <3>2, <3>3, <3>5, HeldAfterLeave DEF Owns
    <2>6. CASE Consume(p) /\ pending[token[p]] # None
        <3>1. /\ pc[p] = "unlink" /\ UNCHANGED <<stream, known, fate, task>>
              /\ pending' = [pending EXCEPT ![token[p]] = None]
              /\ pc'[p] = "respond" /\ \A q \in Procs \ {p} : pc'[q] = pc[q]
            BY <2>6 DEF Consume, Unlink, Goto, TypeOK
        <3>2. /\ task[p] \in Task /\ task[p].run \in Runs /\ pending[token[p]] = task[p]
            BY <2>6, <3>1 DEF TypeOK, TokensMatch, Task
        <3>3. Owns(p, task[p].run)' /\ \A s \in Runs : ~Owns(p, s)
            BY <3>1 DEF Owns, Owning
        <3>4. \A t \in Tokens : pending[t] # None =>
                  pending'[t] = pending[t] \/ Parked(t, task[p].run)
            BY <3>1, <3>2 DEF Parked, TypeOK
        <3> QED
            BY <3>1, <3>2, <3>3, <3>4, HeldByOwner
    <2>7. CASE Consume(p) /\ pending[token[p]] = None
        <3>1. pc[p] = "unlink" /\ Leave(p) /\ UNCHANGED <<stream, pending, known, fate>>
            BY <2>7 DEF Consume, Unlink
        <3> QED
            BY <3>1, HeldAfterLeave DEF Owns, Owning
    <2>8. CASE Reject(p)
        <3>1. /\ pc[p] = "respond" /\ Leave(p) /\ UNCHANGED <<stream, pending, known>>
              /\ fate' = [fate EXCEPT ![task[p].run] = "rejected"]
            BY <2>8 DEF Reject
        <3> QED
            BY <3>1, HeldAfterLeave DEF Owns, TypeOK
    <2> QED
        BY <1>4, <2>1, <2>2, <2>3, <2>4, <2>5, <2>6, <2>7, <2>8 DEF Proceed
<1>5. ASSUME NEW p \in Procs, Abort(p) PROVE NoStrandedRun'
    <2>1. /\ Leave(p) /\ UNCHANGED <<stream, pending, known>>
          /\ fate' = IF pc[p] \in Owning
                         THEN [fate EXCEPT ![task[p].run] = "aborted"] ELSE fate
        BY <1>5 DEF Abort
    <2> QED
        BY <2>1, HeldAfterLeave DEF Owns, TypeOK
<1>6. CASE UNCHANGED vars
    BY <1>6 DEF vars, NoStrandedRun, Closed, LastEvent, Owns, Parked
<1> QED
    BY <1>1, <1>3, <1>4, <1>5, <1>6 DEF Next

\* A started run that nobody closed, rejected or aborted is driven by a process
\* or parked under a token that a caller was told: a pause never loses its run.
THEOREM NoRunStranded == Spec => []NoStrandedRun
<1>1. Init => NoStrandedRun
    BY DEF Init, NoStrandedRun
<1> QED
    BY <1>1, NoStrandedNext, Invariant, PTL DEF Spec

-----------------------------------------------------------------------------
(* Every dispatcher implements RunLifecycle: the stream of each run, read  *)
(* as LifeOf reads it, is a legal life.                                    *)

\* One appended event moves one life, and no other.
LEMMA LifeMoves ==
    ASSUME TypeOK, NEW r \in Runs, NEW e \in Event, Append1(r, e), UNCHANGED route,
           NEW phase, NEW step, LifeAfter(e) = [phase |-> phase, step |-> step]
    PROVE  Lifecycle!Move(r, phase, step)
<1>1. /\ LifeOf(r)' = [phase |-> phase, step |-> step]
      /\ \A q \in Runs \ {r} : LifeOf(q)' = LifeOf(q)
    BY LifeGrows
<1>2. [q \in Runs |-> LifeOf(q)]'
          = [[q \in Runs |-> LifeOf(q)] EXCEPT ![r] = [phase |-> phase, step |-> step]]
    BY <1>1
<1>3. UNCHANGED [q \in Runs |-> Len(route[q].plan)]
    OBVIOUS
<1> QED
    BY <1>2, <1>3 DEF Lifecycle!Move

\* What leaves the routes and the streams alone is not seen.
LEMMA LifeStutters ==
    ASSUME UNCHANGED <<route, stream>>
    PROVE  UNCHANGED Lifecycle!vars
<1>1. UNCHANGED [q \in Runs |-> LifeOf(q)]
    BY LifeStays
<1>2. UNCHANGED [q \in Runs |-> Len(route[q].plan)]
    OBVIOUS
<1> QED
    BY <1>1, <1>2 DEF Lifecycle!vars

LEMMA LifeInit == Init => Lifecycle!Init
<1> SUFFICES ASSUME Init PROVE Lifecycle!Init
    OBVIOUS
<1>1. \A r \in Runs : LifeOf(r) = [phase |-> "new", step |-> 0]
    BY DEF Init, LifeOf
<1>2. \A r \in Runs : Len(route[r].plan) \in Nat
    BY InitInv, PlanLength DEF IInv
<1> QED
    BY <1>1, <1>2 DEF Lifecycle!Init

LEMMA DispatchStarts ==
    ASSUME IInv, NEW p \in Procs, NEW r \in Runs, Dispatch(p, r)
    PROVE  Lifecycle!Start(r)
<1>1. Append1(r, Ev("RunStarted", 0)) /\ UNCHANGED route /\ stream[r] = <<>>
    BY DEF Dispatch
<1>2. Ev("RunStarted", 0) \in Event
    BY EventsOK DEF EventTypes
<1>3. LifeOf(r).phase = "new"
    BY <1>1 DEF LifeOf
<1> QED
    BY <1>1, <1>2, <1>3, LifeAfterEvents, LifeMoves DEF IInv, Lifecycle!Start

LEMMA StartStepBegins ==
    ASSUME IInv, NEW p \in Procs, StartStep(p)
    PROVE  Lifecycle!Begin(task[p].run)
<1> DEFINE r == task[p].run
           i == task[p].index
<1>1. /\ pc[p] = "next" /\ i < Len(route[r].plan) /\ UNCHANGED route
      /\ Append1(r, Ev("StepStarted", i))
    BY DEF StartStep, Emit, Plan
<1>2. r \in Runs /\ i \in Nat /\ LifeOf(r) = [phase |-> "ready", step |-> i]
    BY <1>1, OwnerFacts DEF Owning, OwnerAt, At, LifeIs
<1>3. Ev("StepStarted", i) \in Event
    BY <1>2, EventsOK DEF EventTypes
<1>4. Lifecycle!Move(r, "executing", i)
    BY <1>1, <1>2, <1>3, LifeAfterEvents, LifeMoves DEF IInv
<1> QED
    BY <1>1, <1>2, <1>4 DEF Lifecycle!Begin

LEMMA StepCompletedCompletes ==
    ASSUME IInv, NEW p \in Procs, CompleteStep(p) \/ Accept(p)
    PROVE  Lifecycle!Complete(task[p].run)
<1> DEFINE r == task[p].run
           i == task[p].index
<1>1. /\ pc[p] \in {"completed", "respond"} /\ UNCHANGED route
      /\ Append1(r, Ev("StepCompleted", i))
    BY DEF CompleteStep, Accept, Emit
<1>2. r \in Runs /\ i \in Nat /\ \E phase \in {"executing", "paused"} :
          LifeOf(r) = [phase |-> phase, step |-> i]
    BY <1>1, OwnerFacts DEF Owning, OwnerAt, At, LifeIs
<1>3. Ev("StepCompleted", i) \in Event
    BY <1>2, EventsOK DEF EventTypes
<1>4. Lifecycle!Move(r, "ready", i + 1)
    BY <1>1, <1>2, <1>3, LifeAfterEvents, LifeMoves DEF IInv
<1> QED
    BY <1>1, <1>2, <1>4 DEF Lifecycle!Complete

LEMMA FailStepFails ==
    ASSUME IInv, NEW p \in Procs, FailStep(p)
    PROVE  Lifecycle!Fail(task[p].run)
<1> DEFINE r == task[p].run
           i == task[p].index
<1>1. pc[p] = "failed" /\ UNCHANGED route /\ Append1(r, Ev("StepFailed", i))
    BY DEF FailStep, Emit
<1>2. r \in Runs /\ i \in Nat /\ LifeOf(r) = [phase |-> "executing", step |-> i]
    BY <1>1, OwnerFacts DEF Owning, OwnerAt, At, LifeIs
<1>3. Ev("StepFailed", i) \in Event
    BY <1>2, EventsOK DEF EventTypes
<1>4. Lifecycle!Move(r, "failing", i)
    BY <1>1, <1>2, <1>3, LifeAfterEvents, LifeMoves DEF IInv
<1> QED
    BY <1>1, <1>2, <1>4 DEF Lifecycle!Fail

LEMMA EscalateStepEscalates ==
    ASSUME IInv, NEW p \in Procs, EscalateStep(p)
    PROVE  Lifecycle!Escalate(task[p].run)
<1> DEFINE r == task[p].run
           i == task[p].index
<1>1. pc[p] = "escalate" /\ UNCHANGED route /\ Append1(r, Ev("StepEscalated", i))
    BY DEF EscalateStep, Emit
<1>2. r \in Runs /\ i \in Nat /\ LifeOf(r) = [phase |-> "executing", step |-> i]
    BY <1>1, OwnerFacts DEF Owning, OwnerAt, At, LifeIs
<1>3. Ev("StepEscalated", i) \in Event
    BY <1>2, EventsOK DEF EventTypes
<1>4. Lifecycle!Move(r, "pausing", i)
    BY <1>1, <1>2, <1>3, LifeAfterEvents, LifeMoves DEF IInv
<1> QED
    BY <1>1, <1>2, <1>4 DEF Lifecycle!Escalate

LEMMA AnnouncePauses ==
    ASSUME IInv, NEW p \in Procs, Announce(p)
    PROVE  Lifecycle!Pause(task[p].run)
<1> DEFINE r == task[p].run
           i == task[p].index
           n == task[p].escalations + 1
<1>1. pc[p] = "announce" /\ UNCHANGED route /\ Append1(r, EscalatedEv(i, n))
    BY DEF Announce, Emit
<1>2. r \in Runs /\ i \in Nat /\ LifeOf(r) = [phase |-> "pausing", step |-> i]
    BY <1>1, OwnerFacts DEF Owning, OwnerAt, At, LifeIs
<1>3. task[p].escalations \in Nat
    BY <1>1, OwnerFacts DEF Owning, Task
<1>4. EscalatedEv(i, n) \in Event
    BY <1>2, <1>3, EventsOK
<1>5. Lifecycle!Move(r, "paused", i)
    <2>1. n \in Nat
        BY <1>3
    <2> HIDE DEF n
    <2>2. LifeAfter(EscalatedEv(i, n)) = [phase |-> "paused", step |-> i]
        BY <1>2, <2>1, LifeAfterEvents
    <2> QED
        BY <1>1, <1>2, <1>4, <2>2, LifeMoves DEF IInv
<1> QED
    BY <1>1, <1>2, <1>5 DEF Lifecycle!Pause

LEMMA CloseCompletedSucceeds ==
    ASSUME IInv, NEW p \in Procs, CloseCompleted(p)
    PROVE  Lifecycle!Succeed(task[p].run)
<1> DEFINE r == task[p].run
           n == task[p].results
<1>1. /\ pc[p] = "close_completed" /\ UNCHANGED route
      /\ Append1(r, ClosedEv("COMPLETED", n))
    BY DEF CloseCompleted, Close, Emit
<1>2. /\ r \in Runs /\ n \in Nat /\ n = Len(route[r].plan)
      /\ LifeOf(r) = [phase |-> "ready", step |-> n]
    BY <1>1, OwnerFacts DEF Owning, OwnerAt, At, LifeIs, Plan
<1>3. ClosedEv("COMPLETED", n) \in Event
    BY <1>2, EventsOK
<1>4. Lifecycle!Move(r, "COMPLETED", n)
    BY <1>1, <1>2, <1>3, LifeAfterEvents, LifeMoves DEF IInv
<1> QED
    BY <1>1, <1>2, <1>4 DEF Lifecycle!Succeed

LEMMA CloseFailedGivesUp ==
    ASSUME IInv, NEW p \in Procs, CloseFailed(p)
    PROVE  Lifecycle!GiveUp(task[p].run)
<1> DEFINE r == task[p].run
           i == task[p].index
           n == task[p].results
<1>1. /\ pc[p] = "close_failed" /\ UNCHANGED route
      /\ Append1(r, ClosedEv("FAILED", n))
    BY DEF CloseFailed, Close, Emit
<1>2. /\ r \in Runs /\ n \in Nat /\ i \in Nat
      /\ \/ LifeOf(r) = [phase |-> "failing", step |-> i] /\ n = i + 1
         \/ LifeOf(r) = [phase |-> "ready", step |-> 0] /\ n = 0
    BY <1>1, OwnerFacts DEF Owning, OwnerAt, At, LifeIs
<1>3. ClosedEv("FAILED", n) \in Event
    BY <1>2, EventsOK
<1>4. Lifecycle!Move(r, "FAILED", n)
    BY <1>1, <1>2, <1>3, LifeAfterEvents, LifeMoves DEF IInv
<1> QED
    BY <1>1, <1>2, <1>4 DEF Lifecycle!GiveUp

\* Every step of the dispatcher is a step of one run's life, or none.
LEMMA LifeNext == IInv /\ [Next]_vars => [Lifecycle!Next]_Lifecycle!vars
<1> SUFFICES ASSUME IInv, [Next]_vars PROVE Lifecycle!Next \/ UNCHANGED Lifecycle!vars
    OBVIOUS
<1>1. ASSUME NEW p \in Procs, NEW r \in Runs, Dispatch(p, r) PROVE Lifecycle!Next
    BY <1>1, DispatchStarts DEF Lifecycle!Next
<1>2. ASSUME NEW p \in Procs, NEW t \in Tokens, Load(p, t) PROVE UNCHANGED Lifecycle!vars
    BY <1>2, LifeStutters DEF Load
<1>3. ASSUME NEW p \in Procs, Abort(p) PROVE UNCHANGED Lifecycle!vars
    BY <1>3, LifeStutters DEF Abort
<1>4. ASSUME NEW p \in Procs, Proceed(p) PROVE Lifecycle!Next \/ UNCHANGED Lifecycle!vars
    <2>1. ASSUME pc[p] \in Owning PROVE task[p].run \in Runs
        BY <2>1, OwnerFacts
    <2>2. CASE StartStep(p)
        BY <2>1, <2>2, StartStepBegins DEF Lifecycle!Next, StartStep, Owning
    <2>3. CASE CompleteStep(p) \/ Accept(p)
        BY <2>1, <2>3, StepCompletedCompletes DEF Lifecycle!Next, CompleteStep, Accept, Owning
    <2>4. CASE FailStep(p)
        BY <2>1, <2>4, FailStepFails DEF Lifecycle!Next, FailStep, Owning
    <2>5. CASE EscalateStep(p)
        BY <2>1, <2>5, EscalateStepEscalates DEF Lifecycle!Next, EscalateStep, Owning
    <2>6. CASE Announce(p)
        BY <2>1, <2>6, AnnouncePauses DEF Lifecycle!Next, Announce, Owning
    <2>7. CASE CloseCompleted(p)
        BY <2>1, <2>7, CloseCompletedSucceeds DEF Lifecycle!Next, CloseCompleted, Close, Owning
    <2>8. CASE CloseFailed(p)
        BY <2>1, <2>8, CloseFailedGivesUp DEF Lifecycle!Next, CloseFailed, Close, Owning
    <2>9. CASE PlanDone(p) \/ PollDeadJob(p) \/ NoExecutor(p) \/ PlanningError(p) \/ Execute(p)
        <3>1. UNCHANGED <<route, stream>>
            BY <2>9 DEF PlanDone, PollDeadJob, NoExecutor, PlanningError, Execute, StepCompletes, StepFails, StepAsks
        <3> QED
            BY <3>1, LifeStutters
    <2>10. CASE SavePending(p) \/ Consume(p) \/ Reject(p)
        <3>1. UNCHANGED <<route, stream>>
            BY <2>10 DEF SavePending, Consume, Reject
        <3> QED
            BY <3>1, LifeStutters
    <2> QED
        BY <1>4, <2>2, <2>3, <2>4, <2>5, <2>6, <2>7, <2>8, <2>9, <2>10 DEF Proceed
<1>5. CASE UNCHANGED vars
    BY <1>5, LifeStutters DEF vars
<1> QED
    BY <1>1, <1>2, <1>3, <1>4, <1>5 DEF Next

\* Every stream grows only along the legal life of a run: no step begins twice
\* or out of order, nothing follows RunCompleted, and a paused run goes on with
\* the step after the one that paused it.
THEOREM StreamsImplementLives == Spec => StreamsAreLives
<1> QED
    BY LifeInit, LifeNext, Invariant, PTL DEF Spec, StreamsAreLives, Lifecycle!Spec

-----------------------------------------------------------------------------
(* The dispatcher counts honestly, across every pause, resume, crash and   *)
(* interleaving.                                                           *)

\* The events that may be next in a stream, by where its last one left the run.
Follows(r, e) ==
    \/ e.type = "RunStarted" /\ e.index = 0 /\ LifeIs(r, "new", 0)
    \/ e.type = "StepStarted" /\ LifeIs(r, "ready", e.index)
    \/ e.type = "StepCompleted"
       /\ (LifeIs(r, "executing", e.index) \/ LifeIs(r, "paused", e.index))
    \/ e.type \in {"StepFailed", "StepEscalated"} /\ LifeIs(r, "executing", e.index)
    \/ e.type = "RunEscalated" /\ LifeIs(r, "pausing", e.index)
    \/ /\ e.type = "RunCompleted" /\ e.status = "COMPLETED"
       /\ LifeIs(r, "ready", e.count) /\ e.count = Len(route[r].plan)
    \/ /\ e.type = "RunCompleted" /\ e.status = "FAILED"
       /\ \/ e.count = 0 /\ LifeIs(r, "ready", 0)
          \/ \E i \in Nat : e.count = i + 1 /\ LifeIs(r, "failing", i)

Grows(r) == \E e \in Event : Append1(r, e) /\ Follows(r, e)

-----------------------------------------------------------------------------
(* Every event that is appended is one that may follow.                    *)

LEMMA DispatchFollows ==
    ASSUME IInv, NEW p \in Procs, NEW r \in Runs, Dispatch(p, r)
    PROVE  Grows(r)
<1>1. Append1(r, Ev("RunStarted", 0)) /\ LifeIs(r, "new", 0)
    BY DEF Dispatch, LifeIs, LifeOf
<1>2. /\ Ev("RunStarted", 0) \in Event /\ Ev("RunStarted", 0).type = "RunStarted"
      /\ Ev("RunStarted", 0).index = 0
    BY EventsOK DEF EventTypes
<1> QED
    BY <1>1, <1>2 DEF Grows, Follows

\* The events of a step are about the step the run has reached.
LEMMA StepFollows ==
    ASSUME IInv, NEW p \in Procs, pc[p] \in Owning,
           NEW type \in {"StepStarted", "StepCompleted", "StepFailed", "StepEscalated"},
           Append1(task[p].run, Ev(type, task[p].index)),
           type = "StepStarted" => pc[p] = "next",
           type = "StepCompleted" => pc[p] \in {"completed", "respond"},
           type = "StepFailed" => pc[p] = "failed",
           type = "StepEscalated" => pc[p] = "escalate"
    PROVE  task[p].run \in Runs /\ Grows(task[p].run)
<1> DEFINE r == task[p].run
           i == task[p].index
<1>1. r \in Runs /\ i \in Nat /\ OwnerAt(p)
    BY OwnerFacts
<1>2. Ev(type, i) \in Event /\ Ev(type, i).type = type /\ Ev(type, i).index = i
    BY <1>1, EventsOK DEF EventTypes
<1>3. Follows(r, Ev(type, i))
    BY <1>1, <1>2 DEF OwnerAt, At, Follows
<1> QED
    BY <1>1, <1>2, <1>3 DEF Grows

LEMMA AnnounceFollows ==
    ASSUME IInv, NEW p \in Procs, Announce(p)
    PROVE  task[p].run \in Runs /\ Grows(task[p].run)
<1> DEFINE r == task[p].run
           i == task[p].index
           n == task[p].escalations + 1
<1>1. pc[p] = "announce" /\ Append1(r, EscalatedEv(i, n))
    BY DEF Announce, Emit
<1>2. r \in Runs /\ i \in Nat /\ n \in Nat /\ LifeIs(r, "pausing", i)
    BY <1>1, OwnerFacts DEF Owning, OwnerAt, At, Task
<1>3. /\ EscalatedEv(i, n) \in Event /\ EscalatedEv(i, n).type = "RunEscalated"
      /\ EscalatedEv(i, n).index = i
    BY <1>2, EventsOK
<1> QED
    BY <1>1, <1>2, <1>3 DEF Grows, Follows

LEMMA CloseFollows ==
    ASSUME IInv, NEW p \in Procs, CloseCompleted(p) \/ CloseFailed(p)
    PROVE  task[p].run \in Runs /\ Grows(task[p].run)
<1> DEFINE r == task[p].run
           n == task[p].results
<1>1. PICK s \in {"COMPLETED", "FAILED"} :
          /\ pc[p] = IF s = "COMPLETED" THEN "close_completed" ELSE "close_failed"
          /\ Append1(r, ClosedEv(s, n))
    BY DEF CloseCompleted, CloseFailed, Close, Emit
<1>2. r \in Runs /\ n \in Nat /\ task[p].index \in Nat /\ OwnerAt(p)
    BY <1>1, OwnerFacts DEF Owning
<1>3. /\ ClosedEv(s, n) \in Event /\ ClosedEv(s, n).type = "RunCompleted"
      /\ ClosedEv(s, n).status = s /\ ClosedEv(s, n).count = n
    BY <1>2, EventsOK
<1>4. Follows(r, ClosedEv(s, n))
    BY <1>1, <1>2, <1>3 DEF OwnerAt, At, Plan, Follows
<1> QED
    BY <1>1, <1>2, <1>3, <1>4 DEF Grows

\* A step of the dispatcher leaves the streams alone, or lets one grow by an
\* event that may follow.
LEMMA StreamsFollow ==
    ASSUME IInv, [Next]_vars
    PROVE  /\ UNCHANGED route
           /\ UNCHANGED stream \/ \E r \in Runs : Grows(r)
<1>1. CASE UNCHANGED vars
    BY <1>1 DEF vars
<1>2. ASSUME NEW p \in Procs, NEW r \in Runs, Dispatch(p, r)
      PROVE  UNCHANGED route /\ Grows(r)
    BY <1>2, DispatchFollows DEF Dispatch
<1>3. ASSUME NEW p \in Procs, NEW t \in Tokens, Load(p, t) \/ Abort(p)
      PROVE  UNCHANGED <<route, stream>>
    BY <1>3 DEF Load, Abort
<1>4. ASSUME NEW p \in Procs, Abort(p)
      PROVE  UNCHANGED <<route, stream>>
    BY <1>4 DEF Abort
<1>5. ASSUME NEW p \in Procs, Proceed(p)
      PROVE  /\ UNCHANGED route
             /\ UNCHANGED stream \/ (task[p].run \in Runs /\ Grows(task[p].run))
    <2>1. CASE StartStep(p) \/ CompleteStep(p) \/ Accept(p) \/ FailStep(p) \/ EscalateStep(p)
        <3>1. /\ UNCHANGED route /\ pc[p] \in Owning
              /\ \E type \in {"StepStarted", "StepCompleted", "StepFailed", "StepEscalated"} :
                    /\ Append1(task[p].run, Ev(type, task[p].index))
                    /\ type = "StepStarted" => pc[p] = "next"
                    /\ type = "StepCompleted" => pc[p] \in {"completed", "respond"}
                    /\ type = "StepFailed" => pc[p] = "failed"
                    /\ type = "StepEscalated" => pc[p] = "escalate"
            BY <2>1 DEF StartStep, CompleteStep, Accept, FailStep, EscalateStep, Emit, Owning
        <3> QED
            BY <3>1, StepFollows
    <2>2. CASE Announce(p)
        BY <2>2, AnnounceFollows DEF Announce
    <2>3. CASE CloseCompleted(p) \/ CloseFailed(p)
        BY <2>3, CloseFollows DEF CloseCompleted, CloseFailed, Close
    <2>4. CASE PlanDone(p) \/ PollDeadJob(p) \/ NoExecutor(p) \/ PlanningError(p) \/ Execute(p)
        <3>1. route' = route /\ stream' = stream
            BY <2>4 DEF PlanDone, PollDeadJob, NoExecutor, PlanningError, Execute, StepCompletes, StepFails,
                        StepAsks
        <3> QED
            BY <3>1
    <2>5. CASE SavePending(p) \/ Consume(p) \/ Reject(p)
        <3>1. route' = route /\ stream' = stream
            BY <2>5 DEF SavePending, Consume, Reject
        <3> QED
            BY <3>1
    <2> QED
        BY <1>5, <2>1, <2>2, <2>3, <2>4, <2>5 DEF Proceed
<1> QED
    BY <1>1, <1>2, <1>3, <1>4, <1>5 DEF Next

-----------------------------------------------------------------------------
(* Counting the steps a stream shows.                                      *)

\* How many steps have begun, and which have been completed, by the life of r.
Begun(r) ==
    IF LifeOf(r).phase \in {"executing", "failing", "pausing", "paused"}
    THEN LifeOf(r).step + 1
    ELSE LifeOf(r).step

Completions(r, k) == {j \in Positions(r, "StepCompleted") : stream[r][j].index = k}

BegunCounted(r) ==
    /\ IsFiniteSet(Positions(r, "StepStarted"))
    /\ Cardinality(Positions(r, "StepStarted")) = Begun(r)

CompletedOnce(r) ==
    LifeOf(r).phase # "FAILED" =>
        \A k \in Nat : IF k < LifeOf(r).step
                       THEN \E j : Completions(r, k) = {j}
                       ELSE Completions(r, k) = {}

Counted(r) ==
    /\ LifeOf(r).step \in Nat
    /\ BegunCounted(r)
    /\ CompletedOnce(r)
    /\ LifeOf(r).phase = "COMPLETED" => LifeOf(r).step = Len(route[r].plan)

CountInv == \A r \in Runs : Counted(r)

\* The new event is the only new position.
LEMMA PositionsExactly ==
    ASSUME TypeOK, NEW r \in Runs, NEW e \in Event, Append1(r, e), NEW type
    PROVE  LET n == Len(stream[r]) + 1
           IN  /\ Positions(r, type)'
                      = IF e.type = type THEN Positions(r, type) \cup {n} ELSE Positions(r, type)
               /\ n \notin Positions(r, type)
               /\ stream'[r][n] = e
               /\ \A i \in Positions(r, type) : stream'[r][i] = stream[r][i]
<1> DEFINE n == Len(stream[r]) + 1
<1>1. Len(stream[r]) \in Nat
    BY DEF TypeOK
<1>2. /\ Len(stream'[r]) = n /\ stream'[r][n] = e
      /\ \A i \in 1..Len(stream[r]) : stream'[r][i] = stream[r][i]
    BY Appended
<1>3. 1..n = (1..Len(stream[r])) \cup {n} /\ n \notin 1..Len(stream[r])
    BY <1>1
<1> QED
    BY <1>2, <1>3 DEF Positions

LEMMA CompletionsExactly ==
    ASSUME TypeOK, NEW r \in Runs, NEW e \in Event, Append1(r, e), NEW k
    PROVE  Completions(r, k)'
               = IF e.type = "StepCompleted" /\ e.index = k
                 THEN Completions(r, k) \cup {Len(stream[r]) + 1}
                 ELSE Completions(r, k)
BY PositionsExactly DEF Completions

\* The life after an event that may follow.
LEMMA LifeFollows ==
    ASSUME TypeOK, NEW r \in Runs, NEW e \in Event, Append1(r, e), Follows(r, e),
           LifeOf(r).step \in Nat
    PROVE  LET life == LifeOf(r)
               next == LifeOf(r)'
           IN  /\ next.step \in Nat
               /\ e.type = "StepStarted" =>
                     /\ life.phase = "ready" /\ next.phase = "executing"
                     /\ next.step = life.step
               /\ e.type = "StepCompleted" =>
                     /\ life.phase \in {"executing", "paused"} /\ next.phase = "ready"
                     /\ e.index = life.step /\ next.step = life.step + 1
               /\ e.type \notin {"StepStarted", "StepCompleted"} =>
                     /\ Begun(r)' = Begun(r)
                     /\ next.phase # "FAILED" =>
                           life.phase # "FAILED" /\ next.step = life.step
                     /\ next.phase = "COMPLETED" => next.step = Len(route[r].plan)
<1>1. LifeOf(r)' = LifeAfter(e)
    BY LifeGrows
<1>2. /\ e.type \in EventTypes /\ e.index \in Nat /\ e.count \in Nat
    BY DEF Event
<1> QED
    BY <1>1, <1>2 DEF Follows, LifeIs, LifeAfter, PhaseAfter, Begun, EventTypes

LEMMA CountsGrow ==
    ASSUME TypeOK, NEW r \in Runs, NEW e \in Event, Append1(r, e), Follows(r, e),
           UNCHANGED route, Counted(r)
    PROVE  Counted(r)'
<1>1. LifeOf(r).step \in Nat /\ LifeOf(r)'.step \in Nat
    BY LifeFollows DEF Counted
<1>2. BegunCounted(r)'
    <2> DEFINE n == Len(stream[r]) + 1
               S == Positions(r, "StepStarted")
    <2>1. IsFiniteSet(S) /\ Cardinality(S) = Begun(r)
        BY DEF Counted, BegunCounted
    <2>2. n \notin S /\ S' = IF e.type = "StepStarted" THEN S \cup {n} ELSE S
        BY PositionsExactly
    <2>3. CASE e.type = "StepStarted"
        <3>1. Begun(r)' = Begun(r) + 1
            BY <1>1, <2>3, LifeFollows DEF Begun
        <3>2. IsFiniteSet(S \cup {n}) /\ Cardinality(S \cup {n}) = Begun(r) + 1
            BY <2>1, <2>2, FS_AddElement
        <3> QED
            BY <2>2, <2>3, <3>1, <3>2 DEF BegunCounted
    <2>4. CASE e.type # "StepStarted"
        <3>1. Begun(r)' = Begun(r)
            BY <1>1, <2>4, LifeFollows DEF Begun
        <3> QED
            BY <2>1, <2>2, <2>4, <3>1 DEF BegunCounted
    <2> QED
        BY <2>3, <2>4
<1>3. CompletedOnce(r)'
    <2> SUFFICES ASSUME LifeOf(r)'.phase # "FAILED", NEW k \in Nat
                 PROVE  IF k < LifeOf(r)'.step
                        THEN \E j : Completions(r, k)' = {j}
                        ELSE Completions(r, k)' = {}
        BY DEF CompletedOnce
    <2>1. LifeOf(r).phase # "FAILED"
        BY <1>1, LifeFollows
    <2>2. IF k < LifeOf(r).step THEN \E j : Completions(r, k) = {j} ELSE Completions(r, k) = {}
        BY <2>1 DEF Counted, CompletedOnce
    <2>3. CASE e.type = "StepCompleted" /\ e.index = k
        <3>1. k = LifeOf(r).step /\ LifeOf(r)'.step = k + 1
            BY <1>1, <2>3, LifeFollows
        <3>2. Completions(r, k)' = {Len(stream[r]) + 1}
            BY <2>2, <2>3, <3>1, CompletionsExactly
        <3>3. \E j : Completions(r, k)' = {j}
            BY <3>2
        <3>4. k < LifeOf(r)'.step
            BY <3>1
        <3> QED
            BY <3>3, <3>4
    <2>4. CASE ~(e.type = "StepCompleted" /\ e.index = k)
        <3>1. Completions(r, k)' = Completions(r, k)
            BY <2>4, CompletionsExactly
        <3>2. k < LifeOf(r)'.step <=> k < LifeOf(r).step
            BY <1>1, <2>4, LifeFollows
        <3> QED
            BY <2>2, <3>1, <3>2
    <2> QED
        BY <2>3, <2>4
<1>4. LifeOf(r)'.phase = "COMPLETED" => LifeOf(r)'.step = Len(route'[r].plan)
    BY <1>1, LifeFollows
<1> QED
    BY <1>1, <1>2, <1>3, <1>4 DEF Counted

LEMMA CountsStay ==
    ASSUME NEW r \in Runs, stream'[r] = stream[r], UNCHANGED route, Counted(r)
    PROVE  Counted(r)'
BY DEF Counted, BegunCounted, CompletedOnce, Completions, Begun, Positions, LifeOf, LastEvent

LEMMA CountInit == Init => CountInv
<1> SUFFICES ASSUME Init, NEW r \in Runs PROVE Counted(r)
    BY DEF CountInv
<1>1. stream[r] = <<>> /\ LifeOf(r) = [phase |-> "new", step |-> 0]
    BY DEF Init, LifeOf
<1>2. \A type : Positions(r, type) = {}
    BY <1>1 DEF Positions
<1>3. BegunCounted(r)
    <2>1. Begun(r) = 0
        BY <1>1 DEF Begun
    <2>2. IsFiniteSet({}) /\ Cardinality({}) = 0
        BY FS_EmptySet
    <2> QED
        BY <1>2, <2>1, <2>2 DEF BegunCounted
<1>4. CompletedOnce(r)
    <2>1. \A k : Completions(r, k) = {}
        BY <1>2 DEF Completions
    <2> QED
        BY <1>1, <2>1 DEF CompletedOnce
<1> QED
    BY <1>1, <1>3, <1>4 DEF Counted

LEMMA CountNext == IInv /\ CountInv /\ [Next]_vars => CountInv'
<1> SUFFICES ASSUME IInv, CountInv, [Next]_vars, NEW q \in Runs PROVE Counted(q)'
    BY DEF CountInv
<1>1. TypeOK /\ Counted(q) /\ UNCHANGED route
    BY StreamsFollow DEF IInv, CountInv
<1>2. CASE UNCHANGED stream
    BY <1>1, <1>2, CountsStay
<1>3. ASSUME NEW r \in Runs, Grows(r) PROVE Counted(q)'
    <2>1. PICK e \in Event : Append1(r, e) /\ Follows(r, e)
        BY <1>3 DEF Grows
    <2>2. CASE q = r
        BY <1>1, <2>1, <2>2, CountsGrow
    <2>3. CASE q # r
        <3>1. stream'[q] = stream[q]
            BY <1>1, <2>1, <2>3, Appended
        <3> QED
            BY <1>1, <3>1, CountsStay
    <2> QED
        BY <2>2, <2>3
<1> QED
    BY <1>2, <1>3, StreamsFollow

\* RunCompleted's step_count is the number of steps the stream shows as started,
\* and a COMPLETED run shows every step of its plan completed exactly once.
THEOREM CountsAreHonest == Spec => []StepCountHonest
<1>1. ASSUME IInv, CountInv PROVE StepCountHonest
    <2> SUFFICES ASSUME NEW r \in Runs, Closed(r)
                 PROVE  /\ LastEvent(r).count = Cardinality(Positions(r, "StepStarted"))
                        /\ LastEvent(r).status = "COMPLETED" =>
                              /\ LastEvent(r).count = Len(route[r].plan)
                              /\ \A i \in 1..Len(route[r].plan) :
                                    Cardinality({j \in Positions(r, "StepCompleted") :
                                                    stream[r][j].index = i - 1}) = 1
        BY DEF StepCountHonest
    <2>1. LifeOf(r) = [phase |-> LastEvent(r).status, step |-> LastEvent(r).count]
        BY DEF Closed, LifeOf, LifeAfter
    <2>2. Counted(r)
        BY <1>1 DEF CountInv
    <2>3. LastEvent(r).status \notin {"executing", "failing", "pausing", "paused"}
        <3>1. stream[r] \in Seq(Event) /\ stream[r] # <<>>
            BY <1>1 DEF IInv, TypeOK, Closed
        <3>2. LastEvent(r) \in Event
            BY <3>1 DEF LastEvent
        <3> QED
            BY <3>2 DEF Event
    <2>4. LastEvent(r).count = Cardinality(Positions(r, "StepStarted"))
        BY <2>1, <2>2, <2>3 DEF Counted, BegunCounted, Begun
    <2>5. ASSUME LastEvent(r).status = "COMPLETED"
          PROVE  LastEvent(r).count = Len(route[r].plan)
        BY <2>1, <2>2, <2>5 DEF Counted
    <2>6. ASSUME LastEvent(r).status = "COMPLETED", NEW i \in 1..Len(route[r].plan)
          PROVE  Cardinality(Completions(r, i - 1)) = 1
        <3>1. Len(route[r].plan) \in Nat
            BY <1>1, PlanLength DEF IInv
        <3>2. i - 1 \in Nat /\ i - 1 < LifeOf(r).step
            BY <2>1, <2>5, <2>6, <3>1
        <3>3. CompletedOnce(r) /\ LifeOf(r).phase # "FAILED"
            BY <2>1, <2>2, <2>6 DEF Counted
        <3>4. PICK j : Completions(r, i - 1) = {j}
            BY <3>2, <3>3 DEF CompletedOnce
        <3> QED
            BY <3>4, FS_Singleton
    <2> QED
        BY <2>4, <2>5, <2>6 DEF Completions
<1> QED
    BY <1>1, CountInit, CountNext, Invariant, PTL DEF Spec

=============================================================================
