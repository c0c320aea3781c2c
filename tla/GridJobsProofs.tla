--------------------------- MODULE GridJobsProofs ---------------------------
(***************************************************************************)
(* Theorems about GridJobs, for every number of jobs, cancelling threads   *)
(* and permits, and for every threshold of the monitor.                    *)
(***************************************************************************)
EXTENDS GridJobsInv, FiniteSetTheorems, TLAPS

-----------------------------------------------------------------------------
(* The semaphore.                                                          *)

\* Taking a permit puts a thread among the holders.
LEMMA PermitTaken ==
    ASSUME IInv, NEW j \in Jobs, Acquire(j)
    PROVE  PermitsCounted'
<1>1. Holders' = Holders \cup {j} /\ j \notin Holders
  BY DEF Acquire, Step, Holders, Holding, IInv, TypeOK
<1>2. /\ IsFiniteSet(Holders \cup {j})
      /\ Cardinality(Holders \cup {j}) = Cardinality(Holders) + 1
  BY <1>1, FS_AddElement DEF IInv, PermitsCounted
<1>3. Cardinality(Holders) \in Nat
  BY FS_CardinalityType DEF IInv, PermitsCounted
<1> QED BY <1>1, <1>2, <1>3, MaxConcurrentAssumption DEF Acquire, IInv, TypeOK, PermitsCounted

\* Leaving the "with" block, normally or not, gives one back.
LEMMA PermitReturned ==
    ASSUME IInv, NEW j \in Jobs, thread[j] \in Holding,
           \E k \in {"ended", "raised"} : thread' = [thread EXCEPT ![j] = k],
           permits' = permits + 1
    PROVE  PermitsCounted'
<1>1. Holders' = Holders \ {j} /\ j \in Holders
  BY DEF Holders, Holding, IInv, TypeOK
<1>2. /\ IsFiniteSet(Holders \ {j})
      /\ Cardinality(Holders \ {j}) = Cardinality(Holders) - 1
  BY <1>1, FS_RemoveElement DEF IInv, PermitsCounted
<1>3. Cardinality(Holders) \in Nat
  BY FS_CardinalityType DEF IInv, PermitsCounted
<1> QED BY <1>1, <1>2, <1>3, MaxConcurrentAssumption DEF IInv, TypeOK, PermitsCounted

\* Inside the block, and outside it, nothing changes hands.
LEMMA PermitsKept ==
    ASSUME IInv, Holders' = Holders, permits' = permits
    PROVE  PermitsCounted'
BY DEF IInv, PermitsCounted

LEMMA PermitsInRange ==
    ASSUME PermitsCounted', permits' \in Nat
    PROVE  permits' \in 0..MaxConcurrent
<1>1. Cardinality(Holders') \in Nat
  BY FS_CardinalityType DEF PermitsCounted
<1> QED BY <1>1, MaxConcurrentAssumption DEF PermitsCounted

LEMMA PermitsStep ==
    ASSUME IInv, Next
    PROVE  PermitsCounted'
<1>1. ASSUME NEW j \in Jobs, Submit(j) PROVE PermitsCounted'
  BY <1>1, PermitsKept DEF Submit, Step, Holding, Holders, IInv, TypeOK, threadVars
<1>2. ASSUME NEW j \in Jobs, Acquire(j) PROVE PermitsCounted'
  BY <1>2, PermitTaken
<1>3. ASSUME NEW j \in Jobs, Withdraw(j) PROVE PermitsCounted'
  BY <1>3, PermitsKept DEF Withdraw, Step, Holding, Withdrawn, Holders, IInv, TypeOK,
     threadVars
<1>4. ASSUME NEW j \in Jobs, GoAhead(j) PROVE PermitsCounted'
  BY <1>4, PermitsKept DEF GoAhead, Step, Holding, Withdrawn, Holders, IInv, TypeOK,
     threadVars
<1>5. ASSUME NEW j \in Jobs, Begin(j) PROVE PermitsCounted'
  BY <1>5, PermitsKept DEF Begin, Step, Holding, Holders, IInv, TypeOK, threadVars
<1>6. ASSUME NEW j \in Jobs, Spawn(j) PROVE PermitsCounted'
  BY <1>6, PermitsKept DEF Spawn, Step, Holding, Holders, IInv, TypeOK, threadVars
<1>7. ASSUME NEW j \in Jobs, Capture(j) PROVE PermitsCounted'
  BY <1>7, PermitsKept DEF Capture, Step, Holding, Holders, IInv, TypeOK, threadVars
<1>8. ASSUME NEW j \in Jobs, Communicate(j) PROVE PermitsCounted'
  BY <1>8, PermitsKept DEF Communicate, Step, Holding, VerdictOn, Reaped, Ending, Holders,
     IInv, TypeOK, threadVars
<1>9. ASSUME NEW j \in Jobs, PayloadRefused(j) PROVE PermitsCounted'
  <2>1. CASE permits' = permits + 1 /\ Step(j, "communicate", "raised")
    BY <2>1, PermitReturned DEF Step, Holding
  <2>2. CASE permits' = permits /\ Step(j, "communicate", "report")
    BY <2>2, PermitsKept DEF Step, Holders, Holding, IInv, TypeOK
  <2> QED BY <1>9, <2>1, <2>2 DEF PayloadRefused
<1>10. ASSUME NEW j \in Jobs, Report(j) PROVE PermitsCounted'
  BY <1>10, PermitsKept DEF Report, Step, Holding, Usage, Holders, IInv, TypeOK, threadVars
<1>11. ASSUME NEW j \in Jobs, Finish(j) PROVE PermitsCounted'
  BY <1>11, PermitsKept DEF Finish, Step, Holding, Finished, Holders, IInv, TypeOK,
     threadVars
<1>12. ASSUME NEW j \in Jobs, Release(j) PROVE PermitsCounted'
  BY <1>12, PermitReturned DEF Release, Step, Holding
<1>13. ASSUME NEW j \in Jobs, ReportRaises(j) PROVE PermitsCounted'
  BY <1>13, PermitReturned DEF ReportRaises, Step, Holding, Raised
<1>14. ASSUME NEW j \in Jobs, ChildExits(j) PROVE PermitsCounted'
  BY <1>14, PermitsKept DEF ChildExits, Holders, IInv, TypeOK, threadVars
<1>15. ASSUME NEW j \in Jobs, Tick(j) PROVE PermitsCounted'
  BY <1>15, PermitsKept DEF Tick, Holders, IInv, TypeOK, threadVars
<1>16. ASSUME NEW j \in Jobs, Observe(j) PROVE PermitsCounted'
  BY <1>16, PermitsKept DEF Observe, Holders, IInv, TypeOK, threadVars
<1>17. ASSUME NEW j \in Jobs, Judge(j) PROVE PermitsCounted'
  BY <1>17, PermitsKept DEF Judge, Holders, IInv, TypeOK, threadVars
<1>18. ASSUME NEW j \in Jobs, AppendDivergence(j) PROVE PermitsCounted'
  BY <1>18, PermitsKept DEF AppendDivergence, Warned, Holders, IInv, TypeOK, threadVars
<1>19. ASSUME NEW j \in Jobs, Return(j) \/ DivergenceRaises(j) PROVE PermitsCounted'
  BY <1>19, PermitsKept DEF Return, DivergenceRaises, Holders, IInv, TypeOK, threadVars
<1>20. ASSUME NEW c \in Cancellers, (\E j \in Jobs : Cancel(c, j)) \/ Look(c) \/ Kill(c)
      PROVE PermitsCounted'
  BY <1>20, PermitsKept DEF Cancel, Look, Kill, Holders, threadVars
<1> QED BY <1>1, <1>2, <1>3, <1>4, <1>5, <1>6, <1>7, <1>8, <1>9, <1>10, <1>11, <1>12, <1>13,
          <1>14, <1>15, <1>16, <1>17, <1>18, <1>19, <1>20
          DEF Next, ThreadStep, MonitorStep

-----------------------------------------------------------------------------
(* Types.                                                                  *)

\* TypeOK without the bound on the permits, which follows from PermitsCounted.
TypeBut ==
    /\ permits \in Nat
    /\ thread \in [Jobs -> ThreadStates]
    /\ child \in [Jobs -> {"none", "alive", "exited", "killed", "reaped"}]
    /\ outcome \in [Jobs -> Verdicts \cup {CancelledBeforeStart, None}]
    /\ started \in SUBSET Jobs /\ captured \in SUBSET started /\ done \in SUBSET Jobs
    /\ cancelled \in SUBSET Jobs /\ withdrawn \in SUBSET cancelled /\ warned \in SUBSET Watched
    /\ result \in [Jobs -> Verdicts \cup {CancelledBeforeStart, None}]
    /\ clock \in [Jobs -> 0..LastThreshold]
    /\ monitor \in [Jobs -> {"off", "head", "judge", "append", "returned", "raised"}]
    /\ canceller \in [Cancellers -> {"idle", "look", "kill"}]
    /\ target \in [Cancellers -> Jobs \cup {None}]

LEMMA TypeStep ==
    ASSUME IInv, Next
    PROVE  TypeBut'
<1>0. TypeBut /\ \A j \in Jobs : WatchInStep(j) /\ FlagsInStep(j)
  BY MaxConcurrentAssumption DEF IInv, TypeOK, TypeBut, JobInv
<1>1. ASSUME NEW j \in Jobs, Submit(j) PROVE TypeBut'
  BY <1>1, <1>0 DEF Submit, TypeBut, ThreadStates, Verdicts, Step, cancelVars
<1>2. ASSUME NEW j \in Jobs, Acquire(j) PROVE TypeBut'
  BY <1>2, <1>0 DEF Acquire, SlotFree, TypeBut, ThreadStates, Verdicts, Step, monitorVars,
     cancelVars
<1>3. ASSUME NEW j \in Jobs, Withdraw(j) PROVE TypeBut'
  BY <1>3, <1>0 DEF Withdraw, Withdrawn, TypeBut, ThreadStates, Verdicts, Step, monitorVars,
     cancelVars
<1>4. ASSUME NEW j \in Jobs, GoAhead(j) PROVE TypeBut'
  BY <1>4, <1>0 DEF GoAhead, Withdrawn, TypeBut, ThreadStates, Verdicts, Step, monitorVars,
     cancelVars
<1>5. ASSUME NEW j \in Jobs, Begin(j) PROVE TypeBut'
  BY <1>5, <1>0 DEF Begin, FlagsInStep, TypeBut, ThreadStates, Verdicts, Step, monitorVars,
     cancelVars
<1>6. ASSUME NEW j \in Jobs, Spawn(j) PROVE TypeBut'
  BY <1>6, <1>0 DEF Spawn, TypeBut, ThreadStates, Verdicts, Step, monitorVars, cancelVars
<1>7. ASSUME NEW j \in Jobs, Capture(j) PROVE TypeBut'
  BY <1>7, <1>0 DEF Capture, FlagsInStep, TypeBut, ThreadStates, Verdicts, Step,
     monitorVars, cancelVars
<1>8. ASSUME NEW j \in Jobs, Communicate(j) PROVE TypeBut'
  BY <1>8, <1>0 DEF Communicate, VerdictOn, Reaped, Ending, TypeBut, ThreadStates, Verdicts,
     Step, monitorVars, cancelVars
<1>9. ASSUME NEW j \in Jobs, PayloadRefused(j) PROVE TypeBut'
  BY <1>9, <1>0 DEF PayloadRefused, TypeBut, ThreadStates, Verdicts, Step, monitorVars,
     cancelVars
<1>10. ASSUME NEW j \in Jobs, Report(j) PROVE TypeBut'
  BY <1>10, <1>0 DEF Report, Usage, TypeBut, ThreadStates, Verdicts, Step, monitorVars,
     cancelVars
<1>11. ASSUME NEW j \in Jobs, Finish(j) PROVE TypeBut'
  BY <1>11, <1>0 DEF Finish, Finished, TypeBut, ThreadStates, Verdicts, Step, monitorVars,
     cancelVars
<1>12. ASSUME NEW j \in Jobs, Release(j) PROVE TypeBut'
  BY <1>12, <1>0 DEF Release, TypeBut, ThreadStates, Verdicts, Step, monitorVars, cancelVars
<1>13. ASSUME NEW j \in Jobs, ReportRaises(j) PROVE TypeBut'
  BY <1>13, <1>0 DEF ReportRaises, Raised, TypeBut, ThreadStates, Verdicts, Step,
     monitorVars, cancelVars
<1>14. ASSUME NEW j \in Jobs, ChildExits(j) PROVE TypeBut'
  BY <1>14, <1>0 DEF ChildExits, TypeBut, Verdicts, monitorVars, cancelVars
<1>15. ASSUME NEW j \in Jobs, Tick(j) PROVE TypeBut'
  BY <1>15, <1>0, TimesAssumption DEF Tick, TypeBut, LastThreshold, threadVars, monitorVars,
     cancelVars
<1>16. ASSUME NEW j \in Jobs, Observe(j) PROVE TypeBut'
  BY <1>16, <1>0 DEF Observe, TypeBut, threadVars, cancelVars
<1>17. ASSUME NEW j \in Jobs, Judge(j) PROVE TypeBut'
  BY <1>17, <1>0 DEF Judge, TypeBut, threadVars, cancelVars
<1>18. ASSUME NEW j \in Jobs, AppendDivergence(j) PROVE TypeBut'
  BY <1>18, <1>0 DEF AppendDivergence, Warned, WatchInStep, TypeBut, threadVars, cancelVars
<1>19. ASSUME NEW j \in Jobs, Return(j) \/ DivergenceRaises(j) PROVE TypeBut'
  BY <1>19, <1>0 DEF Return, DivergenceRaises, TypeBut, threadVars, cancelVars
<1>20. ASSUME NEW c \in Cancellers, NEW j \in Jobs, Cancel(c, j) PROVE TypeBut'
  BY <1>20, <1>0 DEF Cancel, TypeBut, threadVars, monitorVars
<1>21. ASSUME NEW c \in Cancellers, Look(c) PROVE TypeBut'
  BY <1>21, <1>0 DEF Look, TypeBut, threadVars, monitorVars
<1>22. ASSUME NEW c \in Cancellers, Kill(c) PROVE TypeBut'
  BY <1>22, <1>0 DEF Kill, TypeBut, Verdicts, monitorVars
<1> QED BY <1>1, <1>2, <1>3, <1>4, <1>5, <1>6, <1>7, <1>8, <1>9, <1>10, <1>11, <1>12, <1>13,
          <1>14, <1>15, <1>16, <1>17, <1>18, <1>19, <1>20, <1>21, <1>22
          DEF Next, ThreadStep, MonitorStep

LEMMA InitInv == Init => IInv
<1> SUFFICES ASSUME Init PROVE IInv
  OBVIOUS
<1>1. TypeOK
  BY MaxConcurrentAssumption, TimesAssumption DEF Init, TypeOK, ThreadStates, LastThreshold
<1>2. PermitsCounted
  <2>1. Holders = {}
    BY DEF Init, Holders, Holding
  <2> QED BY <2>1, FS_EmptySet, MaxConcurrentAssumption DEF Init, PermitsCounted
<1>3. Aimed
  BY DEF Init, Aimed
<1>4. ASSUME NEW j \in Jobs PROVE JobInv(j)
  BY DEF Init, JobInv, ChildOwned, FlagsInStep, ResultFits, WatchInStep, BeforeSpawn,
         Publishing
<1>5. ASSUME NEW j \in Jobs PROVE StreamInStep(j)
  BY DEF Init, StreamInStep, Reported, NoneOf, Events, Publishing
<1>6. SeenTyped
  BY DEF Init, SeenTyped
<1> QED BY <1>1, <1>2, <1>3, <1>4, <1>5, <1>6 DEF IInv

LEMMA AimedStep ==
    ASSUME IInv, Next
    PROVE  Aimed'
<1>0. Aimed /\ TypeOK
  BY DEF IInv
<1>1. ASSUME NEW j \in Jobs, Submit(j) PROVE Aimed'
  BY <1>1, <1>0 DEF Submit, Aimed, TypeOK, cancelVars
<1>2. ASSUME NEW j \in Jobs, Acquire(j) PROVE Aimed'
  BY <1>2, <1>0 DEF Acquire, SlotFree, Aimed, TypeOK, monitorVars, cancelVars
<1>3. ASSUME NEW j \in Jobs, Withdraw(j) PROVE Aimed'
  BY <1>3, <1>0 DEF Withdraw, Withdrawn, Aimed, TypeOK, monitorVars, cancelVars
<1>4. ASSUME NEW j \in Jobs, GoAhead(j) PROVE Aimed'
  BY <1>4, <1>0 DEF GoAhead, Withdrawn, Aimed, TypeOK, monitorVars, cancelVars
<1>5. ASSUME NEW j \in Jobs, Begin(j) PROVE Aimed'
  BY <1>5, <1>0 DEF Begin, Aimed, TypeOK, monitorVars, cancelVars
<1>6. ASSUME NEW j \in Jobs, Spawn(j) PROVE Aimed'
  BY <1>6, <1>0 DEF Spawn, Aimed, TypeOK, monitorVars, cancelVars
<1>7. ASSUME NEW j \in Jobs, Capture(j) PROVE Aimed'
  BY <1>7, <1>0 DEF Capture, Aimed, TypeOK, monitorVars, cancelVars
<1>8. ASSUME NEW j \in Jobs, Communicate(j) PROVE Aimed'
  BY <1>8, <1>0 DEF Communicate, VerdictOn, Reaped, Ending, Aimed, TypeOK, monitorVars,
     cancelVars
<1>9. ASSUME NEW j \in Jobs, PayloadRefused(j) PROVE Aimed'
  BY <1>9, <1>0 DEF PayloadRefused, Aimed, TypeOK, monitorVars, cancelVars
<1>10. ASSUME NEW j \in Jobs, Report(j) PROVE Aimed'
  BY <1>10, <1>0 DEF Report, Usage, Aimed, TypeOK, monitorVars, cancelVars
<1>11. ASSUME NEW j \in Jobs, Finish(j) PROVE Aimed'
  BY <1>11, <1>0 DEF Finish, Finished, Aimed, TypeOK, monitorVars, cancelVars
<1>12. ASSUME NEW j \in Jobs, Release(j) PROVE Aimed'
  BY <1>12, <1>0 DEF Release, Aimed, TypeOK, monitorVars, cancelVars
<1>13. ASSUME NEW j \in Jobs, ReportRaises(j) PROVE Aimed'
  BY <1>13, <1>0 DEF ReportRaises, Raised, Aimed, TypeOK, monitorVars, cancelVars
<1>14. ASSUME NEW j \in Jobs, ChildExits(j) PROVE Aimed'
  BY <1>14, <1>0 DEF ChildExits, Aimed, TypeOK, monitorVars, cancelVars
<1>15. ASSUME NEW j \in Jobs, Tick(j) PROVE Aimed'
  BY <1>15, <1>0 DEF Tick, Aimed, TypeOK, threadVars, monitorVars, cancelVars
<1>16. ASSUME NEW j \in Jobs, Observe(j) PROVE Aimed'
  BY <1>16, <1>0 DEF Observe, Aimed, TypeOK, threadVars, cancelVars
<1>17. ASSUME NEW j \in Jobs, Judge(j) PROVE Aimed'
  BY <1>17, <1>0 DEF Judge, Aimed, TypeOK, threadVars, cancelVars
<1>18. ASSUME NEW j \in Jobs, AppendDivergence(j) PROVE Aimed'
  BY <1>18, <1>0 DEF AppendDivergence, Warned, Aimed, TypeOK, threadVars, cancelVars
<1>19. ASSUME NEW j \in Jobs, Return(j) \/ DivergenceRaises(j) PROVE Aimed'
  BY <1>19, <1>0 DEF Return, DivergenceRaises, Aimed, TypeOK, threadVars, cancelVars
<1>20. ASSUME NEW c \in Cancellers, NEW j \in Jobs, Cancel(c, j) PROVE Aimed'
  BY <1>20, <1>0 DEF Cancel, Aimed, TypeOK, threadVars, monitorVars
<1>21. ASSUME NEW c \in Cancellers, Look(c) PROVE Aimed'
  BY <1>21, <1>0 DEF Look, Aimed, TypeOK, threadVars, monitorVars
<1>22. ASSUME NEW c \in Cancellers, Kill(c) PROVE Aimed'
  BY <1>22, <1>0 DEF Kill, Aimed, TypeOK, monitorVars
<1> QED BY <1>1, <1>2, <1>3, <1>4, <1>5, <1>6, <1>7, <1>8, <1>9, <1>10, <1>11, <1>12, <1>13,
          <1>14, <1>15, <1>16, <1>17, <1>18, <1>19, <1>20, <1>21, <1>22
          DEF Next, ThreadStep, MonitorStep

LEMMA SeenStep ==
    ASSUME IInv, Next
    PROVE  SeenTyped'
<1>0. SeenTyped /\ \A j \in Jobs : WatchInStep(j)
  BY DEF IInv, JobInv
<1>1. ASSUME NEW j \in Jobs, Submit(j) PROVE SeenTyped'
  BY <1>1, <1>0 DEF Submit, SeenTyped, cancelVars
<1>2. ASSUME NEW j \in Jobs, Acquire(j) PROVE SeenTyped'
  BY <1>2, <1>0 DEF Acquire, SlotFree, SeenTyped, monitorVars, cancelVars
<1>3. ASSUME NEW j \in Jobs, Withdraw(j) PROVE SeenTyped'
  BY <1>3, <1>0 DEF Withdraw, Withdrawn, SeenTyped, monitorVars, cancelVars
<1>4. ASSUME NEW j \in Jobs, GoAhead(j) PROVE SeenTyped'
  BY <1>4, <1>0 DEF GoAhead, Withdrawn, SeenTyped, monitorVars, cancelVars
<1>5. ASSUME NEW j \in Jobs, Begin(j) PROVE SeenTyped'
  BY <1>5, <1>0 DEF Begin, SeenTyped, monitorVars, cancelVars
<1>6. ASSUME NEW j \in Jobs, Spawn(j) PROVE SeenTyped'
  BY <1>6, <1>0 DEF Spawn, SeenTyped, monitorVars, cancelVars
<1>7. ASSUME NEW j \in Jobs, Capture(j) PROVE SeenTyped'
  BY <1>7, <1>0 DEF Capture, SeenTyped, monitorVars, cancelVars
<1>8. ASSUME NEW j \in Jobs, Communicate(j) PROVE SeenTyped'
  BY <1>8, <1>0 DEF Communicate, VerdictOn, Reaped, Ending, SeenTyped, monitorVars,
     cancelVars
<1>9. ASSUME NEW j \in Jobs, PayloadRefused(j) PROVE SeenTyped'
  BY <1>9, <1>0 DEF PayloadRefused, SeenTyped, monitorVars, cancelVars
<1>10. ASSUME NEW j \in Jobs, Report(j) PROVE SeenTyped'
  <2>1. Append(stream[j], Measured) \in Seq({Measured} \cup Divergences)
    BY <1>0 DEF SeenTyped
  <2> QED BY <1>10, <1>0, <2>1 DEF Report, Usage, SeenTyped, monitorVars
<1>11. ASSUME NEW j \in Jobs, Finish(j) PROVE SeenTyped'
  BY <1>11, <1>0 DEF Finish, Finished, SeenTyped, monitorVars, cancelVars
<1>12. ASSUME NEW j \in Jobs, Release(j) PROVE SeenTyped'
  BY <1>12, <1>0 DEF Release, SeenTyped, monitorVars, cancelVars
<1>13. ASSUME NEW j \in Jobs, ReportRaises(j) PROVE SeenTyped'
  BY <1>13, <1>0 DEF ReportRaises, Raised, SeenTyped, monitorVars, cancelVars
<1>14. ASSUME NEW j \in Jobs, ChildExits(j) PROVE SeenTyped'
  BY <1>14, <1>0 DEF ChildExits, SeenTyped, monitorVars, cancelVars
<1>15. ASSUME NEW j \in Jobs, Tick(j) PROVE SeenTyped'
  BY <1>15, <1>0 DEF Tick, SeenTyped, threadVars, monitorVars, cancelVars
<1>16. ASSUME NEW j \in Jobs, Observe(j) PROVE SeenTyped'
  <2>1. [started |-> j \in started, expected |-> ExpectedPhase(j \in started, clock[j])] \in Looks
    BY DEF ExpectedPhase, Phases, Looks
  <2> QED BY <1>16, <1>0, <2>1 DEF Observe, SeenTyped, threadVars
<1>17. ASSUME NEW j \in Jobs, Judge(j) PROVE SeenTyped'
  <2>1. sample[j] \in Looks
    BY <1>17, <1>0 DEF Judge, WatchInStep
  <2>2. Diverged(sample[j].expected, ObservedPhase(sample[j].started, j \in done)) \in Divergences
    BY <2>1 DEF Diverged, Divergences, ObservedPhase, Looks, Phases
  <2>3. \E x \in {None} \cup Divergences : sample' = [sample EXCEPT ![j] = x]
    BY <1>17, <2>2 DEF Judge
  <2> QED BY <1>17, <1>0, <2>3 DEF Judge, SeenTyped
<1>18. ASSUME NEW j \in Jobs, AppendDivergence(j) PROVE SeenTyped'
  <2>1. sample[j] \in Divergences
    BY <1>18, <1>0 DEF AppendDivergence, WatchInStep
  <2>2. Append(stream[j], sample[j]) \in Seq({Measured} \cup Divergences)
    BY <1>0, <2>1 DEF SeenTyped
  <2> QED BY <1>18, <1>0, <2>2 DEF AppendDivergence, SeenTyped
<1>19. ASSUME NEW j \in Jobs, Return(j) \/ DivergenceRaises(j) PROVE SeenTyped'
  BY <1>19, <1>0 DEF Return, DivergenceRaises, SeenTyped, threadVars, cancelVars
<1>20. ASSUME NEW c \in Cancellers, NEW j \in Jobs, Cancel(c, j) PROVE SeenTyped'
  BY <1>20, <1>0 DEF Cancel, SeenTyped, threadVars, monitorVars
<1>21. ASSUME NEW c \in Cancellers, Look(c) PROVE SeenTyped'
  BY <1>21, <1>0 DEF Look, SeenTyped, threadVars, monitorVars
<1>22. ASSUME NEW c \in Cancellers, Kill(c) PROVE SeenTyped'
  BY <1>22, <1>0 DEF Kill, SeenTyped, monitorVars
<1> QED BY <1>1, <1>2, <1>3, <1>4, <1>5, <1>6, <1>7, <1>8, <1>9, <1>10, <1>11, <1>12, <1>13,
          <1>14, <1>15, <1>16, <1>17, <1>18, <1>19, <1>20, <1>21, <1>22
          DEF Next, ThreadStep, MonitorStep

-----------------------------------------------------------------------------
(* Every job.                                                              *)

LEMMA ChildStep ==
    ASSUME IInv, Next, NEW k \in Jobs
    PROVE  ChildOwned(k)'
<1>0. TypeOK /\ ChildOwned(k) /\ FlagsInStep(k) /\ Aimed
  BY DEF IInv, JobInv
<1>1. ASSUME NEW j \in Jobs, Submit(j) PROVE ChildOwned(k)'
  BY <1>1, <1>0 DEF Submit, TypeOK, ChildOwned, FlagsInStep, BeforeSpawn, Publishing, Step,
     cancelVars
<1>2. ASSUME NEW j \in Jobs, Acquire(j) PROVE ChildOwned(k)'
  BY <1>2, <1>0 DEF Acquire, SlotFree, TypeOK, ChildOwned, FlagsInStep, BeforeSpawn,
     Publishing, Step, monitorVars, cancelVars
<1>3. ASSUME NEW j \in Jobs, Withdraw(j) PROVE ChildOwned(k)'
  BY <1>3, <1>0 DEF Withdraw, Withdrawn, TypeOK, ChildOwned, FlagsInStep, BeforeSpawn,
     Publishing, Step, monitorVars, cancelVars
<1>4. ASSUME NEW j \in Jobs, GoAhead(j) PROVE ChildOwned(k)'
  BY <1>4, <1>0 DEF GoAhead, Withdrawn, TypeOK, ChildOwned, FlagsInStep, BeforeSpawn,
     Publishing, Step, monitorVars, cancelVars
<1>5. ASSUME NEW j \in Jobs, Begin(j) PROVE ChildOwned(k)'
  BY <1>5, <1>0 DEF Begin, TypeOK, ChildOwned, FlagsInStep, BeforeSpawn, Publishing, Step,
     monitorVars, cancelVars
<1>6. ASSUME NEW j \in Jobs, Spawn(j) PROVE ChildOwned(k)'
  BY <1>6, <1>0 DEF Spawn, TypeOK, ChildOwned, FlagsInStep, BeforeSpawn, Publishing, Step,
     monitorVars, cancelVars
<1>7. ASSUME NEW j \in Jobs, Capture(j) PROVE ChildOwned(k)'
  BY <1>7, <1>0 DEF Capture, TypeOK, ChildOwned, FlagsInStep, BeforeSpawn, Publishing, Step,
     monitorVars, cancelVars
<1>8. ASSUME NEW j \in Jobs, Communicate(j) PROVE ChildOwned(k)'
  BY <1>8, <1>0 DEF Communicate, VerdictOn, Reaped, Ending, TypeOK, ChildOwned, FlagsInStep,
     BeforeSpawn, Publishing, Step, monitorVars, cancelVars
<1>9. ASSUME NEW j \in Jobs, PayloadRefused(j) PROVE ChildOwned(k)'
  BY <1>9, <1>0 DEF PayloadRefused, TypeOK, ChildOwned, FlagsInStep, BeforeSpawn,
     Publishing, Step, monitorVars, cancelVars
<1>10. ASSUME NEW j \in Jobs, Report(j) PROVE ChildOwned(k)'
  BY <1>10, <1>0 DEF Report, Usage, TypeOK, ChildOwned, FlagsInStep, BeforeSpawn,
     Publishing, Step, monitorVars, cancelVars
<1>11. ASSUME NEW j \in Jobs, Finish(j) PROVE ChildOwned(k)'
  BY <1>11, <1>0 DEF Finish, Finished, TypeOK, ChildOwned, FlagsInStep, BeforeSpawn,
     Publishing, Step, monitorVars, cancelVars
<1>12. ASSUME NEW j \in Jobs, Release(j) PROVE ChildOwned(k)'
  BY <1>12, <1>0 DEF Release, TypeOK, ChildOwned, FlagsInStep, BeforeSpawn, Publishing,
     Step, monitorVars, cancelVars
<1>13. ASSUME NEW j \in Jobs, ReportRaises(j) PROVE ChildOwned(k)'
  BY <1>13, <1>0 DEF ReportRaises, Raised, TypeOK, ChildOwned, FlagsInStep, BeforeSpawn,
     Publishing, Step, monitorVars, cancelVars
<1>14. ASSUME NEW j \in Jobs, ChildExits(j) PROVE ChildOwned(k)'
  BY <1>14, <1>0 DEF ChildExits, TypeOK, ChildOwned, FlagsInStep, monitorVars, cancelVars
<1>15. ASSUME NEW j \in Jobs, Tick(j) PROVE ChildOwned(k)'
  BY <1>15, <1>0 DEF Tick, TypeOK, ChildOwned, FlagsInStep, threadVars, monitorVars,
     cancelVars
<1>16. ASSUME NEW j \in Jobs, Observe(j) PROVE ChildOwned(k)'
  BY <1>16, <1>0 DEF Observe, TypeOK, ChildOwned, FlagsInStep, threadVars, cancelVars
<1>17. ASSUME NEW j \in Jobs, Judge(j) PROVE ChildOwned(k)'
  BY <1>17, <1>0 DEF Judge, TypeOK, ChildOwned, FlagsInStep, threadVars, cancelVars
<1>18. ASSUME NEW j \in Jobs, AppendDivergence(j) PROVE ChildOwned(k)'
  BY <1>18, <1>0 DEF AppendDivergence, Warned, TypeOK, ChildOwned, FlagsInStep, threadVars,
     cancelVars
<1>19. ASSUME NEW j \in Jobs, Return(j) \/ DivergenceRaises(j) PROVE ChildOwned(k)'
  BY <1>19, <1>0 DEF Return, DivergenceRaises, TypeOK, ChildOwned, FlagsInStep, threadVars, cancelVars
<1>20. ASSUME NEW c \in Cancellers, NEW j \in Jobs, Cancel(c, j) PROVE ChildOwned(k)'
  BY <1>20, <1>0 DEF Cancel, TypeOK, ChildOwned, FlagsInStep, threadVars, monitorVars
<1>21. ASSUME NEW c \in Cancellers, Look(c) PROVE ChildOwned(k)'
  BY <1>21, <1>0 DEF Look, TypeOK, ChildOwned, FlagsInStep, threadVars, monitorVars
<1>22. ASSUME NEW c \in Cancellers, Kill(c) PROVE ChildOwned(k)'
  BY <1>22, <1>0 DEF Kill, Aimed, TypeOK, ChildOwned, FlagsInStep, monitorVars
<1> QED BY <1>1, <1>2, <1>3, <1>4, <1>5, <1>6, <1>7, <1>8, <1>9, <1>10, <1>11, <1>12, <1>13,
          <1>14, <1>15, <1>16, <1>17, <1>18, <1>19, <1>20, <1>21, <1>22
          DEF Next, ThreadStep, MonitorStep

LEMMA FlagsStep ==
    ASSUME IInv, Next, NEW k \in Jobs
    PROVE  FlagsInStep(k)'
<1>0. TypeOK /\ FlagsInStep(k)
  BY DEF IInv, JobInv
<1>1. ASSUME NEW j \in Jobs, Submit(j) PROVE FlagsInStep(k)'
  BY <1>1, <1>0 DEF Submit, TypeOK, FlagsInStep, Publishing, Step, cancelVars
<1>2. ASSUME NEW j \in Jobs, Acquire(j) PROVE FlagsInStep(k)'
  BY <1>2, <1>0 DEF Acquire, SlotFree, TypeOK, FlagsInStep, Publishing, Step, monitorVars,
     cancelVars
<1>3. ASSUME NEW j \in Jobs, Withdraw(j) PROVE FlagsInStep(k)'
  BY <1>3, <1>0 DEF Withdraw, Withdrawn, TypeOK, FlagsInStep, Publishing, Step, monitorVars,
     cancelVars
<1>4. ASSUME NEW j \in Jobs, GoAhead(j) PROVE FlagsInStep(k)'
  BY <1>4, <1>0 DEF GoAhead, Withdrawn, TypeOK, FlagsInStep, Publishing, Step, monitorVars,
     cancelVars
<1>5. ASSUME NEW j \in Jobs, Begin(j) PROVE FlagsInStep(k)'
  BY <1>5, <1>0 DEF Begin, TypeOK, FlagsInStep, Publishing, Step, monitorVars, cancelVars
<1>6. ASSUME NEW j \in Jobs, Spawn(j) PROVE FlagsInStep(k)'
  BY <1>6, <1>0 DEF Spawn, TypeOK, FlagsInStep, Publishing, Step, monitorVars, cancelVars
<1>7. ASSUME NEW j \in Jobs, Capture(j) PROVE FlagsInStep(k)'
  BY <1>7, <1>0 DEF Capture, TypeOK, FlagsInStep, Publishing, Step, monitorVars, cancelVars
<1>8. ASSUME NEW j \in Jobs, Communicate(j) PROVE FlagsInStep(k)'
  BY <1>8, <1>0 DEF Communicate, VerdictOn, Reaped, Ending, TypeOK, FlagsInStep, Publishing,
     Step, monitorVars, cancelVars
<1>9. ASSUME NEW j \in Jobs, PayloadRefused(j) PROVE FlagsInStep(k)'
  BY <1>9, <1>0 DEF PayloadRefused, TypeOK, FlagsInStep, Publishing, Step, monitorVars,
     cancelVars
<1>10. ASSUME NEW j \in Jobs, Report(j) PROVE FlagsInStep(k)'
  BY <1>10, <1>0 DEF Report, Usage, TypeOK, FlagsInStep, Publishing, Step, monitorVars,
     cancelVars
<1>11. ASSUME NEW j \in Jobs, Finish(j) PROVE FlagsInStep(k)'
  BY <1>11, <1>0 DEF Finish, Finished, TypeOK, FlagsInStep, Publishing, Step, monitorVars,
     cancelVars
<1>12. ASSUME NEW j \in Jobs, Release(j) PROVE FlagsInStep(k)'
  BY <1>12, <1>0 DEF Release, TypeOK, FlagsInStep, Publishing, Step, monitorVars, cancelVars
<1>13. ASSUME NEW j \in Jobs, ReportRaises(j) PROVE FlagsInStep(k)'
  BY <1>13, <1>0 DEF ReportRaises, Raised, TypeOK, FlagsInStep, Publishing, Step,
     monitorVars, cancelVars
<1>14. ASSUME NEW j \in Jobs, ChildExits(j) PROVE FlagsInStep(k)'
  BY <1>14, <1>0 DEF ChildExits, TypeOK, FlagsInStep, monitorVars, cancelVars
<1>15. ASSUME NEW j \in Jobs, Tick(j) PROVE FlagsInStep(k)'
  BY <1>15, <1>0 DEF Tick, TypeOK, FlagsInStep, threadVars, monitorVars, cancelVars
<1>16. ASSUME NEW j \in Jobs, Observe(j) PROVE FlagsInStep(k)'
  BY <1>16, <1>0 DEF Observe, TypeOK, FlagsInStep, threadVars, cancelVars
<1>17. ASSUME NEW j \in Jobs, Judge(j) PROVE FlagsInStep(k)'
  BY <1>17, <1>0 DEF Judge, TypeOK, FlagsInStep, threadVars, cancelVars
<1>18. ASSUME NEW j \in Jobs, AppendDivergence(j) PROVE FlagsInStep(k)'
  BY <1>18, <1>0 DEF AppendDivergence, Warned, TypeOK, FlagsInStep, threadVars, cancelVars
<1>19. ASSUME NEW j \in Jobs, Return(j) \/ DivergenceRaises(j) PROVE FlagsInStep(k)'
  BY <1>19, <1>0 DEF Return, DivergenceRaises, TypeOK, FlagsInStep, threadVars, cancelVars
<1>20. ASSUME NEW c \in Cancellers, NEW j \in Jobs, Cancel(c, j) PROVE FlagsInStep(k)'
  BY <1>20, <1>0 DEF Cancel, TypeOK, FlagsInStep, threadVars, monitorVars
<1>21. ASSUME NEW c \in Cancellers, Look(c) PROVE FlagsInStep(k)'
  BY <1>21, <1>0 DEF Look, TypeOK, FlagsInStep, threadVars, monitorVars
<1>22. ASSUME NEW c \in Cancellers, Kill(c) PROVE FlagsInStep(k)'
  BY <1>22, <1>0 DEF Kill, TypeOK, FlagsInStep, monitorVars
<1> QED BY <1>1, <1>2, <1>3, <1>4, <1>5, <1>6, <1>7, <1>8, <1>9, <1>10, <1>11, <1>12, <1>13,
          <1>14, <1>15, <1>16, <1>17, <1>18, <1>19, <1>20, <1>21, <1>22
          DEF Next, ThreadStep, MonitorStep

LEMMA ResultStep ==
    ASSUME IInv, Next, NEW k \in Jobs
    PROVE  ResultFits(k)'
<1>0. TypeOK /\ FlagsInStep(k) /\ ResultFits(k)
  BY DEF IInv, JobInv
<1>1. ASSUME NEW j \in Jobs, Submit(j) PROVE ResultFits(k)'
  BY <1>1, <1>0 DEF Submit, TypeOK, FlagsInStep, ResultFits, Fits, Verdicts, Publishing,
     Step, cancelVars
<1>2. ASSUME NEW j \in Jobs, Acquire(j) PROVE ResultFits(k)'
  BY <1>2, <1>0 DEF Acquire, SlotFree, TypeOK, FlagsInStep, ResultFits, Fits, Verdicts,
     Publishing, Step, monitorVars, cancelVars
<1>3. ASSUME NEW j \in Jobs, Withdraw(j) PROVE ResultFits(k)'
  BY <1>3, <1>0 DEF Withdraw, Withdrawn, TypeOK, FlagsInStep, ResultFits, Fits, Verdicts,
     CancelledBeforeStart, Publishing, Step, monitorVars, cancelVars
<1>4. ASSUME NEW j \in Jobs, GoAhead(j) PROVE ResultFits(k)'
  BY <1>4, <1>0 DEF GoAhead, Withdrawn, TypeOK, FlagsInStep, ResultFits, Fits, Verdicts,
     Publishing, Step, monitorVars, cancelVars
<1>5. ASSUME NEW j \in Jobs, Begin(j) PROVE ResultFits(k)'
  BY <1>5, <1>0 DEF Begin, TypeOK, FlagsInStep, ResultFits, Fits, Verdicts, Publishing,
     Step, monitorVars, cancelVars
<1>6. ASSUME NEW j \in Jobs, Spawn(j) PROVE ResultFits(k)'
  BY <1>6, <1>0 DEF Spawn, TypeOK, FlagsInStep, ResultFits, Fits, Verdicts, Publishing,
     Step, monitorVars, cancelVars
<1>7. ASSUME NEW j \in Jobs, Capture(j) PROVE ResultFits(k)'
  BY <1>7, <1>0 DEF Capture, TypeOK, FlagsInStep, ResultFits, Fits, Verdicts, Publishing,
     Step, monitorVars, cancelVars
<1>8. ASSUME NEW j \in Jobs, Communicate(j) PROVE ResultFits(k)'
  BY <1>8, <1>0 DEF Communicate, VerdictOn, Reaped, Ending, TypeOK, FlagsInStep, ResultFits,
     Fits, Verdicts, Publishing, Step, monitorVars, cancelVars
<1>9. ASSUME NEW j \in Jobs, PayloadRefused(j) PROVE ResultFits(k)'
  BY <1>9, <1>0 DEF PayloadRefused, TypeOK, FlagsInStep, ResultFits, Fits, Verdicts,
     Publishing, Step, monitorVars, cancelVars
<1>10. ASSUME NEW j \in Jobs, Report(j) PROVE ResultFits(k)'
  BY <1>10, <1>0 DEF Report, Usage, TypeOK, FlagsInStep, ResultFits, Fits, Verdicts,
     Publishing, Step, monitorVars, cancelVars
<1>11. ASSUME NEW j \in Jobs, Finish(j) PROVE ResultFits(k)'
  BY <1>11, <1>0 DEF Finish, Finished, TypeOK, FlagsInStep, ResultFits, Fits, Verdicts,
     CancelledBeforeStart, Publishing, Step, monitorVars, cancelVars
<1>12. ASSUME NEW j \in Jobs, Release(j) PROVE ResultFits(k)'
  BY <1>12, <1>0 DEF Release, TypeOK, FlagsInStep, ResultFits, Fits, Verdicts, Publishing,
     Step, monitorVars, cancelVars
<1>13. ASSUME NEW j \in Jobs, ReportRaises(j) PROVE ResultFits(k)'
  BY <1>13, <1>0 DEF ReportRaises, Raised, TypeOK, FlagsInStep, ResultFits, Fits, Verdicts,
     Publishing, Step, monitorVars, cancelVars
<1>14. ASSUME NEW j \in Jobs, ChildExits(j) PROVE ResultFits(k)'
  BY <1>14, <1>0 DEF ChildExits, TypeOK, FlagsInStep, ResultFits, Fits, Verdicts,
     monitorVars, cancelVars
<1>15. ASSUME NEW j \in Jobs, Tick(j) PROVE ResultFits(k)'
  BY <1>15, <1>0 DEF Tick, TypeOK, FlagsInStep, ResultFits, Fits, threadVars, monitorVars,
     cancelVars
<1>16. ASSUME NEW j \in Jobs, Observe(j) PROVE ResultFits(k)'
  BY <1>16, <1>0 DEF Observe, TypeOK, FlagsInStep, ResultFits, Fits, threadVars, cancelVars
<1>17. ASSUME NEW j \in Jobs, Judge(j) PROVE ResultFits(k)'
  BY <1>17, <1>0 DEF Judge, TypeOK, FlagsInStep, ResultFits, Fits, threadVars, cancelVars
<1>18. ASSUME NEW j \in Jobs, AppendDivergence(j) PROVE ResultFits(k)'
  BY <1>18, <1>0 DEF AppendDivergence, Warned, TypeOK, FlagsInStep, ResultFits, Fits,
     threadVars, cancelVars
<1>19. ASSUME NEW j \in Jobs, Return(j) \/ DivergenceRaises(j) PROVE ResultFits(k)'
  BY <1>19, <1>0 DEF Return, DivergenceRaises, TypeOK, FlagsInStep, ResultFits, Fits, threadVars, cancelVars
<1>20. ASSUME NEW c \in Cancellers, NEW j \in Jobs, Cancel(c, j) PROVE ResultFits(k)'
  BY <1>20, <1>0 DEF Cancel, TypeOK, FlagsInStep, ResultFits, Fits, threadVars, monitorVars
<1>21. ASSUME NEW c \in Cancellers, Look(c) PROVE ResultFits(k)'
  BY <1>21, <1>0 DEF Look, TypeOK, FlagsInStep, ResultFits, Fits, threadVars, monitorVars
<1>22. ASSUME NEW c \in Cancellers, Kill(c) PROVE ResultFits(k)'
  BY <1>22, <1>0 DEF Kill, TypeOK, FlagsInStep, ResultFits, Fits, Verdicts, monitorVars
<1> QED BY <1>1, <1>2, <1>3, <1>4, <1>5, <1>6, <1>7, <1>8, <1>9, <1>10, <1>11, <1>12, <1>13,
          <1>14, <1>15, <1>16, <1>17, <1>18, <1>19, <1>20, <1>21, <1>22
          DEF Next, ThreadStep, MonitorStep

LEMMA WatchStep ==
    ASSUME IInv, Next, NEW k \in Jobs
    PROVE  WatchInStep(k)'
<1>0. TypeOK /\ WatchInStep(k) /\ SeenTyped
  BY DEF IInv, JobInv
<1>1. ASSUME NEW j \in Jobs, Submit(j) PROVE WatchInStep(k)'
  BY <1>1, <1>0 DEF Submit, TypeOK, WatchInStep, SeenTyped, Step, cancelVars
<1>2. ASSUME NEW j \in Jobs, Acquire(j) PROVE WatchInStep(k)'
  BY <1>2, <1>0 DEF Acquire, SlotFree, TypeOK, WatchInStep, SeenTyped, Step, monitorVars,
     cancelVars
<1>3. ASSUME NEW j \in Jobs, Withdraw(j) PROVE WatchInStep(k)'
  BY <1>3, <1>0 DEF Withdraw, Withdrawn, TypeOK, WatchInStep, SeenTyped, Step, monitorVars,
     cancelVars
<1>4. ASSUME NEW j \in Jobs, GoAhead(j) PROVE WatchInStep(k)'
  BY <1>4, <1>0 DEF GoAhead, Withdrawn, TypeOK, WatchInStep, SeenTyped, Step, monitorVars,
     cancelVars
<1>5. ASSUME NEW j \in Jobs, Begin(j) PROVE WatchInStep(k)'
  BY <1>5, <1>0 DEF Begin, TypeOK, WatchInStep, SeenTyped, Step, monitorVars, cancelVars
<1>6. ASSUME NEW j \in Jobs, Spawn(j) PROVE WatchInStep(k)'
  BY <1>6, <1>0 DEF Spawn, TypeOK, WatchInStep, SeenTyped, Step, monitorVars, cancelVars
<1>7. ASSUME NEW j \in Jobs, Capture(j) PROVE WatchInStep(k)'
  BY <1>7, <1>0 DEF Capture, TypeOK, WatchInStep, SeenTyped, Step, monitorVars, cancelVars
<1>8. ASSUME NEW j \in Jobs, Communicate(j) PROVE WatchInStep(k)'
  BY <1>8, <1>0 DEF Communicate, VerdictOn, Reaped, Ending, TypeOK, WatchInStep, SeenTyped,
     Step, monitorVars, cancelVars
<1>9. ASSUME NEW j \in Jobs, PayloadRefused(j) PROVE WatchInStep(k)'
  BY <1>9, <1>0 DEF PayloadRefused, TypeOK, WatchInStep, SeenTyped, Step, monitorVars,
     cancelVars
<1>10. ASSUME NEW j \in Jobs, Report(j) PROVE WatchInStep(k)'
  BY <1>10, <1>0 DEF Report, Usage, TypeOK, WatchInStep, SeenTyped, Step, monitorVars,
     cancelVars
<1>11. ASSUME NEW j \in Jobs, Finish(j) PROVE WatchInStep(k)'
  BY <1>11, <1>0 DEF Finish, Finished, TypeOK, WatchInStep, SeenTyped, Step, monitorVars,
     cancelVars
<1>12. ASSUME NEW j \in Jobs, Release(j) PROVE WatchInStep(k)'
  BY <1>12, <1>0 DEF Release, TypeOK, WatchInStep, SeenTyped, Step, monitorVars, cancelVars
<1>13. ASSUME NEW j \in Jobs, ReportRaises(j) PROVE WatchInStep(k)'
  BY <1>13, <1>0 DEF ReportRaises, Raised, TypeOK, WatchInStep, SeenTyped, Step,
     monitorVars, cancelVars
<1>14. ASSUME NEW j \in Jobs, ChildExits(j) PROVE WatchInStep(k)'
  BY <1>14, <1>0 DEF ChildExits, TypeOK, WatchInStep, SeenTyped, monitorVars, cancelVars
<1>15. ASSUME NEW j \in Jobs, Tick(j) PROVE WatchInStep(k)'
  BY <1>15, <1>0 DEF Tick, TypeOK, WatchInStep, SeenTyped, threadVars, monitorVars,
     cancelVars
<1>16. ASSUME NEW j \in Jobs, Observe(j) PROVE WatchInStep(k)'
  <2>1. [started |-> j \in started, expected |-> ExpectedPhase(j \in started, clock[j])] \in Looks
    BY DEF ExpectedPhase, Phases, Looks
  <2> QED BY <1>16, <1>0, <2>1 DEF Observe, SeenTyped, TypeOK, WatchInStep, threadVars
<1>17. ASSUME NEW j \in Jobs, Judge(j) PROVE WatchInStep(k)'
  <2>1. k = j => sample[j] \in Looks
    BY <1>17, <1>0 DEF Judge, WatchInStep
  <2>2. k = j => Diverged(sample[j].expected, ObservedPhase(sample[j].started, j \in done))
                   \in Divergences
    BY <2>1 DEF Diverged, Divergences, ObservedPhase, Looks, Phases
  <2>3. CASE k = j
    BY <1>17, <1>0, <2>2, <2>3 DEF Judge, SeenTyped, TypeOK, WatchInStep
  <2>4. CASE k # j
    BY <1>17, <1>0, <2>4 DEF Judge, SeenTyped, TypeOK, WatchInStep
  <2> QED BY <2>3, <2>4
<1>18. ASSUME NEW j \in Jobs, AppendDivergence(j) PROVE WatchInStep(k)'
  BY <1>18, <1>0 DEF AppendDivergence, Warned, TypeOK, WatchInStep, SeenTyped, threadVars,
     cancelVars
<1>19. ASSUME NEW j \in Jobs, Return(j) \/ DivergenceRaises(j) PROVE WatchInStep(k)'
  BY <1>19, <1>0 DEF Return, DivergenceRaises, TypeOK, WatchInStep, SeenTyped, threadVars, cancelVars
<1>20. ASSUME NEW c \in Cancellers, NEW j \in Jobs, Cancel(c, j) PROVE WatchInStep(k)'
  BY <1>20, <1>0 DEF Cancel, TypeOK, WatchInStep, SeenTyped, threadVars, monitorVars
<1>21. ASSUME NEW c \in Cancellers, Look(c) PROVE WatchInStep(k)'
  BY <1>21, <1>0 DEF Look, TypeOK, WatchInStep, SeenTyped, threadVars, monitorVars
<1>22. ASSUME NEW c \in Cancellers, Kill(c) PROVE WatchInStep(k)'
  BY <1>22, <1>0 DEF Kill, TypeOK, WatchInStep, SeenTyped, monitorVars
<1> QED BY <1>1, <1>2, <1>3, <1>4, <1>5, <1>6, <1>7, <1>8, <1>9, <1>10, <1>11, <1>12, <1>13,
          <1>14, <1>15, <1>16, <1>17, <1>18, <1>19, <1>20, <1>21, <1>22
          DEF Next, ThreadStep, MonitorStep

-----------------------------------------------------------------------------
(* The streams.                                                            *)

\* An appended event is one more of its type, and none of another.
LEMMA AppendedEvent ==
    ASSUME NEW S, NEW s \in Seq(S), NEW e \in S, NEW type
    PROVE  LET t == Append(s, e)
               last == Len(s) + 1
           IN  /\ {i \in 1..Len(t) : t[i].type = type} =
                     {i \in 1..Len(s) : s[i].type = type}
                     \cup (IF e.type = type THEN {last} ELSE {})
               /\ Len(t) = last /\ Len(s) \in Nat
<1> DEFINE t == Append(s, e)
<1>1. /\ Len(s) \in Nat /\ Len(t) = Len(s) + 1 /\ t[Len(s) + 1] = e
      /\ \A i \in 1..Len(s) : t[i] = s[i]
  OBVIOUS
<1> HIDE DEF t
<1>2. 1..Len(t) = (1..Len(s)) \cup {Len(s) + 1} /\ Len(s) + 1 \notin 1..Len(s)
  BY <1>1
<1>3. {i \in 1..Len(t) : t[i].type = type} =
        {i \in 1..Len(s) : s[i].type = type}
        \cup (IF e.type = type THEN {Len(s) + 1} ELSE {})
  BY <1>1, <1>2
<1> QED BY <1>1, <1>3 DEF t

LEMMA StreamKept ==
    ASSUME NEW k \in Jobs, StreamInStep(k),
           stream'[k] = stream[k], Reported(k)' <=> Reported(k), k \in warned' <=> k \in warned
    PROVE  StreamInStep(k)'
BY DEF StreamInStep, NoneOf, Once, Events

\* The one event the thread appends, and the one the watcher does.
LEMMA StreamReported ==
    ASSUME IInv, NEW k \in Jobs, Report(k)
    PROVE  StreamInStep(k)'
<1>1. /\ stream \in [Jobs -> Seq({Measured} \cup Divergences)]
      /\ stream[k] \in Seq({Measured} \cup Divergences)
  BY DEF IInv, SeenTyped
<1>2. stream'[k] = Append(stream[k], Measured) /\ UNCHANGED warned
  BY <1>1 DEF Report, Usage, monitorVars
<1>3. Measured.type = "ResourceUsageMeasured"
  BY DEF Measured
<1>4. /\ Events(k, "ResourceUsageMeasured")' =
            Events(k, "ResourceUsageMeasured") \cup {Len(stream[k]) + 1}
      /\ Events(k, "StepDivergence")' = Events(k, "StepDivergence")
      /\ Len(stream'[k]) = Len(stream[k]) + 1 /\ Len(stream[k]) \in Nat
  BY <1>1, <1>2, <1>3, AppendedEvent DEF Events
<1>5. ~Reported(k) /\ Reported(k)'
  BY DEF IInv, JobInv, FlagsInStep, TypeOK, Report, Step, Reported, Publishing
<1> QED BY <1>2, <1>4, <1>5 DEF IInv, StreamInStep, NoneOf, Once

LEMMA StreamWarned ==
    ASSUME IInv, NEW k \in Jobs, AppendDivergence(k)
    PROVE  StreamInStep(k)'
<1>1. /\ stream \in [Jobs -> Seq({Measured} \cup Divergences)]
      /\ stream[k] \in Seq({Measured} \cup Divergences)
  BY DEF IInv, SeenTyped
<1>2. k \notin warned /\ k \in warned' /\ sample[k] \in Divergences
  BY DEF IInv, JobInv, WatchInStep, AppendDivergence, Warned
<1>3. stream'[k] = Append(stream[k], sample[k]) /\ sample[k].type = "StepDivergence"
  BY <1>1, <1>2 DEF AppendDivergence, Divergences
<1>4. /\ Events(k, "StepDivergence")' = Events(k, "StepDivergence") \cup {Len(stream[k]) + 1}
      /\ Events(k, "ResourceUsageMeasured")' = Events(k, "ResourceUsageMeasured")
      /\ Len(stream'[k]) = Len(stream[k]) + 1 /\ Len(stream[k]) \in Nat
  BY <1>1, <1>2, <1>3, AppendedEvent DEF Events
<1>5. Reported(k)' <=> Reported(k)
  BY DEF AppendDivergence, Reported, threadVars
<1> QED BY <1>2, <1>4, <1>5 DEF IInv, StreamInStep, NoneOf, Once

LEMMA StreamStep ==
    ASSUME IInv, Next, NEW k \in Jobs
    PROVE  StreamInStep(k)'
<1>0. TypeOK /\ FlagsInStep(k) /\ SeenTyped /\ StreamInStep(k)
  BY DEF IInv, JobInv
<1>1. ASSUME NEW j \in Jobs, Submit(j) PROVE StreamInStep(k)'
  BY <1>1, <1>0, StreamKept DEF Submit, TypeOK, FlagsInStep, Reported, Publishing, Step,
     cancelVars
<1>2. ASSUME NEW j \in Jobs, Acquire(j) PROVE StreamInStep(k)'
  BY <1>2, <1>0, StreamKept DEF Acquire, SlotFree, TypeOK, FlagsInStep, Reported,
     Publishing, Step, monitorVars, cancelVars
<1>3. ASSUME NEW j \in Jobs, Withdraw(j) PROVE StreamInStep(k)'
  BY <1>3, <1>0, StreamKept DEF Withdraw, Withdrawn, TypeOK, FlagsInStep, Reported,
     Publishing, Step, monitorVars, cancelVars
<1>4. ASSUME NEW j \in Jobs, GoAhead(j) PROVE StreamInStep(k)'
  BY <1>4, <1>0, StreamKept DEF GoAhead, Withdrawn, TypeOK, FlagsInStep, Reported,
     Publishing, Step, monitorVars, cancelVars
<1>5. ASSUME NEW j \in Jobs, Begin(j) PROVE StreamInStep(k)'
  BY <1>5, <1>0, StreamKept DEF Begin, TypeOK, FlagsInStep, Reported, Publishing, Step,
     monitorVars, cancelVars
<1>6. ASSUME NEW j \in Jobs, Spawn(j) PROVE StreamInStep(k)'
  BY <1>6, <1>0, StreamKept DEF Spawn, TypeOK, FlagsInStep, Reported, Publishing, Step,
     monitorVars, cancelVars
<1>7. ASSUME NEW j \in Jobs, Capture(j) PROVE StreamInStep(k)'
  BY <1>7, <1>0, StreamKept DEF Capture, TypeOK, FlagsInStep, Reported, Publishing, Step,
     monitorVars, cancelVars
<1>8. ASSUME NEW j \in Jobs, Communicate(j) PROVE StreamInStep(k)'
  BY <1>8, <1>0, StreamKept DEF Communicate, VerdictOn, Reaped, Ending, TypeOK, FlagsInStep,
     Reported, Publishing, Step, monitorVars, cancelVars
<1>9. ASSUME NEW j \in Jobs, PayloadRefused(j) PROVE StreamInStep(k)'
  BY <1>9, <1>0, StreamKept DEF PayloadRefused, TypeOK, FlagsInStep, Reported, Publishing,
     Step, monitorVars, cancelVars
<1>10. ASSUME NEW j \in Jobs, Report(j) PROVE StreamInStep(k)'
  <2>1. CASE k = j
    BY <1>10, <2>1, StreamReported
  <2>2. CASE k # j
    BY <1>10, <2>2, <1>0, StreamKept DEF Report, Usage, TypeOK, SeenTyped, Reported, Step,
                                      threadVars, monitorVars
  <2> QED BY <2>1, <2>2
<1>11. ASSUME NEW j \in Jobs, Finish(j) PROVE StreamInStep(k)'
  BY <1>11, <1>0, StreamKept DEF Finish, Finished, TypeOK, FlagsInStep, Reported,
     Publishing, Step, monitorVars, cancelVars
<1>12. ASSUME NEW j \in Jobs, Release(j) PROVE StreamInStep(k)'
  BY <1>12, <1>0, StreamKept DEF Release, TypeOK, FlagsInStep, Reported, Publishing, Step,
     monitorVars, cancelVars
<1>13. ASSUME NEW j \in Jobs, ReportRaises(j) PROVE StreamInStep(k)'
  BY <1>13, <1>0, StreamKept DEF ReportRaises, Raised, TypeOK, FlagsInStep, Reported,
     Publishing, Step, monitorVars, cancelVars
<1>14. ASSUME NEW j \in Jobs, ChildExits(j) PROVE StreamInStep(k)'
  BY <1>14, <1>0, StreamKept DEF ChildExits, TypeOK, FlagsInStep, Reported, monitorVars,
     cancelVars
<1>15. ASSUME NEW j \in Jobs, Tick(j) PROVE StreamInStep(k)'
  BY <1>15, <1>0, StreamKept DEF Tick, TypeOK, FlagsInStep, Reported, threadVars,
     monitorVars, cancelVars
<1>16. ASSUME NEW j \in Jobs, Observe(j) PROVE StreamInStep(k)'
  BY <1>16, <1>0, StreamKept DEF Observe, TypeOK, FlagsInStep, Reported, threadVars,
     cancelVars
<1>17. ASSUME NEW j \in Jobs, Judge(j) PROVE StreamInStep(k)'
  BY <1>17, <1>0, StreamKept DEF Judge, TypeOK, FlagsInStep, Reported, threadVars,
     cancelVars
<1>18. ASSUME NEW j \in Jobs, AppendDivergence(j) PROVE StreamInStep(k)'
  <2>1. CASE k = j
    BY <1>18, <2>1, StreamWarned
  <2>2. CASE k # j
    BY <1>18, <2>2, <1>0, StreamKept DEF AppendDivergence, Warned, TypeOK, SeenTyped, Reported, Step,
                                      threadVars, monitorVars
  <2> QED BY <2>1, <2>2
<1>19. ASSUME NEW j \in Jobs, Return(j) \/ DivergenceRaises(j) PROVE StreamInStep(k)'
  BY <1>19, <1>0, StreamKept DEF Return, DivergenceRaises, TypeOK, FlagsInStep, Reported, threadVars,
     cancelVars
<1>20. ASSUME NEW c \in Cancellers, NEW j \in Jobs, Cancel(c, j) PROVE StreamInStep(k)'
  BY <1>20, <1>0, StreamKept DEF Cancel, TypeOK, FlagsInStep, Reported, threadVars,
     monitorVars
<1>21. ASSUME NEW c \in Cancellers, Look(c) PROVE StreamInStep(k)'
  BY <1>21, <1>0, StreamKept DEF Look, TypeOK, FlagsInStep, Reported, threadVars,
     monitorVars
<1>22. ASSUME NEW c \in Cancellers, Kill(c) PROVE StreamInStep(k)'
  BY <1>22, <1>0, StreamKept DEF Kill, TypeOK, FlagsInStep, Reported, monitorVars
<1> QED BY <1>1, <1>2, <1>3, <1>4, <1>5, <1>6, <1>7, <1>8, <1>9, <1>10, <1>11, <1>12, <1>13,
          <1>14, <1>15, <1>16, <1>17, <1>18, <1>19, <1>20, <1>21, <1>22
          DEF Next, ThreadStep, MonitorStep

-----------------------------------------------------------------------------
(* The invariant and what follows from it.                                 *)

LEMMA StepInv == IInv /\ [Next]_vars => IInv'
<1> SUFFICES ASSUME IInv, [Next]_vars PROVE IInv'
  OBVIOUS
<1>1. CASE Next
  <2>1. TypeOK'
    <3>1. PermitsCounted' /\ TypeBut'
      BY <1>1, PermitsStep, TypeStep
    <3>2. permits' \in 0..MaxConcurrent
      BY <3>1, PermitsInRange DEF TypeBut
    <3> QED BY <3>1, <3>2 DEF TypeOK, TypeBut
  <2> QED BY <1>1, <2>1, PermitsStep, AimedStep, SeenStep, ChildStep, FlagsStep, ResultStep,
             WatchStep, StreamStep DEF IInv, JobInv
<1>2. CASE UNCHANGED vars
  <2>1. TypeOK' /\ Aimed' /\ SeenTyped'
    BY <1>2 DEF vars, threadVars, monitorVars, cancelVars, IInv, TypeOK, Aimed,
                SeenTyped
  <2>2. PermitsCounted'
    BY <1>2, PermitsKept DEF vars, threadVars, Holders
  <2>3. ASSUME NEW k \in Jobs PROVE JobInv(k)'
    BY <1>2 DEF vars, threadVars, monitorVars, cancelVars, IInv, JobInv, ChildOwned,
                FlagsInStep, ResultFits, Fits, WatchInStep
  <2>4. ASSUME NEW k \in Jobs PROVE StreamInStep(k)'
    BY <1>2, StreamKept DEF vars, threadVars, monitorVars, IInv, Reported
  <2> QED BY <2>1, <2>2, <2>3, <2>4 DEF IInv
<1> QED BY <1>1, <1>2

\* The inductive invariant holds in every reachable state.
THEOREM Invariant == Spec => []IInv
BY InitInv, StepInv, PTL DEF Spec

\* Every variable keeps to the values the executor and its handles store.
THEOREM TypeCorrect == Spec => []TypeOK
<1>1. IInv => TypeOK
  BY DEF IInv
<1> QED BY <1>1, Invariant, PTL

\* As long as every payload can be sent, a node runs no more processes than it has
\* permits, and none outlives its thread: whoever has a process holds a permit.
THEOREM NodeKeptWithinLimit ==
    ASSUME Unsendable = {}
    PROVE  Spec => []NodeNotOverrun
<1>1. ASSUME IInv PROVE NodeNotOverrun
  <2> DEFINE Alive == {j \in Jobs : child[j] = "alive"}
  <2>1. \A j \in Jobs : thread[j] \in {"ended", "raised"} => child[j] \in {"none", "reaped"}
    BY <1>1 DEF IInv, JobInv, ChildOwned
  <2>2. Alive \subseteq Holders
    BY <1>1 DEF IInv, TypeOK, ThreadStates, JobInv, ChildOwned, BeforeSpawn, Publishing,
                Holders, Holding
  <2>3. /\ Cardinality(Alive) \in Nat /\ Cardinality(Holders) \in Nat
        /\ Cardinality(Alive) <= Cardinality(Holders)
    BY <1>1, <2>2, FS_Subset, FS_CardinalityType DEF IInv, PermitsCounted
  <2>4. Cardinality(Alive) <= MaxConcurrent
    BY <1>1, <2>3, MaxConcurrentAssumption DEF IInv, TypeOK, PermitsCounted
  <2> QED BY <2>1, <2>4 DEF NodeNotOverrun, AtMostMaxConcurrent
<1> QED BY <1>1, Invariant, PTL

\* A job cancelled while it waits for a slot never starts and settles as such.
THEOREM CancelledStaysOut == Spec => []CancelledInQueueNeverRuns
<1>1. IInv => CancelledInQueueNeverRuns
  BY DEF IInv, TypeOK, JobInv, ChildOwned, FlagsInStep, ResultFits, Fits, CancelledInQueueNeverRuns
<1> QED BY <1>1, Invariant, PTL

\* A handle that is done has its process usage in the stream once, or never ran.
THEOREM UsageCountedOnce == Spec => []UsageMeasuredOnce
<1>1. ASSUME IInv PROVE UsageMeasuredOnce
  <2> SUFFICES ASSUME NEW j \in done
               PROVE  Cardinality(Events(j, "ResourceUsageMeasured"))
                        = IF result[j] = CancelledBeforeStart THEN 0 ELSE 1
    BY DEF UsageMeasuredOnce
  <2>1. j \in Jobs /\ FlagsInStep(j) /\ ResultFits(j) /\ StreamInStep(j)
    BY <1>1 DEF IInv, TypeOK, JobInv
  <2>2. Reported(j) <=> result[j] # CancelledBeforeStart
    BY <2>1 DEF FlagsInStep, ResultFits, Fits, Verdicts, CancelledBeforeStart, Reported, Publishing
  <2>3. CASE Reported(j)
    <3>1. PICK i : Events(j, "ResourceUsageMeasured") = {i}
      BY <2>1, <2>3 DEF StreamInStep, Once
    <3> QED BY <2>2, <2>3, <3>1, FS_Singleton
  <2>4. CASE ~Reported(j)
    BY <2>1, <2>2, <2>4, FS_EmptySet DEF StreamInStep, NoneOf
  <2> QED BY <2>3, <2>4
<1> QED BY <1>1, Invariant, PTL

\* execute() appends at most one divergence for a job.
THEOREM OneWarning == Spec => []WarnsOnce
<1>1. ASSUME IInv PROVE WarnsOnce
  <2> SUFFICES ASSUME NEW j \in Jobs
               PROVE  Cardinality(Events(j, "StepDivergence")) \in {0, 1}
    BY DEF WarnsOnce
  <2>1. CASE j \in warned
    <3>1. PICK i : Events(j, "StepDivergence") = {i}
      BY <1>1, <2>1 DEF IInv, StreamInStep, Once
    <3> QED BY <3>1, FS_Singleton
  <2>2. CASE j \notin warned
    BY <1>1, <2>2, FS_EmptySet DEF IInv, StreamInStep, NoneOf
  <2> QED BY <2>1, <2>2
<1> QED BY <1>1, Invariant, PTL

-----------------------------------------------------------------------------
(* GridJobs implements JobPool: whatever threads, semaphore, processes and *)
(* the flags of a handle do between them, each step is a step of one       *)
(* future, or none.                                                        *)

\* What poll() and wait() return of a handle.
ShownOf(j) == IF j \in done THEN result[j] ELSE None

\* The flags of a handle that keeps in step with its thread tell its phase.
LEMMA PhaseValue ==
    ASSUME NEW j \in Jobs, FlagsInStep(j)
    PROVE  /\ thread[j] = "new" => PhaseOf(j) = "absent"
           /\ thread[j] = "raised" => PhaseOf(j) = "lost"
           /\ j \in done => PhaseOf(j) = "settled"
           /\ thread[j] \notin {"new", "raised"} /\ j \notin done =>
                PhaseOf(j) = IF j \in started THEN "running" ELSE "waiting"
BY DEF PhaseOf, FlagsInStep

LEMMA PhaseValueNext ==
    ASSUME NEW j \in Jobs, FlagsInStep(j)'
    PROVE  /\ thread'[j] = "new" => PhaseOf(j)' = "absent"
           /\ thread'[j] = "raised" => PhaseOf(j)' = "lost"
           /\ j \in done' => PhaseOf(j)' = "settled"
           /\ thread'[j] \notin {"new", "raised"} /\ j \notin done' =>
                PhaseOf(j)' = IF j \in started' THEN "running" ELSE "waiting"
BY DEF PhaseOf, FlagsInStep

\* What a step shows of the jobs it leaves alone, and of those it moves.
PhaseKept(k) == PhaseOf(k)' = PhaseOf(k) /\ ShownOf(k)' = ShownOf(k)

LEMMA PoolStutters ==
    ASSUME \A k \in Jobs : PhaseKept(k)
    PROVE  UNCHANGED Pool!vars
BY DEF Pool!vars, ShownOf, PhaseKept

LEMMA PoolMoves ==
    ASSUME NEW j \in Jobs, NEW from, NEW to, NEW v,
           PhaseOf(j) = from, PhaseOf(j)' = to, ShownOf(j)' = v,
           \A k \in Jobs \ {j} : PhaseKept(k)
    PROVE  Pool!Move(j, from, to, v)
BY DEF Pool!Move, ShownOf, PhaseKept

\* A step that leaves a job's flags alone, and its thread new, raised or neither.
LEMMA SameFlags ==
    ASSUME IInv, IInv', NEW k \in Jobs,
           thread'[k] = "new" <=> thread[k] = "new", thread'[k] = "raised" <=> thread[k] = "raised",
           k \in done' <=> k \in done, k \in started' <=> k \in started,
           k \in done => result'[k] = result[k]
    PROVE  PhaseKept(k)
<1>1. FlagsInStep(k) /\ FlagsInStep(k)'
  BY DEF IInv, JobInv
<1>2. ShownOf(k)' = ShownOf(k)
  BY DEF ShownOf
<1>3. PhaseOf(k)' = PhaseOf(k)
  BY <1>1, PhaseValue, PhaseValueNext
<1> QED BY <1>2, <1>3 DEF PhaseKept

LEMMA PoolInit == Init => Pool!Init
BY DEF Init, Pool!Init, PhaseOf

\* A thread that begins takes a slot nobody runs in.
LEMMA SlotToRunIn ==
    ASSUME IInv, NEW j \in Jobs, thread[j] = "begin"
    PROVE  Cardinality(Pool!Running) < MaxConcurrent
<1> DEFINE running == {k \in Jobs : PhaseOf(k) = "running"}
<1>1. \A k \in running : FlagsInStep(k) /\ k \in started /\ k \notin done
                         /\ thread[k] \notin {"new", "raised"}
  <2> TAKE k \in running
  <2>1. FlagsInStep(k)
    BY DEF IInv, JobInv
  <2> QED BY <2>1, PhaseValue
<1>2. running \subseteq Holders \ {j}
  BY <1>1 DEF IInv, TypeOK, ThreadStates, FlagsInStep, Holders, Holding
<1>3. /\ IsFiniteSet(Holders \ {j}) /\ Cardinality(Holders \ {j}) = Cardinality(Holders) - 1
      /\ Cardinality(Holders) \in Nat /\ Cardinality(Holders \ {j}) \in Nat
  <2>1. IsFiniteSet(Holders) /\ j \in Holders
    BY DEF IInv, PermitsCounted, Holders, Holding
  <2> QED BY <2>1, FS_RemoveElement, FS_CardinalityType
<1>4. Cardinality(running) <= Cardinality(Holders \ {j}) /\ Cardinality(running) \in Nat
  BY <1>2, <1>3, FS_Subset, FS_CardinalityType
<1>5. Cardinality(running) < MaxConcurrent
  BY <1>3, <1>4, MaxConcurrentAssumption DEF IInv, TypeOK, PermitsCounted
<1>6. Pool!Running = running
  BY DEF Pool!Running
<1> QED BY <1>5, <1>6

-----------------------------------------------------------------------------

LEMMA SubmitWaits ==
    ASSUME IInv, IInv', NEW j \in Jobs, Submit(j)
    PROVE  Pool!Submit(j)
<1>1. FlagsInStep(j) /\ FlagsInStep(j)'
  BY DEF IInv, JobInv
<1>2. /\ thread[j] = "new" /\ thread'[j] = "queued" /\ j \notin done' /\ j \notin started'
      /\ UNCHANGED <<done, started>>
  BY <1>1 DEF Submit, Step, FlagsInStep, IInv, TypeOK
<1>3. PhaseOf(j) = "absent" /\ PhaseOf(j)' = "waiting" /\ ShownOf(j)' = None
  BY <1>1, <1>2, PhaseValue, PhaseValueNext DEF ShownOf
<1>4. \A k \in Jobs \ {j} : PhaseKept(k)
  BY SameFlags DEF Submit, Step, IInv, TypeOK
<1> QED BY <1>3, <1>4, PoolMoves DEF Pool!Submit

LEMMA BeginRuns ==
    ASSUME IInv, IInv', NEW j \in Jobs, Begin(j)
    PROVE  Pool!Begin(j)
<1>1. FlagsInStep(j) /\ FlagsInStep(j)'
  BY DEF IInv, JobInv
<1>2. /\ thread[j] = "begin" /\ thread'[j] = "spawn"
      /\ j \notin started /\ j \in started' /\ j \notin done /\ j \notin done'
  BY <1>1 DEF Begin, Step, FlagsInStep, IInv, TypeOK
<1>3. PhaseOf(j) = "waiting" /\ PhaseOf(j)' = "running" /\ ShownOf(j)' = None
  BY <1>1, <1>2, PhaseValue, PhaseValueNext DEF ShownOf
<1>4. \A k \in Jobs \ {j} : PhaseKept(k)
  BY SameFlags DEF Begin, Step, IInv, TypeOK
<1>5. Pool!Move(j, "waiting", "running", None)
  BY <1>3, <1>4, PoolMoves
<1>6. Cardinality(Pool!Running) < MaxConcurrent
  BY <1>2, SlotToRunIn
<1>7. Pool!Cardinality(Pool!Running) = Cardinality(Pool!Running)
  BY DEF Cardinality, Pool!Cardinality
<1> QED BY <1>5, <1>6, <1>7 DEF Pool!Begin

\* An exception while the job runs.
LEMMA RaisedLoses ==
    ASSUME IInv, IInv', NEW j \in Jobs, thread[j] \in {"communicate", "report"},
           thread' = [thread EXCEPT ![j] = "raised"], UNCHANGED <<done, started, result>>
    PROVE  Pool!Lose(j)
<1>1. FlagsInStep(j) /\ FlagsInStep(j)'
  BY DEF IInv, JobInv
<1>2. thread'[j] = "raised" /\ j \in started /\ j \notin done
  BY <1>1 DEF FlagsInStep, IInv, TypeOK
<1>3. PhaseOf(j) = "running" /\ PhaseOf(j)' = "lost" /\ ShownOf(j)' = None
  BY <1>1, <1>2, PhaseValue, PhaseValueNext DEF ShownOf
<1>4. \A k \in Jobs \ {j} : PhaseKept(k)
  BY SameFlags DEF IInv, TypeOK
<1> QED BY <1>3, <1>4, PoolMoves DEF Pool!Lose

\* The result is stored unseen; the flag then shows it.
LEMMA FinishSettles ==
    ASSUME IInv, IInv', NEW j \in Jobs, Finish(j)
    PROVE  Pool!Settle(j) \/ Pool!Withdraw(j) \/ UNCHANGED Pool!vars
<1>0. FlagsInStep(j) /\ FlagsInStep(j)' /\ ResultFits(j)
  BY DEF IInv, JobInv
<1>1. CASE Step(j, "publish", "finish")
  <2>1. /\ result' = [result EXCEPT ![j] = outcome[j]] /\ UNCHANGED <<done, started>>
        /\ thread[j] = "publish" /\ thread' = [thread EXCEPT ![j] = "finish"]
    BY <1>1 DEF Finish, Finished, Step
  <2>2. j \notin done
    BY <1>0, <2>1 DEF FlagsInStep
  <2>3. \A k \in Jobs : PhaseKept(k)
    BY <2>1, <2>2, SameFlags DEF IInv, TypeOK
  <2> QED BY <2>3, PoolStutters
<1>2. CASE Step(j, "finish", "release")
  <2>1. /\ done' = done \cup {j} /\ UNCHANGED <<result, started>>
        /\ thread[j] = "finish" /\ thread' = [thread EXCEPT ![j] = "release"]
    BY <1>2 DEF Finish, Finished, Step
  <2>2. thread'[j] = "release" /\ j \notin done /\ Fits(j, result[j])
    BY <1>0, <2>1 DEF FlagsInStep, ResultFits, IInv, TypeOK
  <2>3. \A k \in Jobs \ {j} : PhaseKept(k)
    BY <2>1, SameFlags DEF IInv, TypeOK
  <2>4. PhaseOf(j)' = "settled" /\ ShownOf(j)' = result[j]
    BY <1>0, <2>1, PhaseValueNext DEF ShownOf
  <2>5. CASE j \in started
    <3>1. PhaseOf(j) = "running" /\ result[j] \in Verdicts
      BY <1>0, <2>1, <2>2, <2>5, PhaseValue DEF Fits
    <3>2. PICK v \in Verdicts : v = result[j]
      BY <3>1
    <3>3. PhaseOf(j)' = "settled" /\ ShownOf(j)' = v
      BY <2>4, <3>2
    <3>4. Pool!Move(j, "running", "settled", v)
      BY <2>3, <3>1, <3>3, PoolMoves
    <3> QED BY <3>4 DEF Pool!Settle
  <2>6. CASE j \notin started
    <3>1. PhaseOf(j) = "waiting" /\ result[j] = CancelledBeforeStart
      BY <1>0, <2>1, <2>2, <2>6, PhaseValue DEF Fits
    <3>2. Pool!Move(j, "waiting", "settled", CancelledBeforeStart)
      BY <2>3, <2>4, <3>1, PoolMoves
    <3> QED BY <3>2 DEF Pool!Withdraw
  <2> QED BY <2>5, <2>6
<1> QED BY <1>1, <1>2 DEF Finish, Finished

\* Everything else happens behind the handle.
LEMMA RestStutters ==
    ASSUME IInv, IInv', UNCHANGED <<done, started, result>>,
           \/ UNCHANGED thread
           \/ \E j \in Jobs, to \in ThreadStates \ {"new", "raised"} :
                 /\ thread[j] \notin {"new", "raised"}
                 /\ thread' = [thread EXCEPT ![j] = to]
    PROVE  UNCHANGED Pool!vars
<1>1. \A k \in Jobs : PhaseKept(k)
  BY SameFlags DEF IInv, TypeOK
<1> QED BY <1>1, PoolStutters

LEMMA PoolNext == IInv /\ IInv' /\ [Next]_vars => [Pool!Next]_Pool!vars
<1> SUFFICES ASSUME IInv, IInv', [Next]_vars PROVE Pool!Next \/ UNCHANGED Pool!vars
  OBVIOUS
<1>1. ASSUME NEW j \in Jobs, Submit(j) PROVE Pool!Next
  BY <1>1, SubmitWaits DEF Pool!Next
<1>2. ASSUME NEW j \in Jobs, Begin(j) PROVE Pool!Next
  BY <1>2, BeginRuns DEF Pool!Next
<1>3. ASSUME NEW j \in Jobs, Finish(j) PROVE Pool!Next \/ UNCHANGED Pool!vars
  BY <1>3, FinishSettles DEF Pool!Next
<1>4. ASSUME NEW j \in Jobs, ReportRaises(j) PROVE Pool!Next
  BY <1>4, RaisedLoses DEF ReportRaises, Raised, Step, Pool!Next
<1>5. ASSUME NEW j \in Jobs, PayloadRefused(j) PROVE Pool!Next \/ UNCHANGED Pool!vars
  <2>1. CASE Step(j, "communicate", "raised")
    BY <1>5, <2>1, RaisedLoses DEF PayloadRefused, Step, Pool!Next
  <2>2. CASE Step(j, "communicate", "report")
    BY <1>5, <2>2, RestStutters DEF PayloadRefused, Step, ThreadStates
  <2> QED BY <1>5, <2>1, <2>2 DEF PayloadRefused
<1>6. ASSUME NEW j \in Jobs, Acquire(j) \/ Withdraw(j) \/ GoAhead(j) \/ Capture(j)
      PROVE  UNCHANGED Pool!vars
  BY <1>6, RestStutters DEF Acquire, Withdraw, GoAhead, Capture, Step, ThreadStates
<1>7. ASSUME NEW j \in Jobs, Spawn(j) \/ Communicate(j) \/ Report(j) \/ Release(j)
      PROVE  UNCHANGED Pool!vars
  BY <1>7, RestStutters DEF Spawn, Communicate, Report, Release, Step, ThreadStates
<1>8. ASSUME NEW j \in Jobs, ChildExits(j) \/ Tick(j) \/ MonitorStep(j) \/ DivergenceRaises(j)
      PROVE  UNCHANGED Pool!vars
  BY <1>8, RestStutters DEF ChildExits, Tick, MonitorStep, Observe, Judge,
                                AppendDivergence, DivergenceRaises, Return, threadVars
<1>9. ASSUME NEW c \in Cancellers, (\E j \in Jobs : Cancel(c, j)) \/ Look(c) \/ Kill(c)
      PROVE  UNCHANGED Pool!vars
  BY <1>9, RestStutters DEF Cancel, Look, Kill, threadVars
<1>10. CASE UNCHANGED vars
  BY <1>10, RestStutters DEF vars, threadVars
<1> QED BY <1>1, <1>2, <1>3, <1>4, <1>5, <1>6, <1>7, <1>8, <1>9, <1>10
          DEF Next, ThreadStep

\* What done(), poll() and wait() show of the handles is a pool of futures: each
\* settles once and for all, and no more of them run than there are permits.
THEOREM HandlesImplementFutures == Spec => HandlesAreFutures
BY PoolInit, PoolNext, Invariant, PTL DEF Spec, HandlesAreFutures, Pool!Spec

=============================================================================
