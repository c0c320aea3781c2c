---------------------------- MODULE MCDispatcher ----------------------------
(***************************************************************************)
(* Instances of Dispatcher for TLC: the routes that between them reach     *)
(* every branch of the step loop.                                          *)
(***************************************************************************)
EXTENDS DispatcherInv, TLC

MCStep(kind, boundary, resolvable) ==
    [kind |-> kind, boundary |-> boundary, resolvable |-> resolvable]

Llm == MCStep("llm", "IN_PROCESS", FALSE)         \* may ask for approval
Tool == MCStep("tool", "IN_PROCESS", TRUE)        \* a filesystem capability
Remote == MCStep("other", "PROCESS", FALSE)       \* plannable only after a "tool" output
Child == MCStep("other", "PROCESS", TRUE)
Dead == MCStep("other", "IN_PROCESS", TRUE)       \* no executor claims it

MCRoute(plan) == [blocked |-> FALSE, plan |-> plan]

\* Mixed plans, one of them refused by the router.
MCRoutes ==
    {[blocked |-> TRUE, plan |-> <<>>], MCRoute(<<Llm, Llm, Llm>>),
     MCRoute(<<Child, Remote>>), MCRoute(<<Tool, Dead>>)}

\* Which token uuid4 makes is of no consequence: 1 comes before 2.
TokensInOrder ==
    \A t \in issued' \ issued : \A u \in Tokens : u < t => u \in issued

=============================================================================
