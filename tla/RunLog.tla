------------------------------- MODULE RunLog -------------------------------
(***************************************************************************)
(* What a reader of an EventStore may rely on                              *)
(* (meizex_mrw/events/store.py): a log to which events are added one at a  *)
(* time.  A read that starts where an earlier one ended returns all that   *)
(* was added since, in order, and nothing twice.  A log may break, once:   *)
(* nothing is added to a broken log, and every read of it raises.  Nothing *)
(* here knows of bytes, lines or offsets.                                  *)
(***************************************************************************)
EXTENDS Naturals, SequencesExt

CONSTANTS Events, Readers, Wants(_, _)  \* Wants(r, e): r's session filter lets e through

VARIABLES log,                \* the events added so far
          broken,             \* whether the log is broken
          position,           \* position[r]: how many events r's reads have passed
          got,                \* got[r]: what r was given since it began at the start
          raised              \* raised[r]: whether r's last read raised

vars == <<log, broken, position, got, raised>>

Init ==
    /\ log = <<>>
    /\ broken = FALSE
    /\ position = [r \in Readers |-> 0]
    /\ got = [r \in Readers |-> <<>>]
    /\ raised = [r \in Readers |-> FALSE]

Add(e) ==
    /\ ~broken
    /\ e \notin Range(log)
    /\ log' = Append(log, e)
    /\ UNCHANGED <<broken, position, got, raised>>

Break ==
    /\ ~broken
    /\ broken' = TRUE
    /\ UNCHANGED <<log, position, got, raised>>

\* A read begins where the reader's last one ended, or anew at the start.
Read(r, from) ==
    /\ ~broken
    /\ LET wanted == SelectSeq(SubSeq(log, from + 1, Len(log)), LAMBDA e : Wants(r, e))
       IN  got' = [got EXCEPT ![r] = (IF from = 0 THEN <<>> ELSE @) \o wanted]
    /\ position' = [position EXCEPT ![r] = Len(log)]
    /\ raised' = [raised EXCEPT ![r] = FALSE]
    /\ UNCHANGED <<log, broken>>

ReadRaises(r) ==
    /\ broken
    /\ raised' = [raised EXCEPT ![r] = TRUE]
    /\ UNCHANGED <<log, broken, position, got>>

Next ==
    \/ \E e \in Events : Add(e)
    \/ Break
    \/ \E r \in Readers : ReadRaises(r) \/ \E from \in {0, position[r]} : Read(r, from)

Spec == Init /\ [][Next]_vars

=============================================================================
