------------------------------ MODULE EventLog ------------------------------
(***************************************************************************)
(* EventStore (meizex_mrw/events/store.py): one JSON object per line of a  *)
(* file that several threads and processes append to and others follow.    *)
(*                                                                         *)
(* An action is one write(2) of append(), or one read_from().  A text file *)
(* in mode "a" hands a line to the system at once if it fits the buffer    *)
(* and in two writes if it does not (Long); either is cut short when the   *)
(* process dies or the disk is full, and then append() does not come back  *)
(* to it.  The file is the sequence of the pieces written, and an offset   *)
(* is a number of pieces.                                                  *)
(***************************************************************************)
EXTENDS Naturals, SequencesExt, FiniteSetsExt

CONSTANTS Writers, Readers, Events,
          Long,               \* events whose line does not fit the buffer
          SessionOf,          \* the session_id of an event
          Filter,             \* the session_id a reader asks for, None for all
          MaxTorn,            \* bounds the appends that are cut short
          None

ASSUME LongAssumption == Long \subseteq Events
ASSUME FilterAssumption == DOMAIN SessionOf = Events /\ DOMAIN Filter = Readers

VARIABLES file,               \* what was written, piece by piece
          writing,            \* writing[w]: the long event w has begun, or None
          torn,               \* how many appends were cut short
          offset,             \* offset[r]: the new_offset of r's last read_from
          got,                \* got[r]: the events r was given since it began at 0
          raised              \* raised[r]: whether r's last read_from raised

vars == <<file, writing, torn, offset, got, raised>>

Piece(e, part) == [event |-> e, part |-> part]

\* Every event has an id of its own.
New == Events \ {piece.event : piece \in Range(file)}

Init ==
    /\ file = <<>>
    /\ writing = [w \in Writers |-> None]
    /\ torn = 0
    /\ offset = [r \in Readers |-> 0]
    /\ got = [r \in Readers |-> <<>>]
    /\ raised = [r \in Readers |-> FALSE]

Write(e, part) == file' = Append(file, Piece(e, part))

AppendLine(w, e) ==
    /\ writing[w] = None
    /\ e \in New \ Long
    /\ Write(e, "whole")
    /\ UNCHANGED <<writing, torn, offset, got, raised>>

BeginLine(w, e) ==
    /\ writing[w] = None
    /\ e \in New \cap Long
    /\ Write(e, "head")
    /\ writing' = [writing EXCEPT ![w] = e]
    /\ UNCHANGED <<torn, offset, got, raised>>

EndLine(w) ==
    /\ writing[w] # None
    /\ Write(writing[w], "tail")
    /\ writing' = [writing EXCEPT ![w] = None]
    /\ UNCHANGED <<torn, offset, got, raised>>

\* A write is cut short, or the second one never happens.
Tear(w, e) ==
    /\ torn < MaxTorn
    /\ writing[w] = None
    /\ e \in New
    /\ Write(e, "head")
    /\ torn' = torn + 1
    /\ UNCHANGED <<writing, offset, got, raised>>

LeaveLine(w) ==
    /\ torn < MaxTorn
    /\ writing[w] # None
    /\ writing' = [writing EXCEPT ![w] = None]
    /\ torn' = torn + 1
    /\ UNCHANGED <<file, offset, got, raised>>

-----------------------------------------------------------------------------

\* Every piece but a head ends with a newline.
Newlines(pieces) == {i \in DOMAIN pieces : pieces[i].part # "head"}

\* What read_from takes of a chunk: all up to its last newline.
CompleteOrNot(chunk) == chunk

Complete(chunk) ==
    IF Newlines(chunk) = {} THEN <<>> ELSE SubSeq(chunk, 1, Max(Newlines(chunk)))

\* complete.split(b"\n"): the k-th line ends at the k-th newline.
Lines(pieces) ==
    LET ends == Newlines(pieces)
        End(k) == CHOOSE i \in ends : Cardinality({j \in ends : j <= i}) = k
    IN  [k \in 1..Cardinality(ends) |->
            SubSeq(pieces, (IF k = 1 THEN 0 ELSE End(k - 1)) + 1, End(k))]

\* json.loads reads a line that holds one event, and nothing else.
Parses(line) ==
    LET e == line[1].event
    IN  line \in {<<Piece(e, "whole")>>, <<Piece(e, "head"), Piece(e, "tail")>>}

Garbage(lines) == {k \in DOMAIN lines : ~Parses(lines[k])}

Wants(r, e) == Filter[r] \in {None, SessionOf[e]}

\* The loop raises at the first line that does not parse, and with it what it
\* had read before is gone; the caller still has its old offset.
ReadFrom(r, from) ==
    LET complete == Complete(SubSeq(file, from + 1, Len(file)))
        lines == Lines(complete)
        events == [k \in DOMAIN lines |-> lines[k][1].event]
    IN  IF Garbage(lines) = {}
        THEN /\ offset' = [offset EXCEPT ![r] = from + Len(complete)]
             /\ got' = [got EXCEPT ![r] = (IF from = 0 THEN <<>> ELSE @)
                                          \o SelectSeq(events, LAMBDA e : Wants(r, e))]
             /\ raised' = [raised EXCEPT ![r] = FALSE]
             /\ UNCHANGED <<file, writing, torn>>
        ELSE /\ raised' = [raised EXCEPT ![r] = TRUE]
             /\ UNCHANGED <<file, writing, torn, offset, got>>

Next ==
    \/ \E w \in Writers :
          \/ EndLine(w) \/ LeaveLine(w)
          \/ \E e \in Events : AppendLine(w, e) \/ BeginLine(w, e) \/ Tear(w, e)
    \/ \E r \in Readers : \E from \in {0, offset[r]} : ReadFrom(r, from)

Spec == Init /\ [][Next]_vars

-----------------------------------------------------------------------------

Written == Lines(Complete(file))

\* The events of the lines before the first that does not parse.
Log == LET written == Written
           garbage == Garbage(written)
           readable == IF garbage = {} THEN Len(written) ELSE Min(garbage) - 1
       IN  [k \in 1..readable |-> written[k][1].event]

AsLog == INSTANCE RunLog WITH
    log <- Log,
    broken <- Garbage(Written) # {},
    position <- [r \in Readers |-> Cardinality(Newlines(SubSeq(file, 1, offset[r])))]

\* While others append, are half through a line, or die there, a reader that
\* goes from offset to offset is given every event once, in order, and no part
\* of one; a line that holds more than an event stops it for good.
StreamsAreLogs == AsLog!Spec

=============================================================================
