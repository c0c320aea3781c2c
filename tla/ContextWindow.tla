--------------------------- MODULE ContextWindow ---------------------------
(***************************************************************************)
(* The message list a turn sends to its model (context_builder.py): the    *)
(* instruction, the request, then tool turns and review notes.  A message  *)
(* is its role and the ids of the tool calls it makes or answers; texts    *)
(* and their truncation are left out.                                      *)
(***************************************************************************)
EXTENDS Integers, Sequences, FiniteSets

CONSTANT MaxToolTurns       \* ContextBuilder(max_tool_result_turns=...)

ASSUME MaxToolTurnsAssumption == MaxToolTurns \in Nat \ {0}

Message(role, ids) == [role |-> role, ids |-> ids]
IsToolCall(m) == m.role = "assistant" /\ m.ids # <<>>

\* ContextBuilder.build.
FirstMessages == <<Message("system", <<>>), Message("user", <<>>)>>

\* append_user_note: the rejected answer itself is not put into the list.
WithNote(messages) == Append(messages, Message("user", <<>>))

\* A mutant of InGroup: only the assistant message of an old turn goes.
IsHead(messages, i, j) == i = j

\* The tool messages right after message i make one group with it.
InGroup(messages, i, j) ==
    i <= j /\ \A k \in (i + 1)..j : messages[k].role = "tool"

\* The tool turns that have MaxToolTurns later ones.
Dropped(messages) ==
    LET turns == {i \in 3..Len(messages) : IsToolCall(messages[i])}
        Later(i) == {j \in turns : j > i}
    IN {i \in turns : Cardinality(Later(i)) >= MaxToolTurns}

\* _trim_tool_history: whole tool turns go, the oldest first.
Trimmed(messages) ==
    LET Stays(j) == \A i \in Dropped(messages) : ~InGroup(messages, i, j)
        upTo[n \in 0..Len(messages)] ==
            IF n = 0 THEN <<>>
            ELSE IF Stays(n) THEN Append(upTo[n - 1], messages[n]) ELSE upTo[n - 1]
    IN upTo[Len(messages)]

\* append_tool_turn: the calls, then one result each, then the window.
WithToolTurn(messages, ids) ==
    Trimmed(Append(messages, Message("assistant", ids))
            \o [k \in 1..Len(ids) |-> Message("tool", <<ids[k]>>)])
=============================================================================
