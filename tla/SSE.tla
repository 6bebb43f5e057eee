-------------------------------- MODULE SSE ---------------------------------
(***************************************************************************)
(* Reading server-sent events (src/internal/sse/reader.go).  A body is a   *)
(* sequence of lines; a line is the field it starts with and its value.    *)
(* Writers of this code and of its servers put an event into one data line.*)
(***************************************************************************)
EXTENDS Naturals, Sequences, FiniteSetsExt

Line(field, value) == [field |-> field, value |-> value]

\* An event as it is written: a comment that keeps the connection open, the
\* event's name, its data, and the empty line.
Written(data) == <<Line(":", ""), Line("event", ""), Line("data", data), Line("", "")>>

DataLines(lines) == {i \in DOMAIN lines : lines[i].field = "data"}

\* The empty lines behind some data: the first of them ends the event.
Ends(lines) == {i \in DOMAIN lines : lines[i].field = "" /\ \E d \in DataLines(lines) : d < i}

\* Reader.Next can return without waiting for more of the body.
HasEvent(lines) == Ends(lines) # {}

(***************************************************************************)
(* Reader.Next: the data before the first empty line, or before the end of *)
(* the body, where the last event may lack its empty line.                 *)
(***************************************************************************)
NextEvent(lines) ==
    LET end == Min(Ends(lines) \union {Len(lines) + 1})
        ds  == DataLines(lines)
    IN [ok   |-> ds # {},
        data |-> IF ds = {} THEN "" ELSE lines[Min(ds)].value,
        rest |-> SubSeq(lines, end + 1, Len(lines))]
=============================================================================
