----------------------------- MODULE EventStream -----------------------------
(***************************************************************************)
(* Decoding one frame of vnd.amazon.eventstream                            *)
(* (src/internal/eventstream/decoder.go).  A frame is what its prelude     *)
(* says of its length, whether all of it arrived, its headers with the     *)
(* type of their values, and its payload.                                  *)
(***************************************************************************)
EXTENDS Naturals, Sequences

Header(name, type, value) == [name |-> name, type |-> type, value |-> value]

StringType == 7

\* Types whose width is known, so that a value can be skipped.
SkippedTypes == {0, 1, 2, 3, 4, 5, 6, 8, 9}

\* A frame as Bedrock sends it, with a header nobody asks for in front.
Frame(message, event, payload) ==
    [length  |-> "ok", whole |-> TRUE, payload |-> payload,
     headers |-> <<Header(":date", 8, ""), Header(":message-type", StringType, message),
                   Header(":event-type", StringType, event)>>]

\* parseHeaders: the string headers, or an error for a type of unknown width.
HeadersParse(headers) ==
    \A i \in DOMAIN headers : headers[i].type \in SkippedTypes \union {StringType}

\* The map lookup of MessageType and EventType: the last header of a name counts.
HeaderOf(headers, name) ==
    LET at == {i \in DOMAIN headers : headers[i].name = name /\ headers[i].type = StringType}
    IN IF at = {} THEN "" ELSE headers[CHOOSE i \in at : \A j \in at : j <= i].value

\* Decoder.Next on a frame: an error, or the message.
Decode(f) ==
    IF f.length = "ok" /\ f.whole /\ HeadersParse(f.headers)
    THEN [ok |-> TRUE, message |-> HeaderOf(f.headers, ":message-type"),
          event |-> HeaderOf(f.headers, ":event-type"), payload |-> f.payload]
    ELSE [ok |-> FALSE, message |-> "", event |-> "", payload |-> ""]
=============================================================================
