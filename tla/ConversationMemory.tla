------------------------- MODULE ConversationMemory -------------------------
(***************************************************************************)
(* The conversation memory (src/memory/memory.go): Add appends a message   *)
(* and trims by count and then, one message at a time, by estimated        *)
(* tokens, all of it under the mutex; Clear empties it.  Messages, Len,    *)
(* Last and TokenCount only read, and wait for the mutex like any caller.  *)
(*                                                                         *)
(* A message is its role and its estimated tokens (estimateTokens plus the *)
(* overhead of 4, scaled down); it is numbered so that it can be told from *)
(* the others.                                                             *)
(***************************************************************************)
EXTENDS Naturals, Sequences, FiniteSetsExt

CONSTANTS
    Role,         \* roles of the messages added
    Size,         \* token estimates of the messages added
    MaxMessages,  \* WithMaxMessages; 0 is unlimited
    MaxTokens,    \* WithMaxTokens; 0 is unlimited
    MaxAdds       \* bound: messages added

ASSUME MemoryAssumption ==
    /\ {MaxMessages, MaxTokens, MaxAdds} \subseteq Nat
    /\ Size \subseteq Nat

VARIABLES
    remembered,  \* messages
    adding,      \* an Add is trimming by tokens, with the mutex held
    turn,        \* which turn of that loop it is, odd or even
    added,       \* messages added so far
    told         \* what was added since the last Clear (history)

memoryVars == <<remembered, adding, turn, added, told>>

\* How many system messages the conversation starts with.
LeadingSystem(msgs) ==
    Max({0} \cup {n \in 1..Len(msgs) : \A i \in 1..n : msgs[i].role = "system"})

\* The loop over the messages, which adds up the first n of them.
tokenCount(msgs) ==
    LET total[n \in 0..Len(msgs)] == IF n = 0 THEN 0 ELSE total[n - 1] + msgs[n].size
    IN  total[Len(msgs)]

\* How many of n messages removeOldest removes: it stops before the newest.
Removable(msgs, n) ==
    LET left == IF LeadingSystem(msgs) < Len(msgs) THEN Len(msgs) - 1 - LeadingSystem(msgs)
                ELSE 0
    IN  IF n <= left THEN n ELSE left

removeOldest(msgs, n) ==
    LET start == LeadingSystem(msgs)
    IN  SubSeq(msgs, 1, start) \o SubSeq(msgs, start + 1 + Removable(msgs, n), Len(msgs))

CountUnlimited(msgs) == msgs

\* trim by count.
TrimCount(msgs) ==
    IF MaxMessages > 0 /\ Len(msgs) > MaxMessages
    THEN removeOldest(msgs, Len(msgs) - MaxMessages) ELSE msgs

TrimsTheLast == MaxTokens > 0 /\ tokenCount(remembered) > MaxTokens

\* The condition of the loop that trims by tokens.
OverTokens == MaxTokens > 0 /\ tokenCount(remembered) > MaxTokens /\ Len(remembered) > 1

-----------------------------------------------------------------------------
Add == \E role \in Role, size \in Size :
    LET msg == [role |-> role, size |-> size, id |-> added + 1] IN
    /\ ~adding /\ added < MaxAdds
    /\ added' = added + 1
    /\ remembered' = TrimCount(Append(remembered, msg))
    /\ told' = Append(told, msg)
    /\ adding' = TRUE /\ turn' = 0

TrimTokens ==
    /\ adding /\ OverTokens
    /\ remembered' = removeOldest(remembered, 1)
    /\ turn' = 1 - turn
    /\ UNCHANGED <<adding, added, told>>

AddReturn ==
    /\ adding /\ ~OverTokens
    /\ adding' = FALSE
    /\ UNCHANGED <<remembered, turn, added, told>>

Clear ==
    /\ ~adding
    /\ remembered' = <<>> /\ told' = <<>>
    /\ UNCHANGED <<adding, turn, added>>

-----------------------------------------------------------------------------
MemoryInit == remembered = <<>> /\ adding = FALSE /\ turn = 0 /\ added = 0 /\ told = <<>>

MemoryNext == Add \/ TrimTokens \/ AddReturn \/ Clear

MemorySpec == MemoryInit /\ [][MemoryNext]_memoryVars

\* The goroutine in Add keeps running.
MemoryFairSpec == MemorySpec /\ WF_memoryVars(TrimTokens \/ AddReturn)

-----------------------------------------------------------------------------
(* Properties. *)

\* After Add (memory.go:64) both limits hold at once, but for what may not be
\* removed: the leading system messages and the newest message.
WithinLimits ==
    (~adding /\ remembered # <<>>) =>
      /\ MaxMessages > 0 =>
           Len(remembered) <= Max({MaxMessages, LeadingSystem(remembered) + 1})
      /\ MaxTokens > 0 => tokenCount(remembered) <= MaxTokens \/ Len(remembered) = 1

\* The newest message survives every trim, and what is kept is in the order
\* it was added (memory.go:160).
NewestKept ==
    /\ \A i, j \in 1..Len(remembered) : i < j => remembered[i].id < remembered[j].id
    /\ (adding => remembered[Len(remembered)].id = added)

\* The system messages a conversation begins with stay where they are through
\* every trim (memory.go:155), in the middle of an Add too.  A system message
\* that comes after a message of another role is removed like any other, where
\* memory.go:35, 44 and 138 and docs/memory.md:34 except all system messages.
PromptKept ==
    \A n \in 1..Len(told) :
        (\A i \in 1..n : told[i].role = "system") =>
            n <= Len(remembered) /\ remembered[n] = told[n]

\* trim (memory.go:138) leaves what it may and what it must: the limits hold,
\* the newest message and the prompt are there, and the order is kept.
TrimsRight == WithinLimits /\ NewestKept /\ PromptKept

\* While the conversation holds no system message, Add comes to an end and
\* releases the mutex, also for a message larger than the whole limit
\* (memory.go:148).
PlainAddReturns ==
    (adding /\ \A i \in 1..Len(remembered) : remembered[i].role # "system") ~> ~adding
=============================================================================
