---------------------------- MODULE MCLLMStream ------------------------------
EXTENDS LLMStream

Block1(kind, id, name, pieces, signature) ==
    [kind |-> kind, id |-> id, name |-> name, pieces |-> pieces, signature |-> signature, field |-> "text"]

Thinking == Block1("thinking", "r1", "", <<<<"t">>>>, "")
Text     == Block1("text", "", "", <<<<"a">>, <<>>, <<"b">>>>, "")
First    == Block1("call", "c1", "search", <<<<"x">>, <<Blank, "y">>>>, "s")
Second   == Block1("call", "c2", "fetch", <<<<"z">>>>, "")
NoArgs   == Block1("call", "c3", "now", <<>>, "")
Search   == Block1("server", "srv1", "web_search", <<<<"q">>>>, "")
Results  == Block1("result", "srv1", "", <<>>, "")
Unread   == [Thinking EXCEPT !.field = "thinking"]
Answer   == Block1("call", "c4", "structured_output", <<<<"x">>>>, "")

Reply(blocks, finish) == [blocks |-> blocks, finish |-> finish]

SomeReplies ==
    {Reply(<<Thinking, Text>>, "stop"), Reply(<<Text>>, "length"), Reply(<<First, Second>>, "tool_calls"),
     Reply(<<Thinking, NoArgs, Second>>, "tool_calls"), Reply(<<Answer>>, "tool_calls"),
     Reply(<<Second, Search, Results>>, "tool_calls"), Reply(<<Search, Results, Second>>, "tool_calls"),
     Reply(<<Unread, Text, Search>>, "pause_turn"), Reply(<<Search, NoArgs, Search, Second>>, "tool_calls")}
=============================================================================
