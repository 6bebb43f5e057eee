---------------------------- MODULE MCLLMRequest -----------------------------
EXTENDS LLMRequest

Piece1(kind, id, name, pieces, signature) ==
    [kind |-> kind, id |-> id, name |-> name, pieces |-> pieces, signature |-> signature, field |-> "thinking"]

Thinking == Piece1("thinking", "", "", <<<<"t">>>>, "")
Text     == Piece1("text", "", "", <<<<"a">>, <<"b">>>>, "")
Signed   == Piece1("call", "", "search", <<<<"x", Blank>>>>, "s")
Unsigned == Piece1("call", "", "search", <<<<"y">>>>, "")
NoArgs   == Piece1("call", "", "now", <<>>, "")

SomeAnswers == {<<Text>>, <<Text, Signed, NoArgs>>, <<Thinking, Unsigned>>, <<Thinking, NoArgs, Unsigned>>}

SomeIds == [n \in 0..MaxMessages |-> [k \in 1..3 |-> ToString(10 * n + k)]]

Plain == [talks |-> TRUE, effortField |-> TRUE, effort |-> "", budget |-> <<>>, tools |-> {"search", "now"},
          choice |-> "", forced |-> "", schema |-> FALSE, json |-> FALSE, search |-> FALSE, cache |-> FALSE,
          prompt |-> TRUE, model |-> "other"]

\* A forced tool is named with the choice "tool", and only with it.
ToolChoices == {<<"", "">>, <<"auto", "">>, <<"none", "">>, <<"required", "">>, <<"tool", "search">>}

SomeOptions ==
    {Plain} \union
    {[Plain EXCEPT !.talks = FALSE, !.effortField = f, !.effort = e, !.budget = b, !.choice = c[1], !.forced = c[2],
                   !.schema = s, !.json = j, !.model = m] :
        f \in BOOLEAN, e \in {"", "none", "minimal", "medium", "high"}, b \in {<<>>, <<-1>>, <<0>>, <<1>>, <<1024>>, <<20000>>},
        c \in ToolChoices, s \in BOOLEAN, j \in BOOLEAN, m \in {"other", "gemini-3", "gemini-2.5-flash"}}
=============================================================================
