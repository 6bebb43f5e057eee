--------------------------- MODULE MCProviderStack ---------------------------
EXTENDS ProviderStack

CONSTANTS c1, c2

Generate(key) == [kind |-> "generate", key |-> key]
Stream(key)   == [kind |-> "stream", key |-> key]

SomePlans ==
    {(c1 :> <<Generate("k")>>) @@ (c2 :> <<Generate("k")>>),
     (c1 :> <<Stream("k")>>) @@ (c2 :> <<>>),
     (c1 :> <<Generate("k"), Generate("j"), Generate("k")>>) @@ (c2 :> <<>>)}

SomeErrors ==
    {[status |-> 0, after |-> 0], [status |-> 503, after |-> 0],
     [status |-> 429, after |-> 2], [status |-> 429, after |-> 9]}

SomeEvents == {<<"ev", "ev", "done">>, <<"ev", "error">>}
=============================================================================
