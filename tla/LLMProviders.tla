---------------------------- MODULE LLMProviders -----------------------------
(***************************************************************************)
(* The five dialects behind the provider interface (src/provider.go), side *)
(* by side: each is a module of its own with the same operators.           *)
(***************************************************************************)
EXTENDS Completion

CONSTANT Dialects   \* the providers looked at

ASSUME ProviderAssumption ==
    Dialects \subseteq {"compat", "anthropic", "bedrock", "gemini", "responses"}

CompatD    == INSTANCE Compat
AnthropicD == INSTANCE Anthropic
BedrockD   == INSTANCE Bedrock
GeminiD    == INSTANCE Gemini
ResponsesD == INSTANCE Responses
==============================================================================
