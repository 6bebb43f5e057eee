# langrails in TLA+

A TLA+ development of langrails (Go): what its concurrent, durable and
translating parts promise, checked by TLC on small instances and, for most of
its safety properties, proved by TLAPS for every instance. Paths below are relative to the
repository (`src/`).

## 1. Inventory

| Component | State it keeps | Operations | What is hard | Correct when |
|---|---|---|---|---|
| Graph engine (`graph/graph.go`, `drain.go`) | current node, state, step of a call; the thread's checkpoints | `Run`, `Stream`, `Resume`, drain | crashes between supersteps, resumes, fan-out, a stream reader that leaves | stored progress is one uninterrupted walk over the graph |
| Checkpoints (`graph/checkpoint.go`) | history per thread | `Save`, `Load`, `History` | an error after the checkpoint was kept | `Load` returns what was saved last |
| Interrupts (`graph/interrupt.go`) | the resume slot of a call | `Await`, `ResumeValue` | who consumes the value: retries, handlers, subgraphs | the value reaches the question it answers |
| Node options (`graph/node.go`) | attempt, backoff, deadline | `execNode` | an abandoned attempt still runs | what is returned is the last attempt's |
| Fan-out (`graph.go`, `runBranches`) | result and error of each branch | spawn, cancel, join | order of failures, cancellation of siblings | all results or an error; one failure ends it |
| Rate limit (`ratelimit.go`) | tokens, time of the last reservation | `Wait` | waiters that give up | the rate holds, no token is lost |
| Conversation memory (`memory/memory.go`) | messages | `Add`, `Clear`, readers | trimming at the limits | limits hold, newest and system prompt stay, `Add` returns |
| MCP stdio transport (`mcp/transport_stdio.go`) | pending calls, reader, child process | `call`, `notify`, `close`, reader | late, double and missing answers, exit, handlers that wait | answers reach their call, nobody waits for ever |
| MCP client and HTTP transport (`mcp/client.go`, `transport_http.go`, `elicitation.go`) | session id, tools, calls in flight | setup, tool calls, server requests inside a stream | a 401 in the middle, pauses and replays, restarts | a call fails for its token only when it must; no question is put twice unless its answer died with the process |
| MCP OAuth (`mcp/oauth/`) | session: tokens, client, endpoints; the store | `Token`, `InvalidateToken`, `Loopback` | concurrent callers, stale invalidation, rotation, failing stores | the user is asked once, every request ends |
| Agent loop, middleware, human in the loop (`agent/`) | conversation, call counts, events, decisions | `Run`, `Stream`, the hooks, `AwaitApproval` | middleware order, limits against retries, cutting the history, replays, a reader that leaves | requests are well formed, nothing guarded runs undecided, limits hold, the run ends and says how |
| Provider wrappers, Generate (`retry.go`, `fallback.go`, `hooks.go`, `cache.go`, `generate.go`) | cache entries, waits | `Complete`, `Stream`, `Generate` | concurrent misses, waits against cancellation, a reader that leaves | each call is reported once and as it ended; cached answers fit and are fresh |
| LLM providers (`llm/`) | calls under assembly | convert a request, parse a response, read a stream | fragments, interleaving, cut bodies; a history made by other models | a stream is what `Complete` returns; a request means the same in each dialect |
| Decoders, accumulator (`internal/sse`, `internal/eventstream`, `stream.go`) | the open event, the response so far | `Next`, `Add` | the end of a body in the middle of an event | nothing complete is lost, nothing half is invented |
| A2A (`a2a/`) | the event stream | send, stream, get, cancel, serve | a reader that leaves, a break, kinds of events | every event arrives as what it is, nobody on the server is stuck |
| Tools, chains, decide, prompt, schema, registry (`tools/`, `chain/`, `decide/`, `prompt/`, `internal/`) | mostly none | conversions and calls | little that a test does not reach | - |

Calls go downwards: an agent calls providers through the wrappers and tools
through an executor, which may be an MCP client over one of its transports; a
graph node may run an agent, and `Await`, approvals and elicitations connect an
agent's questions with the graph's pause and resume. `PROJECT.json` lists each
component with its status and, under `hazards`, where each one can go wrong.

## 2. Modules

| Module | Models |
|---|---|
| `Topology` | what the run loop needs to know of a graph, and one superstep as a relation (`Supersteps`) |
| `GraphWalk` | the abstract specification: one walk that nothing interrupts |
| `GraphRun` | the engine: calls, run loop, checkpoints, resume slot, stream, drain, cancellation, crash; refines `GraphWalk` |
| `NodeExec` | one `execNode` with every attempt and the goroutines left behind |
| `RunBranches` | one fan-out, goroutine by goroutine |
| `RateLimit` | the token bucket and its callers |
| `ConversationMemory` | the trimmed conversation |
| `StdioTransport` | calls, reader, handlers, `close` and the server process |
| `TokenSource` | the OAuth token source and the authorization server |
| `MCPHttp` | the MCP client over HTTP, composed with `TokenSource` and with nodes that pause and resume |
| `AgentLoop` | one run of an agent with its middleware, approvals, events and a reader |
| `Completion` | the common types, `CheckParts`, the stream accumulator |
| `SSE`, `EventStream` | the two decoders |
| `Compat`, `Anthropic`, `Bedrock`, `Gemini`, `Responses` | one dialect each: stream events, response, request |
| `LLMProviders` | the five dialects side by side |
| `LLMStream` | one streamed completion as processes, over the dialects |
| `LLMRequest` | a conversation that changes models, over the dialects |
| `ProviderStack` | Generate over cache, hooks, fallback and retry, by several callers |
| `A2A` | one request between client and server |
| `SequenceLemmas` | lemmas about sequences that several proofs need |
| `GraphRunProofs` | proofs about the graph engine |
| `SuperstepProofs` | proofs about what it runs in a superstep: `NodeExec`, `RunBranches` |
| `ProviderWrapperProofs` | proofs about the wrappers around a provider: `RateLimit`, `ProviderStack` |
| `MCPTransportProofs` | proofs about the MCP client's transports: `StdioTransport`, `MCPHttp` with `TokenSource` |
| `AgentLoopProofs` | proofs about the agent's run and its memory: `AgentLoop`, `ConversationMemory` |
| `A2AProofs` | proofs about `A2A` |
| `LLMProofs` | proofs about the providers: `LLMStream`, `LLMRequest` over all dialects |
| `MC*` | the constants of the runs |

**GraphRun.** A state of the user's type is abstracted to the sequence of
executions it went through (node, and whether the node, its error handler or a
branch produced it), so that a repeated, lost or reordered step is visible.
`pc` is the place in `run`: `top` (END, context, budget, node lookup), `exec`
(`execNode`), `route` (fan-out, router, edge), `save` (`saveCheckpoint` and the
drain check), `pause`/`paused`. Each action is one of these blocks with all it
does: `NodeOk` appends, counts and records; `Save` stores and asks `drained`;
`Pause` stores the question, records the event and returns. `Stream`'s `emit` is
a send on an unbuffered channel, so events wait in `out` and the loop goes on
only when they were received (`Deliver`) or the context is done (`Drop`). The
store is the only thing that survives `Crash`; `SaveFails` leaves open whether
the checkpoint was kept. An execution asks `Asks[n]` questions one after
another; a subgraph node is one that asks more than once. Retrying is in
`Retry`, as far as the resume slot is concerned. **NodeExec** and
**RunBranches** open what is one step there: attempts with their own goroutine
and channel, deadline, backoff timer and handler; spawning in order, one context,
errors written to slots, the barrier and the scan.

**RateLimit** counts time and tokens in ticks (tokens times interval), which
makes the arithmetic exact. `seen` and `due` are there to state properties.
**ConversationMemory** keeps role, size and number of each message; the two trims
of `Add` are one step and a loop of steps, under the mutex.

**StdioTransport** has a program counter for each call, the reader with the
moment between unlocking and sending (`holding`), handlers as a count, `close` as
a sequence, and bounded pipes. The server is external: it may do anything a
process can do with its ends of the pipes.

**TokenSource, MCPHttp.** `Token` is the steps between its requests (load,
discovery, refresh, registration, authorization, exchange, save), taken by the
process that has the mutex. Tokens are numbers the server gives out; they die at
any time, the server may rotate refresh tokens or not, and every request and every
use of the store may fail. A process of `MCPHttp` is a `post`: token, request, a
401 and the second attempt, then the answer or a stream with questions, each
answered by a post of its own. A question without an answer pauses the node, which
is resumed with one and makes its call anew. `Crash` leaves the store and the
checkpoint of a pause (`kept`, `open`); the answers a node was resumed with are in
memory only until it pauses again.

**AgentLoop** is `run` with `pc` at its blocks: `before` (the `BeforeModel` hooks),
`model`, `after` (the `AfterModel` hooks, the answer, the missing executor), `call`
and `exec` for each tool call, `sleep` in `ToolRetry`, `returning` in
`StreamMessages`. A configuration (`setup`) chosen at the start says which
middleware there is. Messages keep role, round and call number, so that a result
without its call is visible. Whether a history is over a threshold of tokens is
left open: the hooks may act at every iteration. With approvals (`awaits`) a
guarded call without a decision ends the run with a question; `Resume` brings the
decision and runs the agent from its beginning, with a model that may now say
something else.

**The dialects.** A text is the sequence of the pieces it was written in, and JSON
is a text in which blanks do not count, so that every way of cutting a text is the
same text. Each dialect has the same operators: what a server sends for a block
(`Opening`, `Piece`, `Closing`, `Ending`: external), what the reader makes of one wire event (`ReadStream`) and
of the end (`StreamEnded`), what `Complete` makes of the same reply (`ParseResponse`), and how messages, results and
options become a request (`BuildRequest`). **LLMStream** runs one of them as three processes: a server that writes, interleaves,
tears and cuts, `readStream` with its bounded channel, and a reader. **LLMRequest**
grows a history in which each turn may come from another dialect, and converts it
for all of them in every state.

**ProviderStack** has one program counter per caller through the wrappers as they are
nested, so that what the code does on the way up (the cache stores, the hook
reports) happens in the order of the calls. A tick ages entries and counts down
waits. **A2A** has the task handler, the HTTP handler, the connection, the client's
goroutine and the reader, with a channel between each two.

## 3. Runs

All runs pass. Each property has a mutant in `PROJECT.json`: a plausible slip in
the code that the run catches.

| Run | Instance, and why it is enough | Properties |
|---|---|---|
| `graph_run` | Four nodes with a fan-out (no, two or an unknown branch, branches that ask), a router with a missing target, an edge back, an overriding handler and two nodes that ask; five steps, four calls: a pause, a failure or crash, a resume and another one fit. | `WalkSpec`: checkpoints are one walk. `OneSuperstepAhead`: a durable call is at most one superstep ahead of its store. `CallReports`: results agree with the store and a failed node runs again. `CallerInTouch`: an answer strays only after a recovery or from a checkpoint that asks nothing, a stream ends with the result. `DrainStopsRun`, `CallReturns`. |
| `node_exec` | Two retries with every combination of timeout, handler, question and resume value. | `LastAttemptDecides`, `CancelStopsRetries`, `ExecReturns` |
| `run_branches` | Three branches, any subset of which only stops when cancelled. | `AllOrError`, `FailureEndsFanOut` |
| `rate_limit` | Six requests on a bucket of two, up to six ticks, two per token: several waiters, several of which give up before and after others arrive. | `RateKept`, `WaitersServed` (no idle wait; until the first gives up, spacing and arrival order) |
| `memory` | Up to five messages of both roles and three sizes, one larger than the limit of tokens, with a limit of three messages. | `TrimsRight`: limits, order, the newest message and the system messages at the start. `PlainAddReturns` |
| `stdio` | Two calls, pipes of one line and a handler: two is what it takes to mix answers up, a full pipe what it takes to block a writer. | `OwnAnswer`, `NoOrphan`, `WaitsEnd` |
| `agent` | Nine configurations, three iterations, up to two calls in a response, two tools: limits of one and two are exceeded within a response and between responses, both ways of cutting keep less than a round, exactly a round and nothing, and two guarded tools are decided one after the other. | `SoundRequest`: calls and results are paired and the newest results are there. `HumanDecides`, `LimitsKept`, `EventsTellTheRun`, `RunEnds` |
| `llm_stream` | Five dialects and nine replies: thinking, text in three pieces (one empty), two calls, a call without arguments, structured output, and, for the two dialects that have blocks for them, server tools before, between and behind the calls, with and without results; channel of two, so that a send can block. | `StreamMatchesComplete`: what was read to its end is what `Complete` returns, where the two read the same fields. `CallsAreWhole`, `EndIsTold`, `StreamEnds` |
| `llm_request` | Histories of up to seven messages (two rounds of calls and more) with four kinds of turns, signed and unsigned, and five kinds of parts; and, at a fixed history, 3,600 combinations of effort, budget (none, negative, 0, positive), tool choice, schema, JSON mode and model. | `CallsReplayed`: each dialect gets every call with its result and signature. `NothingLost`, `RequestMeans` |
| `provider_stack` | Two callers with equal requests at once, one with a stream, one that comes back to an evicted key; one retry, waits shorter and longer than the longest allowed, a cache of one entry. | `OutcomeReported`, `CacheHonest`, `FallbackLast`, `CallsEnd` |
| `mcp_http` | Setup with two pages of tools, two calls at once, one with two questions; three tokens and two faults: a token that dies, its successor that dies, and a failure or a restart, also of a node that was answered. | `RetryEnough`, `AskedOnce`, `RequestsEnd`. `ElicitedOnce`: only an answer that died in memory is asked for again |
| `a2a` | One request of each method; three events through channels and a connection of one, which may break inside an event, so that each stage can be blocked by the next. | `AnswersArrive`, `StreamsEnd` |

**Bounds.** `MaxCalls`, `MaxSteps` (the code's own budget), `MaxTime`, `MaxAdds`,
`StdinSize`, `StdoutSize`, `MaxHandlers`, `MaxIterations` (the code's own),
`MaxMessages`, `MaxTokens` and `MaxFaults` (of `TokenSource`), `MaxEvents`,
`Capacity` and `Window` appear in guards under those names. `MaxCalls` is the number of calls
on a thread in `GraphRun` and of tool calls in a response in `AgentLoop`. Deadlock
checking is off where a system may stop: a thread that is finished and out of
calls, a run or a request that has returned, a closed transport.

**Fairness.** `GraphRun`: the loop's own steps (weakly): nodes return and
goroutines are scheduled; nothing is assumed of callers, readers, drains or
cancellation. `NodeExec`: `execNode` and its timers, and nothing of the node
function, which may hang. `RunBranches`: goroutines, where a node comes to its end
or stops once its context is done. `ConversationMemory`: the goroutine in `Add`.
`AgentLoop`: the run and `emit`, with models and tools that return; the reader may
stop for ever, and so may the human: a paused run has ended.
`StdioTransport`: callers, reader and `close` weakly, writers strongly
(`sync.Mutex` hands itself to waiters that starve), and a server that reads its
stdin; handlers may never return. `LLMStream`: the goroutine, a server that goes on
or ends (HTTP clients have timeouts, and a broken body is an end), and a reader as
long as it stays. `ProviderStack`: time and each caller's step, with providers that
answer or fail. `MCPHttp`: the same of its requests, and a user who comes back from
the authorization server; nobody has to answer a question or resume a node. `A2A`: both sides, and the end of
the connection, because the client of `NewClient` has a timeout of 60 s over the
whole body.

## 4. Proofs

Everything below is proved for every value of the constants, from the named
assumptions only. `Topology`: entry, edges, routers, fans and joins range over
names. `AskAssumption`, `RateAssumption`, `StdioAssumption`, `BranchAssumption`,
`NodeAssumption`, `TokenAssumption`, `HttpAssumption`, `AgentAssumption`,
`MemoryAssumption`, `A2AAssumption`, `ProviderAssumption`, `StreamAssumption` and
`RequestAssumption`: types and bounds of the constants. `AnswerAssumption`: a call
that a server answers with names its tool and has an identifier, its arguments are
nothing or an object, and its words may be any strings; identifiers need not differ. `OptionsAssumption`: what a
caller of the Go API can put into a request's options: their types, any budget an
`*int` points to, and that a tool is required only of a request that has tools. `StackAssumption`: types, and that a provider's stream ends with
its only last event (`done` or `error`), which `LLMStream` shows of the readers in
`llm/`. One theorem has a hypothesis besides: `CallerAlwaysInTouch` is about
graphs whose nodes ask at most once (`OneAsk`), because the code gives a second
answer to the first `Await` (section 5).

Hardly any property is inductive as it stands; each bullet names what had to be
added. The invariants that are new for a property were checked by TLC on the run's
instance before they were proved.

* **GraphRunProofs.** `TypeCorrect`, then `StepsAreCounted` (step = executions in
  the state, in memory and in each checkpoint), then `StaysOneSuperstepAhead`.
  None is inductive alone: that `Save` writes a superstep of what is stored needs
  the position of the loop relative to the store at every `pc`, which is what
  `OneSuperstepAhead` says. `RunImplementsWalk` uses it: only `Save`, `SaveFails`,
  `Pause` and `PauseFails` write; the first two take a step of `GraphWalk` or
  stutter, the pauses store the place they were at. `CallsReportTheStore` and
  `DrainIsPrompt` follow with small strengthenings of their own.
  `CallerAlwaysInTouch` rests on `AnswerInv` (a checkpoint's question is its own
  node's; an unread value is at the node that asked, was left behind by its
  handler, or was given where nothing was asked) and on `StreamInv` (the last event on its way to the reader is the
  state), which `LastEventIsTheState` proves without the hypothesis.
* **SuperstepProofs**, `NodeExec`. `ExecInvariant` places the goroutines of all attempts
  relative to the current one: none is started ahead of it, and without a timeout
  all before it are over. `LastAttemptAlwaysDecides` and `CancelEndsRetries` follow.
* **SuperstepProofs**, `RunBranches`. `FanOutInvariant`: a goroutine that is done has filled one
  of its slots and not both, and a cancelled context has a cause in the slots or in
  the run's own context. `FanOutAllOrError` follows for any number of branches; that
  the scan finds the first error uses that a set of numbers has a least one.
* **ProviderWrapperProofs**, `RateLimit`. `RateTypes`, and `RateIsKept`, which is not inductive: that
  few requests were *sent* by now needs that each slot handed out was *priced*.
  `Inv` (`RateInvariant`) says that a live request is due no earlier than the live
  requests it saw, itself included, can have been earned, that one request saw all
  others, and that the bucket accounts for all live requests. `WaitersAlwaysServed`
  needs more: `PaidUp` is when all tokens reserved are earned, which a reservation
  moves on by an interval and a token given back moves back. Once a waiter's time
  has come, what is owed is owed to the waiters behind it (`OwedBehind`), so that
  sending leaves no idle wait; while nobody has given up, due times follow `PaidUp`
  within the burst (`Patient`). Of the requests due in a window one reserved first
  and one last (`FirstAndLast`), and the others lie between them.
* **MCPTransportProofs**, `StdioTransport`. One inductive invariant (`IInv`) of five parts: ids are
  taken once each; an entry of the map belongs to a call in flight with an empty
  open channel; what the reader holds was taken out of the map; what a channel
  holds is its call's answer; a call can be reached from its registration on.
  `AnswersReachTheirCall`, `ReaderKeepsReading`, `NoCallIsOrphaned`,
  `EntriesAreRemoved` and `StdioTypes` are its consequences.
* **MCPTransportProofs**, `MCPHttp`. On top of mutual exclusion (`Locked`) each property has its
  own invariant. `RetryAlwaysEnough`: a request on its second attempt finds a
  session whose token the server accepts, if it has one. `AskedAtMostOnce`: what
  the servers gave is in the session, and in the store unless the holder of the
  mutex is about to save it. `ElicitedAtMostOnce`: a question was shown once for each
  answer that was lost and once for the one there is (`ShownOnce`), and what is in
  memory is what the checkpoint has and an answer to its question (`Remembers`).
* **ProviderWrapperProofs**, `ProviderStack`. `CacheAlwaysHonest`: each cached response, and each one on
  its way into the cache or out of it, answers its key. `FallbackAlwaysLast`: what
  was waited and what is left of a wait make up what the error asked for.
  `OutcomeAlwaysReported`: what was forwarded, what is in the channel and what the
  provider has yet to send make up one stream, which ends with its only last event.
* **AgentLoopProofs**, `AgentLoop`. `HumanAlwaysDecides`: a human is asked only about a call
  without a decision, once about each (`Asked`). `LimitsAlwaysKept`: what was
  executed is paid for by the calls counted, and the call being made has paid for
  its tries so far (`Paid`, `TriesLeft`, `ModelPaid`). `RequestsAlwaysSound`: between
  rounds each call has its result and each result its call, within a round only the
  last message waits for results, and the last round is at the end (`Valid`,
  `OpenRound`, `LastRound`); trimming and summarizing cut between rounds, and find
  such a cut. `EventsAlwaysTell` proves the action property and the invariant in
  `EventsTellTheRun`: `emit` has one event under way, a result follows its call, and
  nothing follows the final event.
* **AgentLoopProofs**, `ConversationMemory`. `MemoryInvariant`: between two turns of
  `Add`'s loop the messages are numbered in order up to the newest, and no more than
  the count limit; where the loop has stopped it had to; and until a message of
  another role comes, all there was is there (`PromptFirst`). `TrimAlwaysRight`
  follows.
* **A2AProofs.** `RequestInvariant`: what the task handler told is what the client
  has read, what is in the body or was lost with it, and what the server has yet to
  write; what was handed on is what is due of the part read. Behind a break the body
  is cut off, perhaps inside a data line (`CutOff`): the next event read is still the
  first unread one, or half of it, after which the client adds its own error and stops
  (`Torn`). `AnswersAlwaysArrive` follows, wherever the connection breaks.
* **LLMProofs**, `LLMStream`. `EndIsAlwaysTold` for any replies, cuts and capacity.
  Its invariant (`EndInv`): the body holds only events its server can send; what is
  still to be sent tells its end with its last event; nothing follows a final event;
  `Responses` is done only after the server finished. Each dialect's `ReadStream` is
  shown to give events of this kind and to end only where its server does.
* **LLMProofs**, `LLMRequest`. `RequestAlwaysMeans`, dialect by dialect from
  `OptionsAssumption`. A budget is any integer or none; what each dialect sends of it
  is shown to be the number asked for, a number or a level of its own, or nothing
  (`MeansReasoning`, `NumberMeans`). TLC's combinations had not shown that two arms of
  a `CASE` in `BudgetSent` overlapped; the proof did, and they are now disjoint.
* **LLMProofs**, histories. `CallsAlwaysReplayed` and `NothingIsEverLost` say of a
  whole history, for all five dialects, what is a matter of one message after another.
  `HistoryInvariant` keeps what both need: each call of a turn is one its maker's
  `ParseResponse` can make (`MadeBy`, `TurnOf`), the turn to be answered is the newest,
  the identifiers of the results so far and of the calls still waiting are those of
  the calls, in order (`ResultsFollow`), and every system message is before any
  other value, so that Bedrock's system field changes no order (`RulesFirst`).
  `CallsReplayed` alone is not inductive, because it speaks only of histories that
  are answered: that the results to come meet the calls under way is `ResultsFollow`.
  The proofs follow the code: a lemma a dialect on what `ParseResponse` makes of a
  reply (`CompatParses` and the others), one on what `ConvertMessage` makes of a
  message (`CompatConverts`, ...), then one on a history, where the calls sent, the
  results sent and the values sent are the images of its messages, laid end to end
  (`Images`, in `SequenceLemmas`). For Gemini, which tells calls of an unsigned turn
  as text, the set of keys so told is fixed first; that a call and its result are on
  the same side of it is where `Ambiguous` is needed.

Lemmas about data that want an induction (a least number, the first cut, the first
and the last of a set of requests) are proved by a least counterexample, with the
library's facts on well-founded relations and finite sets.

Where a definition reads a sequence from its left, as the code's loops do, the
model has a function of the number of elements read, so that a proof can follow the
loop turn by turn.

TLC only: liveness, which is out of this prover's reach (`CallReturns`,
`ExecReturns`, `FailureEndsFanOut`, `PlainAddReturns`, `WaitsEnd`, `RunEnds`,
`StreamEnds`, `CallsEnd`, `RequestsEnd`, `StreamsEnd`); and two safety properties,
`StreamMatchesComplete` and `CallsAreWhole` of `LLMStream`. They compare what a
reader makes of a reply in whatever pieces and interleaving with what
`ParseResponse` makes of it whole, and would need for each dialect an invariant that
says which part of the reply the reader's state stands for.

## 5. Met while modelling

What a reader of the docs might not expect of the code. Where a property is
affected, its comment or its hypotheses say so.

*Graph.* A node that read its answer, failed and is retried asks again, because the
slot is used once in a call (`interrupt.go:54`). In a subgraph that asks twice the
second answer goes to the first `Await`, which runs again (`interrupt.go:38`). A
paused node that fails before its `Await` and is recovered by its handler leaves
its answer to the next node that asks. So does a resume of a thread that asks
nothing: `Resume` does not look at the checkpoint's question (`graph.go:351`), and
when the answer was taken and saved and a later node failed, retrying `Resume` with
the same value answers the next question with it. A run whose entry node fails has no
checkpoint (`docs/durable-execution.md:41` says the latest one points at the failed
node). When a fan-out joins at END no stream event carries the final state
(`graph.go:288`). A fan-out may return a sibling's cancellation instead of the
failure behind it (`graph.go:559`).

*Rate limit and memory.* After a waiter gives up, two requests may share one slot,
and arrival order ends. `Add` spins for ever with the mutex held when the system
prompt and one message exceed the token limit (`memory.go:138`). System messages
that come after another message are removed like any other, where
`docs/memory.md:34` and `memory.go:35` speak of the oldest non-system messages.

*Streams.* A body that ends cleanly but early is `done` for all readers but that of
`Responses`; `compat` then hands out calls as far as they were written. A cancelled
stream closes without an event, so that `CollectStream` returns a part of the
response without an error, and `HooksProvider` may report it as a response. Error
events of the server are skipped by `compat`, `anthropic` and `gemini`. Structured
output is content in `Complete` and a tool call in `Stream` (`anthropic`,
`bedrock`). `Complete` of `anthropic` reads a thinking block from its `text`
field, as the repository's test server sends it (`anthropic.go:397`), and `Stream`
reads `thinking` (`anthropic.go:188`): of a server that puts it into `thinking` in
both, `Complete` returns no reasoning (`Unseen`). With web search on
(`anthropic.go:314`) a reply has blocks of a tool the server runs. The stream reader
does not look at a block's index and adds that tool's arguments to those of the last
call before it (`anthropic.go:201`), so that the caller gets a call with two objects
for arguments (`Disturbed`); and `Complete` fails on the tool's results, a list where
`contentBlock` has a string (`Undecodable`). Four
of the five readers block on a full channel without looking at the context.

*Requests.* `gemini` does not replay the text of a signed turn, and two results
turned into text may share a key; a told call names the tool and its result the
call's id. `bedrock` skips image URLs, and images whose data is not of an image type
(`bedrock.go:534`). `anthropic` and `gemini` send messages with the role system as
they are. That structured output takes precedence over `ToolChoice`
(`provider.go:90`) is not so in `compat`, `gemini` and `responses`. Effort none
with a budget is settled differently by the dialects. So is a budget of 0 or less,
which turns reasoning on (`provider.go:82`) and which nothing rejects: `anthropic`
sends the number as it is (`anthropic.go:289`), `bedrock` 10000 for 0 and a negative
number as it is, `gemini` no number, so that the model decides, and the other two a
low effort, unless another effort was asked for. `RequestMeans` claims of such a
budget only that each dialect asks for reasoning.

*Wrappers.* Answers that cannot be decoded are cached, and `Generate` reads them
again until they expire. A negative number of retries makes no attempt and returns
neither a response nor an error; the cache then copies a nil response. Copies of cached
responses are shallow.

*MCP.* The answer a node was resumed with is in memory only (`graph.go:351`) until the
node pauses again: when the process dies before, the user is asked once more. `Token` holds its mutex through the user's step, and callers that wait do
not look at their contexts. A discovery that fails once fixes the default endpoints for the life of the
source. A token whose `Save` failed is in memory only. Any failure of a refresh,
of the network too, sends the user to authorize. A redirect with another state ends
the authorization. A late 401 drops a fresh token, which costs a refresh only. Over
stdio, an elicitation handler's error goes to the only call in flight.

*A2A.* A JSON-RPC error in answer to `message/stream` is skipped by the SSE reader,
and the stream is empty. A body that breaks between two events closes the channel
without an event, as if the task had ended. One that breaks inside an event, even
inside `[DONE]`, sends the reader an error the task handler never sent: `sse.Reader`
hands out the half of the event (sse/reader.go:64) and the client cannot parse it
(client.go:260). `AnswersArrive` says when, and that it is the last event. A final task without messages is a status. The client's goroutine blocks for
ever when its reader leaves.

## 6. Not modelled

Building a graph and hooks around nodes; two calls on one thread at once (nothing
serializes them, and nothing is promised); the rounding of the bucket's floats;
partial lines on a pipe (a line is written under one mutex); a grandchild that
keeps the server's stderr open; the attribution of a handler's error over stdio;
MCP resources and prompts, which are single calls with a conversion; URLs, PKCE and
signatures; `ToolSelector`, argument validation and PII redaction in the agent.
`tools.RunLoop` is the loop of `AgentLoop` without what makes it hard. Chains,
prompts, schemas, typed tools and the registry keep no state and run nothing
concurrently: they are text, reflection and constants. `decide` computes
probabilities in floats, for which TLC has no numbers. The reason for each is in
`PROJECT.json`.

## 7. Plan

What is left is to prove more, in this order:

1. `LLMStream`: `CallsAreWhole` and `StreamMatchesComplete`, from an invariant that
   says which part of the reply the reader's state stands for.
2. Two resumes of one thread at once (`graph.go:341`), once the code promises
   something about them.
