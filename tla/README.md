# A TLA+ model of the agent harness

The harness runs an LLM that asks for tools. Each tool call passes six layers
(SecurityGuard, PermissionResolver, ToolRegistry, BudgetTracker, Executor,
AuditLogger) and its result goes back into the conversation. It is one asyncio
process in front of Redis, PostgreSQL, an LLM and an MCP server: everything
hard about it happens at an `await`, where another request of the same session
may run, the other side may fail with or without having done the work, the
client may disconnect, or the process may stop.

The modules model the parts that keep state across an `await`. Each Redis,
PostgreSQL, LLM or MCP command is an action of its own. Where a command may
fail, it may also have been applied with only its reply lost, when the code can
come back from that.

## 1. Inventory

| Component | State | Operations | Hard part | What makes it correct |
|---|---|---|---|---|
| BudgetTracker | two Redis counters per session | `check`, `increment_calls`, `increment_tokens` | check and increment are separate commands | the counter passes its limit by a bounded amount; fail closed |
| Executor | a breaker per tool, Redis cache | `check` | late results, cancelled probes, time | breaker, count and gauge agree; tools isolated; refuses when the latest results say so, and only then; never shut for good |
| AuditLogger | `audit_log`, Redis list `audit:dlq`, drain task | `record`, drain loop, start, stop | a record is in memory only between two commands; a retried insert | no silent loss, order kept, every record settled, at most one row per attempt |
| PermissionResolver | Redis key per call | `check` with human approval | key lifetime against deadline against decision | runs only on an approval of this very call; an approval in time counts |
| HITL endpoint | the same key | `hitl_decide` | `EXISTS`, then `SET` | decides only calls that exist |
| Agentic loop | Redis history per session, token counter | `/chat`, `/chat/stream`, `DELETE /session` | requests of a session share the history without a lock | stored conversations are valid; what was saved is kept; turns are paid |
| Pipeline | context of each call | `run_tool_call` | cancellation and exceptions between layers | the row says what happened; nothing runs unpermitted or uncounted; every call logged unless cancelled |
| Pipeline lifecycle | connections, tool schemas, drain task | `create`, `shutdown`, tool fetch with retry | an MCP server that starts, stops and changes meanwhile; partial starts; order of the shutdown | connections outlive their users; a server that stays up is found; every start ends |
| ToolRegistry | input schemas, written at start-up | `register_many`, `check` | Python classes against JSON types; schemas as old as the start | a call passes if it conforms to what was announced, and only then, but for named exceptions |
| SecurityGuard | none | `check` | none: a pure function of a call | its verdict ends the call (`Pipeline`) |
| LLM clients | none | `_build_messages`, `_parse` of two providers | tool results are separate messages for one, one turn for the other; a stored conversation may change provider | every request is complete and in the form its provider requires |
| MCP server and tools | none kept | three stateless tools | a separate process | modelled as what a client sees |

Interactions: the agentic loop calls `run_tool_call` for each tool the LLM asks
for and `increment_tokens` after each turn; `run_tool_call` calls the layers in
order; PermissionResolver and the HITL endpoint meet in a Redis key; `record`
and the drain loop meet in the dead-letter list; each turn goes through an LLM
client; the lifecycle builds all of this and takes it down; all requests of a session meet
in its history and its two counters.

## 2. Modules

| Module | Models | Reads as |
|---|---|---|
| `BudgetTracker` | `layers/budget_tracker.py` | `ReadCalls`, `ReadTokens`, `CheckFails` are `check()`; `IncrCalls`, `ExpireCalls` and their failures are `increment_calls()`; `AddTokens`, `ExpireTokens` are `increment_tokens()`; `Lapse` is Redis dropping a key |
| `Executor` | `layers/executor.py` | `CacheGet`, `Gate` (breaker), `McpReturns`, `McpFails`, `CacheSet` are the sub-steps of `check()`; `Tick` is the clock; `Cancel`, `Restart`, `CacheExpires` come from outside |
| `AuditLedger` | the promise of the audit layer | only the fate of each record |
| `AuditLogger` | `layers/audit_logger.py` | `Record` to `DlqPushFails` are `record()`; `Wake` to `PushBackFails` are the drain loop; `StopDrainer`, `StartDrainer`, `Crash` |
| `PermissionResolver` | `layers/permission_resolver.py`, `hitl_decide` of `main.py` | `Lookup` to `Abort` are `check()` and `_hitl()`; `DecideExists`, `DecideSet` are the endpoint; one `Tick` is a second |
| `LLMClients` | `llm/base.py`, `ollama_client.py`, `claude_client.py` | no state: `OllamaParse`, `ClaudeParse` are `_parse()`; `OllamaMessages`, `ClaudeMessages` are `_build_messages()` (`ClaudeRequest`: the loop over the messages, `ClaudeAdd` and `Flush` in it) |
| `AgentLoop` | `_agentic_loop`, `_stream_agentic_loop`, `clear_session` of `main.py` | one action per `await` of the loop; a tool call is one action with a result; extends `LLMClients` for what a turn may answer |
| `Pipeline` | `run_tool_call` of `pipeline.py`, verdicts of the layers | one action per layer; `Cancel`, `Record`, `Recorded`, `CutOff` are the finally clause |
| `ToolRegistry` | `layers/tool_registry.py` | no state of its own: `Check`, `Validate`, `TypeOk`, `RegisterMany`; `Conforms`, `Listed` are the reference they are compared with, `Stricter` and `Laxer` where they part |
| `Lifecycle` | `lifespan` of `main.py`, `create`, `shutdown` and `_fetch_mcp_tools_with_retry` of `pipeline.py` | `Launch` to `NextAttempt` are the start (`Nap`: the sleep after an attempt), `Shutdown` the three awaits in their order, `Exit` a failed start or a crash; `Deploy`, `ServerStops` are the MCP server; one `Tick` is a second |

`Pipeline` composes: it contains an instance of `BudgetTracker`, whose gate each
call goes through command by command, and an instance of `AuditLedger`, which
stands for the `AuditLogger` that is shown to implement it. `MC...` modules give
the constants to TLC; `..._proofs` modules hold the theorems, and
`PrefixInduction` the lemmas about loops over a list that two of them share. A
loop over a list (`register_many()`, `_build_messages()` of Claude) is a recursive
function of the number of elements done, so that it can be reasoned about.

Two conventions. A definition named `...Mutant` states a plausible bug in the
definition that follows it and is used by no behaviour: substituted for that
definition, it must break a property. Variables marked *history* record what has
happened, so that a property can speak of it; no guard reads them.

## 3. What the runs show

| Run | Result | Question |
|---|---|---|
| `budget` | holds | By how much can the call counter pass its limit? By the number of the session's concurrent requests, less one. |
| `audit_handled` | holds | Under the faults that `record()` and the drainer handle (a failing INSERT, a lost reply, a failing RPUSH): no silent loss, no more rows of a record than attempts to write it, replay in order, given up only after the third replay and loudly, every record settled even behind a row that PostgreSQL always refuses, and `AuditLogger` implements `AuditLedger`. |
| `audit_once` | holds | Under every fault except a lost INSERT reply, crashes and shutdowns included: a record is in one place at a time, the table (once) included. |
| `audit_shutdown` | **violated** | Is loss always loud? Not when the drainer is cancelled between LPOP and the end of the replay. |
| `executor` | holds | Whatever order results arrive in: the breaker agrees with its count and gauge, a healthy tool is never refused, a call is refused exactly if the latest results of its tool are `Threshold` failures and the last of them is recent, and a breaker always admits a call again (also when its probe was cancelled). |
| `executor_probe` | **violated** | Does half_open let exactly one probe through? No: any number. |
| `hitl` | holds | Two calls that need approval, one that needs none, one of a disabled tool, and an endpoint that decides or not: a call runs only on its own approval; the pending key outlives the polling; an approval with a round of the poll loop to spare counts; every call is decided, with nobody obliged to decide it. |
| `agent` | holds | Concurrent requests of a session that fail, disconnect and are cleared: stored conversations are well-formed, either provider is sent all of a conversation in the form it requires, a save that no other request could overwrite is kept, at most one turn is unpaid, every request ends. |
| `agent_clear` | **violated** | Is a cleared conversation gone? A request that loaded it before the DELETE writes it back. |
| `pipeline` | holds | The audit row tells what happened, no tool runs unpermitted or uncounted, refusals cost nothing, every call that is not cancelled is logged. |
| `pipeline_cancel` | **violated** | Does no call go unlogged? One does whose task is cancelled while `record()` waits in the finally clause. |
| `startup` | holds | The harness starts, retries, stops and crashes beside an MCP server that comes, goes and changes: whoever runs finds the connections open; a start gives up late, and never on a server that stays up; the argument check agrees with JSON Schema on the tools of the last start, but where `Stricter` or `Laxer` names the difference; every start ends. |

### Bounds, and why they are enough

* `budget`: two requests of one session and one of another, limit 2. Two are
  the least that can race; the theorem covers any number. Tokens stop at 1.
* `audit_*`: three records, one of them always refused; 3 replays, as in the
  code. Two records show order and overtaking, the third what is behind a
  poisoned row. The queue cannot hold more than one entry per record, except
  for a lost reply, which is in `audit_handled`.
* `executor`: three loops, a request for each of two tools, one of them flaky and
  one cacheable, threshold 2: a probe, a late result of an earlier admission, and a
  bystander. The recovery time is 2 ticks, so that a failure that comes while the
  breaker is open can prolong it.
* `hitl`: two calls to approve, so that decisions can be mistaken for one
  another; one endpoint requester, which may decide again and again, so that
  decisions replace each other and arrive after the end. 2 s of polling, 1 s of
  grace and a webhook of at most 1 s stand for 30, 10 and 10; only their order
  matters. A webhook slower than the grace is left out, see section 7.
* `startup`: a server that is "down" is one that does not answer an attempt, for
  whatever reason; 3 attempts and a delay of 2 s, as in the code; an attempt takes up
  to 2 s. Two versions of the server: the tools of `server.py`, and a changed
  list with a property of every type, a list of types and one without a type. The
  arguments are all calls with up to two named arguments; the values have the
  seven classes that JSON can give, a whole and a fractional float among them.
* `agent`: two requests, two turns, two tool calls per turn: results must be
  numbered, and a second turn must come after tools. A turn costs one token.
  The provider is Ollama, whose answers include all of Claude's; the requests to
  both are compared in every state.
* `pipeline`: two calls of one session, limit 1: the race of the budget gate is
  in it. Counters do not lapse, so it covers less than 24 h. A call may be
  cancelled at every `await`, and again inside `record()`: the client who leaves a
  stream cancels the scope of the response, which cancels at each further `await`
  of the task (`main.py:417`).

`CHECK_DEADLOCK FALSE` stands in the configurations of the three models whose
calls end (`PermissionResolver`, `AgentLoop`, `Pipeline`); the other systems
never stop, and TLC checks that they do not.

## 4. Fairness

* `AuditLogger`: steps of `record()` and of the drainer. Every command returns
  or raises, and the drainer sleeps 30 s. Faults are never required to happen,
  nor to stop: settling does not need PostgreSQL to come back, because replays
  are counted.
* `Executor`: only the clock. Calls may hang for as long as they like.
* `PermissionResolver`: the clock, and the event loop, which runs some `check()`
  whenever one can go on. The clock waits for what is due, so this is enough; no
  human has to decide, and the endpoint has to do nothing.
* `Lifecycle`: the clock and the steps of a start. The MCP server need not come
  up, nor stay up, and nobody has to stop the harness.
* `AgentLoop`: the steps of a request. The LLM client has a timeout, a tool call
  the deadlines of approval (30 s) and execution (60 s). DELETE and
  disconnections need not happen.
* `Pipeline`: the steps of a call, for the same reasons; not its cancellation.

## 5. What is proved

TLAPS checks these for every value of the constants that the named assumption
of each module allows. Every safety property that a passing run checks, action
property and refinement is stated by a theorem.

* `BudgetTracker_proofs`: `TypeCorrect`, `Reserved`, `Overshoot`. The bound on
  the counter is not inductive: two requests that have passed the gate both
  still increment. `IncrementsReserved` is the strengthening: counter plus the
  requests that have passed stays within limit minus one plus the session's
  concurrency. Cardinality lemmas show how the set of admitted requests changes
  with each step.
* `AuditLogger_proofs`: `TypeCorrect`; `LossIsLoud` if the faults are among
  those handled; `InOnePlace` if no INSERT reply is lost.
  The strengthening ties the popped entry to the drainer's state and bounds the
  retries of queued entries. `RowsLimited`, under every fault, counts: a record
  waits in the queue once, or is in the drainer's hands (`StepKeepsOnePlace`), and
  its rows are at most the attempts that this one entry has behind it
  (`StepKeepsTries`).
  `OrderKept` is an action property and needs no assumption on the faults:
  the line is the record in the drainer's hands and behind it the queue, and each
  action moves at most its first or its last element.
  `GivenUpLate` (handled faults) is an action property too: a record that leaves
  queue and hand without a row does so in the step that gives it up, at
  `MaxRetry`.
  `KeepsLedger` is the refinement: under the handled faults `AuditLogger`
  implements `AuditLedger`, where the fate of a record is a function of where it
  is. Each action maps to a step of the ledger for one record or to a stutter.
  The fate of a record would jump if it were in the queue before `record()` is
  done with it, or had a row before its first INSERT; the invariant `Placed` says
  that neither happens. Other faults break the mapping: a record can then be
  lost without an alert, which is the run `audit_shutdown`.
* `Executor_proofs`: `TypeCorrect`, `Consistent`, `Isolated`, `Judges` (an action
  property). For `Judges` the invariant `Remembers` ties the breaker to what has
  been seen of its tool: its count is that of the failures since the last success, an
  open one is as old as the last failure, and for a half-open one that is at least
  the recovery time ago. `Isolated` needs that a tool
  outside `Flaky` never counts a failure.
* `PermissionResolver_proofs`: `TypeCorrect`; `OnlyByApproval`; `Covered`, if
  the webhook takes no longer than the grace period (`MaxWebhook <= Grace`, see
  section 7); `Counts`. The strengthenings relate time
  to live, webhook time and remaining time, and the headroom of an approval to
  the stage and the key of its call.
* `AgentLoop_proofs`: `TypeCorrect`; `Paid`, an invariant per stage of a
  request; `Continues`, whose strengthening says that every request that still
  holds a copy holds one that starts with what was kept; `Conversations`, whose
  strengthening (`Partial`, `Open`) says how many results the last tool calls of a
  copy still lack, so that only that copy, which nobody stores, is incomplete.
  `Faithful` is about what an LLM client makes of a conversation, of any length:
  by `Conversations`, what is sent has its results in order, and a lemma by
  induction over its messages gives the rest. It has two halves. What both
  providers are told is the same, because after each message the turns of the
  Claude request followed by the results it still holds back are the turns of the
  Ollama request (`SameContent`). Tool calls and results pair up, by the invariant
  `Grouped` of the loop: the last turn is that of some message, all messages since
  are results of its calls and wait to be grouped, so that when anything else
  follows (`Settled`) or the conversation ends, the group is complete.
* `Lifecycle_proofs`: `TypeCorrect`; `Connected`; `GivesUpLate`, for any number of
  attempts and any delays: `Clock` bounds from below how long the start has gone
  on, and from above how long the server can have been up since an attempt
  missed it. `CheckFaithful` is about the argument check alone, for every schema
  and all arguments: a call that conforms passes or the check is `Stricter`, one
  that may pass conforms or the check is `Laxer`. What a property accepts (`admits`)
  is any set of values, so that the theorem holds with `anyOf`, `enum` and nested
  schemas; `RestUnseen` says that the check does not look at them. `CallsChecked` carries it to the registry of a running
  harness: `RegisterMany` leaves under each name the schema announced for it
  (`EachRegistered`, by induction over the list), and while the harness serves, the
  registry is that of the version `loaded` (`Registered`). It uses
  `AnnouncedAssumption`: the announced tools are a list with distinct names, as an
  MCP server keeps its tools in a dictionary by name, and the values of
  arguments have the classes that JSON text can give (`_parse_tool_calls`).
* `Pipeline_proofs`: `TypeCorrect`, `TrueRows`, `AdmittedRun`, `FreeRefusals`,
  `LoggedFirst`. The strengthening is local: `CallInv` ties the context, the row,
  the budget phase and the history of a call to the place where the call is. The
  shared counter lies between the calls that have paid and those that may have
  (`CountInv`: an INCR whose reply is lost may count or not); the two bounds give
  `AdmittedRun` and `FreeRefusals`. `LoggedFirst`: a call that has returned has its record stored, queued or
  reported, with its final context (`AuditInv`). A call that is cut off inside
  `record()` does not return; it is the run `pipeline_cancel`.

`PrefixInduction` derives what the two inductions need from the
well-foundedness of `<` on the naturals: a nonempty set of naturals has a least
element, what holds of the empty prefix and is kept by each element holds of all
prefixes (`UpTo`), and the recursive function of a loop exists, so that it
satisfies its equations (`LoopRuns`).
It speaks of sets where a textbook has predicates: the library's induction
theorems take an operator as a parameter, which the provers cannot instantiate.

## 6. What is only model-checked

Liveness (`EverythingSettles`, `AdmitsAgain`, `EveryCallDecided`,
`EveryRequestEnds`, `LoggedUnlessCancelled`, `EveryStartEnds`): fairness is outside the
prover's reach. `LoggedFirst`, `GivesUpLate` and `Counts` prove what the first
step of such an argument would be: that what has ended has ended well.

## 7. Divergences between code and text

Four are runs (section 3), with the line they contradict in `PROJECT.json`. The
following were met while modelling. The modules behave as the code does; no run
is spent on them.

* `config.py:27` "Budget limits per session": concurrent requests can pass the
  limit; `OvershootBounded` says by how much (`budget_tracker.py:46`). The
  token limit stops tool calls only: the loop goes on asking the LLM, so the
  tokens of a session have no bound but its turns (`main.py:107`).
* `budget_tracker.py:11` "keys expire after a day of inactivity": if `EXPIRE`
  fails after `INCR`, the counter has no time to live until the next call. If it
  has reached its limit, there is none: the gate refuses before `EXPIRE`, and the
  key stays for ever.
* `README.md:187` "loss is always logged at CRITICAL": besides the shutdown, a
  failing LPUSH (`audit_logger.py:142`) and a cancelled `record()` (the run
  `pipeline_cancel`) lose a record without such a line.
* `init.sql:1` "one row per tool call attempt": an INSERT whose reply is lost is
  queued and inserted again, each replay likewise: `RowsBounded` says how many
  rows there may be. `init.sql:13` lists neither `pending`, the status of
  a cancelled call, nor `security_blocked` and `hitl_timeout`.
* `executor.py:190`: `_mcp_call` does not look at `isError`; such an answer is
  a success to the breaker, to the cache and to the LLM.
* `metrics.py:61` "1 if the circuit is OPEN": the gauge stays 1 in half_open, as the
  transition (`executor.py:141`) does not set it. `BreakerConsistent` claims nothing
  of the gauge then.
* `permission_resolver.py:88` "a slightly longer TTL than the poll window": the time
  to live runs from before the webhook, the deadline from after it. The 5 s
  timeout of httpx holds for each phase of a request (connect, write, read, pool); a
  webhook of more than 10 s shortens the window in which a decision finds
  the key, and one of more than 40 s outlives the key. `PollWindowCovered` and
  `Covered` assume that it does not exceed the 10 s.
* `permission_resolver.py:58`: an approval written after the last poll and
  before the deadline is a denial. `main.py:256` "pending": the endpoint also
  decides calls that have timed out or were decided.
* `policy.yaml:22`: the level `sensitive` is unknown to `RiskLevel`, so every
  call of `file_read` is rejected.
* `base.py:20` "Exactly one of (text, tool_calls)": `OllamaClient._parse` may
  return neither (`ollama_client.py:131`).
* `main.py:406` "done (or error)": the load (line 310) and the last save (line
  388) of a stream are outside its `try`; if Redis fails there it just ends.
* `metrics.py:105`: the condition at `main.py:210` is inverted: answers with
  tool calls are counted as `max_turns`.
* `tool_registry.py:25` "arguments conform to the tool's declared JSON Schema" and
  `README.md:177` "full JSON Schema argument check": required names, listed names
  and the top-level type of each argument. The check is laxer (`Laxer`) where a
  property says more than one type: `headers` and `params` of `http_api_call`
  (`server.py:63`) are announced as `anyOf` object and null, and a string passes;
  `enum` and nested schemas are not looked at. `tool_registry.py:110` "booleans are
  ints in Python; distinguish them explicitly" holds for `integer` only: a boolean
  passes as a `number`. The check is stricter (`Stricter`) with 1.0, which JSON Schema
  calls an integer, and with a list of types, on which `_TYPE_MAP.get` raises
  TypeError (line 107) and the pipeline reports an internal error. An argument
  that is not listed is refused although the schema does not forbid it (`Listed`).
* `claude_client.py:78`: a turn of the assistant that asked for no tool and has no
  text (`main.py:145` stores one when Ollama returns an empty list) is sent as an
  empty message.
* `main.py:394`: the `done` event of a stream that has used up its turns reports
  `call_count` 0, whatever the session has used.
* `pipeline.py:102`: the tools are those of the last start. The MCP server may
  announce others since; `ChecksAgree` is about the former.
* `budget_tracker.py:76` "Call after each LLM turn": a turn whose request fails
  or is cut off before `increment_tokens` is never charged.

## 8. Plan, and what is not modelled

The modules cover every operation that changes state, and every safety property
of the passing runs is proved. What could be added:

* that `AuditLogger` implements `AuditLedger` under more faults, with a ledger in
  which a crash or a cancelled drainer may lose what is in memory, and nothing
  else.

Not planned: a theorem that `Pipeline` implements `BudgetTracker`. `Overshoot` would
carry over to it, but a call of the pipeline passes the gate once, so that
`FreeRefusals` bounds the counter more closely already.

Not modelled:

* what the regular expressions of SecurityGuard match, and the contents of
  messages: properties of strings, which no other state depends on;
* `tool_definitions()` of the LLM clients and the JSON text of tool arguments:
  formats. The HTTP request to the provider is one step of `AgentLoop`, which may
  fail;
* the tools of the MCP server: stateless, in a separate process, modelled by what
  their client can see (an answer, an exception, silence);
* read-only endpoints and `get_status()`: they change nothing and nothing is
  decided on what they read. Their use by a stream is the step `Status`;
* metrics counters, which the harness writes and never reads (the gauge of the
  circuit breaker is in `Executor`); the web page, deployment files, sample data
  and tests.

Redis and PostgreSQL are external: a command is atomic, fails or not, and keys
expire.
