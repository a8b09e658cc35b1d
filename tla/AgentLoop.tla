------------------------------ MODULE AgentLoop ------------------------------
(***************************************************************************)
(* The agentic loop behind /chat (_agentic_loop) and /chat/stream          *)
(* (_stream_agentic_loop), and DELETE /session.  A request loads its       *)
(* session's conversation from Redis, alternates LLM turns and tool calls  *)
(* on its own copy, and saves the whole copy back.  Requests of one        *)
(* session are not serialised; each await is an action of its own.         *)
(*                                                                         *)
(* A tool call is run_tool_call(), which returns a result whatever         *)
(* happens inside (unless it is cancelled).  A turn costs one token.       *)
(***************************************************************************)
EXTENDS LLMClients

CONSTANTS
    Requests,   \* chat requests
    Sessions,
    SessionOf,  \* the session a request names
    Streams,    \* those sent to /chat/stream
    MaxTurns,   \* ChatRequest.max_turns
    MaxCalls,   \* bound on the tool calls of one LLM turn
    Provider    \* the LLM provider, "ollama" or "claude"

ASSUME AgentAssumption ==
    /\ SessionOf \in [Requests -> Sessions]
    /\ Streams \subseteq Requests
    /\ MaxTurns \in Nat \ {0}
    /\ MaxCalls \in Nat

VARIABLES
    history,    \* Redis: session:messages of each session; <<>> if absent
    stage,      \* where each request is
    messages,   \* its copy of the conversation
    turn,       \* the LLM turns it has started
    todo,       \* the tool calls of this turn that have not run
    used,       \* tokens its LLM turns have cost
    charged,    \* tokens it has added to the session's budget
    kept,       \* requests whose save nothing should have undone (history)
    forgotten   \* requests whose messages a DELETE has removed (history)

request == <<stage, messages, turn, todo>>
tokens == <<used, charged>>
ghosts == <<kept, forgotten>>
vars == <<history, request, tokens, ghosts>>

Answered == {"answered", "exhausted"}
Ended == Answered \cup {"error", "broken", "cancelled"}
Holding == {"thinking", "tools", "charging", "saving", "closing"}
Running == Holding \cup {"saved", "status"}

Message == [from : Requests, kind : Kinds, n : 0 .. MaxCalls]

Init ==
    /\ history = [s \in Sessions |-> <<>>]
    /\ stage = [r \in Requests |-> "start"]
    /\ messages = [r \in Requests |-> <<>>]
    /\ turn = [r \in Requests |-> 0]
    /\ todo = [r \in Requests |-> 0]
    /\ used = [r \in Requests |-> 0]
    /\ charged = [r \in Requests |-> 0]
    /\ kept = {}
    /\ forgotten = {}

Goto(r, s) == stage' = [stage EXCEPT ![r] = s]
Say(r, m) == messages' = [messages EXCEPT ![r] = Append(@, m)]

-----------------------------------------------------------------------------
(* Definitions named ...Mutant stand for a plausible bug in the code of    *)
(* the definition that follows them; no behaviour uses them.               *)

\* _load_history(), and the user's message.
LoadedMutant(r) == <<Said(r, "user", 0)>>
Loaded(r) == Append(history[SessionOf[r]], Said(r, "user", 0))

Load(r) ==
    /\ stage[r] = "start"
    /\ messages' = [messages EXCEPT ![r] = Loaded(r)]
    /\ turn' = [turn EXCEPT ![r] = 1]
    /\ Goto(r, "thinking")
    /\ UNCHANGED <<history, todo, tokens, ghosts>>

\* The streaming loop loads outside its try: no error event.
LoadFails(r) ==
    /\ stage[r] = "start"
    /\ Goto(r, IF r \in Streams THEN "broken" ELSE "error")
    /\ UNCHANGED <<history, messages, turn, todo, tokens, ghosts>>

\* What the LLM may make of a turn.
Responses == {Parse(Provider, reply) : reply \in Replies(MaxCalls)}

\* The LLM answers the user.
Answer(r) ==
    /\ stage[r] = "thinking"
    /\ \E response \in Responses : IsFinal(response)
    /\ used' = [used EXCEPT ![r] = @ + 1]
    /\ Say(r, Said(r, "answer", 0))
    /\ Goto(r, "saving")
    /\ UNCHANGED <<history, turn, todo, charged, ghosts>>

AfterAskMutant(n) == "tools"
AfterAsk(n) == IF n = 0 THEN "charging" ELSE "tools"

\* The LLM asks for tools.  Ollama may ask for none (finish_reason
\* "tool_calls" with an empty list): no final answer either.
Asked == {response.calls : response \in {x \in Responses : ~IsFinal(x)}}

AskTools(r) ==
    /\ stage[r] = "thinking"
    /\ \E n \in Asked :
          /\ Say(r, Said(r, "calls", n))
          /\ todo' = [todo EXCEPT ![r] = n]
          /\ Goto(r, AfterAsk(n))
    /\ used' = [used EXCEPT ![r] = @ + 1]
    /\ UNCHANGED <<history, turn, charged, ghosts>>

\* The number of the tool call that runs next.
CallNumber(r) ==
    LET last == Last(messages[r])
    IN  IF last.kind = "calls" THEN 1 ELSE last.n + 1

ToolSaidMutant(r) == UNCHANGED messages
ToolSaid(r) == Say(r, Said(r, "tool", CallNumber(r)))

RunTool(r) ==
    /\ stage[r] = "tools"
    /\ todo[r] > 0
    /\ ToolSaid(r)
    /\ todo' = [todo EXCEPT ![r] = @ - 1]
    /\ Goto(r, IF todo[r] = 1 THEN "charging" ELSE "tools")
    /\ UNCHANGED <<history, turn, tokens, ghosts>>

MoreTurnsMutant(r) == turn[r] <= MaxTurns
MoreTurns(r) == turn[r] < MaxTurns

NextTurn(r) ==
    \/ /\ MoreTurns(r)
       /\ turn' = [turn EXCEPT ![r] = @ + 1]
       /\ Goto(r, "thinking")
    \/ /\ ~MoreTurns(r)
       /\ Goto(r, "closing")
       /\ UNCHANGED turn

ChargedMutant(r) == UNCHANGED charged
Charged(r) == charged' = [charged EXCEPT ![r] = @ + 1]

\* increment_tokens() after the tools of a turn.
Charge(r) ==
    /\ stage[r] = "charging"
    /\ Charged(r)
    /\ NextTurn(r)
    /\ UNCHANGED <<history, messages, todo, used, ghosts>>

\* A save replaces the stored conversation.  It is "kept" if no other request
\* of the session holds a copy that it has still to save.
OthersHold(r) ==
    \E q \in Requests \ {r} : SessionOf[q] = SessionOf[r] /\ stage[q] \in Holding
Stored(r) == history' = [history EXCEPT ![SessionOf[r]] = messages[r]]
Keeps(r) == kept' = IF OthersHold(r) THEN kept ELSE kept \cup {r}

\* _save_history() after the final answer.
Save(r) ==
    /\ stage[r] = "saving"
    /\ Stored(r) /\ Keeps(r)
    /\ Goto(r, "saved")
    /\ UNCHANGED <<messages, turn, todo, tokens, forgotten>>

\* increment_tokens() for the final turn, after the save.
ChargeLast(r) ==
    /\ stage[r] = "saved"
    /\ Charged(r)
    /\ Goto(r, IF r \in Streams THEN "status" ELSE "answered")
    /\ UNCHANGED <<history, messages, turn, todo, used, ghosts>>

\* get_budget_status() for the done event of a stream.
Status(r) ==
    /\ stage[r] = "status"
    /\ Goto(r, "answered")
    /\ UNCHANGED <<history, messages, turn, todo, tokens, ghosts>>

\* _save_history() when the turns are used up.
Close(r) ==
    /\ stage[r] = "closing"
    /\ Stored(r) /\ Keeps(r)
    /\ Goto(r, "exhausted")
    /\ UNCHANGED <<messages, turn, todo, tokens, forgotten>>

\* An exception ends the request: the LLM, or a Redis command that was
\* applied or not.  The streaming loop closes outside its try.
Fails(r) ==
    /\ stage[r] \in Running \ {"tools"}
    /\ \/ UNCHANGED <<history, charged>>
       \/ stage[r] \in {"saving", "closing"} /\ Stored(r) /\ UNCHANGED charged
       \/ stage[r] \in {"charging", "saved"} /\ Charged(r) /\ UNCHANGED history
    /\ Goto(r, IF r \in Streams /\ stage[r] = "closing" THEN "broken" ELSE "error")
    /\ UNCHANGED <<messages, turn, todo, used, ghosts>>

\* The client of a stream disconnects, or the process dies.  A command that
\* Redis applies all the same is the step before this one.
Cancel(r) ==
    /\ stage[r] \in Running
    /\ Goto(r, "cancelled")
    /\ UNCHANGED <<history, messages, turn, todo, tokens, ghosts>>

-----------------------------------------------------------------------------
Erased(s) ==
    /\ history[s] # <<>>
    /\ history' = [history EXCEPT ![s] = <<>>]
    /\ kept' = {r \in kept : SessionOf[r] # s}

\* DELETE /session/{session_id}
ClearSession(s) ==
    /\ Erased(s)
    /\ forgotten' = forgotten \cup {history[s][i].from : i \in 1 .. Len(history[s])}
    /\ UNCHANGED <<request, tokens>>

\* The key lapses, 24 h after the last save.
Lapse(s) ==
    /\ Erased(s)
    /\ UNCHANGED <<request, tokens, forgotten>>

Proceed(r) ==
    \/ Load(r) \/ LoadFails(r)
    \/ Answer(r) \/ AskTools(r) \/ RunTool(r) \/ Charge(r)
    \/ Save(r) \/ ChargeLast(r) \/ Status(r) \/ Close(r)
    \/ Fails(r)

Step(r) == Proceed(r) \/ Cancel(r)

Next ==
    \/ \E r \in Requests : Step(r)
    \/ \E s \in Sessions : ClearSession(s) \/ Lapse(s)

Spec == Init /\ [][Next]_vars

\* Every call a request awaits returns or fails: the LLM has a timeout, a
\* tool call a deadline for the approval and one for the execution.  Nobody
\* has to disconnect.
FairSpec == Spec /\ \A r \in Requests : WF_vars(Proceed(r))

-----------------------------------------------------------------------------
TypeOK ==
    /\ history \in [Sessions -> Seq(Message)]
    /\ stage \in [Requests -> {"start"} \cup Running \cup Ended]
    /\ messages \in [Requests -> Seq(Message)]
    /\ turn \in [Requests -> 0 .. MaxTurns]
    /\ todo \in [Requests -> 0 .. MaxCalls]
    /\ used \in [Requests -> 0 .. MaxTurns]
    /\ charged \in [Requests -> 0 .. MaxTurns]
    /\ kept \subseteq Requests
    /\ forgotten \subseteq Requests

Conversation(m) ==
    /\ \A i \in 1 .. Len(m) : m[i].kind = "calls" =>
          \A j \in 1 .. m[i].n :
             i + j <= Len(m) /\ m[i + j] = Said(m[i].from, "tool", j)
    /\ \A i \in 1 .. Len(m) : m[i].kind = "tool" =>
          /\ i > m[i].n
          /\ m[i - m[i].n].kind = "calls" /\ m[i - m[i].n].n >= m[i].n

(* What the LLM providers require of a conversation: every tool call is    *)
(* answered by exactly one result, in order, before anything else is said. *)
(* It holds of what is stored and of what a request is about to send, in   *)
(* spite of failures, disconnections and requests that overwrite each      *)
(* other.                                                                  *)
ConversationsValid ==
    /\ \A s \in Sessions : Conversation(history[s])
    /\ \A r \in Requests : stage[r] = "thinking" => Conversation(messages[r])

(* claude_client.py:77 "Groups consecutive tool results into a single user *)
(* turn as required by the Anthropic API": a request to Claude answers     *)
(* every tool call in the next turn, and says what the same request to     *)
(* Ollama says, whichever of them the conversation was held with.          *)
RequestsFaithful ==
    \A r \in Requests : stage[r] = "thinking" =>
        /\ PairsUp(ClaudeMessages(messages[r]))
        /\ Content(ClaudeMessages(messages[r])) = Content(OllamaMessages(messages[r]))

(* A conversation goes on from what was saved: when a request saves while  *)
(* no other of its session has a copy to save, all that is stored later    *)
(* starts with its messages, until the session is cleared or lapses.       *)
Remembered == \A r \in kept : IsPrefix(messages[r], history[SessionOf[r]])

(* At no time is more than one turn's cost missing from the session's      *)
(* budget, and an answered request has paid for every turn.                *)
TokensPaid ==
    \A r \in Requests :
        /\ charged[r] <= used[r] /\ used[r] <= charged[r] + 1
        /\ stage[r] \in Answered => charged[r] = used[r]

(* Every request is answered, or ends with an error.                       *)
EveryRequestEnds == \A r \in Requests : <>(stage[r] \in Ended)

(* main.py:240 "Clear conversation history for a session": messages that   *)
(* were cleared do not come back.                                          *)
ClearedStaysCleared ==
    \A s \in Sessions : \A i \in 1 .. Len(history[s]) :
        history[s][i].from \notin forgotten
=============================================================================
