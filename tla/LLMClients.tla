----------------------------- MODULE LLMClients -----------------------------
(***************************************************************************)
(* The two LLM clients: what they make of a provider's reply (_parse), and *)
(* how they put a conversation into the provider's format                  *)
(* (_build_messages).  A session's conversation is stored in a format of   *)
(* the harness and outlives a change of the provider.                      *)
(*                                                                         *)
(* A message tells who asked (from), its kind, and n: how many tool calls  *)
(* an assistant message requests, or the number of a tool result.  What it *)
(* says is left out, and so are system messages, which are never stored.   *)
(***************************************************************************)
EXTENDS Integers, SequencesExt

Kinds == {"user", "calls", "tool", "answer"}
Said(r, k, i) == [from |-> r, kind |-> k, n |-> i]

Role(m) ==
    CASE m.kind = "user" -> "user"
    []   m.kind = "tool" -> "tool"
    []   OTHER           -> "assistant"

\* A turn of a request to a provider, and what is in it.
Turn(role, items) == [role |-> role, items |-> items]

-----------------------------------------------------------------------------
(* Replies.  They ask for some number of tools; finish is what Ollama says *)
(* it stopped for.                                                         *)
Replies(max) == [finish : {"stop", "tool_calls"}, calls : 0 .. max]

\* LLMResponse: is there a text (an empty one is one), and how many calls.
OllamaParse(reply) ==
    [text  |-> ~(reply.finish = "tool_calls" \/ reply.calls > 0),
     calls |-> reply.calls]
ClaudeParse(reply) == [text |-> reply.calls = 0, calls |-> reply.calls]

Parse(provider, reply) ==
    IF provider = "ollama" THEN OllamaParse(reply) ELSE ClaudeParse(reply)

IsFinal(response) == response.text /\ response.calls = 0

-----------------------------------------------------------------------------
(* Requests                                                                *)

\* Does the message carry tool calls?  An empty list is none.
HasCalls(m) == m.kind = "calls" /\ m.n > 0

\* The tool_use blocks, or the tool_calls, of a message.
Uses(m) == [i \in 1 .. m.n |-> Said(m.from, "use", i)]

Plain(m) == Turn(Role(m), <<m>>)

\* OllamaClient: the system prompt, and each message by itself.
OllamaTurn(m) == IF HasCalls(m) THEN Turn("assistant", Uses(m)) ELSE Plain(m)
OllamaMessages(messages) ==
    <<Turn("system", <<>>)>> \o [i \in 1 .. Len(messages) |-> OllamaTurn(messages[i])]

(* Definitions named ...Mutant stand for a plausible bug in the code of    *)
(* the definition that follows them; no behaviour uses them.               *)

\* ClaudeClient: tool results wait until they can go into one user turn.
Flush(request) ==
    IF request.pending = <<>> THEN request
    ELSE [turns |-> Append(request.turns, Turn("user", request.pending)), pending |-> <<>>]

ClaudeAdd(request, m) ==
    IF m.kind = "tool"
    THEN [request EXCEPT !.pending = Append(@, m)]
    ELSE [Flush(request) EXCEPT !.turns = Append(@,
             IF HasCalls(m) THEN Turn("assistant", Uses(m)) ELSE Plain(m))]

\* The request after each number of messages.
ClaudeRequest(messages) ==
    LET after[i \in 0 .. Len(messages)] ==
            IF i = 0 THEN [turns |-> <<>>, pending |-> <<>>]
            ELSE ClaudeAdd(after[i - 1], messages[i])
    IN  after

ClaudeMessagesMutant(messages) == ClaudeRequest(messages)[Len(messages)].turns
ClaudeMessages(messages) == Flush(ClaudeRequest(messages)[Len(messages)]).turns

-----------------------------------------------------------------------------
(* What a request to Claude must be                                        *)

Has(turn, kind) == \E j \in 1 .. Len(turn.items) : turn.items[j].kind = kind

\* The results of the tool calls of a turn.
Results(turn) ==
    [j \in 1 .. Len(turn.items) |-> Said(turn.items[j].from, "tool", turn.items[j].n)]

\* Tool calls are answered in the very next turn, by their results in order
\* and nothing else; there are no other results.
PairsUp(turns) ==
    /\ \A i \in 1 .. Len(turns) : Has(turns[i], "use") =>
          i < Len(turns) /\ turns[i + 1].items = Results(turns[i])
    /\ \A i \in 1 .. Len(turns) : Has(turns[i], "tool") =>
          i > 1 /\ Has(turns[i - 1], "use")

\* All that is said in the turns, one after the other.
Content(turns) == FlattenSeq([i \in 1 .. Len(turns) |-> turns[i].items])
=============================================================================
