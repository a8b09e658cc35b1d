-------------------------- MODULE AgentLoop_proofs --------------------------
(***************************************************************************)
(* The agentic loop, for any number of requests, sessions, turns and tool  *)
(* calls:                                                                  *)
(*   Paid        at most one turn's tokens are missing from the budget     *)
(*   Continues   a conversation goes on from what was saved undisturbed    *)
(*   Conversations   every tool call is answered, whatever interferes      *)
(*   Faithful    both providers are sent all that was said, and Claude the *)
(*               results of each turn's tool calls in one turn             *)
(***************************************************************************)
EXTENDS AgentLoop, PrefixInduction, SequenceTheorems, TLAPS

-----------------------------------------------------------------------------
(* Types.  A turn's tokens are charged once, in its second half; a tool    *)
(* result is numbered within its turn.                                     *)

\* How the three counters of a request stand to each other.
Meter(r) ==
    /\ stage[r] = "start" => turn[r] = 0 /\ used[r] = 0 /\ charged[r] = 0
    /\ stage[r] = "thinking" => used[r] + 1 = turn[r] /\ charged[r] = used[r]
    /\ stage[r] \in {"tools", "charging", "saving", "saved"} =>
          used[r] = turn[r] /\ charged[r] + 1 = used[r]
    /\ stage[r] \in {"status", "closing"} \cup Answered =>
          used[r] = turn[r] /\ charged[r] = used[r]
    /\ stage[r] \in Ended => charged[r] <= used[r] /\ used[r] <= charged[r] + 1

\* What a request between two tool calls has said last.
AtTools(r) ==
    stage[r] = "tools" =>
        /\ todo[r] > 0
        /\ messages[r] # <<>>
        /\ \/ Last(messages[r]).kind = "calls"
           \/ Last(messages[r]).n + todo[r] <= MaxCalls

Inv == TypeOK /\ \A r \in Requests : Meter(r) /\ AtTools(r)

LEMMA SaidType ==
    ASSUME NEW r \in Requests, NEW k \in Kinds, NEW i \in 0 .. MaxCalls
    PROVE  Said(r, k, i) \in Message /\ Said(r, k, i).n = i
BY DEF Said, Message

\* A turn asks for no more tools than the bound.
LEMMA AskedType == Asked \subseteq 0 .. MaxCalls
BY DEF Asked, Responses, Replies, Parse, OllamaParse, ClaudeParse

LEMMA CallNumberType ==
    ASSUME Inv, NEW r \in Requests, stage[r] = "tools"
    PROVE  /\ CallNumber(r) \in 0 .. MaxCalls
           /\ CallNumber(r) + todo[r] <= MaxCalls + 1
<1> USE AgentAssumption DEF Inv, TypeOK
<1>1. Last(messages[r]) \in Message
  BY DEF AtTools, Last
<1>2. Last(messages[r]).n \in 0 .. MaxCalls
  BY <1>1 DEF Message
<1>3. todo[r] \in 0 .. MaxCalls /\ todo[r] > 0
  BY DEF AtTools
<1>4. \/ Last(messages[r]).kind = "calls"
      \/ Last(messages[r]).n + todo[r] <= MaxCalls
  BY DEF AtTools
<1>5. CASE Last(messages[r]).kind = "calls"
  <2>1. CallNumber(r) = 1 /\ MaxCalls \in Nat
    BY <1>5 DEF CallNumber
  <2> QED BY <1>3, <2>1
<1>6. CASE Last(messages[r]).kind # "calls"
  <2>1. CallNumber(r) = Last(messages[r]).n + 1 /\ MaxCalls \in Nat
    BY <1>6 DEF CallNumber
  <2> QED BY <1>2, <1>3, <1>4, <1>6, <2>1
<1> QED BY <1>5, <1>6

LEMMA LastAppended ==
    ASSUME NEW m \in Seq(Message), NEW e \in Message
    PROVE  /\ Append(m, e) \in Seq(Message)
           /\ Append(m, e) # <<>>
           /\ Last(Append(m, e)) = e
BY DEF Last

\* A step of request r that says nothing.
LEMMA SilentStep ==
    ASSUME Inv, NEW r \in Requests,
           \/ Save(r) \/ ChargeLast(r) \/ Status(r) \/ Close(r) \/ Charge(r)
           \/ Fails(r) \/ Cancel(r) \/ LoadFails(r)
    PROVE  Inv'
<1> USE AgentAssumption
    DEF Inv, TypeOK, Meter, AtTools, Ended, Answered, Running, Holding, Goto,
        tokens, ghosts
<1>s. ASSUME Stored(r) PROVE history' \in [Sessions -> Seq(Message)]
  BY <1>s DEF Stored
<1>1. CASE Save(r)
  <2>1. /\ stage[r] = "saving" /\ stage' = [stage EXCEPT ![r] = "saved"]
        /\ history' \in [Sessions -> Seq(Message)]
        /\ kept' \subseteq Requests
        /\ UNCHANGED <<messages, turn, todo, used, charged, forgotten>>
    BY <1>1, <1>s DEF Save, Keeps
  <2> QED BY <2>1
<1>2. CASE ChargeLast(r)  BY <1>2 DEF ChargeLast, Charged
<1>3. CASE Status(r)      BY <1>3 DEF Status
<1>4. CASE Close(r)
  <2>1. /\ stage[r] = "closing" /\ stage' = [stage EXCEPT ![r] = "exhausted"]
        /\ history' \in [Sessions -> Seq(Message)]
        /\ kept' \subseteq Requests
        /\ UNCHANGED <<messages, turn, todo, used, charged, forgotten>>
    BY <1>4, <1>s DEF Close, Keeps
  <2> QED BY <2>1
<1>5. CASE Charge(r)
  <2>0. /\ stage[r] = "charging"
        /\ charged' = [charged EXCEPT ![r] = @ + 1]
        /\ UNCHANGED <<history, messages, todo, used, kept, forgotten>>
    BY <1>5 DEF Charge, Charged
  <2>1. CASE MoreTurns(r)
    <3>1. /\ turn[r] < MaxTurns
          /\ turn' = [turn EXCEPT ![r] = @ + 1]
          /\ stage' = [stage EXCEPT ![r] = "thinking"]
      BY <1>5, <2>1 DEF Charge, NextTurn, MoreTurns
    <3> QED BY <2>0, <3>1
  <2>2. CASE ~MoreTurns(r)
    <3>1. stage' = [stage EXCEPT ![r] = "closing"] /\ UNCHANGED turn
      BY <1>5, <2>2 DEF Charge, NextTurn
    <3> QED BY <2>0, <3>1
  <2> QED BY <2>1, <2>2
<1>6. CASE Fails(r)
  <2>1. CASE UNCHANGED <<history, charged>>
    BY <1>6, <2>1 DEF Fails
  <2>2. CASE stage[r] \in {"saving", "closing"} /\ Stored(r) /\ UNCHANGED charged
    BY <1>6, <1>s, <2>2 DEF Fails
  <2>3. CASE stage[r] \in {"charging", "saved"} /\ Charged(r) /\ UNCHANGED history
    BY <1>6, <2>3 DEF Fails, Charged
  <2> QED BY <1>6, <2>1, <2>2, <2>3 DEF Fails
<1>7. CASE Cancel(r)      BY <1>7 DEF Cancel
<1>8. CASE LoadFails(r)   BY <1>8 DEF LoadFails
<1> QED BY <1>1, <1>2, <1>3, <1>4, <1>5, <1>6, <1>7, <1>8

\* A step of request r that adds a message to its copy.
LEMMA SayingStep ==
    ASSUME Inv, NEW r \in Requests,
           Load(r) \/ Answer(r) \/ AskTools(r) \/ RunTool(r)
    PROVE  Inv'
<1> USE AgentAssumption
    DEF Inv, TypeOK, Meter, Ended, Answered, Running, Holding, Goto,
        tokens, ghosts
<1>1. CASE Load(r)
  <2>1. Loaded(r) \in Seq(Message)
    BY SaidType, LastAppended DEF Loaded, Kinds
  <2> QED BY <1>1, <2>1 DEF Load, AtTools
<1>2. CASE Answer(r)
  <2>1. Append(messages[r], Said(r, "answer", 0)) \in Seq(Message)
    BY SaidType, LastAppended DEF Kinds
  <2> QED BY <1>2, <2>1 DEF Answer, Say, AtTools
<1>3. CASE AskTools(r)
  <2>1. PICK n \in 0 .. MaxCalls :
            /\ Say(r, Said(r, "calls", n))
            /\ todo' = [todo EXCEPT ![r] = n]
            /\ Goto(r, AfterAsk(n))
    BY <1>3, AskedType DEF AskTools
  <2> DEFINE m == Append(messages[r], Said(r, "calls", n))
  <2>2. m \in Seq(Message) /\ m # <<>> /\ Last(m) = Said(r, "calls", n)
    BY SaidType, LastAppended DEF Kinds
  <2>3. Last(m).kind = "calls"
    BY <2>2 DEF Said
  <2>4. messages' = [messages EXCEPT ![r] = m]
    BY <2>1 DEF Say
  <2>5. UNCHANGED <<history, turn, charged, kept, forgotten>>
        /\ used' = [used EXCEPT ![r] = @ + 1] /\ stage[r] = "thinking"
    BY <1>3 DEF AskTools
  <2> HIDE DEF m
  <2>6. stage' = [stage EXCEPT ![r] = IF n = 0 THEN "charging" ELSE "tools"]
    BY <2>1 DEF AfterAsk
  <2>7. TypeOK' /\ \A q \in Requests : Meter(q)'
    <3>1. Meter(r) /\ used[r] + 1 = turn[r] /\ charged[r] = used[r]
      BY <2>5
    <3>2. TypeOK'
      BY <2>1, <2>2, <2>4, <2>5, <2>6, <3>1
    <3>3. Meter(r)'
      BY <2>5, <2>6, <3>1
    <3>4. \A q \in Requests \ {r} : Meter(q)'
      BY <2>5, <2>6
    <3> QED BY <3>2, <3>3, <3>4
  <2>8. AtTools(r)'
    BY <2>1, <2>2, <2>3, <2>4, <2>6 DEF AtTools
  <2>9. \A q \in Requests \ {r} : AtTools(q)'
    BY <2>1, <2>4, <2>6 DEF AtTools
  <2> QED BY <2>7, <2>8, <2>9
<1>4. CASE RunTool(r)
  <2> DEFINE m == Append(messages[r], Said(r, "tool", CallNumber(r)))
  <2>0. stage[r] = "tools" /\ todo[r] > 0
    BY <1>4 DEF RunTool, AtTools
  <2>1. CallNumber(r) \in 0 .. MaxCalls /\ CallNumber(r) + todo[r] <= MaxCalls + 1
    BY <2>0, CallNumberType
  <2>2. m \in Seq(Message) /\ m # <<>> /\ Last(m).n = CallNumber(r)
    <3>1. "tool" \in Kinds
      BY DEF Kinds
    <3>2. Said(r, "tool", CallNumber(r)) \in Message
      BY <2>1, <3>1, SaidType
    <3>3. Said(r, "tool", CallNumber(r)).n = CallNumber(r)
      BY DEF Said
    <3> QED BY <3>2, <3>3, LastAppended
  <2>3. messages' = [messages EXCEPT ![r] = m]
    BY <1>4 DEF RunTool, ToolSaid, Say
  <2>4. /\ todo' = [todo EXCEPT ![r] = @ - 1]
        /\ stage' = [stage EXCEPT ![r] = IF todo[r] = 1 THEN "charging" ELSE "tools"]
        /\ UNCHANGED <<history, turn, used, charged, kept, forgotten>>
    BY <1>4 DEF RunTool
  <2> HIDE DEF m
  <2>5. AtTools(r)'
    BY <2>0, <2>1, <2>2, <2>3, <2>4 DEF AtTools
  <2>6. \A q \in Requests : AtTools(q)'
    BY <2>3, <2>4, <2>5 DEF AtTools
  <2>7. TypeOK'
    BY <2>0, <2>2, <2>3, <2>4
  <2>8. \A q \in Requests : Meter(q)'
    BY <2>0, <2>4
  <2> QED BY <2>6, <2>7, <2>8
<1> QED BY <1>1, <1>2, <1>3, <1>4

LEMMA InvStep == ASSUME Inv, [Next]_vars PROVE Inv'
<1> USE DEF Inv, TypeOK, Meter, AtTools, request, tokens, ghosts
<1>1. ASSUME NEW r \in Requests, Step(r) PROVE Inv'
  BY <1>1, SilentStep, SayingStep DEF Step, Proceed
<1>2. ASSUME NEW s \in Sessions, ClearSession(s) PROVE Inv'
  <2>1. forgotten' \subseteq Requests
    <3>1. history[s] \in Seq(Message)
      OBVIOUS
    <3>2. \A i \in 1 .. Len(history[s]) : history[s][i].from \in Requests
      <4>1. \A i \in 1 .. Len(history[s]) : history[s][i] \in Message
        BY <3>1, ElementOfSeq
      <4> QED BY <4>1 DEF Message
    <3>3. forgotten' = forgotten \cup {history[s][i].from : i \in 1 .. Len(history[s])}
      BY <1>2 DEF ClearSession
    <3> QED BY <3>2, <3>3
  <2> QED BY <1>2, <2>1 DEF ClearSession, Erased
<1>3. ASSUME NEW s \in Sessions, Lapse(s) PROVE Inv'
  BY <1>3 DEF Lapse, Erased
<1>4. CASE UNCHANGED vars
  BY <1>4 DEF vars
<1> QED BY <1>1, <1>2, <1>3, <1>4 DEF Next

LEMMA InvInit == Init => Inv
BY AgentAssumption DEF Init, Inv, TypeOK, Meter, AtTools, Ended, Answered, Running, Holding

LEMMA InvAlways == Spec => []Inv
BY InvInit, InvStep, PTL DEF Spec

-----------------------------------------------------------------------------
(* The variables keep their types.                                         *)
THEOREM TypeCorrect == Spec => []TypeOK
<1>1. Inv => TypeOK
  BY DEF Inv
<1> QED BY <1>1, InvAlways, PTL

(* Never more than one turn's tokens are missing from the session's        *)
(* budget, and an answered request has paid for all of its turns.          *)
THEOREM Paid == Spec => []TokensPaid
<1>1. Inv => TokensPaid
  <2> SUFFICES ASSUME Inv, NEW r \in Requests
               PROVE  /\ charged[r] <= used[r] /\ used[r] <= charged[r] + 1
                      /\ stage[r] \in Answered => charged[r] = used[r]
    BY DEF TokensPaid
  <2>1. charged[r] \in Nat /\ used[r] \in Nat /\ turn[r] \in Nat
    BY AgentAssumption DEF Inv, TypeOK
  <2>2. stage[r] \in {"start"} \cup Running \cup Ended
    BY DEF Inv, TypeOK
  <2>3. Meter(r)
    BY DEF Inv
  <2> QED BY <2>1, <2>2, <2>3 DEF Meter, Answered, Running, Holding, Ended
<1> QED BY <1>1, InvAlways, PTL

-----------------------------------------------------------------------------
LEMMA PrefixReflexive ==
    ASSUME NEW m \in Seq(Message)
    PROVE  IsPrefix(m, m)
BY DEF IsPrefix

LEMMA PrefixAppend ==
    ASSUME NEW m \in Seq(Message), NEW k \in Seq(Message), NEW e \in Message,
           IsPrefix(m, k)
    PROVE  IsPrefix(m, Append(k, e))
<1>1. Len(m) \in Nat /\ Len(k) \in Nat /\ Len(m) <= Len(k)
  BY DEF IsPrefix
<1>2. Append(k, e) \in Seq(Message) /\ Len(Append(k, e)) = Len(k) + 1
  OBVIOUS
<1>3. \A i \in 1 .. Len(m) : Append(k, e)[i] = k[i]
  BY <1>1
<1>4. SubSeq(Append(k, e), 1, Len(m)) = SubSeq(k, 1, Len(m))
  <2>1. \A i \in 1 .. Len(m) : k[i] \in Message
    BY <1>1, ElementOfSeq
  <2>2. /\ SubSeq(k, 1, Len(m)) \in Seq(Message)
        /\ Len(SubSeq(k, 1, Len(m))) = Len(m)
        /\ \A i \in 1 .. Len(m) : SubSeq(k, 1, Len(m))[i] = k[i]
    BY <1>1, <2>1
  <2>3. /\ SubSeq(Append(k, e), 1, Len(m)) \in Seq(Message)
        /\ Len(SubSeq(Append(k, e), 1, Len(m))) = Len(m)
        /\ \A i \in 1 .. Len(m) : SubSeq(Append(k, e), 1, Len(m))[i] = Append(k, e)[i]
    BY <1>1, <1>2, <1>3, <2>1
  <2> HIDE DEF IsPrefix
  <2> QED BY <1>3, <2>2, <2>3, SeqEqual
<1> QED BY <1>1, <1>2, <1>4 DEF IsPrefix

\* A kept conversation is the beginning of the stored one, and of every copy
\* that may still be stored; its request is past its save.
Rooted ==
    /\ Remembered
    /\ \A r \in kept :
          /\ stage[r] \notin Holding \cup {"start"}
          /\ \A q \in Requests :
                SessionOf[q] = SessionOf[r] /\ stage[q] \in Holding
                    => IsPrefix(messages[r], messages[q])

\* Request q says e in its copy; its stage is s from now on.
LEMMA RootedSay ==
    ASSUME Inv, Rooted, NEW q \in Requests, NEW e \in Message, NEW s,
           stage[q] \in Holding,
           messages' = [messages EXCEPT ![q] = Append(@, e)],
           stage' = [stage EXCEPT ![q] = s],
           UNCHANGED <<history, kept>>
    PROVE  Rooted'
<1> USE DEF Rooted, Remembered, Inv, TypeOK
<1>1. \A r \in kept : r # q /\ messages'[r] = messages[r] /\ stage'[r] = stage[r]
  OBVIOUS
<1>2. \A r \in kept : SessionOf[q] = SessionOf[r] => IsPrefix(messages[r], messages'[q])
  BY PrefixAppend
<1>3. ASSUME NEW r \in kept, NEW t \in Requests,
             SessionOf[t] = SessionOf[r], stage'[t] \in Holding
      PROVE  IsPrefix(messages'[r], messages'[t])
  <2>1. CASE t = q   BY <1>1, <1>2, <1>3, <2>1
  <2>2. CASE t # q   BY <1>1, <1>3, <2>2
  <2> QED BY <2>1, <2>2
<1> QED BY <1>1, <1>3

\* Request q moves on to stage s, with the same copy, storing nothing.
LEMMA RootedMove ==
    ASSUME Inv, Rooted, NEW q \in Requests, NEW s,
           s \in Holding => stage[q] \in Holding,
           s # "start",
           stage' = [stage EXCEPT ![q] = s],
           UNCHANGED <<history, messages, kept>>
    PROVE  Rooted'
BY DEF Rooted, Remembered, Inv, TypeOK

\* Request q stores its copy and holds it no longer.
LEMMA RootedStore ==
    ASSUME Inv, Rooted, NEW q \in Requests, NEW s,
           stage[q] \in Holding, s \notin Holding \cup {"start"},
           stage' = [stage EXCEPT ![q] = s],
           Stored(q), Keeps(q) \/ UNCHANGED kept,
           UNCHANGED messages
    PROVE  Rooted'
<1> USE AgentAssumption DEF Inv, TypeOK
<1>1. /\ history'[SessionOf[q]] = messages[q]
      /\ \A t \in Sessions : t # SessionOf[q] => history'[t] = history[t]
  BY DEF Stored
<1>2. kept' \subseteq kept \cup {q} /\ (q \in kept' => ~OthersHold(q))
  BY DEF Keeps, Rooted
<1>3. ASSUME NEW r \in kept', r # q
      PROVE  /\ IsPrefix(messages'[r], history'[SessionOf[r]])
             /\ stage'[r] \notin Holding \cup {"start"}
             /\ \A p \in Requests :
                   SessionOf[p] = SessionOf[r] /\ stage'[p] \in Holding
                       => IsPrefix(messages'[r], messages'[p])
  <2>1. r \in kept /\ SessionOf[r] \in Sessions
    BY <1>2, <1>3
  <2> QED BY <1>1, <1>3, <2>1 DEF Rooted, Remembered
<1>4. ASSUME q \in kept'
      PROVE  /\ IsPrefix(messages'[q], history'[SessionOf[q]])
             /\ stage'[q] \notin Holding \cup {"start"}
             /\ \A p \in Requests :
                   SessionOf[p] = SessionOf[q] /\ stage'[p] \in Holding
                       => IsPrefix(messages'[q], messages'[p])
  <2>1. IsPrefix(messages'[q], history'[SessionOf[q]])
    BY <1>1, PrefixReflexive
  <2> QED BY <1>2, <1>4, <2>1 DEF OthersHold
<1> QED BY <1>3, <1>4 DEF Rooted, Remembered

LEMMA RootedLoad ==
    ASSUME Inv, Rooted, NEW q \in Requests, Load(q)
    PROVE  Rooted'
<1> USE AgentAssumption DEF Inv, TypeOK
<1>1. /\ stage[q] = "start" /\ stage' = [stage EXCEPT ![q] = "thinking"]
      /\ messages' = [messages EXCEPT ![q] = Loaded(q)]
      /\ UNCHANGED <<history, kept>>
  BY DEF Load, Goto, ghosts
<1>2. Said(q, "user", 0) \in Message
  BY SaidType DEF Kinds
<1>3. ASSUME NEW r \in kept, SessionOf[q] = SessionOf[r]
      PROVE  IsPrefix(messages[r], Loaded(q))
  BY <1>2, <1>3, PrefixAppend DEF Rooted, Remembered, Loaded
<1>4. q \notin kept
  BY <1>1 DEF Rooted
<1> QED BY <1>1, <1>3, <1>4 DEF Rooted, Remembered

LEMMA RootedErase ==
    ASSUME Inv, Rooted, NEW s \in Sessions, Erased(s), UNCHANGED <<stage, messages>>
    PROVE  Rooted'
BY AgentAssumption DEF Rooted, Remembered, Erased, Inv, TypeOK

LEMMA RootedStep == ASSUME Inv, Rooted, [Next]_vars PROVE Rooted'
<1> USE DEF Goto, tokens, ghosts, request
<1>1. ASSUME NEW q \in Requests, Step(q) PROVE Rooted'
  <2>1. CASE Load(q)
    BY <2>1, RootedLoad
  <2>2. CASE LoadFails(q)
    <3>1. PICK s \in {"broken", "error"} : Goto(q, s)
      BY <2>2 DEF LoadFails
    <3> QED BY <2>2, <3>1, RootedMove DEF LoadFails, Holding
  <2>3. CASE Answer(q)
    <3>1. Said(q, "answer", 0) \in Message
      BY SaidType, AgentAssumption DEF Kinds
    <3> QED BY <2>3, <3>1, RootedSay DEF Answer, Say, Holding
  <2>4. CASE AskTools(q)
    <3>1. PICK n \in 0 .. MaxCalls :
              Say(q, Said(q, "calls", n)) /\ Goto(q, AfterAsk(n))
      BY <2>4, AskedType DEF AskTools
    <3>2. Said(q, "calls", n) \in Message
      BY SaidType DEF Kinds
    <3> QED BY <2>4, <3>1, <3>2, RootedSay DEF AskTools, Say, Holding, AfterAsk
  <2>5. CASE RunTool(q)
    <3>1. Said(q, "tool", CallNumber(q)) \in Message
      BY <2>5, CallNumberType, SaidType DEF RunTool, Kinds
    <3> QED BY <2>5, <3>1, RootedSay DEF RunTool, ToolSaid, Say, Holding
  <2>6. CASE Charge(q)
    <3>1. PICK s \in {"thinking", "closing"} : Goto(q, s)
      BY <2>6 DEF Charge, NextTurn
    <3> QED BY <2>6, <3>1, RootedMove DEF Charge, Holding
  <2>7. CASE Save(q)
    <3>1. /\ stage[q] \in Holding /\ "saved" \notin Holding \cup {"start"}
          /\ stage' = [stage EXCEPT ![q] = "saved"]
          /\ Stored(q) /\ Keeps(q)
          /\ UNCHANGED messages
      BY <2>7 DEF Save, Holding
    <3> QED BY <3>1, RootedStore
  <2>8. CASE ChargeLast(q)
    BY <2>8, RootedMove DEF ChargeLast, Holding
  <2>9. CASE Status(q)
    BY <2>9, RootedMove DEF Status, Holding
  <2>10. CASE Close(q)
    <3>1. /\ stage[q] \in Holding /\ "exhausted" \notin Holding \cup {"start"}
          /\ stage' = [stage EXCEPT ![q] = "exhausted"]
          /\ Stored(q) /\ Keeps(q)
          /\ UNCHANGED messages
      BY <2>10 DEF Close, Holding
    <3> QED BY <3>1, RootedStore
  <2>11. CASE Fails(q)
    <3>1. PICK s \in {"broken", "error"} : Goto(q, s)
      BY <2>11 DEF Fails
    <3>2. CASE UNCHANGED history
      BY <2>11, <3>1, <3>2, RootedMove DEF Fails, Holding
    <3>3. CASE stage[q] \in {"saving", "closing"} /\ Stored(q)
      <4>1. /\ stage[q] \in Holding /\ s \notin Holding \cup {"start"}
            /\ UNCHANGED <<messages, kept>>
        BY <2>11, <3>1, <3>3 DEF Fails, Holding
      <4> QED BY <3>1, <3>3, <4>1, RootedStore
    <3> QED BY <2>11, <3>2, <3>3 DEF Fails
  <2>12. CASE Cancel(q)
    BY <2>12, RootedMove DEF Cancel, Holding
  <2> QED
    BY <1>1, <2>1, <2>2, <2>3, <2>4, <2>5, <2>6, <2>7, <2>8, <2>9, <2>10, <2>11, <2>12
    DEF Step, Proceed
<1>2. ASSUME NEW s \in Sessions, ClearSession(s) \/ Lapse(s) PROVE Rooted'
  BY <1>2, RootedErase DEF ClearSession, Lapse
<1>3. CASE UNCHANGED vars
  BY <1>3 DEF vars, Rooted, Remembered
<1> QED BY <1>1, <1>2, <1>3 DEF Next

(* Once a request has saved while no other of its session had a copy to    *)
(* save, whatever is stored later begins with its messages, until the      *)
(* session is cleared or lapses.                                           *)
THEOREM Continues == Spec => []Remembered
<1>1. Init => Rooted
  BY DEF Init, Rooted, Remembered
<1>2. Rooted => Remembered
  BY DEF Rooted
<1>3. Inv /\ Rooted /\ [Next]_vars => Rooted'
  BY RootedStep
<1> QED BY <1>1, <1>2, <1>3, InvAlways, PTL DEF Spec

-----------------------------------------------------------------------------
(* Conversations.  The last tool calls of a copy may still lack k results. *)

Partial(m, k) ==
    /\ \A i \in 1 .. Len(m) : m[i].kind = "calls" =>
          /\ i + m[i].n <= Len(m) + k
          /\ \A j \in 1 .. m[i].n :
                i + j <= Len(m) => m[i + j] = Said(m[i].from, "tool", j)
    /\ \A i \in 1 .. Len(m) : m[i].kind = "tool" =>
          /\ i > m[i].n
          /\ m[i - m[i].n].kind = "calls" /\ m[i - m[i].n].n >= m[i].n

\* The calls that lack them are at p, and request r asked for them.
OpenAt(m, r, k, p) ==
    m[p].kind = "calls" /\ m[p].from = r /\ p + m[p].n = Len(m) + k

Open(m, r, k) == \E p \in 1 .. Len(m) : OpenAt(m, r, k, p)

LEMMA WholeConversation ==
    ASSUME NEW m \in Seq(Message)
    PROVE  Conversation(m) <=> Partial(m, 0)
<1>1. \A i \in 1 .. Len(m) : m[i].n \in 0 .. MaxCalls
  <2>1. \A i \in 1 .. Len(m) : m[i] \in Message
    BY ElementOfSeq
  <2> QED BY <2>1 DEF Message
<1> QED BY <1>1, AgentAssumption DEF Conversation, Partial

LEMMA AppendAt ==
    ASSUME NEW m \in Seq(Message), NEW e \in Message
    PROVE  /\ Append(m, e) \in Seq(Message)
           /\ Len(m) \in Nat /\ Len(Append(m, e)) = Len(m) + 1
           /\ \A i \in 1 .. Len(m) : Append(m, e)[i] = m[i]
           /\ Append(m, e)[Len(m) + 1] = e
           /\ \A i \in 1 .. Len(m) : m[i].n \in Nat
<1>1. \A i \in 1 .. Len(m) : m[i] \in Message
  BY ElementOfSeq
<1>2. \A i \in 1 .. Len(m) : m[i].n \in Nat
  BY <1>1, AgentAssumption DEF Message
<1> QED BY <1>2

\* Something is said that is no tool result: it may ask for tools.
LEMMA PartialSay ==
    ASSUME NEW m \in Seq(Message), Partial(m, 0),
           NEW r \in Requests, NEW kind \in Kinds \ {"tool"}, NEW n \in 0 .. MaxCalls,
           kind # "calls" => n = 0
    PROVE  /\ Partial(Append(m, Said(r, kind, n)), n)
           /\ kind = "calls" => Open(Append(m, Said(r, kind, n)), r, n)
<1> DEFINE e == Said(r, kind, n)
           a == Append(m, e)
<1>1. e \in Message /\ e.kind = kind /\ e.n = n /\ e.from = r
  BY DEF Said, Message
<1>2. /\ Len(m) \in Nat /\ Len(a) = Len(m) + 1
      /\ \A i \in 1 .. Len(m) : a[i] = m[i] /\ m[i].n \in Nat
      /\ a[Len(m) + 1] = e
  BY <1>1, AppendAt
<1>3. n \in Nat
  BY AgentAssumption
<1> HIDE DEF e, a
<1>4. ASSUME NEW i \in 1 .. Len(a), a[i].kind = "calls"
      PROVE  /\ i + a[i].n <= Len(a) + n
             /\ \A j \in 1 .. a[i].n :
                   i + j <= Len(a) => a[i + j] = Said(a[i].from, "tool", j)
  <2>1. CASE i \in 1 .. Len(m)
    <3>1. /\ a[i] = m[i] /\ m[i].n \in Nat /\ m[i].kind = "calls"
          /\ i + m[i].n <= Len(m)
      BY <1>2, <1>4, <2>1 DEF Partial
    <3>2. \A j \in 1 .. m[i].n : i + j \in 1 .. Len(m)
      BY <1>2, <2>1, <3>1
    <3>3. \A j \in 1 .. m[i].n : m[i + j] = Said(m[i].from, "tool", j)
      BY <1>2, <2>1, <3>1, <3>2 DEF Partial
    <3>4. \A j \in 1 .. m[i].n : a[i + j] = Said(m[i].from, "tool", j)
      BY <1>2, <3>2, <3>3
    <3>5. i + m[i].n <= Len(a) + n
      BY <1>2, <1>3, <2>1, <3>1
    <3> QED BY <3>1, <3>4, <3>5
  <2>2. CASE i = Len(m) + 1
    BY <1>1, <1>2, <1>3, <2>2
  <2>3. i \in 1 .. Len(m) \/ i = Len(m) + 1
    BY <1>2
  <2> QED BY <2>1, <2>2, <2>3
<1>5. ASSUME NEW i \in 1 .. Len(a), a[i].kind = "tool"
      PROVE  /\ i > a[i].n
             /\ a[i - a[i].n].kind = "calls" /\ a[i - a[i].n].n >= a[i].n
  <2>1. i \in 1 .. Len(m)
    BY <1>1, <1>2, <1>5
  <2>2. i > m[i].n /\ i - m[i].n \in 1 .. Len(m)
    BY <1>2, <1>5, <2>1 DEF Partial
  <2> QED BY <1>2, <1>5, <2>1, <2>2 DEF Partial
<1>6. kind = "calls" => Open(a, r, n)
  <2>1. Len(m) + 1 \in 1 .. Len(a)
    BY <1>2
  <2>2. kind = "calls" => OpenAt(a, r, n, Len(m) + 1)
    BY <1>1, <1>2, <1>3 DEF OpenAt
  <2> QED BY <2>1, <2>2 DEF Open
<1>7. Partial(a, n)
  BY <1>4, <1>5 DEF Partial
<1> QED BY <1>6, <1>7 DEF e, a

\* A tool result is said while results are missing.
LEMMA PartialTool ==
    ASSUME NEW m \in Seq(Message), NEW r \in Requests, NEW k \in Nat \ {0},
           NEW p \in 1 .. Len(m), Partial(m, k), OpenAt(m, r, k, p),
           Len(m) + 1 - p \in 0 .. MaxCalls
    PROVE  LET a == Append(m, Said(r, "tool", Len(m) + 1 - p))
           IN  Partial(a, k - 1) /\ OpenAt(a, r, k - 1, p)
<1> DEFINE e == Said(r, "tool", Len(m) + 1 - p)
           a == Append(m, e)
<1>1. e \in Message /\ e.kind = "tool" /\ e.n = Len(m) + 1 - p
  BY DEF Said, Message, Kinds
<1>0. Len(m) \in Nat /\ Len(a) = Len(m) + 1
  BY <1>1, AppendAt
<1>2. /\ Len(m) \in Nat /\ Len(a) = Len(m) + 1
      /\ \A i \in 1 .. Len(m) : a[i] = m[i] /\ m[i].n \in Nat
      /\ a[Len(m) + 1] = e
  BY <1>1, AppendAt
<1>3. /\ m[p].kind = "calls" /\ m[p].from = r /\ m[p].n \in Nat
      /\ p + m[p].n = Len(m) + k
  BY <1>2 DEF OpenAt
<1>4. e = Said(r, "tool", Len(m) + 1 - p)
  OBVIOUS
<1> HIDE DEF e, a
<1>5. \A i \in 1 .. Len(m) : m[i].kind = "calls" /\ i + m[i].n > Len(m) => i = p
  <2> SUFFICES ASSUME NEW i \in 1 .. Len(m),
                      m[i].kind = "calls", i + m[i].n > Len(m), i # p
               PROVE  FALSE
    OBVIOUS
  <2>1. CASE i < p
    <3>1. p - i \in 1 .. m[i].n /\ i + (p - i) = p
      BY <1>2, <2>1
    <3>2. m[p] = Said(m[i].from, "tool", p - i)
      BY <1>2, <3>1 DEF Partial
    <3> QED BY <1>3, <3>2 DEF Said
  <2>2. CASE i > p
    <3>0. Len(m) \in Nat /\ p + m[p].n >= Len(m)
      BY <1>2, <1>3
    <3>1. i - p \in 1 .. m[p].n /\ p + (i - p) = i
      BY <1>3, <2>2, <3>0
    <3>2. m[i] = Said(m[p].from, "tool", i - p)
      BY <1>2, <1>3, <3>1 DEF Partial
    <3> QED BY <3>2 DEF Said
  <2> QED BY <2>1, <2>2
<1>6. ASSUME NEW i \in 1 .. Len(a), a[i].kind = "calls"
      PROVE  /\ i + a[i].n <= Len(a) + (k - 1)
             /\ \A j \in 1 .. a[i].n :
                   i + j <= Len(a) => a[i + j] = Said(a[i].from, "tool", j)
  <2>1. i \in 1 .. Len(m) /\ a[i] = m[i] /\ m[i].n \in Nat
    BY <1>1, <1>2, <1>6
  <2>2. i + m[i].n <= Len(m) + k
    BY <1>6, <2>1 DEF Partial
  <2>3. ASSUME NEW j \in 1 .. m[i].n, i + j <= Len(m) + 1
        PROVE  a[i + j] = Said(m[i].from, "tool", j)
    <3>1. CASE i + j <= Len(m)
      <4>1. m[i + j] = Said(m[i].from, "tool", j)
        BY <1>6, <2>1, <3>1 DEF Partial
      <4>2. i + j \in 1 .. Len(m)
        BY <1>2, <2>1, <3>1
      <4> QED BY <1>2, <4>1, <4>2
    <3>2. CASE i + j = Len(m) + 1
      <4>1. i = p
        BY <1>2, <1>5, <1>6, <2>1, <3>2
      <4>2. j = Len(m) + 1 - p
        BY <1>2, <3>2, <4>1
      <4> QED BY <1>2, <1>3, <1>4, <3>2, <4>1, <4>2
    <3>3. i + j <= Len(m) \/ i + j = Len(m) + 1
      BY <1>0, <2>1, <2>3
    <3> QED BY <3>1, <3>2, <3>3
  <2> QED BY <1>2, <2>1, <2>2, <2>3
<1>7. ASSUME NEW i \in 1 .. Len(a), a[i].kind = "tool"
      PROVE  /\ i > a[i].n
             /\ a[i - a[i].n].kind = "calls" /\ a[i - a[i].n].n >= a[i].n
  <2>1. CASE i \in 1 .. Len(m)
    <3>1. i > m[i].n /\ i - m[i].n \in 1 .. Len(m)
      BY <1>2, <1>7, <2>1 DEF Partial
    <3> QED BY <1>2, <1>7, <2>1, <3>1 DEF Partial
  <2>2. CASE i = Len(m) + 1
    <3>1. a[i].n = Len(m) + 1 - p /\ i - a[i].n = p /\ a[p] = m[p]
      BY <1>1, <1>2, <2>2
    <3>2. m[p].kind = "calls" /\ m[p].n >= Len(m) + 1 - p /\ Len(m) + 1 > Len(m) + 1 - p
      BY <1>0, <1>3
    <3> QED BY <2>2, <3>1, <3>2
  <2>3. i \in 1 .. Len(m) \/ i = Len(m) + 1
    BY <1>0
  <2> QED BY <2>1, <2>2, <2>3
<1>8. OpenAt(a, r, k - 1, p)
  BY <1>2, <1>3 DEF OpenAt
<1> QED BY <1>6, <1>7, <1>8 DEF Partial, e, a

\* What is stored is whole, and so is every copy but in the middle of its
\* tool calls.
Whole ==
    /\ \A s \in Sessions : Conversation(history[s])
    /\ \A r \in Requests :
          /\ stage[r] \in Holding \ {"tools"} => Partial(messages[r], 0)
          /\ stage[r] = "tools" =>
                Partial(messages[r], todo[r]) /\ Open(messages[r], r, todo[r])

\* The next result is the one that is missing.
LEMMA NextMissing ==
    ASSUME Inv, NEW r \in Requests, stage[r] = "tools",
           Partial(messages[r], todo[r]),
           NEW p \in 1 .. Len(messages[r]), OpenAt(messages[r], r, todo[r], p)
    PROVE  CallNumber(r) = Len(messages[r]) + 1 - p
<1> DEFINE m == messages[r]
<1>1. m \in Seq(Message) /\ todo[r] \in Nat \ {0} /\ Last(m) = m[Len(m)]
  BY AgentAssumption DEF Inv, TypeOK, AtTools, Last
<1>2. m[p] \in Message
  BY <1>1, ElementOfSeq
<1>3. /\ m[p].kind = "calls" /\ m[p].n \in Nat
      /\ p + m[p].n = Len(m) + todo[r] /\ Len(m) \in Nat
  BY <1>1, <1>2, AgentAssumption DEF OpenAt, Message
<1>4. CASE Len(m) = p
  BY <1>1, <1>3, <1>4 DEF CallNumber
<1>5. CASE Len(m) > p
  <2>1. Len(m) - p \in 1 .. m[p].n /\ p + (Len(m) - p) = Len(m)
    BY <1>1, <1>3, <1>5
  <2>2. m[Len(m)] = Said(m[p].from, "tool", Len(m) - p)
    <3> HIDE DEF m
    <3>1. \A j \in 1 .. m[p].n : p + j <= Len(m) => m[p + j] = Said(m[p].from, "tool", j)
      BY <1>3 DEF Partial, m
    <3> QED BY <1>3, <2>1, <3>1
  <2>3. Last(m).kind = "tool" /\ Last(m).n = Len(m) - p
    BY <1>1, <2>2 DEF Said
  <2>4. CallNumber(r) = Last(m).n + 1
    BY <2>3 DEF CallNumber
  <2> QED BY <1>3, <2>3, <2>4
<1> QED BY <1>3, <1>4, <1>5

\* Request q moves to stage s, or stores its copy and leaves.
LEMMA WholeQuiet ==
    ASSUME Inv, Whole, NEW q \in Requests, NEW s,
           s \notin {"tools"},
           s \in Holding => stage[q] \in Holding \ {"tools"},
           stage' = [stage EXCEPT ![q] = s],
           \/ UNCHANGED history
           \/ stage[q] \in {"saving", "closing"} /\ Stored(q),
           UNCHANGED <<messages, todo>>
    PROVE  Whole'
<1> USE AgentAssumption DEF Inv, TypeOK
<1>1. \A t \in Sessions : Conversation(history'[t])
  <2>1. CASE UNCHANGED history
    BY <2>1 DEF Whole
  <2>2. CASE stage[q] \in {"saving", "closing"} /\ Stored(q)
    <3>1. Conversation(messages[q])
      BY <2>2, WholeConversation DEF Whole, Holding
    <3> QED BY <2>2, <3>1 DEF Whole, Stored
  <2> QED BY <2>1, <2>2
<1>2. \A r \in Requests :
          /\ stage'[r] \in Holding \ {"tools"} => Partial(messages'[r], 0)
          /\ stage'[r] = "tools" =>
                Partial(messages'[r], todo'[r]) /\ Open(messages'[r], r, todo'[r])
  BY DEF Whole
<1> QED BY <1>1, <1>2 DEF Whole

\* Request q's copy becomes m, of which k results are missing.
LEMMA WholeSay ==
    ASSUME Inv, Whole, NEW q \in Requests, NEW s, NEW m \in Seq(Message), NEW k \in Nat,
           Partial(m, k), s = "tools" => Open(m, q, k), s # "tools" => k = 0,
           messages' = [messages EXCEPT ![q] = m],
           stage' = [stage EXCEPT ![q] = s],
           todo' = [todo EXCEPT ![q] = k] \/ (s # "tools" /\ UNCHANGED todo),
           UNCHANGED history
    PROVE  Whole'
<1> USE DEF Inv, TypeOK
<1>1. \A r \in Requests \ {q} :
          messages'[r] = messages[r] /\ stage'[r] = stage[r] /\ todo'[r] = todo[r]
  OBVIOUS
<1>2. messages'[q] = m /\ stage'[q] = s /\ (s = "tools" => todo'[q] = k)
  OBVIOUS
<1> QED BY <1>1, <1>2 DEF Whole

LEMMA WholeStep == ASSUME Inv, Whole, [Next]_vars PROVE Whole'
<1> USE DEF Goto, tokens, ghosts, request
<1>1. ASSUME NEW q \in Requests, Step(q) PROVE Whole'
  <2> USE DEF Inv, TypeOK
  <2>1. CASE Load(q)
    <3>1. history[SessionOf[q]] \in Seq(Message) /\ Partial(history[SessionOf[q]], 0)
      BY AgentAssumption, WholeConversation DEF Whole
    <3>2. Loaded(q) \in Seq(Message) /\ Partial(Loaded(q), 0)
      <4>1. /\ Said(q, "user", 0) \in Message
            /\ "user" \in Kinds \ {"tool"} /\ 0 \in 0 .. MaxCalls
        BY SaidType, AgentAssumption DEF Kinds
      <4>2. Loaded(q) \in Seq(Message)
        BY <3>1, <4>1, AppendAt DEF Loaded
      <4>3. Partial(Loaded(q), 0)
        BY <3>1, <4>1, PartialSay DEF Loaded
      <4> QED BY <4>2, <4>3
    <3> QED BY <2>1, <3>2, WholeSay DEF Load
  <2>2. CASE LoadFails(q)
    <3>1. PICK s \in {"broken", "error"} : Goto(q, s)
      BY <2>2 DEF LoadFails
    <3> QED BY <2>2, <3>1, WholeQuiet DEF LoadFails, Holding
  <2>3. CASE Answer(q)
    <3> DEFINE m == Append(messages[q], Said(q, "answer", 0))
    <3>1. messages[q] \in Seq(Message) /\ Partial(messages[q], 0)
      BY <2>3 DEF Whole, Answer, Holding
    <3>2. m \in Seq(Message) /\ Partial(m, 0)
      <4>1. /\ Said(q, "answer", 0) \in Message
            /\ "answer" \in Kinds \ {"tool"} /\ 0 \in 0 .. MaxCalls
        BY SaidType, AgentAssumption DEF Kinds
      <4>2. m \in Seq(Message)
        BY <3>1, <4>1, AppendAt
      <4>3. Partial(m, 0)
        BY <3>1, <4>1, PartialSay
      <4> QED BY <4>2, <4>3
    <3>3. messages' = [messages EXCEPT ![q] = m]
      BY <2>3 DEF Answer, Say
    <3> HIDE DEF m
    <3> QED BY <2>3, <3>2, <3>3, WholeSay DEF Answer
  <2>4. CASE AskTools(q)
    <3>1. PICK n \in 0 .. MaxCalls :
              /\ Say(q, Said(q, "calls", n))
              /\ todo' = [todo EXCEPT ![q] = n]
              /\ Goto(q, AfterAsk(n))
      BY <2>4, AskedType DEF AskTools
    <3> DEFINE m == Append(messages[q], Said(q, "calls", n))
    <3>2. messages[q] \in Seq(Message) /\ Partial(messages[q], 0)
      BY <2>4 DEF Whole, AskTools, Holding
    <3>3. "calls" \in Kinds \ {"tool"} /\ n \in Nat
      BY AgentAssumption DEF Kinds
    <3>4. m \in Seq(Message) /\ Partial(m, n) /\ Open(m, q, n)
      <4>1. Said(q, "calls", n) \in Message
        BY <3>3, SaidType
      <4>2. m \in Seq(Message)
        BY <3>2, <4>1, AppendAt
      <4>3. Partial(m, n) /\ Open(m, q, n)
        BY <3>2, <3>3, PartialSay
      <4> QED BY <4>2, <4>3
    <3>5. messages' = [messages EXCEPT ![q] = m]
      BY <3>1 DEF Say
    <3>6. UNCHANGED history
      BY <2>4 DEF AskTools
    <3>7. AfterAsk(n) # "tools" => n = 0
      BY DEF AfterAsk
    <3> HIDE DEF m
    <3> QED BY <3>1, <3>3, <3>4, <3>5, <3>6, <3>7, WholeSay
  <2>5. CASE RunTool(q)
    <3>0. stage[q] = "tools" /\ messages[q] \in Seq(Message) /\ todo[q] \in Nat \ {0}
      BY <2>5, AgentAssumption DEF RunTool
    <3>1. Partial(messages[q], todo[q]) /\ Open(messages[q], q, todo[q])
      BY <3>0 DEF Whole
    <3>2. PICK p \in 1 .. Len(messages[q]) : OpenAt(messages[q], q, todo[q], p)
      BY <3>1 DEF Open
    <3>3. CallNumber(q) = Len(messages[q]) + 1 - p
      BY <3>0, <3>1, <3>2, NextMissing
    <3>4. CallNumber(q) \in 0 .. MaxCalls
      BY <3>0, CallNumberType
    <3> DEFINE m == Append(messages[q], Said(q, "tool", CallNumber(q)))
    <3>5. Partial(m, todo[q] - 1) /\ OpenAt(m, q, todo[q] - 1, p)
      BY <3>0, <3>1, <3>2, <3>3, <3>4, PartialTool
    <3>6. m \in Seq(Message) /\ Len(m) = Len(messages[q]) + 1
      BY <3>0, <3>4, AppendAt, SaidType DEF Kinds
    <3>7. messages' = [messages EXCEPT ![q] = m]
      BY <2>5 DEF RunTool, ToolSaid, Say
    <3> HIDE DEF m
    <3>8. Open(m, q, todo[q] - 1)
      BY <3>0, <3>5, <3>6 DEF Open
    <3>9. /\ todo' = [todo EXCEPT ![q] = todo[q] - 1]
          /\ stage' = [stage EXCEPT ![q] = IF todo[q] = 1 THEN "charging" ELSE "tools"]
          /\ UNCHANGED history
      BY <2>5 DEF RunTool
    <3>10. CASE todo[q] = 1
      <4>1. stage' = [stage EXCEPT ![q] = "charging"] /\ todo[q] - 1 = 0
        BY <3>9, <3>10
      <4> QED BY <3>5, <3>6, <3>7, <3>9, <4>1, WholeSay
    <3>11. CASE todo[q] # 1
      <4>1. stage' = [stage EXCEPT ![q] = "tools"] /\ todo[q] - 1 \in Nat
        BY <3>0, <3>9, <3>11
      <4> QED BY <3>5, <3>6, <3>7, <3>8, <3>9, <4>1, WholeSay
    <3> QED BY <3>10, <3>11
  <2>6. CASE Charge(q)
    <3>1. PICK s \in {"thinking", "closing"} : Goto(q, s)
      BY <2>6 DEF Charge, NextTurn
    <3> QED BY <2>6, <3>1, WholeQuiet DEF Charge, Holding
  <2>7. CASE Save(q)
    BY <2>7, WholeQuiet DEF Save, Holding
  <2>8. CASE ChargeLast(q)
    <3>1. PICK s \in {"status", "answered"} : Goto(q, s)
      BY <2>8 DEF ChargeLast
    <3> QED BY <2>8, <3>1, WholeQuiet DEF ChargeLast, Holding
  <2>9. CASE Status(q)
    BY <2>9, WholeQuiet DEF Status, Holding
  <2>10. CASE Close(q)
    BY <2>10, WholeQuiet DEF Close, Holding
  <2>11. CASE Fails(q)
    <3>1. PICK s \in {"broken", "error"} : Goto(q, s)
      BY <2>11 DEF Fails
    <3>2. \/ UNCHANGED history
          \/ stage[q] \in {"saving", "closing"} /\ Stored(q)
      BY <2>11 DEF Fails
    <3>3. UNCHANGED <<messages, todo>> /\ s \notin Holding /\ s # "tools"
      BY <2>11 DEF Fails, Holding
    <3> QED BY <3>1, <3>2, <3>3, WholeQuiet
  <2>12. CASE Cancel(q)
    BY <2>12, WholeQuiet DEF Cancel, Holding
  <2> QED
    BY <1>1, <2>1, <2>2, <2>3, <2>4, <2>5, <2>6, <2>7, <2>8, <2>9, <2>10, <2>11, <2>12
    DEF Step, Proceed
<1>2. ASSUME NEW s \in Sessions, ClearSession(s) \/ Lapse(s) PROVE Whole'
  <2>1. Erased(s) /\ UNCHANGED <<stage, messages, todo>>
    BY <1>2 DEF ClearSession, Lapse
  <2>2. Conversation(<<>>)
    BY DEF Conversation
  <2> QED BY <2>1, <2>2 DEF Whole, Erased, Inv, TypeOK
<1>3. CASE UNCHANGED vars
  BY <1>3 DEF vars, Whole
<1> QED BY <1>1, <1>2, <1>3 DEF Next

(* Whatever fails and whoever interferes, a stored conversation, and the   *)
(* one that goes to the LLM, answers every tool call in order.             *)
THEOREM Conversations == Spec => []ConversationsValid
<1>1. Init => Whole
  BY DEF Init, Whole, Conversation, Holding
<1>2. Inv /\ Whole => ConversationsValid
  BY WholeConversation DEF Inv, TypeOK, Whole, ConversationsValid, Holding
<1>3. Inv /\ Whole /\ [Next]_vars => Whole'
  BY WholeStep
<1> QED BY <1>1, <1>2, <1>3, InvAlways, PTL DEF Spec

-----------------------------------------------------------------------------
(* Sequences of sequences, one after the other.                            *)

\* f has the concatenation of the first i of them.
Concats(f, S, seqs) ==
    /\ f \in [0 .. Len(seqs) -> Seq(S)]
    /\ f[0] = <<>>
    /\ \A i \in 1 .. Len(seqs) : f[i] = f[i - 1] \o seqs[i]

LEMMA ConcatsExist ==
    ASSUME NEW S, NEW seqs \in Seq(Seq(S))
    PROVE  \E f : Concats(f, S, seqs)
<1> DEFINE n == Len(seqs)
           T == Seq(S)
           step == [p \in T \X (1 .. n) |-> p[1] \o seqs[p[2]]]
<1>1. n \in Nat /\ <<>> \in T
  OBVIOUS
<1>2. \A i \in 1 .. n : seqs[i] \in T
  BY ElementOfSeq
<1>3. ASSUME NEW x \in T, NEW i \in 1 .. n
      PROVE  x \o seqs[i] \in T
  <2>1. seqs[i] \in Seq(S)
    BY <1>2
  <2> QED BY <2>1
<1> HIDE DEF T
<1>4. step \in [T \X (1 .. n) -> T]
  BY <1>3
<1>5. PICK f : IsRun(f, T, <<>>, n, step)
  <2> HIDE DEF step, n
  <2> QED BY <1>1, <1>4, LoopRuns
<1>6. f \in [0 .. n -> T] /\ f[0] = <<>>
  BY <1>5 DEF IsRun
<1>7. ASSUME NEW i \in 1 .. n PROVE f[i] = f[i - 1] \o seqs[i]
  <2>1. <<f[i - 1], i>> \in T \X (1 .. n)
    BY <1>1, <1>6
  <2> QED BY <1>5, <2>1 DEF IsRun
<1>8. Concats(f, S, seqs)
  BY <1>6, <1>7 DEF Concats, T
<1> QED BY <1>8

LEMMA FlattenConcats ==
    ASSUME NEW S, NEW seqs \in Seq(Seq(S)), NEW f, Concats(f, S, seqs)
    PROVE  FlattenSeq(seqs) = f[Len(seqs)]
<1> DEFINE n == Len(seqs)
<1>1. n \in Nat
  OBVIOUS
<1>2. CASE n = 0
  BY <1>2 DEF FlattenSeq, Concats
<1>3. CASE n > 0
  <2> DEFINE g == [i \in 1 .. n |-> f[i]]
             flatten == CHOOSE h : h = [i \in 1 .. n |->
                           IF i = 1 THEN seqs[i] ELSE h[i - 1] \o seqs[i]]
  <2>1. \A i \in 1 .. n : seqs[i] \in Seq(S)
    BY ElementOfSeq
  <2>2. f[1] = seqs[1]
    BY <1>3, <2>1 DEF Concats
  <2>3. ASSUME NEW i \in 1 .. n, i # 1 PROVE f[i] = g[i - 1] \o seqs[i]
    <3>1. i - 1 \in 1 .. n /\ g[i - 1] = f[i - 1]
      BY <1>1, <2>3
    <3> QED BY <3>1 DEF Concats
  <2>4. g = [i \in 1 .. n |-> IF i = 1 THEN seqs[i] ELSE g[i - 1] \o seqs[i]]
    BY <2>2, <2>3
  <2>5. flatten = [i \in 1 .. n |-> IF i = 1 THEN seqs[i] ELSE flatten[i - 1] \o seqs[i]]
    <3> HIDE DEF g, n
    <3> QED BY <2>4
  <2>6. FlattenSeq(seqs) = flatten[n]
    BY <1>3 DEF FlattenSeq
  <2> HIDE DEF flatten, n, g
  <2> DEFINE W == {i \in 0 .. n : i > 0 => flatten[i] = f[i]}
  <2>7. 0 \in W
    BY <1>1
  <2>8. ASSUME NEW i \in 0 .. n - 1, i \in W PROVE i + 1 \in W
    <3>1. i + 1 \in 1 .. n /\ (i + 1) - 1 = i /\ i \in 0 .. n
      BY <1>1
    <3>2. CASE i = 0
      BY <2>2, <2>5, <3>1, <3>2
    <3>3. CASE i > 0
      <4>1. flatten[i + 1] = flatten[i] \o seqs[i + 1]
        <5> HIDE DEF W
        <5>1. i + 1 # 1
          BY <3>1, <3>3
        <5>2. flatten[i + 1] = IF i + 1 = 1 THEN seqs[i + 1]
                               ELSE flatten[(i + 1) - 1] \o seqs[i + 1]
          BY <2>5, <3>1
        <5> QED BY <3>1, <5>1, <5>2
      <4>2. f[i + 1] = f[i] \o seqs[i + 1]
        BY <3>1 DEF Concats, n
      <4>3. flatten[i] = f[i]
        BY <2>8, <3>3
      <4>4. i + 1 \in 0 .. n /\ flatten[i + 1] = f[i + 1]
        BY <3>1, <4>1, <4>2, <4>3
      <4> QED BY <4>4
    <3> QED BY <3>1, <3>2, <3>3
  <2> HIDE DEF W
  <2>9. 0 .. n \subseteq W
    BY <1>1, <2>7, <2>8, UpTo
  <2>10. n \in W
    BY <1>1, <2>9
  <2> QED BY <1>3, <2>6, <2>10 DEF W, n
<1> QED BY <1>1, <1>2, <1>3

LEMMA FlattenEmpty == FlattenSeq(<<>>) = <<>>
BY DEF FlattenSeq

LEMMA FlattenAppend ==
    ASSUME NEW S, NEW seqs \in Seq(Seq(S)), NEW x \in Seq(S)
    PROVE  /\ FlattenSeq(seqs) \in Seq(S)
           /\ FlattenSeq(Append(seqs, x)) = FlattenSeq(seqs) \o x
<1> DEFINE n == Len(seqs)
           a == Append(seqs, x)
<1>1. /\ n \in Nat /\ a \in Seq(Seq(S)) /\ Len(a) = n + 1
      /\ \A i \in 1 .. n : a[i] = seqs[i]
      /\ a[n + 1] = x
  OBVIOUS
<1>2. PICK f : Concats(f, S, a)
  BY <1>1, ConcatsExist
<1> DEFINE g == [i \in 0 .. n |-> f[i]]
<1> HIDE DEF n, a
<1>3. f \in [0 .. n + 1 -> Seq(S)] /\ f[0] = <<>>
  BY <1>1, <1>2 DEF Concats
<1>4. \A i \in 1 .. n + 1 : f[i] = f[i - 1] \o a[i]
  BY <1>1, <1>2 DEF Concats
<1>5. Concats(g, S, seqs) /\ g[n] = f[n]
  <2>1. g \in [0 .. n -> Seq(S)]
    BY <1>1, <1>3
  <2>2. \A i \in 1 .. n : i \in 1 .. n + 1 /\ g[i] = f[i] /\ g[i - 1] = f[i - 1]
    BY <1>1
  <2>3. \A i \in 1 .. n : g[i] = g[i - 1] \o seqs[i]
    BY <1>1, <1>4, <2>2
  <2>4. g[0] = <<>>
    BY <1>1, <1>3
  <2>5. g[n] = f[n]
    BY <1>1
  <2> HIDE DEF g
  <2> QED BY <2>1, <2>3, <2>4, <2>5 DEF Concats, n
<1> HIDE DEF g
<1>6. FlattenSeq(seqs) = f[n]
  BY <1>1, <1>5, FlattenConcats DEF n
<1>7. FlattenSeq(a) = f[n + 1]
  BY <1>1, <1>2, FlattenConcats
<1>8. f[n + 1] = f[n] \o x /\ f[n] \in Seq(S)
  <2>1. n + 1 \in 1 .. n + 1 /\ (n + 1) - 1 = n /\ n \in 0 .. n + 1
    BY <1>1
  <2> QED BY <1>1, <1>3, <1>4, <2>1
<1> QED BY <1>6, <1>7, <1>8 DEF a

-----------------------------------------------------------------------------
(* What is in a request to a provider.                                     *)

Item == [from : Requests, kind : Kinds \cup {"use"}, n : 0 .. MaxCalls]
Turns == [role : {"system", "user", "assistant", "tool"}, items : Seq(Item)]
ClaudeRequests == [turns : Seq(Turns), pending : Seq(Item)]

LEMMA ItemTypes ==
    /\ Message \subseteq Item
    /\ \A items \in Seq(Item), role \in {"system", "user", "assistant", "tool"} :
          Turn(role, items) \in Turns /\ Turn(role, items).items = items
BY DEF Message, Item, Turn, Turns

LEMMA SaidIs ==
    ASSUME NEW r, NEW kind, NEW i
    PROVE  Said(r, kind, i).from = r /\ Said(r, kind, i).kind = kind /\ Said(r, kind, i).n = i
BY DEF Said

LEMMA UsesType ==
    ASSUME NEW e \in Message
    PROVE  /\ Uses(e) \in Seq(Item) /\ Len(Uses(e)) = e.n /\ e.n \in Nat
           /\ \A i \in 1 .. e.n : Uses(e)[i] = Said(e.from, "use", i)
<1>1. e.n \in 0 .. MaxCalls /\ e.from \in Requests /\ e.n \in Nat
  BY AgentAssumption DEF Message
<1>2. \A i \in 1 .. e.n : Said(e.from, "use", i) \in Item
  BY <1>1, AgentAssumption DEF Said, Item
<1>3. [i \in 1 .. e.n |-> Said(e.from, "use", i)] \in Seq(Item)
  BY <1>1, <1>2
<1> QED BY <1>1, <1>3 DEF Uses

LEMMA OllamaTurnType ==
    ASSUME NEW e \in Message
    PROVE  /\ OllamaTurn(e) \in Turns
           /\ OllamaTurn(e).items = IF HasCalls(e) THEN Uses(e) ELSE <<e>>
<1>1. CASE HasCalls(e)
  BY <1>1, UsesType, ItemTypes DEF OllamaTurn
<1>2. CASE ~HasCalls(e)
  <2>1. <<e>> \in Seq(Item)
    BY ItemTypes
  <2>2. Role(e) \in {"system", "user", "assistant", "tool"}
    BY DEF Role
  <2> QED BY <1>2, <2>1, <2>2, ItemTypes DEF OllamaTurn, Plain
<1> QED BY <1>1, <1>2

\* What ClaudeAdd does, with the turn that both clients make of a message.
LEMMA ClaudeAddIs ==
    ASSUME NEW e \in Message, NEW req \in ClaudeRequests
    PROVE  /\ Flush(req) \in ClaudeRequests
           /\ Flush(req).pending = <<>>
           /\ ClaudeAdd(req, e) =
                 IF e.kind = "tool"
                 THEN [turns |-> req.turns, pending |-> Append(req.pending, e)]
                 ELSE [turns |-> Append(Flush(req).turns, OllamaTurn(e)), pending |-> <<>>]
           /\ ClaudeAdd(req, e) \in ClaudeRequests
<1>1. Flush(req) \in ClaudeRequests /\ Flush(req).pending = <<>>
  <2>1. Turn("user", req.pending) \in Turns
    BY ItemTypes DEF ClaudeRequests
  <2>2. Append(req.turns, Turn("user", req.pending)) \in Seq(Turns)
    BY <2>1 DEF ClaudeRequests
  <2>3. <<>> \in Seq(Item)
    OBVIOUS
  <2> QED BY <2>2, <2>3 DEF Flush, ClaudeRequests
<1>2. OllamaTurn(e) \in Turns /\ e \in Item
  BY OllamaTurnType, ItemTypes
<1>3. CASE e.kind = "tool"
  <2>1. ClaudeAdd(req, e) = [turns |-> req.turns, pending |-> Append(req.pending, e)]
    BY <1>3 DEF ClaudeAdd, ClaudeRequests
  <2>2. Append(req.pending, e) \in Seq(Item) /\ req.turns \in Seq(Turns)
    BY <1>2 DEF ClaudeRequests
  <2> QED BY <1>1, <1>3, <2>1, <2>2 DEF ClaudeRequests
<1>4. CASE e.kind # "tool"
  <2>1. ClaudeAdd(req, e) = [turns |-> Append(Flush(req).turns, OllamaTurn(e)), pending |-> <<>>]
    <3> DEFINE flushed == Flush(req)
    <3>1. flushed = [turns |-> flushed.turns, pending |-> <<>>]
      BY <1>1 DEF ClaudeRequests
    <3>2. ClaudeAdd(req, e) = [flushed EXCEPT !.turns = Append(@, OllamaTurn(e))]
      BY <1>4 DEF ClaudeAdd, OllamaTurn
    <3>3. \A x, y, z : [[turns |-> x, pending |-> y] EXCEPT !.turns = z] = [turns |-> z, pending |-> y]
      OBVIOUS
    <3> HIDE DEF flushed
    <3>4. [flushed EXCEPT !.turns = Append(@, OllamaTurn(e))]
             = [turns |-> Append(flushed.turns, OllamaTurn(e)), pending |-> <<>>]
      BY <3>1, <3>3
    <3> QED BY <3>2, <3>4 DEF flushed
  <2>2. Append(Flush(req).turns, OllamaTurn(e)) \in Seq(Turns) /\ <<>> \in Seq(Item)
    BY <1>1, <1>2 DEF ClaudeRequests
  <2> QED BY <1>1, <1>4, <2>1, <2>2 DEF ClaudeRequests
<1> QED BY <1>3, <1>4

\* The request is what the loop of _build_messages() makes of it.
LEMMA ClaudeRuns ==
    ASSUME NEW m \in Seq(Message)
    PROVE  /\ ClaudeRequest(m)[0] = [turns |-> <<>>, pending |-> <<>>]
           /\ \A i \in 0 .. Len(m) : ClaudeRequest(m)[i] \in ClaudeRequests
           /\ \A i \in 1 .. Len(m) :
                 ClaudeRequest(m)[i] = ClaudeAdd(ClaudeRequest(m)[i - 1], m[i])
<1> DEFINE n == Len(m)
           T == ClaudeRequests
           b == [turns |-> <<>>, pending |-> <<>>]
           step == [p \in T \X (1 .. n) |-> ClaudeAdd(p[1], m[p[2]])]
<1>1. n \in Nat /\ \A i \in 1 .. n : m[i] \in Message
  BY ElementOfSeq
<1>2. b \in T
  <2>1. <<>> \in Seq(Turns) /\ <<>> \in Seq(Item)
    OBVIOUS
  <2> QED BY <2>1 DEF ClaudeRequests
<1>3. \A x \in T, i \in 1 .. n : ClaudeAdd(x, m[i]) \in T
  BY <1>1, ClaudeAddIs
<1> HIDE DEF T, b
<1>4. step \in [T \X (1 .. n) -> T]
  BY <1>3
<1>5. PICK f : IsRun(f, T, b, n, step)
  <2> HIDE DEF step, n
  <2> QED BY <1>1, <1>2, <1>4, LoopRuns
<1>6. f \in [0 .. n -> T] /\ f[0] = b
  BY <1>5 DEF IsRun
<1>7. ASSUME NEW i \in 1 .. n PROVE f[i] = ClaudeAdd(f[i - 1], m[i])
  <2>1. <<f[i - 1], i>> \in T \X (1 .. n)
    BY <1>1, <1>6
  <2> QED BY <1>5, <2>1 DEF IsRun
<1> DEFINE after == CHOOSE g : g = [i \in 0 .. n |->
                       IF i = 0 THEN b ELSE ClaudeAdd(g[i - 1], m[i])]
<1>8. f = [i \in 0 .. n |-> IF i = 0 THEN b ELSE ClaudeAdd(f[i - 1], m[i])]
  BY <1>1, <1>6, <1>7
<1>9. after = [i \in 0 .. n |-> IF i = 0 THEN b ELSE ClaudeAdd(after[i - 1], m[i])]
  BY <1>8
<1>10. ClaudeRequest(m) = after
  BY DEF ClaudeRequest, b
<1> HIDE DEF after, n
<1>11. after[0] = b
  BY <1>1, <1>9
<1>12. ASSUME NEW i \in 1 .. n PROVE after[i] = ClaudeAdd(after[i - 1], m[i])
  <2>1. i \in 0 .. n /\ i # 0
    BY <1>1
  <2> QED BY <1>9, <2>1
<1> DEFINE W == {i \in 0 .. n : after[i] \in T}
<1>13. 0 \in W
  BY <1>1, <1>2, <1>11
<1>14. ASSUME NEW i \in 0 .. n - 1, i \in W PROVE i + 1 \in W
  <2>1. i + 1 \in 1 .. n /\ (i + 1) - 1 = i
    BY <1>1
  <2> QED BY <1>3, <1>12, <1>14, <2>1
<1> HIDE DEF W
<1>15. 0 .. n \subseteq W
  BY <1>1, <1>13, <1>14, UpTo
<1>16. \A i \in 0 .. n : after[i] \in T
  BY <1>15 DEF W
<1> QED BY <1>10, <1>11, <1>12, <1>16 DEF n, b, T

-----------------------------------------------------------------------------
(* The content of a request.                                               *)

LEMMA ContentAppend ==
    ASSUME NEW turns \in Seq(Turns), NEW t \in Turns
    PROVE  /\ Content(turns) \in Seq(Item)
           /\ Content(Append(turns, t)) = Content(turns) \o t.items
<1> DEFINE items == [i \in 1 .. Len(turns) |-> turns[i].items]
           more == [i \in 1 .. Len(Append(turns, t)) |-> Append(turns, t)[i].items]
<1>1. \A i \in 1 .. Len(turns) : turns[i] \in Turns
  BY ElementOfSeq
<1>2. \A x \in Turns : x.items \in Seq(Item)
  BY DEF Turns
<1>3. items \in Seq(Seq(Item)) /\ Len(items) = Len(turns)
  BY <1>1, <1>2
<1>4. Append(turns, t) \in Seq(Turns) /\ Len(Append(turns, t)) = Len(turns) + 1
  OBVIOUS
<1>5. \A i \in 1 .. Len(turns) + 1 : Append(turns, t)[i] \in Turns
  BY <1>4, ElementOfSeq
<1>6. more \in Seq(Seq(Item)) /\ Len(more) = Len(turns) + 1
  BY <1>2, <1>4, <1>5
<1>7. more = Append(items, t.items)
  <2>1. /\ Append(items, t.items) \in Seq(Seq(Item))
        /\ Len(Append(items, t.items)) = Len(turns) + 1
    BY <1>2, <1>3
  <2>2. ASSUME NEW i \in 1 .. Len(turns) + 1 PROVE more[i] = Append(items, t.items)[i]
    <3>1. more[i] = Append(turns, t)[i].items
      BY <1>4
    <3>2. CASE i = Len(turns) + 1
      BY <1>3, <3>1, <3>2
    <3>3. CASE i # Len(turns) + 1
      <4>1. i \in 1 .. Len(turns)
        BY <3>3
      <4>2. Append(turns, t)[i] = turns[i] /\ items[i] = turns[i].items
        BY <4>1
      <4>3. Append(items, t.items)[i] = items[i]
        BY <1>3, <4>1
      <4> QED BY <3>1, <4>2, <4>3
    <3> QED BY <3>2, <3>3
  <2> HIDE DEF items, more
  <2> QED BY <1>6, <2>1, <2>2, SeqEqual
<1>8. t.items \in Seq(Item)
  BY <1>2
<1>9. Content(turns) = FlattenSeq(items) /\ Content(Append(turns, t)) = FlattenSeq(more)
  BY DEF Content
<1> HIDE DEF items, more
<1> QED BY <1>3, <1>7, <1>8, <1>9, FlattenAppend

LEMMA ContentEmpty == Content(<<>>) = <<>>
<1>1. [i \in 1 .. Len(<<>>) |-> <<>>[i].items] = <<>>
  OBVIOUS
<1> QED BY <1>1, FlattenEmpty DEF Content

LEMMA FlushContent ==
    ASSUME NEW req \in ClaudeRequests
    PROVE  Content(Flush(req).turns) = Content(req.turns) \o req.pending
<1>1. req.turns \in Seq(Turns) /\ req.pending \in Seq(Item)
  BY DEF ClaudeRequests
<1>2. CASE req.pending = <<>>
  <2>1. Turn("user", req.pending) \in Turns
    BY <1>1, ItemTypes
  <2>2. Content(req.turns) \in Seq(Item)
    BY <1>1, <2>1, ContentAppend
  <2>3. Content(req.turns) \o <<>> = Content(req.turns)
    BY <2>2, ConcatEmptySeq
  <2> QED BY <1>2, <2>3 DEF Flush
<1>3. CASE req.pending # <<>>
  <2>1. Turn("user", req.pending) \in Turns /\ Turn("user", req.pending).items = req.pending
    BY <1>1, ItemTypes
  <2>2. Flush(req).turns = Append(req.turns, Turn("user", req.pending))
    BY <1>3 DEF Flush
  <2> QED BY <1>1, <2>1, <2>2, ContentAppend
<1> QED BY <1>2, <1>3

\* A message adds the same to both requests.
LEMMA AddContent ==
    ASSUME NEW req \in ClaudeRequests, NEW e \in Message
    PROVE  LET next == ClaudeAdd(req, e)
           IN  Content(next.turns) \o next.pending
                  = (Content(req.turns) \o req.pending) \o OllamaTurn(e).items
<1> DEFINE next == ClaudeAdd(req, e)
<1>1. /\ req.turns \in Seq(Turns) /\ req.pending \in Seq(Item)
      /\ Flush(req).turns \in Seq(Turns)
  BY ClaudeAddIs DEF ClaudeRequests
<1>2. OllamaTurn(e) \in Turns /\ OllamaTurn(e).items \in Seq(Item)
  BY OllamaTurnType DEF Turns
<1>3. Content(req.turns) \in Seq(Item) /\ Content(Flush(req).turns) \in Seq(Item)
  BY <1>1, <1>2, ContentAppend
<1>4. CASE e.kind = "tool"
  <2>1. next.turns = req.turns /\ next.pending = Append(req.pending, e)
    BY <1>4, ClaudeAddIs
  <2>2. OllamaTurn(e).items = <<e>> /\ e \in Item
    BY <1>4, OllamaTurnType, ItemTypes DEF HasCalls
  <2>3. Append(req.pending, e) = req.pending \o <<e>> /\ <<e>> \in Seq(Item)
    BY <1>1, <2>2
  <2>4. Content(req.turns) \o (req.pending \o <<e>>) = (Content(req.turns) \o req.pending) \o <<e>>
    <3> DEFINE c == Content(req.turns)
               p == req.pending
               one == <<e>>
    <3>1. c \in Seq(Item) /\ p \in Seq(Item) /\ one \in Seq(Item)
      BY <1>1, <1>3, <2>3
    <3> HIDE DEF c, p, one
    <3>2. (c \o p) \o one = c \o (p \o one)
      BY <3>1, ConcatAssociative
    <3> QED BY <3>2 DEF c, p, one
  <2> QED BY <2>1, <2>2, <2>3, <2>4
<1>5. CASE e.kind # "tool"
  <2>1. next.turns = Append(Flush(req).turns, OllamaTurn(e)) /\ next.pending = <<>>
    BY <1>5, ClaudeAddIs
  <2>2. Content(next.turns) = Content(Flush(req).turns) \o OllamaTurn(e).items
    BY <1>1, <1>2, <2>1, ContentAppend
  <2>3. Content(next.turns) \in Seq(Item)
    BY <1>2, <1>3, <2>2, ConcatProperties
  <2>4. Content(next.turns) \o <<>> = Content(next.turns)
    BY <2>3, ConcatEmptySeq
  <2> QED BY <2>1, <2>2, <2>4, FlushContent
<1> QED BY <1>4, <1>5

\* Up to any message, and with what waits to be flushed.
LEMMA SameContent ==
    ASSUME NEW m \in Seq(Message)
    PROVE  Content(ClaudeMessages(m)) = Content(OllamaMessages(m))
<1> DEFINE n == Len(m)
           sys == <<Turn("system", <<>>)>>
           said(i) == [j \in 1 .. i |-> OllamaTurn(m[j])]
           C(i) == Content(ClaudeRequest(m)[i].turns) \o ClaudeRequest(m)[i].pending
           W == {i \in 0 .. n : C(i) = Content(sys \o said(i))}
<1>1. n \in Nat /\ \A i \in 1 .. n : m[i] \in Message
  BY ElementOfSeq
<1>2. \A i \in 1 .. n : OllamaTurn(m[i]) \in Turns
  BY <1>1, OllamaTurnType
<1>3. Turn("system", <<>>) \in Turns /\ Turn("system", <<>>).items = <<>>
  <2>1. <<>> \in Seq(Item)
    OBVIOUS
  <2> QED BY <2>1, ItemTypes
<1>4. \A i \in 0 .. n : said(i) \in Seq(Turns) /\ sys \o said(i) \in Seq(Turns)
  <2> SUFFICES ASSUME NEW i \in 0 .. n
               PROVE  said(i) \in Seq(Turns) /\ sys \o said(i) \in Seq(Turns)
    OBVIOUS
  <2>1. said(i) \in Seq(Turns)
    BY <1>1, <1>2
  <2>2. sys \in Seq(Turns)
    BY <1>3
  <2> HIDE DEF said, sys
  <2> QED BY <2>1, <2>2, ConcatProperties
<1>5. ASSUME NEW i \in 0 .. n - 1
      PROVE  sys \o said(i + 1) = Append(sys \o said(i), OllamaTurn(m[i + 1]))
  <2> DEFINE a == sys \o said(i)
             z == sys \o said(i + 1)
             t == OllamaTurn(m[i + 1])
  <2>1. i \in 0 .. n /\ i + 1 \in 1 .. n /\ i + 1 \in 0 .. n /\ i \in Nat
    BY <1>1
  <2>2. sys \in Seq(Turns) /\ Len(sys) = 1 /\ t \in Turns
    BY <1>2, <1>3, <2>1
  <2>3. /\ said(i) \in Seq(Turns) /\ Len(said(i)) = i
        /\ said(i + 1) \in Seq(Turns) /\ Len(said(i + 1)) = i + 1
        /\ \A j \in 1 .. i : said(i)[j] = said(i + 1)[j]
        /\ said(i + 1)[i + 1] = t
    BY <1>4, <2>1
  <2> HIDE DEF sys, said
  <2>4. /\ a \in Seq(Turns) /\ Len(a) = i + 1
        /\ \A j \in 1 .. i + 1 : a[j] = IF j <= 1 THEN sys[j] ELSE said(i)[j - 1]
    <3> DEFINE rest == said(i)
    <3>1. rest \in Seq(Turns) /\ Len(rest) = i
      BY <2>3
    <3> HIDE DEF rest
    <3>2. /\ sys \o rest \in Seq(Turns)
          /\ Len(sys \o rest) = Len(sys) + Len(rest)
          /\ \A j \in 1 .. Len(sys) + Len(rest) :
                (sys \o rest)[j] = IF j <= Len(sys) THEN sys[j] ELSE rest[j - Len(sys)]
      BY <2>2, <3>1, ConcatProperties
    <3>3. Len(sys) + Len(rest) = i + 1
      BY <2>1, <2>2, <3>1
    <3> QED BY <2>2, <3>2, <3>3 DEF rest
  <2>5. /\ z \in Seq(Turns) /\ Len(z) = i + 2
        /\ \A j \in 1 .. i + 2 : z[j] = IF j <= 1 THEN sys[j] ELSE said(i + 1)[j - 1]
    <3> DEFINE rest == said(i + 1)
    <3>1. rest \in Seq(Turns) /\ Len(rest) = i + 1
      BY <2>3
    <3> HIDE DEF rest
    <3>2. /\ sys \o rest \in Seq(Turns)
          /\ Len(sys \o rest) = Len(sys) + Len(rest)
          /\ \A j \in 1 .. Len(sys) + Len(rest) :
                (sys \o rest)[j] = IF j <= Len(sys) THEN sys[j] ELSE rest[j - Len(sys)]
      BY <2>2, <3>1, ConcatProperties
    <3>3. Len(sys) + Len(rest) = i + 2
      BY <2>1, <2>2, <3>1
    <3> QED BY <2>2, <3>2, <3>3 DEF rest
  <2> HIDE DEF a, z, t
  <2>6. /\ Append(a, t) \in Seq(Turns) /\ Len(Append(a, t)) = i + 2
        /\ \A j \in 1 .. i + 1 : Append(a, t)[j] = a[j]
        /\ Append(a, t)[i + 2] = t
    BY <2>1, <2>2, <2>4
  <2>7. ASSUME NEW j \in 1 .. i + 2 PROVE Append(a, t)[j] = z[j]
    <3>1. CASE j = i + 2
      <4>1. j - 1 = i + 1 /\ ~(j <= 1)
        BY <2>1, <3>1
      <4> QED BY <2>3, <2>5, <2>6, <3>1, <4>1
    <3>2. CASE j \in 2 .. i + 1
      <4>1. j \in 1 .. i + 1 /\ j - 1 \in 1 .. i /\ ~(j <= 1)
        BY <2>1, <3>2
      <4> QED BY <2>3, <2>4, <2>5, <2>6, <4>1
    <3>3. CASE j = 1
      <4>1. 1 \in 1 .. i + 1 /\ 1 \in 1 .. i + 2
        BY <2>1
      <4> QED BY <2>4, <2>5, <2>6, <3>3, <4>1
    <3>4. j = i + 2 \/ j \in 2 .. i + 1 \/ j = 1
      BY <2>1
    <3> QED BY <3>1, <3>2, <3>3, <3>4
  <2>8. Append(a, t) = z
    BY <2>5, <2>6, <2>7, SeqEqual
  <2> QED BY <2>8 DEF a, z, t
<1>6. 0 \in W
  <2>1. said(0) = <<>>
    OBVIOUS
  <2>2. sys \o said(0) = Append(<<>>, Turn("system", <<>>))
    BY <1>3, <2>1
  <2>3. <<>> \in Seq(Turns) /\ <<>> \in Seq(Item)
    OBVIOUS
  <2>4. Content(sys \o said(0)) = <<>> \o <<>>
    BY <1>3, <2>2, <2>3, ContentAppend, ContentEmpty
  <2>5. C(0) = <<>> \o <<>>
    BY ClaudeRuns, ContentEmpty
  <2>6. C(0) = Content(sys \o said(0)) /\ 0 \in 0 .. n
    BY <1>1, <2>4, <2>5
  <2> HIDE DEF C, sys, said
  <2> QED BY <2>6
<1>7. ASSUME NEW i \in 0 .. n - 1, i \in W PROVE i + 1 \in W
  <2> DEFINE t == OllamaTurn(m[i + 1])
  <2>1. i \in 0 .. n /\ i + 1 \in 1 .. n /\ i + 1 \in 0 .. n /\ (i + 1) - 1 = i
    BY <1>1
  <2>2. /\ ClaudeRequest(m)[i] \in ClaudeRequests
        /\ ClaudeRequest(m)[i + 1] = ClaudeAdd(ClaudeRequest(m)[i], m[i + 1])
    BY <2>1, ClaudeRuns
  <2>3. C(i + 1) = C(i) \o t.items
    BY <1>1, <2>1, <2>2, AddContent
  <2>4. sys \o said(i) \in Seq(Turns) /\ t \in Turns
    BY <1>2, <1>4, <2>1
  <2>5. Content(sys \o said(i + 1)) = Content(sys \o said(i)) \o t.items
    <3> HIDE DEF sys, said
    <3> QED BY <1>5, <2>4, ContentAppend
  <2>6. C(i) = Content(sys \o said(i))
    BY <1>7
  <2> HIDE DEF C, said, sys, t
  <2> QED BY <2>1, <2>3, <2>5, <2>6
<1>8. C(n) = Content(sys \o said(n))
  <2> HIDE DEF W
  <2>1. 0 .. n \subseteq W
    <3> HIDE DEF n
    <3> QED BY <1>1, <1>6, <1>7, UpTo
  <2>2. n \in W
    BY <1>1, <2>1
  <2> QED BY <2>2 DEF W
<1>9. Content(ClaudeMessages(m)) = C(n)
  <2>1. ClaudeRequest(m)[n] \in ClaudeRequests
    BY <1>1, ClaudeRuns
  <2> QED BY <2>1, FlushContent DEF ClaudeMessages
<1> QED BY <1>8, <1>9 DEF OllamaMessages

-----------------------------------------------------------------------------
(* Tool calls and their results in a request to Claude.                    *)

\* As PairsUp, but the calls of the last turn may still be unanswered.
OpenPairs(turns) ==
    /\ \A i \in 1 .. Len(turns) - 1 :
          Has(turns[i], "use") => turns[i + 1].items = Results(turns[i])
    /\ \A i \in 1 .. Len(turns) : Has(turns[i], "tool") =>
          i > 1 /\ Has(turns[i - 1], "use")

LEMMA PairsOpen ==
    ASSUME NEW turns \in Seq(Turns)
    PROVE  PairsUp(turns) <=> /\ OpenPairs(turns)
                              /\ turns # <<>> => ~Has(turns[Len(turns)], "use")
<1>1. Len(turns) \in Nat /\ (turns # <<>> <=> Len(turns) > 0)
  OBVIOUS
<1>2. ASSUME PairsUp(turns)
      PROVE  OpenPairs(turns) /\ (turns # <<>> => ~Has(turns[Len(turns)], "use"))
  BY <1>1, <1>2 DEF PairsUp, OpenPairs
<1>3. ASSUME OpenPairs(turns), turns # <<>> => ~Has(turns[Len(turns)], "use")
      PROVE  PairsUp(turns)
  <2>1. ASSUME NEW i \in 1 .. Len(turns), Has(turns[i], "use")
        PROVE  i < Len(turns) /\ turns[i + 1].items = Results(turns[i])
    <3>1. i # Len(turns)
      BY <1>1, <1>3, <2>1
    <3>2. i \in 1 .. Len(turns) - 1 /\ i < Len(turns)
      BY <1>1, <3>1
    <3> QED BY <1>3, <2>1, <3>2 DEF OpenPairs
  <2> QED BY <1>3, <2>1 DEF PairsUp, OpenPairs
<1> QED BY <1>2, <1>3

\* A turn is added that has no results.
LEMMA PairsSay ==
    ASSUME NEW turns \in Seq(Turns), NEW t \in Turns, PairsUp(turns), ~Has(t, "tool")
    PROVE  OpenPairs(Append(turns, t))
<1> DEFINE a == Append(turns, t)
           n == Len(turns)
<1>1. /\ n \in Nat /\ Len(a) = n + 1 /\ a[n + 1] = t
      /\ \A i \in 1 .. n : a[i] = turns[i]
  OBVIOUS
<1> HIDE DEF a
<1>2. ASSUME NEW i \in 1 .. Len(a) - 1, Has(a[i], "use")
      PROVE  a[i + 1].items = Results(a[i])
  <2>1. i \in 1 .. n /\ Has(turns[i], "use") /\ a[i] = turns[i]
    BY <1>1, <1>2
  <2>2. i < n /\ turns[i + 1].items = Results(turns[i])
    BY <2>1 DEF PairsUp
  <2>3. i + 1 \in 1 .. n
    BY <1>1, <2>1, <2>2
  <2> QED BY <1>1, <2>1, <2>2, <2>3
<1>3. ASSUME NEW i \in 1 .. Len(a), Has(a[i], "tool")
      PROVE  i > 1 /\ Has(a[i - 1], "use")
  <2>1. i \in 1 .. n
    BY <1>1, <1>3
  <2>2. i > 1 /\ Has(turns[i - 1], "use")
    BY <1>1, <1>3, <2>1 DEF PairsUp
  <2>3. i - 1 \in 1 .. n
    BY <1>1, <2>1, <2>2
  <2> QED BY <1>1, <2>2, <2>3
<1> QED BY <1>2, <1>3 DEF OpenPairs, a

\* The results of the last turn's calls are added.
LEMMA PairsAnswer ==
    ASSUME NEW turns \in Seq(Turns), NEW t \in Turns,
           OpenPairs(turns), turns # <<>>, Has(turns[Len(turns)], "use"),
           t.items = Results(turns[Len(turns)]), ~Has(t, "use")
    PROVE  PairsUp(Append(turns, t))
<1> DEFINE a == Append(turns, t)
           n == Len(turns)
<1>1. /\ n \in Nat /\ n > 0 /\ Len(a) = n + 1 /\ a[n + 1] = t
      /\ \A i \in 1 .. n : a[i] = turns[i]
  OBVIOUS
<1>2. a \in Seq(Turns)
  OBVIOUS
<1> HIDE DEF a
<1>3. ASSUME NEW i \in 1 .. Len(a) - 1, Has(a[i], "use")
      PROVE  a[i + 1].items = Results(a[i])
  <2>1. i \in 1 .. n /\ a[i] = turns[i]
    BY <1>1
  <2>2. CASE i = n
    BY <1>1, <2>1, <2>2
  <2>3. CASE i # n
    <3>1. i \in 1 .. n - 1 /\ i + 1 \in 1 .. n
      BY <1>1, <2>1, <2>3
    <3>2. turns[i + 1].items = Results(turns[i])
      BY <1>3, <2>1, <3>1 DEF OpenPairs
    <3> QED BY <1>1, <2>1, <3>1, <3>2
  <2> QED BY <2>2, <2>3
<1>4. ASSUME NEW i \in 1 .. Len(a), Has(a[i], "tool")
      PROVE  i > 1 /\ Has(a[i - 1], "use")
  <2>1. CASE i = n + 1
    <3>1. i - 1 = n /\ i - 1 \in 1 .. n /\ i > 1
      BY <1>1, <2>1
    <3> QED BY <1>1, <3>1
  <2>2. CASE i # n + 1
    <3>1. i \in 1 .. n
      BY <1>1, <2>2
    <3>2. i > 1 /\ Has(turns[i - 1], "use")
      BY <1>1, <1>4, <3>1 DEF OpenPairs
    <3>3. i - 1 \in 1 .. n
      BY <1>1, <3>1, <3>2
    <3> QED BY <1>1, <3>2, <3>3
  <2> QED BY <2>1, <2>2
<1>5. OpenPairs(a)
  BY <1>3, <1>4 DEF OpenPairs
<1>6. ~Has(a[Len(a)], "use")
  BY <1>1
<1> QED BY <1>2, <1>5, <1>6, PairsOpen DEF a

\* A request after i messages: the last turn is that of message c, the others
\* since are results of its calls, and wait.
Grouped(m, i, req, c) ==
    /\ c \in 0 .. i
    /\ Len(req.pending) = i - c
    /\ c = 0 => i = 0 /\ req.turns = <<>>
    /\ c > 0 => /\ req.turns # <<>>
                /\ req.turns[Len(req.turns)] = OllamaTurn(m[c])
                /\ m[c].kind # "tool"
    /\ i > c => m[c].kind = "calls" /\ i - c <= m[c].n
    /\ \A j \in 1 .. i - c :
          req.pending[j] = m[c + j] /\ m[c + j] = Said(m[c].from, "tool", j)
    /\ OpenPairs(req.turns)

\* When something else than a result follows, all the results are there.
LEMMA Settled ==
    ASSUME NEW m \in Seq(Message), Conversation(m), NEW i \in 0 .. Len(m),
           NEW req, NEW c, Grouped(m, i, req, c), c > 0, HasCalls(m[c]),
           i = Len(m) \/ m[i + 1].kind # "tool"
    PROVE  m[c].n = i - c
<1>1. i \in Nat /\ c \in 1 .. i /\ c \in 1 .. Len(m) /\ Len(m) \in Nat
  BY DEF Grouped
<1>2. m[c].n \in Nat /\ m[c].kind = "calls" /\ m[c].n > 0
  <2>1. m[c] \in Message
    BY <1>1, ElementOfSeq
  <2> QED BY <2>1, AgentAssumption DEF Message, HasCalls
<1>3. i - c <= m[c].n
  BY <1>1, <1>2 DEF Grouped
<1>4. ASSUME m[c].n > i - c PROVE FALSE
  <2>1. i - c + 1 \in 1 .. m[c].n /\ c + (i - c + 1) = i + 1
    BY <1>1, <1>2, <1>4
  <2>2. i + 1 <= Len(m) /\ m[i + 1] = Said(m[c].from, "tool", i - c + 1)
    BY <1>1, <1>2, <2>1 DEF Conversation
  <2> QED BY <1>1, <2>2 DEF Said
<1> QED BY <1>1, <1>2, <1>3, <1>4

LEMMA FlushPairs ==
    ASSUME NEW m \in Seq(Message), NEW i \in 0 .. Len(m),
           NEW req \in ClaudeRequests, NEW c, Grouped(m, i, req, c),
           c > 0 /\ HasCalls(m[c]) => m[c].n = i - c
    PROVE  PairsUp(Flush(req).turns)
<1> DEFINE last == req.turns[Len(req.turns)]
<1>1. /\ i \in Nat /\ Len(m) \in Nat /\ c \in 0 .. i /\ Len(req.pending) = i - c
      /\ req.turns \in Seq(Turns) /\ req.pending \in Seq(Item)
      /\ OpenPairs(req.turns)
  BY DEF Grouped, ClaudeRequests
<1>2. ASSUME c > 0
      PROVE  /\ c \in 1 .. Len(m) /\ m[c] \in Message
             /\ req.turns # <<>> /\ last = OllamaTurn(m[c]) /\ m[c].kind # "tool"
  <2>1. c \in 1 .. Len(m)
    BY <1>1, <1>2
  <2> QED BY <1>2, <2>1, ElementOfSeq DEF Grouped
<1>3. CASE req.pending = <<>>
  <2>1. Flush(req) = req /\ i = c
    BY <1>1, <1>3 DEF Flush
  <2>2. ASSUME req.turns # <<>> PROVE ~Has(last, "use")
    <3>1. c > 0
      BY <1>1, <2>2 DEF Grouped
    <3>2. ~HasCalls(m[c])
      BY <1>1, <2>1, <3>1 DEF HasCalls
    <3>3. last.items = <<m[c]>>
      BY <1>2, <3>1, <3>2, OllamaTurnType
    <3>4. m[c].kind \in Kinds
      BY <1>2, <3>1 DEF Message
    <3> HIDE DEF last
    <3> QED BY <3>3, <3>4 DEF Has, Kinds
  <2> QED BY <1>1, <2>1, <2>2, PairsOpen
<1>4. CASE req.pending # <<>>
  <2> DEFINE t == Turn("user", req.pending)
  <2>1. t \in Turns /\ t.items = req.pending
    BY <1>1, ItemTypes
  <2>2. Flush(req).turns = Append(req.turns, t)
    BY <1>4 DEF Flush
  <2>3. i > c /\ c > 0
    <3>1. Len(req.pending) > 0
      BY <1>1, <1>4
    <3> QED BY <1>1, <3>1 DEF Grouped
  <2>4. m[c].kind = "calls" /\ m[c].n \in Nat /\ i - c <= m[c].n
    BY <1>2, <2>3, UsesType DEF Grouped
  <2>5. HasCalls(m[c]) /\ m[c].n = i - c /\ i - c > 0
    BY <1>1, <2>3, <2>4 DEF HasCalls
  <2>6. last.items = Uses(m[c])
    BY <1>2, <2>3, <2>5, OllamaTurnType
  <2>7. /\ Len(last.items) = i - c
        /\ \A j \in 1 .. i - c : last.items[j] = Said(m[c].from, "use", j)
    BY <1>2, <2>3, <2>5, <2>6, UsesType
  <2> HIDE DEF last
  <2>8. Has(last, "use")
    <3>1. 1 \in 1 .. i - c
      BY <1>1, <2>5
    <3>2. last.items[1].kind = "use"
      BY <2>7, <3>1, SaidIs
    <3> QED BY <2>7, <3>1, <3>2 DEF Has
  <2>9. \A j \in 1 .. i - c : req.pending[j] = Said(m[c].from, "tool", j)
    BY DEF Grouped
  <2>10. req.pending = Results(last)
    <3>1. \A j \in 1 .. i - c :
             Said(last.items[j].from, "tool", last.items[j].n) = req.pending[j]
      BY <2>7, <2>9, SaidIs
    <3>2. Results(last) = [j \in 1 .. i - c |-> req.pending[j]]
      BY <2>7, <3>1 DEF Results
    <3>3. req.pending = [j \in 1 .. i - c |-> req.pending[j]]
      BY <1>1
    <3> QED BY <3>2, <3>3
  <2>11. ~Has(t, "use")
    <3> HIDE DEF t
    <3>1. \A j \in 1 .. i - c : req.pending[j].kind = "tool"
      BY <2>9, SaidIs
    <3> QED BY <1>1, <2>1, <3>1 DEF Has
  <2> HIDE DEF t
  <2>12. t.items = Results(last)
    BY <2>1, <2>10
  <2> QED BY <1>1, <1>2, <2>1, <2>2, <2>3, <2>8, <2>11, <2>12, PairsAnswer DEF last
<1> QED BY <1>3, <1>4

\* One more result waits.
LEMMA GroupedTool ==
    ASSUME NEW m \in Seq(Message), Conversation(m), NEW i \in 0 .. Len(m) - 1,
           NEW req \in ClaudeRequests, NEW c, Grouped(m, i, req, c),
           m[i + 1].kind = "tool"
    PROVE  Grouped(m, i + 1, ClaudeAdd(req, m[i + 1]), c)
<1> DEFINE e == m[i + 1]
           p == (i + 1) - e.n
<1>1. /\ i \in Nat /\ Len(m) \in Nat /\ i + 1 \in 1 .. Len(m)
      /\ c \in 0 .. i /\ Len(req.pending) = i - c
      /\ req.pending \in Seq(Item)
  BY DEF Grouped, ClaudeRequests
<1>2. e \in Message /\ e.n \in Nat /\ e \in Item
  <2>1. e \in Message
    BY <1>1, ElementOfSeq
  <2> QED BY <2>1, ItemTypes, AgentAssumption DEF Message
<1>3. i + 1 > e.n /\ m[p].kind = "calls" /\ m[p].n >= e.n
  <2>1. \A k \in 1 .. Len(m) : m[k].kind = "tool" =>
           k > m[k].n /\ m[k - m[k].n].kind = "calls" /\ m[k - m[k].n].n >= m[k].n
    BY DEF Conversation
  <2> DEFINE k == i + 1
  <2>2. k \in 1 .. Len(m) /\ m[k].kind = "tool"
    BY <1>1
  <2> HIDE DEF k
  <2>3. k > m[k].n /\ m[k - m[k].n].kind = "calls" /\ m[k - m[k].n].n >= m[k].n
    BY <2>1, <2>2
  <2> QED BY <2>3 DEF k
<1>4. e.n # 0
  <2>1. e.n = 0 => p = i + 1
    BY <1>1
  <2> QED BY <1>3, <2>1
<1>5. p \in 1 .. i /\ p \in 1 .. Len(m) /\ m[p].n \in Nat
  <2>1. p \in 1 .. i /\ p \in 1 .. Len(m)
    BY <1>1, <1>2, <1>3, <1>4
  <2>2. m[p] \in Message
    <3> HIDE DEF p
    <3> QED BY <2>1, ElementOfSeq
  <2> QED BY <2>1, <2>2, AgentAssumption DEF Message
<1>6. \A j \in 1 .. m[p].n : p + j <= Len(m) /\ m[p + j] = Said(m[p].from, "tool", j)
  <2> HIDE DEF p
  <2> QED BY <1>3, <1>5 DEF Conversation
<1>7. \A j \in 1 .. i - c : m[c + j] = Said(m[c].from, "tool", j)
  BY DEF Grouped
<1>8. p = c
  <2>1. CASE p > c
    <3>1. p - c \in 1 .. i - c /\ c + (p - c) = p
      BY <1>1, <1>2, <1>5, <2>1
    <3>2. m[p] = Said(m[c].from, "tool", p - c)
      <4> HIDE DEF p
      <4> QED BY <1>7, <3>1
    <3> QED BY <1>3, <3>2 DEF Said
  <2>2. CASE p < c
    <3>1. c - p \in 1 .. m[p].n /\ p + (c - p) = c /\ c > 0
      <4>1. c - p \in 1 .. e.n
        BY <1>1, <1>2, <1>5, <2>2
      <4> DEFINE k == m[p].n
      <4>2. p \in Nat /\ k >= e.n /\ k \in Nat
        BY <1>3, <1>5
      <4>3. c \in Nat /\ p < c
        BY <1>1, <2>2
      <4> HIDE DEF p, e, k
      <4>4. c - p \in 1 .. k /\ p + (c - p) = c /\ c > 0
        BY <1>2, <4>1, <4>2, <4>3
      <4> QED BY <4>4 DEF k
    <3>2. m[c] = Said(m[p].from, "tool", c - p)
      <4> HIDE DEF p
      <4> QED BY <1>6, <3>1
    <3> QED BY <3>1, <3>2 DEF Said, Grouped
  <2> QED BY <1>1, <1>2, <1>5, <2>1, <2>2
<1>9. /\ c \in 1 .. i /\ e.n = (i + 1) - c /\ m[c].kind = "calls" /\ (i + 1) - c <= m[c].n
      /\ e = Said(m[c].from, "tool", (i + 1) - c)
  <2>1. c \in 1 .. i /\ e.n = (i + 1) - c
    BY <1>1, <1>2, <1>5, <1>8
  <2>2. (i + 1) - c \in 1 .. m[c].n /\ c + ((i + 1) - c) = i + 1
    BY <1>1, <1>3, <1>5, <1>8, <2>1
  <2> QED BY <1>3, <1>6, <1>8, <2>1, <2>2
<1> DEFINE next == ClaudeAdd(req, e)
<1>10. next.turns = req.turns /\ next.pending = Append(req.pending, e)
  <2>1. next = [turns |-> req.turns, pending |-> Append(req.pending, e)]
    <3>1. e.kind = "tool"
      OBVIOUS
    <3> HIDE DEF e
    <3> QED BY <1>2, <3>1, ClaudeAddIs
  <2> HIDE DEF next
  <2> QED BY <2>1
<1>11. /\ Len(next.pending) = (i + 1) - c
       /\ \A j \in 1 .. i - c : next.pending[j] = req.pending[j]
       /\ next.pending[(i + 1) - c] = e
  BY <1>1, <1>2, <1>10
<1> HIDE DEF next, p
<1>12. ASSUME NEW j \in 1 .. (i + 1) - c
       PROVE  next.pending[j] = m[c + j] /\ m[c + j] = Said(m[c].from, "tool", j)
  <2>1. CASE j = (i + 1) - c
    <3>1. c + j = i + 1
      BY <1>1, <2>1
    <3> QED BY <1>9, <1>11, <2>1, <3>1
  <2>2. CASE j # (i + 1) - c
    <3>1. j \in 1 .. i - c
      BY <1>1, <2>2
    <3> QED BY <1>11, <3>1 DEF Grouped
  <2> QED BY <2>1, <2>2
<1>13. Grouped(m, i + 1, next, c)
  <2>1. c \in 0 .. i + 1 /\ c > 0 /\ c # 0
    BY <1>1, <1>9
  <2> HIDE DEF e
  <2>2. /\ req.turns # <<>> /\ OpenPairs(req.turns)
        /\ req.turns[Len(req.turns)] = OllamaTurn(m[c]) /\ m[c].kind # "tool"
    BY <2>1 DEF Grouped
  <2>3. next.turns = req.turns
    BY <1>10
  <2> QED BY <1>9, <1>11, <1>12, <2>1, <2>2, <2>3 DEF Grouped
<1> QED BY <1>13 DEF next

\* What waits is flushed, and another message follows.
LEMMA GroupedSay ==
    ASSUME NEW m \in Seq(Message), Conversation(m), NEW i \in 0 .. Len(m) - 1,
           NEW req \in ClaudeRequests, NEW c, Grouped(m, i, req, c),
           m[i + 1].kind # "tool"
    PROVE  Grouped(m, i + 1, ClaudeAdd(req, m[i + 1]), i + 1)
<1> DEFINE e == m[i + 1]
           next == ClaudeAdd(req, e)
           t == OllamaTurn(e)
<1>1. i \in Nat /\ Len(m) \in Nat /\ i + 1 \in 1 .. Len(m) /\ i \in 0 .. Len(m)
  OBVIOUS
<1>2. e \in Message /\ e.kind \in Kinds
  <2>1. e \in Message
    BY <1>1, ElementOfSeq
  <2> QED BY <2>1 DEF Message
<1>3. next.turns = Append(Flush(req).turns, t) /\ next.pending = <<>>
  BY <1>2, ClaudeAddIs
<1>4. Flush(req).turns \in Seq(Turns) /\ t \in Turns
  BY <1>2, ClaudeAddIs, OllamaTurnType DEF ClaudeRequests
<1>5. PairsUp(Flush(req).turns)
  <2>1. c > 0 /\ HasCalls(m[c]) => m[c].n = i - c
    BY <1>1, Settled
  <2> QED BY <1>1, <2>1, FlushPairs
<1>6. ~Has(t, "tool")
  <2>1. CASE HasCalls(e)
    <3>1. t.items = Uses(e)
      BY <1>2, <2>1, OllamaTurnType
    <3>2. \A j \in 1 .. Len(t.items) : t.items[j] = Said(e.from, "use", j)
      BY <1>2, <3>1, UsesType
    <3> HIDE DEF t, e
    <3> QED BY <3>2, SaidIs DEF Has
  <2>2. CASE ~HasCalls(e)
    <3>1. t.items = <<e>> /\ e.kind # "tool"
      BY <1>2, <2>2, OllamaTurnType
    <3> HIDE DEF t, e
    <3> QED BY <3>1 DEF Has
  <2> QED BY <2>1, <2>2
<1>7. OpenPairs(next.turns)
  <2> HIDE DEF t, next
  <2> QED BY <1>3, <1>4, <1>5, <1>6, PairsSay
<1>8. next.turns # <<>> /\ next.turns[Len(next.turns)] = t
  <2> HIDE DEF t, next
  <2> QED BY <1>3, <1>4
<1>9. Len(next.pending) = (i + 1) - (i + 1)
  BY <1>1, <1>3
<1>10. /\ i + 1 \in 0 .. i + 1 /\ i + 1 # 0 /\ ~(i + 1 > i + 1)
       /\ 1 .. (i + 1) - (i + 1) = {}
  BY <1>1
<1>11. next.turns[Len(next.turns)] = OllamaTurn(m[i + 1]) /\ m[i + 1].kind # "tool"
  BY <1>8
<1> HIDE DEF next, e, t
<1>12. Grouped(m, i + 1, next, i + 1)
  BY <1>7, <1>8, <1>9, <1>10, <1>11 DEF Grouped
<1> QED BY <1>12 DEF next, e

\* A conversation makes a request that answers every tool call.
LEMMA ClaudePairs ==
    ASSUME NEW m \in Seq(Message), Conversation(m)
    PROVE  PairsUp(ClaudeMessages(m))
<1> DEFINE n == Len(m)
           W == {i \in 0 .. n : \E c : Grouped(m, i, ClaudeRequest(m)[i], c)}
<1>1. n \in Nat
  OBVIOUS
<1>2. 0 \in W
  <2> DEFINE req == [turns |-> <<>>, pending |-> <<>>]
  <2>1. ClaudeRequest(m)[0] = req
    BY ClaudeRuns
  <2>2. req.turns = <<>> /\ req.pending = <<>> /\ Len(<<>>) = 0
    OBVIOUS
  <2>3. OpenPairs(<<>>)
    BY <2>2 DEF OpenPairs
  <2> HIDE DEF req
  <2>4. Grouped(m, 0, req, 0)
    BY <2>2, <2>3 DEF Grouped
  <2> QED BY <1>1, <2>1, <2>4
<1>3. ASSUME NEW i \in 0 .. n - 1, i \in W PROVE i + 1 \in W
  <2> DEFINE req == ClaudeRequest(m)[i]
  <2>1. i \in 0 .. n /\ i + 1 \in 1 .. n /\ i + 1 \in 0 .. n /\ (i + 1) - 1 = i
    BY <1>1
  <2>2. PICK c : Grouped(m, i, req, c)
    BY <1>3
  <2>3. req \in ClaudeRequests /\ ClaudeRequest(m)[i + 1] = ClaudeAdd(req, m[i + 1])
    BY <2>1, ClaudeRuns
  <2> HIDE DEF req
  <2>4. \E d : Grouped(m, i + 1, ClaudeRequest(m)[i + 1], d)
    BY <2>2, <2>3, GroupedTool, GroupedSay
  <2> QED BY <2>1, <2>4
<1>4. PICK c : Grouped(m, n, ClaudeRequest(m)[n], c)
  <2> HIDE DEF W
  <2>1. 0 .. n \subseteq W
    <3> HIDE DEF n
    <3> QED BY <1>1, <1>2, <1>3, UpTo
  <2>2. n \in W
    BY <1>1, <2>1
  <2> QED BY <2>2 DEF W
<1>5. ClaudeRequest(m)[n] \in ClaudeRequests /\ n \in 0 .. Len(m)
  BY <1>1, ClaudeRuns
<1>6. c > 0 /\ HasCalls(m[c]) => m[c].n = n - c
  BY <1>4, <1>5, Settled
<1> QED BY <1>4, <1>5, <1>6, FlushPairs DEF ClaudeMessages

(* Whatever interferes: what is sent to Claude answers every tool call in  *)
(* the next turn, and has the content of what would be sent to Ollama.     *)
THEOREM Faithful == Spec => []RequestsFaithful
<1>1. Inv /\ ConversationsValid => RequestsFaithful
  BY ClaudePairs, SameContent DEF Inv, TypeOK, ConversationsValid, RequestsFaithful
<1> QED BY <1>1, InvAlways, Conversations, PTL
=============================================================================
