-------------------------- MODULE Lifecycle_proofs --------------------------
(***************************************************************************)
(* The life of the harness, for any number of attempts, any delays and any *)
(* behaviour of the MCP server:                                            *)
(*   Connected   whoever runs finds the connections open                   *)
(*   GivesUpLate a start gives up only after its sleeps, and on no server  *)
(*               that stayed up                                            *)
(* and about the argument check, for every schema and call:                *)
(*   CheckFaithful  what passes is what conforms to JSON Schema, but for   *)
(*                  the cases in which the code is stricter or laxer       *)
(*   RestUnseen     of a property nothing but its one type is looked at    *)
(*   CallsChecked   so it is with the registry that the start has filled   *)
(*                  from what the server announced                         *)
(***************************************************************************)
EXTENDS Lifecycle, PrefixInduction, SequenceTheorems, TLAPS

-----------------------------------------------------------------------------
(* The clock of a start.  Doubled, to stay in the integers: the sleeps     *)
(* before attempt n take Delay * n * (n - 1) / 2 seconds.                  *)

Slept(n) == Delay * n * (n - 1)

\* The bound on a run of the server that no attempt has met.
Window == Delay * (Retries - 1) + FetchTime

Clock ==
    /\ stage = "connecting" => timer = 0 /\ up = 0
    /\ server = "down" => up = 0
    /\ stage = "fetching" =>
          /\ attempt >= 1 /\ timer <= FetchTime
          /\ 2 * elapsed >= Slept(attempt)
          /\ up <= Delay * (attempt - 1) + timer
    /\ stage = "napping" =>
          /\ attempt >= 1 /\ attempt < Retries
          /\ 2 * elapsed + 2 * timer >= Slept(attempt + 1)
          /\ up + timer <= Delay * attempt
    /\ longest <= Window
    /\ stage = "unreachable" => 2 * elapsed >= Slept(Retries)

\* The connections outlive the drain task, and are closed in turn.
Open ==
    /\ stage \in {"off", "connecting"} => live = {}
    /\ stage \in {"fetching", "napping", "unreachable"} => live = Connections
    /\ stage = "serving" => live = Connections \cup {"drainer"}
    /\ stage = "closing_pool" => live = Connections
    /\ stage = "closing_redis" => live = {"redis"}
    /\ "drainer" \in live => stage = "serving"

Inv == TypeOK /\ Clock /\ Open

LEMMA Longer ==
    ASSUME NEW a \in Nat, NEW b \in Nat, a <= b
    PROVE  Delay * a \in Nat /\ Delay * a <= Delay * b
<1>1. Delay \in Nat
  BY LifecycleAssumption
<1>2. Delay * b = Delay * a + Delay * (b - a)
  BY <1>1
<1>3. Delay * a \in Nat /\ Delay * (b - a) \in Nat
  <2>1. b - a \in Nat
    OBVIOUS
  <2>2. \A m, n \in Nat : m * n \in Nat
    OBVIOUS
  <2> QED BY <1>1, <2>1, <2>2
<1> QED BY <1>2, <1>3

LEMMA SleptNext ==
    ASSUME NEW n \in Nat
    PROVE  Slept(n + 1) = Slept(n) + 2 * (Delay * n) /\ Slept(n) \in Int
BY LifecycleAssumption DEF Slept

LEMMA SleptFirst == Slept(1) = 0
BY LifecycleAssumption DEF Slept

LEMMA WindowType == Window \in Nat
BY LifecycleAssumption, Longer DEF Window

LEMMA InvInit == Init => Inv
<1> SUFFICES ASSUME Init PROVE Inv
  OBVIOUS
<1> QED
  BY WindowType, LifecycleAssumption
  DEF Init, Inv, TypeOK, Clock, Open, Connections, Stages, Starting, Stopping

LEMMA TypeStep == ASSUME Inv, [Next]_vars PROVE TypeOK' /\ Open'
<1> USE LifecycleAssumption
    DEF Inv, TypeOK, Open, Connections, Stages, Starting, Stopping, process, history
<1>1. CASE Launch       BY <1>1 DEF Launch
<1>2. CASE Connect      BY <1>2 DEF Connect
<1>3. CASE ConnectFails BY <1>3 DEF ConnectFails
<1>4. CASE Serve        BY <1>4 DEF Serve
<1>5. CASE PolicyFails  BY <1>5 DEF PolicyFails
<1>6. CASE FetchFails
  <2>1. Nap(attempt) \in Nat
    BY Longer DEF Nap
  <2> QED BY <1>6, <2>1 DEF FetchFails, MoreAttempts, AfterLast
<1>7. CASE NextAttempt
  BY <1>7 DEF NextAttempt, Clock
<1>8. CASE Shutdown
  <2>1. CASE Stop("serving", "drainer", "closing_pool")       BY <2>1 DEF Stop
  <2>2. CASE Stop("closing_pool", "pool", "closing_redis")    BY <2>2 DEF Stop
  <2>3. CASE Stop("closing_redis", "redis", "off")            BY <2>3 DEF Stop
  <2> QED BY <1>8, <2>1, <2>2, <2>3 DEF Shutdown
<1>9. CASE Exit         BY <1>9 DEF Exit
<1>10. CASE Deploy      BY <1>10 DEF Deploy
<1>11. CASE ServerStops BY <1>11 DEF ServerStops
<1>12. CASE Tick        BY <1>12 DEF Tick
<1>13. CASE UNCHANGED vars
  BY <1>13 DEF vars
<1> QED BY <1>1, <1>2, <1>3, <1>4, <1>5, <1>6, <1>7, <1>8, <1>9, <1>10, <1>11,
           <1>12, <1>13 DEF Next, Start

LEMMA ClockStep == ASSUME Inv, [Next]_vars PROVE Clock'
<1> USE LifecycleAssumption DEF Inv, TypeOK, process, history
<1>1. CASE Launch
  BY <1>1, WindowType DEF Launch, Clock
<1>2. CASE Connect
  BY <1>2, SleptFirst DEF Connect, Clock
<1>3. CASE ConnectFails BY <1>3 DEF ConnectFails, Clock
<1>4. CASE Serve        BY <1>4 DEF Serve, Clock
<1>5. CASE PolicyFails  BY <1>5 DEF PolicyFails, Clock
<1>6. CASE FetchFails
  <2>1. /\ stage = "fetching" /\ up = 0 /\ attempt \in 1 .. Retries
        /\ 2 * elapsed >= Slept(attempt)
    BY <1>6 DEF FetchFails, Clock
  <2>2. CASE MoreAttempts
    <3>1. /\ attempt < Retries
          /\ stage' = "napping" /\ timer' = Delay * attempt
          /\ UNCHANGED <<attempt, server, elapsed, up, longest>>
      BY <1>6, <2>2 DEF FetchFails, MoreAttempts, Nap
    <3>2. Slept(attempt + 1) = Slept(attempt) + 2 * (Delay * attempt) /\ Slept(attempt) \in Int
      BY SleptNext
    <3>3. Delay * attempt \in Nat
      BY Longer
    <3>4. 2 * elapsed + 2 * timer' >= Slept(attempt + 1)
      BY <2>1, <3>1, <3>2, <3>3
    <3>5. longest <= Window /\ server = "down" => up = 0
      BY DEF Clock
    <3> QED BY <2>1, <3>1, <3>3, <3>4, <3>5 DEF Clock
  <2>3. CASE ~MoreAttempts
    <3>1. attempt = Retries
      BY <2>1, <2>3 DEF MoreAttempts
    <3> QED BY <1>6, <2>1, <2>3, <3>1 DEF FetchFails, AfterLast, Clock
  <2> QED BY <2>2, <2>3
<1>7. CASE NextAttempt
  <2>1. /\ stage = "napping" /\ timer = 0 /\ stage' = "fetching"
        /\ attempt' = attempt + 1
        /\ UNCHANGED <<timer, server, elapsed, up, longest>>
    BY <1>7 DEF NextAttempt
  <2>2. (attempt + 1) - 1 = attempt /\ attempt + 1 >= 1
    OBVIOUS
  <2>3. 2 * elapsed >= Slept(attempt + 1) /\ up <= Delay * attempt
    <3>1. 2 * elapsed + 2 * timer = 2 * elapsed /\ up + timer = up
      BY <2>1
    <3> QED BY <2>1, <3>1 DEF Clock
  <2>4. up <= Delay * ((attempt + 1) - 1) + 0
    <3>1. Delay * attempt \in Nat
      BY Longer
    <3> QED BY <2>2, <2>3, <3>1
  <2> QED BY <2>1, <2>2, <2>3, <2>4 DEF Clock
<1>8. CASE Shutdown     BY <1>8 DEF Shutdown, Stop, Clock
<1>9. CASE Exit         BY <1>9 DEF Exit, Clock
<1>10. CASE Deploy      BY <1>10 DEF Deploy, Clock
<1>11. CASE ServerStops
  <2>1. \A n \in Nat : Delay * n \in Nat
    BY Longer
  <2>2. stage = "fetching" => attempt - 1 \in Nat
    BY DEF Clock
  <2> QED BY <1>11, <2>1, <2>2 DEF ServerStops, Clock
<1>12. CASE Tick
  <2>1. /\ elapsed' = elapsed + 1
        /\ up' = 0 \/ up' = up + 1
        /\ server = "down" => up' = 0
        /\ longest' = longest \/ longest' = up'
        /\ UNCHANGED <<stage, attempt, server>>
    BY <1>12 DEF Tick
  <2>2. \A n \in Nat : Delay * n \in Nat /\ Slept(n) \in Int
    BY Longer, SleptNext
  <2>3. Retries - 1 \in Nat /\ FetchTime \in Nat
    OBVIOUS
  <2>4. CASE stage = "fetching"
    <3>1. timer < FetchTime /\ timer' = timer + 1
      BY <1>12, <2>4 DEF Tick
    <3>2. attempt - 1 \in Nat /\ attempt - 1 <= Retries - 1
      BY <2>4 DEF Clock
    <3>3. Delay * (attempt - 1) <= Delay * (Retries - 1)
      BY <2>3, <3>2, Longer
    <3>4. up' <= Delay * (attempt - 1) + timer'
      <4> DEFINE d == Delay * (attempt - 1)
      <4>1. d \in Nat /\ up <= d + timer
        BY <2>2, <2>4, <3>2 DEF Clock
      <4> HIDE DEF d
      <4>2. up' <= d + timer'
        BY <2>1, <3>1, <4>1
      <4> QED BY <4>2 DEF d
    <3>5. up' <= Window
      <4> DEFINE d == Delay * (attempt - 1)
                 w == Delay * (Retries - 1)
      <4>1. d \in Nat /\ w \in Nat /\ d <= w /\ up' <= d + timer'
        BY <2>2, <2>3, <3>2, <3>3, <3>4
      <4> HIDE DEF d, w
      <4>2. up' <= w + FetchTime
        BY <2>1, <2>3, <3>1, <4>1
      <4> QED BY <4>2 DEF w, Window
    <3>6. longest' <= Window
      BY <2>1, <3>5 DEF Clock
    <3>7. 2 * elapsed' >= Slept(attempt)
      BY <2>1, <2>2, <2>4 DEF Clock
    <3> QED BY <2>1, <2>4, <3>1, <3>4, <3>6, <3>7 DEF Clock
  <2>5. CASE stage = "napping"
    <3>1. timer > 0 /\ timer' = timer - 1
      BY <1>12, <2>5 DEF Tick
    <3>2. attempt <= Retries - 1
      BY <2>5 DEF Clock
    <3>3. Delay * attempt <= Delay * (Retries - 1)
      BY <2>3, <3>2, Longer
    <3>4. up' + timer' <= Delay * attempt
      <4> DEFINE d == Delay * attempt
      <4>1. d \in Nat /\ up + timer <= d
        BY <2>2, <2>5 DEF Clock
      <4> HIDE DEF d
      <4>2. up' + timer' <= d
        BY <2>1, <3>1, <4>1
      <4> QED BY <4>2 DEF d
    <3>5. up' <= Window
      <4> DEFINE d == Delay * attempt
                 w == Delay * (Retries - 1)
      <4>1. d \in Nat /\ w \in Nat /\ d <= w /\ up' + timer' <= d
        BY <2>2, <2>3, <3>3, <3>4
      <4> HIDE DEF d, w
      <4>2. up' <= w + FetchTime
        BY <2>1, <2>3, <3>1, <4>1
      <4> QED BY <4>2 DEF w, Window
    <3>6. longest' <= Window
      BY <2>1, <3>5 DEF Clock
    <3>7. 2 * elapsed' + 2 * timer' >= Slept(attempt + 1)
      <4>1. 2 * elapsed' + 2 * timer' = 2 * elapsed + 2 * timer
        BY <2>1, <3>1
      <4> QED BY <2>5, <4>1 DEF Clock
    <3> QED BY <2>1, <2>5, <3>1, <3>4, <3>6, <3>7 DEF Clock
  <2> QED BY <1>12, <2>4, <2>5 DEF Tick
<1>13. CASE UNCHANGED vars
  BY <1>13 DEF vars, Clock
<1> QED BY <1>1, <1>2, <1>3, <1>4, <1>5, <1>6, <1>7, <1>8, <1>9, <1>10, <1>11,
           <1>12, <1>13 DEF Next, Start

LEMMA InvAlways == Spec => []Inv
<1>1. Inv /\ [Next]_vars => Inv'
  BY TypeStep, ClockStep DEF Inv
<1> QED BY <1>1, InvInit, PTL DEF Spec

-----------------------------------------------------------------------------
(* The variables keep their types.                                         *)
THEOREM TypeCorrect == Spec => []TypeOK
<1>1. Inv => TypeOK
  BY DEF Inv
<1> QED BY <1>1, InvAlways, PTL

(* Requests and the drain task find the pool and the Redis client open,    *)
(* through every shutdown, failed start and crash.                         *)
THEOREM Connected == Spec => []ConnectedWhileUsed
<1>1. Inv => ConnectedWhileUsed
  BY DEF Inv, Open, ConnectedWhileUsed, Connections
<1> QED BY <1>1, InvAlways, PTL

(* A start gives up only after Delay * (1 + ... + (Retries - 1)) seconds,  *)
(* and only on a server that was not up for as long as the last sleep and  *)
(* one attempt together.                                                   *)
THEOREM GivesUpLate == Spec => []ServerNotMissed
<1>1. Inv => ServerNotMissed
  BY DEF Inv, Clock, ServerNotMissed, Slept, Window
<1> QED BY <1>1, InvAlways, PTL

-----------------------------------------------------------------------------
(* The argument check.                                                     *)

LEMMA MapTable ==
    /\ TypeMap["string"] = {"str"}      /\ TypeMap["integer"] = {"int"}
    /\ TypeMap["number"] = {"int", "float"}
    /\ TypeMap["boolean"] = {"bool"}    /\ TypeMap["object"] = {"dict"}
    /\ TypeMap["array"] = {"list"}      /\ TypeMap["null"] = {"NoneType"}
BY DEF TypeMap

LEMMA JsonTable ==
    /\ JsonTypes["str"] = {"string"}    /\ JsonTypes["int"] = {"integer", "number"}
    /\ JsonTypes["float"] = {"number"}  /\ JsonTypes["bool"] = {"boolean"}
    /\ JsonTypes["dict"] = {"object"}   /\ JsonTypes["list"] = {"array"}
    /\ JsonTypes["NoneType"] = {"null"}
BY DEF JsonTypes

LEMMA TypeMapNames == DOMAIN TypeMap = JsonTypeNames
BY DEF TypeMap, JsonTypeNames

\* One argument: the check sees its type as JSON Schema does, but for
\* booleans, which it takes for numbers.
LEMMA TypeAgrees ==
    ASSUME NEW v, v.class \in Classes, NEW type \in JsonTypeNames
    PROVE  TypeOk(v, type)
              <=> type \in JsonTypes[v.class] \/ (v.class = "bool" /\ type = "number")
<1>1. TypeOk(v, type) <=>
        ~(type = "integer" /\ v.class = "bool") /\ Bases(v.class) \cap TypeMap[type] # {}
  BY TypeMapNames DEF TypeOk
<1>2. Bases(v.class) \cap TypeMap[type] # {} <=>
        v.class \in TypeMap[type] \/ (v.class = "bool" /\ "int" \in TypeMap[type])
  BY DEF Bases
<1>3. v.class \in TypeMap[type] <=> type \in JsonTypes[v.class]
  BY MapTable, JsonTable DEF Classes, JsonTypeNames
<1>4. "int" \in TypeMap[type] <=> type \in {"integer", "number"}
  BY MapTable DEF JsonTypeNames
<1>5. type = "integer" => "bool" \notin TypeMap[type]
  BY MapTable
<1> QED BY <1>1, <1>2, <1>3, <1>4, <1>5

LEMMA TypeUnseen ==
    ASSUME NEW v, NEW type, type \notin JsonTypeNames
    PROVE  TypeOk(v, type)
BY TypeMapNames DEF TypeOk

LEMMA MarkerNames == NoType \notin JsonTypeNames /\ TypeList \notin JsonTypeNames
BY DEF NoType, TypeList, JsonTypeNames

LEMMA ValidWhen ==
    ASSUME NEW schema, NEW args
    PROVE  /\ "valid" \in Validate(schema, args)
                 <=> Validate(schema, args) = {"valid"}
           /\ Validate(schema, args) = {"valid"} <=>
                 /\ Missing(schema, args) = {}
                 /\ Unexpected(schema, args) = {}
                 /\ Mistyped(schema, args) = {}
                 /\ Unhashable(schema, args) = {}
BY DEF Validate

\* What a schema may say: a property with a type admits values of that type.
SaneSchema(schema) ==
    \A k \in DOMAIN schema.properties :
        schema.properties[k].type \in JsonTypeNames
            => schema.properties[k].admits \subseteq OfType(schema.properties[k].type)

(* A call that conforms to JSON Schema and gives listed arguments only     *)
(* passes the check, but for 1.0 given as an integer and for properties    *)
(* with a list of types; and a call that passes conforms, but for a        *)
(* boolean given as a number and for properties that say more than one     *)
(* type, or none.                                                          *)
THEOREM CheckFaithful ==
    ASSUME NEW schema, SaneSchema(schema),
           NEW args, \A k \in DOMAIN args : args[k] \in Values
    PROVE  /\ Conforms(schema, args) /\ Listed(schema, args)
                 => Validate(schema, args) = {"valid"} \/ Stricter(schema, args)
           /\ "valid" \in Validate(schema, args)
                 => (Conforms(schema, args) /\ Listed(schema, args)) \/ Laxer(schema, args)
<1> DEFINE p(k) == schema.properties[k]
<1>1. Missing(schema, args) = {} <=> schema.required \subseteq DOMAIN args
  BY DEF Missing
<1>2. Unexpected(schema, args) = {} <=> Listed(schema, args)
  BY DEF Unexpected, Listed
<1>3. ASSUME NEW k \in Typed(schema, args)
      PROVE  /\ k \in DOMAIN args /\ k \in DOMAIN schema.properties
             /\ args[k] \in Values /\ args[k].class \in Classes
  BY <1>3, ValuesAssumption DEF Typed
<1>4. ASSUME Conforms(schema, args), Listed(schema, args), ~Stricter(schema, args)
      PROVE  Validate(schema, args) = {"valid"}
  <2>1. Unhashable(schema, args) = {}
    BY <1>4 DEF Unhashable, Stricter
  <2>2. ASSUME NEW k \in Typed(schema, args) PROVE TypeOk(args[k], p(k).type)
    <3>1. CASE p(k).type \notin JsonTypeNames
      BY <3>1, TypeUnseen
    <3>2. CASE p(k).type \in JsonTypeNames
      <4>1. args[k] \in OfType(p(k).type)
        BY <1>3, <1>4, <2>2, <3>2 DEF Conforms, SaneSchema
      <4>2. p(k).type \in JsonTypes[args[k].class]
        BY <1>4, <2>2, <4>1 DEF OfType, Stricter
      <4> QED BY <1>3, <2>2, <3>2, <4>2, TypeAgrees
    <3> QED BY <3>1, <3>2
  <2>3. Mistyped(schema, args) = {}
    BY <2>2 DEF Mistyped
  <2> QED BY <1>1, <1>2, <1>4, <2>1, <2>3, ValidWhen DEF Conforms
<1>5. ASSUME "valid" \in Validate(schema, args), ~Laxer(schema, args)
      PROVE  Conforms(schema, args) /\ Listed(schema, args)
  <2>1. /\ Missing(schema, args) = {} /\ Unexpected(schema, args) = {}
        /\ Mistyped(schema, args) = {}
    BY <1>5, ValidWhen
  <2>2. ASSUME NEW k \in Typed(schema, args) PROVE args[k] \in p(k).admits
    <3>1. /\ p(k).type \in JsonTypeNames /\ p(k).admits = OfType(p(k).type)
          /\ ~(p(k).type = "number" /\ args[k].class = "bool")
      BY <1>5, <2>2 DEF Laxer, Plain
    <3>2. TypeOk(args[k], p(k).type)
      BY <2>1, <2>2 DEF Mistyped
    <3>3. p(k).type \in JsonTypes[args[k].class]
      BY <1>3, <2>2, <3>1, <3>2, TypeAgrees
    <3>4. args[k] \in OfType(p(k).type)
      BY <1>3, <2>2, <3>3 DEF OfType
    <3> QED BY <3>1, <3>4
  <2> QED BY <1>1, <1>2, <2>1, <2>2 DEF Conforms
<1> QED BY <1>4, <1>5

(* What a property says beyond one type is not looked at: calls that differ *)
(* only in arguments whose property names no type (the anyOf of            *)
(* server.py:63-64), or names a list of them, get the same verdict.        *)
THEOREM RestUnseen ==
    ASSUME NEW schema, NEW args, NEW other,
           DOMAIN other = DOMAIN args,
           \A k \in Typed(schema, args) :
               \/ schema.properties[k].type \notin JsonTypeNames
               \/ other[k].class = args[k].class
    PROVE  Validate(schema, other) = Validate(schema, args)
<1>1. /\ Missing(schema, other) = Missing(schema, args)
      /\ Unexpected(schema, other) = Unexpected(schema, args)
      /\ Typed(schema, other) = Typed(schema, args)
  BY DEF Missing, Unexpected, Typed
<1>2. Unhashable(schema, other) = Unhashable(schema, args)
  BY <1>1 DEF Unhashable
<1>3. ASSUME NEW k \in Typed(schema, args)
      PROVE  TypeOk(other[k], schema.properties[k].type)
                <=> TypeOk(args[k], schema.properties[k].type)
  <2>1. CASE schema.properties[k].type \notin JsonTypeNames
    BY <2>1, TypeUnseen
  <2>2. CASE other[k].class = args[k].class
    BY <2>2 DEF TypeOk
  <2> QED BY <1>3, <2>1, <2>2
<1>4. Mistyped(schema, other) = Mistyped(schema, args)
  BY <1>1, <1>3 DEF Mistyped
<1> QED BY <1>1, <1>2, <1>4 DEF Validate

-----------------------------------------------------------------------------
(* The registry after a start.                                             *)

\* register_many() leaves each tool the schema it came with, if no two tools
\* have one name.
LEMMA EachRegistered ==
    ASSUME NEW S, NEW tools \in Seq(S),
           \A i, j \in 1 .. Len(tools) : tools[i].name = tools[j].name => i = j,
           NEW t \in 1 .. Len(tools)
    PROVE  /\ tools[t].name \in DOMAIN RegisterMany(tools)
           /\ RegisterMany(tools)[tools[t].name] = tools[t].inputSchema
<1> DEFINE n == Len(tools)
           Named == {tools[i].name : i \in 1 .. n}
           Schemas == {tools[i].inputSchema : i \in 1 .. n}
           T == UNION {[D -> Schemas] : D \in SUBSET Named}
           Adds(f, g, i) ==
               /\ DOMAIN g = DOMAIN f \cup {tools[i].name}
               /\ g[tools[i].name] = tools[i].inputSchema
               /\ \A x \in DOMAIN f \ {tools[i].name} : g[x] = f[x]
           step == [p \in T \X (1 .. n) |-> Register(p[1], tools[p[2]])]
<1>1. n \in Nat
  OBVIOUS
<1>2. <<>> \in T
  <2>1. <<>> \in [{} -> Schemas]
    OBVIOUS
  <2> QED BY <2>1
<1>3. ASSUME NEW f \in T, NEW i \in 1 .. n
      PROVE  Register(f, tools[i]) \in T /\ Adds(f, Register(f, tools[i]), i)
  <2>1. PICK D \in SUBSET Named : f \in [D -> Schemas]
    OBVIOUS
  <2>2. D \cup {tools[i].name} \in SUBSET Named /\ tools[i].inputSchema \in Schemas
    OBVIOUS
  <2>3. Register(f, tools[i]) \in [D \cup {tools[i].name} -> Schemas]
    BY <2>1, <2>2 DEF Register
  <2>4. Register(f, tools[i]) \in T
    BY <2>2, <2>3
  <2> QED BY <2>1, <2>4 DEF Register
<1> HIDE DEF T, Named, Schemas
<1>4. step \in [T \X (1 .. n) -> T]
  BY <1>3
<1>5. PICK f \in [0 .. n -> T] :
          f[0] = <<>> /\ \A i \in 1 .. n : f[i] = step[<<f[i - 1], i>>]
  <2>1. \E f : IsRun(f, T, <<>>, n, step)
    <3> HIDE DEF step, n
    <3> QED BY <1>1, <1>2, <1>4, LoopRuns
  <2> QED BY <2>1 DEF IsRun
<1>6. ASSUME NEW i \in 1 .. n PROVE f[i] = Register(f[i - 1], tools[i])
  <2>1. <<f[i - 1], i>> \in T \X (1 .. n)
    <3> HIDE DEF step, n
    <3>1. i - 1 \in 0 .. n
      BY <1>1
    <3>2. f[i - 1] \in T
      BY <1>5, <3>1
    <3> QED BY <3>2
  <2>2. step[<<f[i - 1], i>>] = Register(f[i - 1], tools[i])
    BY <2>1
  <2> HIDE DEF step
  <2> QED BY <1>5, <2>2
<1>7. RegisterMany(tools) = f[n]
  <2> DEFINE after == CHOOSE g : g = [i \in 0 .. n |->
                          IF i = 0 THEN <<>> ELSE Register(g[i - 1], tools[i])]
  <2>1. f = [i \in 0 .. n |-> IF i = 0 THEN <<>> ELSE Register(f[i - 1], tools[i])]
    BY <1>1, <1>5, <1>6
  <2>2. after = [i \in 0 .. n |-> IF i = 0 THEN <<>> ELSE Register(after[i - 1], tools[i])]
    BY <2>1
  <2>3. RegisterMany(tools) = after[n]
    BY DEF RegisterMany
  <2> HIDE DEF after, n
  <2> DEFINE S0 == {i \in 0 .. n : after[i] = f[i]}
  <2>4. 0 \in S0
    BY <1>1, <1>5, <2>2
  <2>5. ASSUME NEW i \in 0 .. n - 1, i \in S0 PROVE i + 1 \in S0
    <3>1. i + 1 \in 1 .. n /\ (i + 1) - 1 = i
      BY <1>1
    <3> QED BY <1>6, <2>2, <2>5, <3>1
  <2> HIDE DEF S0
  <2>6. 0 .. n \subseteq S0
    BY <1>1, <2>4, <2>5, UpTo
  <2>7. n \in S0
    BY <1>1, <2>6
  <2> QED BY <2>3, <2>7 DEF S0
<1> DEFINE S1 == {i \in 0 .. n : i >= t => /\ tools[t].name \in DOMAIN f[i]
                                            /\ f[i][tools[t].name] = tools[t].inputSchema}
<1>8. 0 \in S1
  BY <1>1
<1>9. ASSUME NEW i \in 0 .. n - 1, i \in S1 PROVE i + 1 \in S1
  <2>1. i + 1 \in 1 .. n /\ (i + 1) - 1 = i
    BY <1>1
  <2>2. f[i] \in T /\ f[i + 1] = Register(f[i], tools[i + 1])
    BY <1>1, <1>5, <1>6, <2>1
  <2>0. Adds(f[i], f[i + 1], i + 1)
    <3> HIDE DEF S1, step, n, Adds
    <3> QED BY <1>3, <2>1, <2>2
  <2>3. CASE i + 1 = t
    BY <2>0, <2>1, <2>3
  <2>4. CASE i + 1 # t /\ i + 1 >= t
    <3>1. tools[t].name # tools[i + 1].name /\ i \in 0 .. n /\ i >= t
      BY <2>1, <2>4
    <3>2. tools[t].name \in DOMAIN f[i] /\ f[i][tools[t].name] = tools[t].inputSchema
      BY <1>9, <3>1
    <3>3. tools[t].name \in DOMAIN f[i + 1] /\ f[i + 1][tools[t].name] = f[i][tools[t].name]
      BY <2>0, <3>1, <3>2
    <3> QED BY <2>1, <3>2, <3>3
  <2>5. CASE ~(i + 1 >= t)
    BY <2>1, <2>5
  <2> QED BY <2>3, <2>4, <2>5
<1> HIDE DEF S1, n
<1>10. 0 .. n \subseteq S1
  BY <1>1, <1>8, <1>9, UpTo
<1>11. n \in S1 /\ n >= t
  BY <1>1, <1>10 DEF n
<1> QED BY <1>7, <1>11 DEF S1

\* While the harness serves, the registry holds what one version announced.
Registered ==
    stage = "serving" => loaded \in Versions /\ schemas = RegisterMany(Announced[loaded])

LEMMA RegisteredAlways == Spec => []Registered
<1>1. Init => Registered
  BY DEF Init, Registered
<1>2. Registered /\ [Next]_vars => Registered'
  BY DEF Registered, Next, Start, vars, process, history, Launch, Connect, ConnectFails,
         Serve, PolicyFails, FetchFails, AfterLast, NextAttempt, Shutdown, Stop, Exit,
         Deploy, ServerStops, Tick
<1> QED BY <1>1, <1>2, PTL DEF Spec

(* Whatever the servers announce, and however they are deployed while the  *)
(* harness serves: every call is checked against what was announced at its *)
(* start, as faithfully as CheckFaithful says.                             *)
THEOREM CallsChecked == Spec => []ChecksAgree
<1>1. Registered => ChecksAgree
  <2> SUFFICES ASSUME Registered, stage = "serving",
                      NEW i \in DOMAIN Announced[loaded], NEW args \in Arguments
               PROVE  LET tool == Announced[loaded][i]
                          schema == tool.inputSchema
                          verdicts == Check(schemas, tool.name, args)
                          conforms == Conforms(schema, args) /\ Listed(schema, args)
                      IN  /\ conforms => verdicts = {"valid"} \/ Stricter(schema, args)
                          /\ "valid" \in verdicts => conforms \/ Laxer(schema, args)
    BY DEF ChecksAgree
  <2> DEFINE tools == Announced[loaded]
             schema == tools[i].inputSchema
  <2>1. loaded \in Versions /\ schemas = RegisterMany(tools)
    BY DEF Registered
  <2>2. tools \in Seq(Range(tools))
    BY <2>1, AnnouncedAssumption
  <2>3. DOMAIN tools = 1 .. Len(tools)
    BY <2>2
  <2>4. \A j, k \in 1 .. Len(tools) : tools[j].name = tools[k].name => j = k
    BY <2>1, <2>3, AnnouncedAssumption
  <2>5. tools[i].name \in DOMAIN schemas /\ schemas[tools[i].name] = schema
    BY <2>1, <2>2, <2>3, <2>4, EachRegistered
  <2>6. \A k \in DOMAIN args : args[k] \in Values
    BY AnnouncedAssumption DEF Range
  <2>7. Check(schemas, tools[i].name, args) = Validate(schema, args)
    BY <2>5 DEF Check
  <2>8. SaneSchema(schema)
    <3> DEFINE properties == schema.properties
    <3>1. \A p \in Range(properties) :
             p.type \in JsonTypeNames => p.admits \subseteq OfType(p.type)
      BY <2>1, AnnouncedAssumption
    <3> HIDE DEF properties
    <3>2. \A k \in DOMAIN properties : properties[k] \in Range(properties)
      BY DEF Range
    <3>3. \A k \in DOMAIN properties :
             properties[k].type \in JsonTypeNames
                 => properties[k].admits \subseteq OfType(properties[k].type)
      BY <3>1, <3>2
    <3> QED BY <3>3 DEF SaneSchema, properties
  <2>9. /\ Conforms(schema, args) /\ Listed(schema, args)
              => Validate(schema, args) = {"valid"} \/ Stricter(schema, args)
        /\ "valid" \in Validate(schema, args)
              => (Conforms(schema, args) /\ Listed(schema, args)) \/ Laxer(schema, args)
    <3> HIDE DEF schema
    <3> QED BY <2>6, <2>8, CheckFaithful
  <2> QED BY <2>7, <2>9
<1> QED BY <1>1, RegisteredAlways, PTL
=============================================================================
