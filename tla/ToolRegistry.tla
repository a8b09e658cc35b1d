---------------------------- MODULE ToolRegistry ----------------------------
(***************************************************************************)
(* Layer 3: the input schemas that the MCP server announced at start-up,   *)
(* and the check of a tool call against them.                              *)
(*                                                                         *)
(* A JSON value has the Python class that json.loads() gives it, and a     *)
(* sort that tells apart values of one class.  The schema of a tool has    *)
(* the names it requires and the schemas of its properties.  Of a property *)
(* the code reads the keyword "type" alone; admits is the set of values    *)
(* that the whole of it accepts, its anyOf, enum or nested schemas         *)
(* included.                                                               *)
(***************************************************************************)
EXTENDS Integers, Sequences

CONSTANT Values    \* JSON values

Classes == {"str", "int", "float", "bool", "dict", "list", "NoneType"}

ASSUME ValuesAssumption ==
    \A v \in Values : v.class \in Classes /\ v.sort \in STRING

\* What the "type" of a property may be besides the name of a type.
NoType == "no type"
TypeList == "list of types"

\* bool is a subclass of int.
Bases(class) == IF class = "bool" THEN {"bool", "int"} ELSE {class}

\* _TYPE_MAP
TypeMap ==
    [ string  |-> {"str"},
      integer |-> {"int"},
      number  |-> {"int", "float"},
      boolean |-> {"bool"},
      object  |-> {"dict"},
      array   |-> {"list"},
      null    |-> {"NoneType"} ]

-----------------------------------------------------------------------------
(* Definitions named ...Mutant stand for a plausible bug in the code of    *)
(* the definition that follows them; no behaviour uses them.               *)

\* _type_ok().  A property without a type has a type the map does not know.
TypeOkMutant(v, expected) ==
    expected \in DOMAIN TypeMap => Bases(v.class) \cap TypeMap[expected] # {}
TypeOk(v, expected) ==
    expected \in DOMAIN TypeMap =>
        /\ ~(expected = "integer" /\ v.class = "bool")
        /\ Bases(v.class) \cap TypeMap[expected] # {}

\* _validate()
Missing(schema, args) == schema.required \ DOMAIN args

Unexpected(schema, args) ==
    IF DOMAIN schema.properties = {} THEN {}
    ELSE DOMAIN args \ DOMAIN schema.properties

Typed(schema, args) == DOMAIN args \cap DOMAIN schema.properties

Mistyped(schema, args) ==
    {k \in Typed(schema, args) : ~TypeOk(args[k], schema.properties[k].type)}

\* A list of types is no key for _TYPE_MAP: TypeError.
Unhashable(schema, args) ==
    {k \in Typed(schema, args) : schema.properties[k].type = TypeList}

\* The first error that is found; of the arguments, which come in any order,
\* the first that has one.
Validate(schema, args) ==
    LET errors == {e \in {"mistyped", "raises"} :
                      \/ e = "mistyped" /\ Mistyped(schema, args) # {}
                      \/ e = "raises" /\ Unhashable(schema, args) # {}}
    IN  IF Missing(schema, args) # {} THEN {"missing"}
        ELSE IF Unexpected(schema, args) # {} THEN {"unexpected"}
        ELSE IF errors # {} THEN errors
        ELSE {"valid"}

\* register() and register_many()
Register(schemas, tool) ==
    [t \in DOMAIN schemas \cup {tool.name} |->
        IF t = tool.name THEN tool.inputSchema ELSE schemas[t]]

RegisterMany(tools) ==
    LET after[i \in 0 .. Len(tools)] ==
            IF i = 0 THEN <<>> ELSE Register(after[i - 1], tools[i])
    IN  after[Len(tools)]

\* check(): what may become of a call.
Check(schemas, tool, args) ==
    IF tool \in DOMAIN schemas THEN Validate(schemas[tool], args) ELSE {"unknown_tool"}

-----------------------------------------------------------------------------
(* The reference: JSON Schema, as the server that announces a schema means *)
(* it.  A whole number is an integer however it is written: 1.0 is one.    *)
JsonTypes ==
    [ str  |-> {"string"},  int  |-> {"integer", "number"}, float    |-> {"number"},
      bool |-> {"boolean"}, dict |-> {"object"},            NoneType |-> {"null"},
      list |-> {"array"} ]

JsonTypeNames == {"string", "integer", "number", "boolean", "object", "array", "null"}

WholeFloat(v) == v.class = "float" /\ v.sort = "whole"

OfType(type) ==
    {v \in Values : type \in JsonTypes[v.class] \/ (type = "integer" /\ WholeFloat(v))}

Conforms(schema, args) ==
    /\ schema.required \subseteq DOMAIN args
    /\ \A k \in Typed(schema, args) : args[k] \in schema.properties[k].admits

\* A schema with properties is closed; one without takes anything.
Listed(schema, args) ==
    DOMAIN schema.properties # {} => DOMAIN args \subseteq DOMAIN schema.properties

\* A property that says one type and nothing else.
Plain(property) ==
    property.type \in JsonTypeNames /\ property.admits = OfType(property.type)

(* Where the code is stricter than the reference: 1.0 is no int to it, and *)
(* a list of types makes it raise.                                         *)
Stricter(schema, args) ==
    \E k \in Typed(schema, args) :
        \/ schema.properties[k].type = "integer" /\ WholeFloat(args[k])
        \/ schema.properties[k].type = TypeList

(* Where it is laxer: True and False are numbers to it, and of a property  *)
(* that says more than one type, or none, it does not see the rest.        *)
Laxer(schema, args) ==
    \E k \in Typed(schema, args) :
        \/ schema.properties[k].type = "number" /\ args[k].class = "bool"
        \/ ~Plain(schema.properties[k])
=============================================================================
