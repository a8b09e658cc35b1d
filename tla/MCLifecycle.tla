----------------------------- MODULE MCLifecycle -----------------------------
(* Two versions of a server: the tools of mcp_server/server.py, and one    *)
(* that has changed two tools, dropped one and added three, with           *)
(* properties of every type, of several, and of a few strings only.        *)
EXTENDS Lifecycle, FiniteSets, TLC

Names == {"query", "url", "headers", "limit"}

MCValues ==
    [class : Classes, sort : {"any"}] \cup
        {[class |-> "float", sort |-> "whole"], [class |-> "str", sort |-> "listed"]}

Property(type) == [type |-> type, admits |-> OfType(type)]

\* anyOf object and null; a list of the two; an enum of strings
EitherOf == [type |-> NoType, admits |-> OfType("object") \cup OfType("null")]
ListOf == [EitherOf EXCEPT !.type = TypeList]
Enum == [type |-> "string", admits |-> {v \in OfType("string") : v.sort = "listed"}]

Tool(name, properties, required) ==
    [name |-> name, inputSchema |-> [properties |-> properties, required |-> required]]

MCAnnounced ==
    "v1" :> << Tool("postgres_query", [query |-> Property("string")], {"query"}),
               Tool("http_api_call",
                    [url |-> Property("string"), headers |-> EitherOf], {"url"}),
               Tool("file_read", [path |-> Property("string")], {"path"}) >> @@
    "v2" :> << Tool("postgres_query",
                    [query |-> Property("string"), limit |-> Property("integer")], {"query"}),
               Tool("http_api_call", [url |-> Enum, headers |-> ListOf], {"url"}),
               Tool("plot", [query |-> Property("array"), limit |-> Property("number"),
                             url |-> Property("boolean")], {}),
               Tool("store", [query |-> Property("object"), limit |-> Property("null")],
                    {"query", "limit"}),
               Tool("ping", <<>>, {}) >>

MCArguments ==
    UNION {[S -> MCValues] : S \in {T \in SUBSET Names : Cardinality(T) <= 2}}
=============================================================================
