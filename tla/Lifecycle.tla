------------------------------ MODULE Lifecycle ------------------------------
(***************************************************************************)
(* The life of the harness process: lifespan() with Pipeline.create(),     *)
(* which connects, fetches the tools of the MCP server with retries and    *)
(* fills the ToolRegistry, and Pipeline.shutdown().  The MCP server is a   *)
(* process of its own, which starts, stops and is deployed in versions     *)
(* that announce different tools.  One tick of the clock is one second.    *)
(***************************************************************************)
EXTENDS ToolRegistry, Functions

CONSTANTS
    Versions,   \* versions of the MCP server
    Announced,  \* the list of tools each announces
    Arguments,  \* the arguments an LLM may give a tool
    Retries,    \* _MCP_FETCH_RETRIES
    Delay,      \* _MCP_RETRY_DELAY
    FetchTime   \* the longest one attempt may take

ASSUME LifecycleAssumption ==
    /\ "down" \notin Versions
    /\ Retries \in Nat \ {0}
    /\ Delay \in Nat
    /\ FetchTime \in Nat

\* A server announces each of its tools once; a property with a type admits
\* values of that type only; arguments are JSON.
ASSUME AnnouncedAssumption ==
    /\ \A v \in Versions :
          /\ Announced[v] \in Seq(Range(Announced[v]))
          /\ \A i, j \in DOMAIN Announced[v] :
                Announced[v][i].name = Announced[v][j].name => i = j
          /\ \A i \in DOMAIN Announced[v] :
                \A p \in Range(Announced[v][i].inputSchema.properties) :
                    p.type \in JsonTypeNames => p.admits \subseteq OfType(p.type)
    /\ \A args \in Arguments : Range(args) \subseteq Values

VARIABLES
    stage,    \* where lifespan() is
    attempt,  \* number of the attempt to fetch the tools
    timer,    \* how long it has taken, or what is left of the nap after it
    live,     \* the pool, the Redis client and the drain task, if they live
    schemas,  \* ToolRegistry._schemas
    server,   \* the version of the MCP server that runs, or "down"
    loaded,   \* the version whose tools were fetched, or "none" (history)
    elapsed,  \* how long the fetch has gone on (history)
    up,       \* how long the server has been up in it without a break (history)
    longest   \* the longest it has been so (history)

process == <<stage, attempt, timer, live, schemas>>
history == <<loaded, elapsed, up, longest>>
vars == <<process, server, history>>

Connections == {"pool", "redis"}
Starting == {"connecting", "fetching", "napping"}
Stopping == {"closing_pool", "closing_redis"}
Stages == {"off", "serving", "unreachable", "failed"} \cup Starting \cup Stopping

Init ==
    /\ stage = "off"
    /\ attempt = 0 /\ timer = 0
    /\ live = {}
    /\ schemas = <<>>
    /\ server \in Versions \cup {"down"}
    /\ loaded = "none"
    /\ elapsed = 0 /\ up = 0 /\ longest = 0

-----------------------------------------------------------------------------
(* Start-up                                                                *)

\* A new process.
Launch ==
    /\ stage = "off"
    /\ stage' = "connecting"
    /\ attempt' = 0 /\ timer' = 0
    /\ schemas' = <<>>
    /\ loaded' = "none"
    /\ elapsed' = 0 /\ up' = 0 /\ longest' = 0
    /\ UNCHANGED <<live, server>>

\* create_pool() connects; the Redis client is made without connecting.
Connect ==
    /\ stage = "connecting"
    /\ stage' = "fetching"
    /\ attempt' = 1
    /\ live' = Connections
    /\ UNCHANGED <<timer, schemas, server, history>>

ConnectFails ==
    /\ stage = "connecting"
    /\ stage' = "failed"
    /\ UNCHANGED <<attempt, timer, live, schemas, server, history>>

\* The server answers list_tools().  What follows does not await: the policy
\* is read, the layers are built, the drain task is created.
Serve ==
    /\ stage = "fetching"
    /\ server \in Versions
    /\ stage' = "serving"
    /\ schemas' = RegisterMany(Announced[server])
    /\ live' = live \cup {"drainer"}
    /\ loaded' = server
    /\ UNCHANGED <<attempt, timer, server, elapsed, up, longest>>

\* The tools are fetched, but the policy file is missing or malformed.
PolicyFails ==
    /\ stage = "fetching"
    /\ server \in Versions
    /\ stage' = "failed"
    /\ UNCHANGED <<attempt, timer, live, schemas, server, history>>

(* Definitions named ...Mutant stand for a plausible bug in the code of    *)
(* the definition that follows them; no behaviour uses them.               *)
NapMutant(n) == Delay
Nap(n) == Delay * n

MoreAttemptsMutant == attempt <= Retries
MoreAttempts == attempt < Retries

AfterLastMutant == "fetching"
AfterLast == "unreachable"

\* The server does not answer, or not as it should: sleep, unless this was
\* the last attempt.
FetchFails ==
    /\ stage = "fetching"
    /\ server = "down"
    /\ \/ MoreAttempts /\ stage' = "napping" /\ timer' = Nap(attempt)
       \/ ~MoreAttempts /\ stage' = AfterLast /\ UNCHANGED timer
    /\ UNCHANGED <<attempt, live, schemas, server, history>>

NextAttempt ==
    /\ stage = "napping" /\ timer = 0
    /\ stage' = "fetching"
    /\ attempt' = attempt + 1
    /\ UNCHANGED <<timer, live, schemas, server, history>>

-----------------------------------------------------------------------------
(* Shutdown                                                                *)

Stop(from, what, to) ==
    /\ stage = from
    /\ live' = live \ {what}
    /\ stage' = to
    /\ UNCHANGED <<attempt, timer, schemas, server, history>>

ShutdownMutant ==
    \/ Stop("serving", "pool", "closing_pool")
    \/ Stop("closing_pool", "drainer", "closing_redis")
    \/ Stop("closing_redis", "redis", "off")
Shutdown ==
    \/ Stop("serving", "drainer", "closing_pool")
    \/ Stop("closing_pool", "pool", "closing_redis")
    \/ Stop("closing_redis", "redis", "off")

\* A start that has failed, an exception in the shutdown, or a crash: the
\* process ends with everything it had open.
Exit ==
    /\ stage # "off"
    /\ stage' = "off"
    /\ live' = {}
    /\ UNCHANGED <<attempt, timer, schemas, server, history>>

-----------------------------------------------------------------------------
(* The MCP server, and time                                                *)

Deploy ==
    /\ \E v \in Versions \ {server} : server' = v
    /\ UNCHANGED <<process, history>>

ServerStops ==
    /\ server \in Versions
    /\ server' = "down"
    /\ up' = 0
    /\ UNCHANGED <<process, loaded, elapsed, longest>>

Tick ==
    /\ \/ stage = "fetching" /\ timer < FetchTime /\ timer' = timer + 1
       \/ stage = "napping" /\ timer > 0 /\ timer' = timer - 1
    /\ elapsed' = elapsed + 1
    /\ up' = IF server = "down" THEN 0 ELSE up + 1
    /\ longest' = IF up' > longest THEN up' ELSE longest
    /\ UNCHANGED <<stage, attempt, live, schemas, server, loaded>>

Start ==
    \/ Connect \/ ConnectFails
    \/ Serve \/ PolicyFails \/ FetchFails \/ NextAttempt

Next == Launch \/ Start \/ Shutdown \/ Exit \/ Deploy \/ ServerStops \/ Tick

Spec == Init /\ [][Next]_vars

\* Time passes, and what create() awaits returns or fails.  The server need
\* not come up, nor stay up.
FairSpec == Spec /\ WF_vars(Start) /\ WF_vars(Tick)

-----------------------------------------------------------------------------
TypeOK ==
    /\ stage \in Stages
    /\ attempt \in 0 .. Retries
    /\ timer \in Nat
    /\ live \subseteq Connections \cup {"drainer"}
    /\ server \in Versions \cup {"down"}
    /\ loaded \in Versions \cup {"none"}
    /\ elapsed \in Nat /\ up \in Nat /\ longest \in Nat

(* Requests and the drain task find the connections open for as long as    *)
(* they run, through every shutdown, and nothing is left open after one.   *)
ConnectedWhileUsed ==
    /\ stage = "serving" \/ "drainer" \in live => Connections \subseteq live
    /\ stage = "off" => live = {}

(* A start gives up on the server only after Delay * (1 + ... + Retries-1) *)
(* seconds (pipeline.py:34), so a server that comes up in that time and    *)
(* stays up is found; and only on one that was never up for longer than    *)
(* the last sleep and one attempt.                                         *)
ServerNotMissed ==
    stage = "unreachable" =>
        /\ 2 * elapsed >= Delay * Retries * (Retries - 1)
        /\ longest <= Delay * (Retries - 1) + FetchTime

(* tool_registry.py:25 "arguments conform to the tool's declared JSON      *)
(* Schema", as the server announced it at the last start.  A call that     *)
(* conforms and gives listed arguments only is let through, unless the     *)
(* check is stricter than JSON Schema in the two ways that Stricter names; *)
(* one that does not is not let through, unless the check is laxer in the  *)
(* ways that Laxer names.                                                  *)
ChecksAgree ==
    stage = "serving" =>
        \A i \in DOMAIN Announced[loaded], args \in Arguments :
            LET tool == Announced[loaded][i]
                schema == tool.inputSchema
                verdicts == Check(schemas, tool.name, args)
                conforms == Conforms(schema, args) /\ Listed(schema, args)
            IN  /\ conforms => verdicts = {"valid"} \/ Stricter(schema, args)
                /\ "valid" \in verdicts => conforms \/ Laxer(schema, args)

(* Every start ends: the harness serves, or gives up.                      *)
EveryStartEnds == (stage \in Starting) ~> (stage \notin Starting)
=============================================================================
