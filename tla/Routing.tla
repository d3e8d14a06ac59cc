-------------------------------- MODULE Routing --------------------------------
(***************************************************************************)
(* The endpoints of one mock server as routes and as tools: what           *)
(* executor.infer_tool_type makes of their shapes, service's create,       *)
(* update and delete of endpoints, rest.py's choice of a route, and the    *)
(* readonly check of api.call_tool (the Executor of the test console).     *)
(*                                                                         *)
(* Writers and callers run in threads of their own.  Each SELECT that can  *)
(* see a change is a step; so is each write transaction.  A caller reads   *)
(* the endpoints once to choose or to check, and again to call.  A call    *)
(* brings whatever parameters its tool needs.  Datasets, summary fields    *)
(* and descriptions are left out (module Catalog has the datasets).        *)
(***************************************************************************)
EXTENDS Naturals, Sequences, FiniteSets

CONSTANTS
  Clients,        (* threads                                               *)
  Writers,        (* those that change endpoints                           *)
  Callers,        (* those that call tools                                 *)
  Ids, Tools,     (* AUTOINCREMENT ids, tool names                         *)
  Paths,          (* what a path may be: sequences of segments, or Blank   *)
  Blank,          (* the empty string as a path or a method                *)
  Params,         (* segments in braces                                    *)
  Requests,       (* REST requests: [method, path]                         *)
  Bodies,         (* bodies of PATCH: [path, method, tool], each may be Absent *)
  Absent,         (* a field that a body does not have                     *)
  Unused, Deleted,
  Nothing         (* no tool type, no route                                *)

Methods == {"GET", "POST", "PUT", "PATCH", "DELETE"}

Segments(p) == IF p = Blank THEN <<>> ELSE p

Endpoint == [method : Methods \cup {Blank}, path : Paths, tool : Tools]

IsBlank(e) == Blank \in {e.method, e.path}

Types == {"list", "create", "search", "get", "update", "delete"}

RoutingAssumption ==
  /\ Clients = Writers \cup Callers /\ IsFiniteSet(Writers)
  /\ IsFiniteSet(Ids) /\ Ids = 1 .. Cardinality(Ids)
  /\ \A x \in Params : <<"orders", x>> \in Paths \ {Blank}
  /\ \A p \in Paths \ {Blank} : p \in Seq(STRING)
  /\ {"orders", "search"} \cap Params = {}
  /\ Requests \subseteq [method : Methods, path : Seq(STRING)]
  /\ Bodies \subseteq [method : Methods \cup {Blank, Absent}, path : Paths \cup {Absent},
                       tool : Tools \cup {Absent}]
  /\ Absent \notin Paths /\ Absent \notin Tools \cup Methods
  /\ Blank \notin Methods /\ Blank # Absent
  /\ Unused # Deleted /\ {Unused, Deleted, Nothing} \cap Endpoint = {}
  /\ Nothing \notin Ids /\ Nothing \notin Bodies /\ Nothing \notin Tools \cup Types

VARIABLES
  endpoints,  (* endpoints[i]: [method, path, tool], Unused or Deleted     *)
  step,       (* step[c]: what c does next, or how its request ended       *)
  target,     (* target[c]: the id that writer c changes                   *)
  body,       (* body[c]: what writer c sets                               *)
  read,       (* read[c]: the endpoint as writer c read it                 *)
  asked,      (* history: asked[c], what caller c asked for, and the paths *)
              (* of the route chosen for it and of all that fitted         *)
  tool,       (* tool[c]: the tool name that caller c settled on           *)
  ran         (* ran[c]: the type of the tool that the call of c ran       *)

vars == <<endpoints, step, target, body, read, asked, tool, ran>>

Stored == {i \in Ids : endpoints[i] \notin {Unused, Deleted}}

-------------------------------------------------------------------------------
(* executor.infer_tool_type *)

Supported(p) ==
  Segments(p) # <<>> /\ Head(Segments(p)) \notin Params

IsItem(p) == Len(p) = 2 /\ p[2] \in Params

ToolType(method, p) ==
  IF ~Supported(p) THEN Nothing ELSE
  CASE Len(p) = 1 /\ method = "GET" -> "list"
    [] Len(p) = 1 /\ method = "POST" -> "create"
    [] Len(p) = 2 /\ method = "GET" /\ p[2] = "search" -> "search"
    [] IsItem(p) /\ method = "GET" -> "get"
    [] IsItem(p) /\ method \in {"PUT", "PATCH"} -> "update"
    [] IsItem(p) /\ method = "DELETE" -> "delete"
    [] OTHER -> Nothing

(* READ_TOOL_TYPES *)
ReadTypes == {"list", "get", "search"}

TypeOf(e) == ToolType(e.method, e.path)

(* rest._match_path *)
Fits(p, asks) ==
  LET s == Segments(p) IN
  Len(s) = Len(asks) /\ \A k \in DOMAIN s : s[k] \in Params \cup {asks[k]}

Placeholders(p) == Cardinality({k \in DOMAIN Segments(p) : Segments(p)[k] \in Params})

Matches(q) == {i \in Stored : endpoints[i].method = q.method /\ Fits(endpoints[i].path, q.path)}

\* mutant: the placeholders sort the other way
BestMatchReversed(q) ==
  {i \in Matches(q) : \A j \in Matches(q) :
     Placeholders(endpoints[i].path) >= Placeholders(endpoints[j].path)}

(* rest._best_endpoint_match.  Routes with as many placeholders have as    *)
(* many literals; the alphabetical order among those is left open.         *)
BestMatch(q) ==
  {i \in Matches(q) : \A j \in Matches(q) :
     Placeholders(endpoints[i].path) <= Placeholders(endpoints[j].path)}

-------------------------------------------------------------------------------

Init ==
  /\ endpoints \in [Ids -> {[method |-> "GET", path |-> <<"orders", x>>, tool |-> t] : x \in Params, t \in Tools}
                         \cup {Unused}]
  /\ \A i \in Ids : (endpoints[i] # Unused) = (i = 1)
  /\ step = [c \in Clients |-> "idle"]
  /\ target = [c \in Clients |-> Nothing] /\ body = target /\ read = target
  /\ asked = target /\ tool = target /\ ran = target

Goto(c, s) == step' = [step EXCEPT ![c] = s]

Idle(c) == step[c] \notin {"check", "write", "call"}

(* The request is over; nothing of it is needed any more.                  *)
End(c, how) ==
  /\ Goto(c, how)
  /\ target' = [target EXCEPT ![c] = Nothing]
  /\ body' = [body EXCEPT ![c] = Nothing]
  /\ read' = [read EXCEPT ![c] = Nothing]
  /\ tool' = [tool EXCEPT ![c] = Nothing]

Keep == UNCHANGED <<asked, ran>>

Forget(c) == asked' = [asked EXCEPT ![c] = Nothing] /\ ran' = [ran EXCEPT ![c] = Nothing]

Creates(d) == body[d] # Nothing /\ target[d] = Nothing

(* create_endpoint and update_endpoint begin: the endpoint is read.  The   *)
(* bound Ids leaves an id for every creation in progress.  A creation with *)
(* a blank is refused at once: the model of its body has min_length=1 and  *)
(* HTTPMethod, and infer_tool_type knows neither (from /mcp/_admin).  That *)
(* of an update lets a blank path pass, and /mcp/_admin a blank method.    *)
BeginCreate(c, b) ==
  /\ c \in Writers /\ Idle(c)
  /\ Cardinality({i \in Ids : endpoints[i] = Unused}) >
       Cardinality({d \in Writers : Creates(d)})
  /\ Absent \notin {b.path, b.method, b.tool} /\ ~IsBlank(b)
  /\ body' = [body EXCEPT ![c] = b]
  /\ Goto(c, "check") /\ Forget(c)
  /\ UNCHANGED <<endpoints, target, read, tool>>

BeginUpdate(c, i, b) ==
  /\ c \in Writers /\ Idle(c) /\ i \in Stored
  /\ target' = [target EXCEPT ![c] = i]
  /\ body' = [body EXCEPT ![c] = b]
  /\ read' = [read EXCEPT ![c] = endpoints[i]]
  /\ Goto(c, "check") /\ Forget(c)
  /\ UNCHANGED <<endpoints, tool>>

Clash(c) ==
  \E i \in Stored : i # target[c] /\ endpoints[i].tool = body[c].tool

(* `fields.get("path") or endpoint["path"]`, and method: "" is validated as *)
(* the stored one.                                                         *)
Merged(c) ==
  [method |-> IF body[c].method \in {Absent, Blank} THEN read[c].method ELSE body[c].method,
   path |-> IF body[c].path \in {Absent, Blank} THEN read[c].path ELSE body[c].path]

(* The name is compared, the shape validated against what was read.        *)
Check(c) ==
  /\ step[c] = "check"
  /\ \/ /\ ~Clash(c) /\ ToolType(Merged(c).method, Merged(c).path) # Nothing
        /\ Goto(c, "write")
        /\ UNCHANGED <<target, body, read, tool>>
     \/ /\ Clash(c) \/ ToolType(Merged(c).method, Merged(c).path) = Nothing
        /\ End(c, "refused")
  /\ UNCHANGED endpoints /\ Keep

(* store.update_endpoint sets every field that is given, "" as well.       *)
Set(e, b) ==
  [method |-> IF b.method = Absent THEN e.method ELSE b.method,
   path |-> IF b.path = Absent THEN e.path ELSE b.path,
   tool |-> IF b.tool = Absent THEN e.tool ELSE b.tool]

NextId == CHOOSE i \in Ids : endpoints[i] = Unused /\ \A j \in Ids : endpoints[j] = Unused => i <= j

Place(c) == IF target[c] = Nothing THEN NextId ELSE target[c]

(* The transaction: UNIQUE (server_id, tool_name) may refuse it, and the   *)
(* row of an update may be gone.  get_endpoint infers the type afterwards, *)
(* and raises what no handler catches.                                     *)
WriteFails(c) ==
  /\ step[c] = "write" /\ Clash(c)
  /\ End(c, "error")
  /\ UNCHANGED endpoints /\ Keep

WriteNothing(c) ==
  /\ step[c] = "write" /\ target[c] # Nothing /\ target[c] \notin Stored
  /\ End(c, "refused")
  /\ UNCHANGED endpoints /\ Keep

Write(c) ==
  /\ step[c] = "write" /\ ~Clash(c)
  /\ target[c] = Nothing \/ target[c] \in Stored
  /\ LET e == IF target[c] = Nothing THEN body[c] ELSE Set(endpoints[target[c]], body[c]) IN
       /\ endpoints' = [endpoints EXCEPT ![Place(c)] = e]
       /\ End(c, IF TypeOf(e) = Nothing THEN "error" ELSE "done")
  /\ Keep

(* delete_endpoint                                                         *)
Delete(c, i) ==
  /\ c \in Writers /\ Idle(c) /\ i \in Stored
  /\ endpoints' = [endpoints EXCEPT ![i] = Deleted]
  /\ End(c, "done") /\ Forget(c)

-------------------------------------------------------------------------------
(* service.list_endpoints infers the type of every endpoint, and raises    *)
(* ExecutorError, which is no ServiceError: the answer is a 500.           *)
ListRaises == \E i \in Stored : TypeOf(endpoints[i]) = Nothing

Ask(c, q, how, then) ==
  /\ c \in Callers
  /\ asked' = [asked EXCEPT ![c] = q]
  /\ ran' = [ran EXCEPT ![c] = Nothing]
  /\ tool' = [tool EXCEPT ![c] = then]
  /\ Goto(c, how)
  /\ UNCHANGED <<endpoints, target, body, read>>

(* rest._handle_sync up to the call.                                       *)
Route(c, q) ==
  /\ Idle(c)
  /\ \/ ListRaises /\ Ask(c, q, "error", Nothing)
     \/ ~ListRaises /\ BestMatch(q) = {} /\ Ask(c, q, "missing", Nothing)
     \/ /\ ~ListRaises
        /\ \E i \in BestMatch(q) :
             Ask(c, [method |-> q.method, best |-> endpoints[i].path,
                     others |-> {endpoints[j].path : j \in Matches(q)}],
                 "call", endpoints[i].tool)

(* _assert_tool_allowed lets admins pass without a look at the tool.       *)
AssertAllowed(c, t, admin) ==
  LET q == [admin |-> admin]
      named == {i \in Stored : endpoints[i].tool = t} IN
  /\ Idle(c)
  /\ \/ admin /\ Ask(c, q, "call", t)
     \/ ~admin /\ ListRaises /\ Ask(c, q, "error", Nothing)
     \/ /\ ~admin /\ ~ListRaises
        /\ \E i \in named : TypeOf(endpoints[i]) \notin ReadTypes
        /\ Ask(c, q, "refused", Nothing)
     \/ /\ ~admin /\ ~ListRaises
        /\ \A i \in named : TypeOf(endpoints[i]) \in ReadTypes
        /\ Ask(c, q, "call", t)

(* service.call_tool finds the tool again by its name, and executes what   *)
(* it is now; an unsupported shape is answered with a 400 here.            *)
Call(c) ==
  /\ step[c] = "call"
  /\ \/ /\ \A i \in Stored : endpoints[i].tool # tool[c]
        /\ End(c, "missing") /\ UNCHANGED ran
     \/ \E i \in Stored :
          /\ endpoints[i].tool = tool[c]
          /\ \/ /\ TypeOf(endpoints[i]) = Nothing
                /\ End(c, "refused") /\ UNCHANGED ran
             \/ /\ TypeOf(endpoints[i]) # Nothing
                /\ End(c, "done")
                /\ ran' = [ran EXCEPT ![c] = TypeOf(endpoints[i])]
  /\ UNCHANGED <<endpoints, asked>>

Acts(c, bodies, requests) ==
  \/ \E b \in bodies : BeginCreate(c, b) \/ \E i \in Ids : BeginUpdate(c, i, b)
  \/ Check(c) \/ Write(c) \/ WriteFails(c) \/ WriteNothing(c)
  \/ \E i \in Ids : Delete(c, i)
  \/ \E q \in requests : Route(c, q)
  \/ \E t \in Tools, admin \in BOOLEAN : AssertAllowed(c, t, admin)
  \/ Call(c)

Next == \E c \in Clients : Acts(c, Bodies, Requests)

Spec == Init /\ [][Next]_vars

-------------------------------------------------------------------------------

(* A writer has read what it changes, a caller that calls has a tool, and  *)
(* tool names are unique.                                                  *)
TypeOK ==
  /\ endpoints \in [Ids -> Endpoint \cup {Unused, Deleted}]
  /\ \A i, j \in Stored : endpoints[i].tool = endpoints[j].tool => i = j
  /\ \A c \in Clients :
       /\ step[c] \in {"idle", "check", "write", "call", "refused", "missing", "error", "done"}
       /\ (body[c] # Nothing) = (step[c] \in {"check", "write"})
       /\ (read[c] # Nothing) = (target[c] # Nothing)
       /\ (tool[c] # Nothing) = (step[c] = "call")
       /\ ran[c] # Nothing => step[c] \notin {"refused", "missing", "error"} \/ c \in Writers

(* Every endpoint in the database has a shape that infer_tool_type knows,  *)
(* for _validate_endpoint_shape refuses the others, unless its path or its *)
(* method is blank: what an update was sent, which nothing validated.      *)
ShapesSupported ==
  \A i \in Stored : TypeOf(endpoints[i]) = Nothing => IsBlank(endpoints[i])

HoldsBlank == \E i \in Stored : IsBlank(endpoints[i])

(* No request ends in an uncaught exception, unless a blank path or method *)
(* is stored: list_endpoints and get_endpoint infer the types of all that  *)
(* is, and no handler of theirs catches what that raises.                  *)
NoServerError == \A c \in Clients : step[c] = "error" => HoldsBlank

(* rest.py: the route that answers is the most specific one, that is,      *)
(* every request that it fits is fitted by all others that fitted this one *)
(* ("Prefer literal routes over placeholders").                            *)
MostSpecific ==
  \A c \in Callers : asked[c] # Nothing /\ "best" \in DOMAIN asked[c] =>
    \A p \in asked[c].others, q \in Requests :
      Fits(asked[c].best, q.path) => Fits(p, q.path)

IsRest(c) == asked[c] # Nothing /\ "method" \in DOMAIN asked[c]

IsExecutor(c) == asked[c] # Nothing /\ "admin" \in DOMAIN asked[c]

(* A GET of the REST surface runs no tool that writes (rest._handle_sync   *)
(* chooses by method, then calls by name).                                 *)
GetsRead ==
  \A c \in Callers : IsRest(c) /\ asked[c].method = "GET" /\ ran[c] # Nothing => ran[c] \in ReadTypes

(* "Readonly principals may run read-shaped tools but not                  *)
(* create/update/delete ones" (api._assert_tool_allowed).                  *)
ReadonlyNeverWrites ==
  \A c \in Callers : IsExecutor(c) /\ ~asked[c].admin /\ ran[c] # Nothing => ran[c] \in ReadTypes
-------------------------------------------------------------------------------
(* The invariants behind these properties.                                  *)

InSteps == {"check", "write"}

(* TypeOK with the types of what a request keeps; a creation has a whole    *)
(* endpoint for a body, and an id is left for it.                           *)
Shaped ==
  /\ step \in [Clients -> {"idle", "call", "refused", "missing", "error", "done"} \cup InSteps]
  /\ target \in [Clients -> Ids \cup {Nothing}]
  /\ body \in [Clients -> Bodies \cup {Nothing}]
  /\ read \in [Clients -> Endpoint \cup {Nothing}]
  /\ tool \in [Clients -> Tools \cup {Nothing}]
  /\ asked = [c \in Clients |-> asked[c]] /\ ran \in [Clients -> Types \cup {Nothing}]
  /\ \A c \in Clients :
       /\ body[c] # Nothing => c \in Writers
       /\ target[c] # Nothing => body[c] # Nothing
       /\ Creates(c) => body[c] \in Endpoint /\ ~IsBlank(body[c])
       /\ step[c] = "call" => ran[c] = Nothing
  /\ Cardinality({d \in Writers : Creates(d)}) <= Cardinality({i \in Ids : endpoints[i] = Unused})

IInv == TypeOK /\ Shaped

(* The requests that may run read tools only.                               *)
OnlyReads(c) == (IsRest(c) /\ asked[c].method = "GET") \/ (IsExecutor(c) /\ ~asked[c].admin)

(* A client alone changes what it has read, and no tool that it settled on  *)
(* is another by the time it is called.                                     *)
AsRead(c) ==
  /\ target[c] # Nothing => target[c] \in Stored /\ read[c] = endpoints[target[c]]
  /\ step[c] = "write" => ~Clash(c) /\ ToolType(Merged(c).method, Merged(c).path) # Nothing
  /\ step[c] = "call" /\ OnlyReads(c) =>
       \A i \in Stored : endpoints[i].tool = tool[c] => TypeOf(endpoints[i]) \in ReadTypes

Others(c) == \A d \in Clients \ {c} : step[d] = "idle" /\ asked[d] = Nothing

(* What holds of a client that no other interleaves with.                   *)
Alone(c) ==
  /\ Others(c)
  /\ AsRead(c)
  /\ step[c] = "error" => HoldsBlank
  /\ ShapesSupported /\ GetsRead /\ ReadonlyNeverWrites

===============================================================================
