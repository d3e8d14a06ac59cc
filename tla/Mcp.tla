----------------------------------- MODULE Mcp ----------------------------------
(***************************************************************************)
(* The MCP surface of one mock server (main.mcp_asgi, mcp_builder): every  *)
(* request builds the tools anew from the endpoints and from the fields of *)
(* the rows, piece by piece, then lists them or calls one, while the       *)
(* server is edited.                                                       *)
(*                                                                         *)
(* A dataset is the set of fields that its rows have; names of fields and  *)
(* of path parameters are what tools' parameters are named after.  A call  *)
(* is its tool and the names of its arguments; their values are of the     *)
(* type, the limit and the expand names that the tool asks for.  The gate  *)
(* of the surface is in module Access, rows and their log in LiveData.     *)
(***************************************************************************)
EXTENDS Naturals, FiniteSets

CONSTANTS
  Clients,      (* requests at /mcp/{slug}                                 *)
  Editors,      (* other threads                                           *)
  Tools, Ids,   (* tool names, ids of datasets                             *)
  Names,        (* fields, path parameters, and the parameters of below    *)
  Identifiers,  (* names that IDENTIFIER_RE matches                        *)
  Unnameable,   (* names that inspect.Parameter or FastMCP refuse: those   *)
                (* that are no identifiers, keywords, a leading underscore *)
  Shapes,       (* [type, param] of endpoints that are validated           *)
  Fields,       (* what the rows of a dataset may have for fields          *)
  IdField,      (* the id field of the datasets                            *)
  Asks,         (* requests: Listing, or [tool, args]                      *)
  Listing,      (* tools/list                                              *)
  Absent, Nothing

Types == {"list", "search", "get", "create", "update", "delete"}

ItemTypes == {"get", "update", "delete"}

ReservedParams == {"limit", "q", "expand"}

ASSUME McpAssumption ==
  /\ Names \ Identifiers \subseteq Unnameable
  /\ ReservedParams \subseteq Names \ Unnameable
  /\ IdField \in Names /\ Fields \subseteq SUBSET Names
  /\ \A s \in Shapes : /\ s.type \in Types
                       /\ IF s.type \in ItemTypes THEN s.param \in Names ELSE s.param = Nothing
  /\ \A a \in Asks \ {Listing} : a.tool \in Tools /\ a.args \subseteq Names
  /\ Nothing \notin Asks \cup Types /\ \A s \in SUBSET Names : s # Absent

VARIABLES
  alive,      (* the server exists                                         *)
  endpoints,  (* endpoints[t]: [type, param, dataset], or Absent; the type *)
              (* is Nothing if infer_tool_type refuses what is stored      *)
  datasets,   (* datasets[d]: the fields of its rows, or Absent            *)
  step,       (* step[c]: what c does next, or how its request ended       *)
  ask,        (* ask[c]: what c asked for                                  *)
  todo,       (* todo[c]: endpoints that build_server has yet to turn      *)
  built,      (* built[c]: into tools, [tool, params, required]            *)
  sent,       (* sent[c]: the arguments of its call that reach call_tool   *)
  seen        (* history: the sets of tool names since the request began   *)

vars == <<alive, endpoints, datasets, step, ask, todo, built, sent, seen>>

server == <<alive, endpoints, datasets>>

Stored == {d \in Ids : datasets[d] # Absent}

Named == {t \in Tools : endpoints[t] # Absent}

Busy(c) == step[c] \in {"begin", "list", "build", "serve", "call"}

Init ==
  /\ alive = TRUE
  /\ endpoints = [t \in Tools |-> Absent]
  /\ datasets \in [Ids -> {Absent, {IdField}}]
  /\ step = [c \in Clients |-> "idle"]
  /\ ask = [c \in Clients |-> Nothing]
  /\ todo = [c \in Clients |-> {}] /\ built = todo /\ sent = todo /\ seen = todo

-------------------------------------------------------------------------------
(* mcp_builder._tool_params and executor.execute                           *)

(* _usable_fields                                                          *)
Usable(fields) == (fields \cap Identifiers) \ ReservedParams

\* mutant: a get is asked for the id field
RequiredId(e) == IF e.type \in ItemTypes THEN {IdField} ELSE {}

Required(e) == IF e.type \in ItemTypes THEN {e.param} ELSE {}

(* The parameters of the tool; those that are not required are optional.   *)
Params(e, fields) == Required(e) \cup
  CASE e.type = "list"   -> Usable(fields) \cup {"limit", "expand"}
    [] e.type = "search" -> Usable(fields) \cup {"q", "limit", "expand"}
    [] e.type = "get"    -> {"expand"}
    [] e.type \in {"create", "update"} -> Usable(fields)
    [] e.type = "delete" -> {}

(* Two parameters of one name, or a name that is none: ValueError or       *)
(* InvalidSignature, that nothing catches.                                 *)
Unbuildable(e, fields) ==
  \/ Params(e, fields) \cap Unnameable # {}
  \/ e.type = "get" /\ e.param = "expand"

(* What execute refuses: invalid_params, or a shape that has no type.      *)
Invalid(e, fields, args) ==
  \/ e.type = Nothing
  \/ e.type \in {"create", "update", "delete"} /\ "expand" \in args
  \/ e.type \in ItemTypes /\ e.param \notin args \ {"expand"}
  \/ e.type = "create" /\ fields # {} /\ ~(args \subseteq fields)
  \/ e.type = "update" /\ fields # {} /\ ~(args \ {e.param} \subseteq fields)

-------------------------------------------------------------------------------
(* Editors: each a transaction.  Requests in progress see it.              *)

Edit ==
  /\ alive
  /\ seen' = [c \in Clients |-> IF Busy(c) THEN seen[c] \cup {{t \in Tools : endpoints'[t] # Absent}}
                                           ELSE {}]
  /\ UNCHANGED <<step, ask, todo, built, sent>>

(* create_dataset, replace_rows and the like.                              *)
SetRows(d, fields) ==
  /\ datasets' = [datasets EXCEPT ![d] = fields]
  /\ UNCHANGED <<alive, endpoints>>
  /\ Edit

\* mutant: datasets in use go as well
DeleteDatasetUsed(d) ==
  /\ d \in Stored
  /\ datasets' = [datasets EXCEPT ![d] = Absent]
  /\ UNCHANGED <<alive, endpoints>>
  /\ Edit

DeleteDataset(d) ==
  /\ d \in Stored /\ \A t \in Named : endpoints[t].dataset # d
  /\ datasets' = [datasets EXCEPT ![d] = Absent]
  /\ UNCHANGED <<alive, endpoints>>
  /\ Edit

(* Creation, or an update that may move the endpoint.                      *)
SetEndpoint(t, s, d) ==
  /\ d \in Stored
  /\ endpoints' = [endpoints EXCEPT ![t] = [type |-> s.type, param |-> s.param, dataset |-> d]]
  /\ UNCHANGED <<alive, datasets>>
  /\ Edit

(* update_endpoint checks "path or the stored path" and stores the path: a *)
(* PATCH with the path "" is accepted, and so is a method "" by the admin  *)
(* surface.  No request can be served by what is stored then.              *)
BlankEndpoint(t, d) ==
  /\ t \in Named /\ endpoints[t].type # Nothing /\ d \in Stored
  /\ endpoints' = [endpoints EXCEPT ![t] = [type |-> Nothing, param |-> Nothing, dataset |-> d]]
  /\ UNCHANGED <<alive, datasets>>
  /\ Edit

DeleteEndpoint(t) ==
  /\ t \in Named
  /\ endpoints' = [endpoints EXCEPT ![t] = Absent]
  /\ UNCHANGED <<alive, datasets>>
  /\ Edit

DeleteServer ==
  /\ alive' = FALSE
  /\ endpoints' = [t \in Tools |-> Absent]
  /\ datasets' = [d \in Ids |-> Absent]
  /\ Edit

-------------------------------------------------------------------------------
(* A request                                                               *)

Goto(c, s) == step' = [step EXCEPT ![c] = s]

(* The request is over: 404, 500, a list of tools, or the result of a      *)
(* tool, which may be an error.                                            *)
End(c, how) ==
  /\ Goto(c, how)
  /\ ask' = [ask EXCEPT ![c] = Nothing]
  /\ todo' = [todo EXCEPT ![c] = {}]
  /\ built' = [built EXCEPT ![c] = {}]
  /\ sent' = [sent EXCEPT ![c] = {}]
  /\ seen' = [seen EXCEPT ![c] = {}]

Request(c, a) ==
  /\ ~Busy(c)
  /\ ask' = [ask EXCEPT ![c] = a]
  /\ seen' = [seen EXCEPT ![c] = {Named}]
  /\ Goto(c, "begin")
  /\ UNCHANGED <<server, todo, built, sent>>

(* mcp_asgi looks the slug up, and then build_server again.                *)
Find(c) ==
  /\ step[c] = "begin"
  /\ \/ alive /\ Goto(c, "list") /\ UNCHANGED <<ask, todo, built, sent, seen>>
     \/ ~alive /\ End(c, "unknown")
  /\ UNCHANGED server

(* NotFound, or the ExecutorError of infer_tool_type for any endpoint of   *)
(* the server, leaves build_server: a 500.                                 *)
ListEndpoints(c) ==
  /\ step[c] = "list"
  /\ \/ /\ alive /\ \A t \in Named : endpoints[t].type # Nothing
        /\ todo' = [todo EXCEPT ![c] = {[tool |-> t, of |-> endpoints[t]] : t \in Named}]
        /\ Goto(c, "build")
        /\ UNCHANGED <<ask, built, sent, seen>>
     \/ /\ ~alive \/ \E t \in Named : endpoints[t].type = Nothing
        /\ End(c, "error")
  /\ UNCHANGED server

\* mutant: a tool without parameters is left out
AddToolWithParams(c, e) ==
  LET fields == datasets[e.of.dataset]
      made == [tool |-> e.tool, params |-> Params(e.of, fields), required |-> Required(e.of)] IN
  /\ step[c] = "build" /\ e.of.dataset \in Stored /\ ~Unbuildable(e.of, fields)
  /\ todo' = [todo EXCEPT ![c] = @ \ {e}]
  /\ built' = [built EXCEPT ![c] = IF made.params = {} THEN @ ELSE @ \cup {made}]
  /\ UNCHANGED <<server, step, ask, sent, seen>>

(* The dataset and its rows are read, the parameters made of them.         *)
AddTool(c, e) ==
  LET fields == datasets[e.of.dataset] IN
  /\ step[c] = "build" /\ e.of.dataset \in Stored /\ ~Unbuildable(e.of, fields)
  /\ todo' = [todo EXCEPT ![c] = @ \ {e}]
  /\ built' = [built EXCEPT ![c] = @ \cup
       {[tool |-> e.tool, params |-> Params(e.of, fields), required |-> Required(e.of)]}]
  /\ UNCHANGED <<server, step, ask, sent, seen>>

(* get_dataset raises NotFound, or the tool cannot be built: the exception *)
(* leaves dispatch, and the request, whatever it asked for, is a 500.      *)
AddToolFails(c, e) ==
  /\ step[c] = "build"
  /\ e.of.dataset \in Stored => Unbuildable(e.of, datasets[e.of.dataset])
  /\ End(c, "error")
  /\ UNCHANGED server

Built(c) ==
  /\ step[c] = "build" /\ todo[c] = {}
  /\ Goto(c, "serve")
  /\ UNCHANGED <<server, ask, todo, built, sent, seen>>

ListTools(c) ==
  /\ step[c] = "serve" /\ ask[c] = Listing
  /\ End(c, "listed")
  /\ UNCHANGED server

Asked(c) == {t \in built[c] : t.tool = ask[c].tool}

(* FastMCP knows no such tool, or misses an argument.                      *)
Reject(c) ==
  /\ step[c] = "serve" /\ ask[c] # Listing
  /\ \A t \in Asked(c) : ~(t.required \subseteq ask[c].args)
  /\ End(c, "rejected")
  /\ UNCHANGED server

(* FastMCP validates the arguments that the tool has, and drops others.    *)
Accept(c) ==
  /\ step[c] = "serve" /\ ask[c] # Listing
  /\ \E t \in Asked(c) :
       /\ t.required \subseteq ask[c].args
       /\ sent' = [sent EXCEPT ![c] = ask[c].args \cap t.params]
  /\ Goto(c, "call")
  /\ UNCHANGED <<server, ask, todo, built, seen>>

(* service.call_tool, in the lock and in a thread: the tool is found again *)
(* by its name, and run as what it is now.  A row that is not found, and   *)
(* what expand finds, make no difference here.                             *)
Missing(c) ==
  /\ step[c] = "call" /\ ask[c].tool \notin Named
  /\ End(c, "missing")
  /\ UNCHANGED server

Refuse(c) ==
  /\ step[c] = "call" /\ ask[c].tool \in Named
  /\ LET e == endpoints[ask[c].tool] IN Invalid(e, datasets[e.dataset], sent[c])
  /\ End(c, "invalid")
  /\ UNCHANGED server

(* The fields of the rows afterwards.                                      *)
After(e, fields, args) ==
  CASE e.type = "create" -> {fields \cup args \cup {IdField}}
    [] e.type = "delete" -> SUBSET fields
    [] OTHER -> {fields}

Run(c) ==
  /\ step[c] = "call" /\ ask[c].tool \in Named
  /\ LET e == endpoints[ask[c].tool]
         fields == datasets[e.dataset] IN
       /\ ~Invalid(e, fields, sent[c])
       /\ \E after \in After(e, fields, sent[c]) :
            datasets' = [datasets EXCEPT ![e.dataset] = after]
  /\ End(c, "ran")
  /\ UNCHANGED <<alive, endpoints>>

Serve(c, asks) ==
  \/ \E a \in asks : Request(c, a)
  \/ Find(c) \/ ListEndpoints(c) \/ Built(c)
  \/ \E e \in todo[c] : AddTool(c, e) \/ AddToolFails(c, e)
  \/ ListTools(c) \/ Reject(c) \/ Accept(c)
  \/ Missing(c) \/ Refuse(c) \/ Run(c)

Edits(shapes, fieldSets) ==
  \/ \E d \in Ids, fields \in fieldSets : SetRows(d, fields)
  \/ \E d \in Ids : DeleteDataset(d)
  \/ \E t \in Tools, s \in shapes, d \in Ids : SetEndpoint(t, s, d)
  \/ \E t \in Tools, d \in Ids : BlankEndpoint(t, d)
  \/ \E t \in Tools : DeleteEndpoint(t)
  \/ DeleteServer

(* One thread does one thing at a time.                                    *)
Next ==
  \/ \E c \in Clients : Serve(c, Asks)
  \/ \E e \in Editors : (e \in Clients => ~Busy(e)) /\ Edits(Shapes, Fields)

Spec == Init /\ [][Next]_vars

-------------------------------------------------------------------------------

Steps == {"idle", "begin", "list", "build", "serve", "call", "unknown", "error",
          "listed", "rejected", "missing", "invalid", "ran"}

EndpointRows ==
  {e \in [type : Types \cup {Nothing}, param : Names \cup {Nothing}, dataset : Ids] :
     e.type \in ItemTypes => e.param \in Names}

Supported == {e \in EndpointRows : e.type # Nothing}

(* Endpoints have a dataset, a deleted server has none, and a request has  *)
(* only what its step needs.                                               *)
TypeOK ==
  /\ alive \in BOOLEAN
  /\ endpoints \in [Tools -> EndpointRows \cup {Absent}]
  /\ datasets \in [Ids -> (SUBSET Names) \cup {Absent}]
  /\ step \in [Clients -> Steps]
  /\ ask \in [Clients -> Asks \cup {Nothing}]
  /\ todo \in [Clients -> SUBSET [tool : Tools, of : Supported]]
  /\ built \in [Clients -> SUBSET [tool : Tools, params : SUBSET Names, required : SUBSET Names]]
  /\ sent \in [Clients -> SUBSET Names]
  /\ seen \in [Clients -> SUBSET SUBSET Tools]
  /\ \A t \in Named : endpoints[t].dataset \in Stored
  /\ ~alive => Named = {} /\ Stored = {}
  /\ \A c \in Clients :
       /\ (ask[c] # Nothing) = Busy(c)
       /\ (seen[c] # {}) = Busy(c)
       /\ todo[c] # {} => step[c] = "build"
       /\ built[c] # {} => step[c] \in {"build", "serve", "call"}
       /\ sent[c] # {} => step[c] = "call"

(* "Building per request keeps tools in sync with edits" (dispatch): the   *)
(* tools that a request serves are all the endpoints that the server had   *)
(* at some moment since the request began.                                 *)
InSync ==
  \A c \in Clients : step[c] = "serve" => {t.tool : t \in built[c]} \in seen[c]

(* The tool of e can be built when the rows have these fields: its shape   *)
(* was validated, its path parameter can be the name of a parameter and is *)
(* not that of another, and so is every field that looks like a name.      *)
Exposable(e, fields) ==
  /\ e.type # Nothing
  /\ e.type \in ItemTypes => e.param \notin Unnameable
  /\ e.type = "get" => e.param # "expand"
  /\ e.type \in {"list", "search", "create", "update"} => Usable(fields) \cap Unnameable = {}

ExposableNow(t) == Exposable(endpoints[t], datasets[endpoints[t].dataset])

(* A call that gives the parameter in the path.                            *)
Fits(e, args) == e.type \in ItemTypes => e.param \in args

(* build_server exposes "every endpoint of slug as a tool", or none: a     *)
(* request fails only if some endpoint cannot be a tool, and otherwise     *)
(* serves exactly the endpoints there are.                                 *)
ExposesAllOrNone(c) ==
  /\ step[c] \in {"list", "build"} /\ step'[c] = "error" =>
       \E t \in Named : ~ExposableNow(t)
  /\ step[c] = "build" /\ step'[c] = "serve" =>
       {b.tool : b \in built[c]} = Named /\ \A t \in Named : ExposableNow(t)

(* What the tools declare is what the executor checks: a call goes through *)
(* exactly if it is of an endpoint and gives the parameter in its path,    *)
(* and then is never refused for its parameters - but for a parameter in   *)
(* the path called expand, which execute takes away.                       *)
DeclaresWhatRuns(c) ==
  LET t == ask[c].tool IN
  /\ step[c] = "serve" /\ step'[c] = "rejected" =>
       ~(t \in Named /\ Fits(endpoints[t], ask[c].args))
  /\ step[c] = "serve" /\ step'[c] = "call" => t \in Named /\ Fits(endpoints[t], ask[c].args)
  /\ step[c] = "call" => step'[c] # "missing"
  /\ step[c] = "call" /\ step'[c] = "invalid" => endpoints[t].param = "expand"

(* Whatever fields the rows have, a request fails only for an endpoint of  *)
(* a shape that cannot be a tool.                                          *)
ExposedWhateverFields(c) ==
  step[c] \in {"list", "build"} /\ step'[c] = "error" =>
    \E t \in Named : ~Exposable(endpoints[t], {})

-------------------------------------------------------------------------------
(* The invariant behind these, of a request that nobody disturbs.           *)

(* What c has listed and built is what the server has, and all of it:       *)
(* nothing is edited from the look at the slug to the call.                 *)
UpToDate(c) ==
  /\ step[c] = "list" => alive
  /\ \A e \in todo[c] : e.tool \in Named /\ e.of = endpoints[e.tool]
  /\ \A b \in built[c] :
       LET e == endpoints[b.tool] IN
       /\ b.tool \in Named /\ ExposableNow(b.tool)
       /\ b.params = Params(e, datasets[e.dataset]) /\ b.required = Required(e)
  /\ step[c] \in {"build", "serve", "call"} =>
       \A t \in Named : (\E e \in todo[c] : e.tool = t) \/ (\E b \in built[c] : b.tool = t)
  /\ step[c] = "call" =>
       \E b \in Asked(c) : b.required \subseteq ask[c].args /\ sent[c] = ask[c].args \cap b.params

===============================================================================
