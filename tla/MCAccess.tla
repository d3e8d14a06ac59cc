------------------------------- MODULE MCAccess -------------------------------
(***************************************************************************)
(* Small instances of who is let in, and of what a call then runs.         *)
(*                                                                         *)
(* Access: two requests at a time; an admin key, and one that may be       *)
(* created with either scope; two session tokens that last one tick.       *)
(* Routing: two writers, one of which also calls, with two endpoints; or   *)
(* one of them alone, with three endpoints over "orders", paths that       *)
(* infer_tool_type does not know, and bodies that set one, two or three    *)
(* fields, a path or a method to "" as well.                               *)
(*                                                                         *)
(* The first state chooses which of them runs, the scene.                  *)
(***************************************************************************)
EXTENDS Access, Sequences, TLC

CONSTANTS
  c1, c2, ka, kn, t1, t2,
  Writers, Callers, Ids, Tools, Paths, Params, Requests, Bodies, Blank, NoField,
  Unused, Deleted, Nothing,       (* Routing *)
  Solo, SoloBodies,               (* the client that is alone, what it sets *)
  PairBodies, PairRequests        (* what two clients set and ask for      *)

VARIABLES scene, endpoints, route_step, target, body, read, asked, tool, ran

routes == <<endpoints, route_step, target, body, read, asked, tool, ran>>

MCInitKeys ==
  ka :> [status |-> "live", scope |-> "admin"] @@
  kn :> [status |-> "absent", scope |-> "admin"]

Symmetry == Permutations({c1, c2}) \cup Permutations({t1, t2})

-------------------------------------------------------------------------------

Routes == INSTANCE Routing WITH
  step <- route_step, Absent <- NoField, Clients <- Writers \cup Callers

RoutesAssumption ==
  /\ Routes!RoutingAssumption
  /\ Solo \in Writers \cup Callers /\ SoloBodies \subseteq Bodies
  /\ PairBodies \subseteq Bodies /\ PairRequests \subseteq Requests

ASSUME RoutesAssumed == RoutesAssumption

Good == {<<"orders">>, <<"orders", "search">>, <<"orders", "id">>}

Strange == {<<"id">>, <<"orders", "7">>}

MCPaths == Good \cup Strange \cup {Blank}

Get(p) == [method |-> "GET", path |-> p]

FewRequests == {Get(<<"orders", "search">>), Get(<<"orders", "7">>)}

EveryRequest ==
  {Get(p) : p \in {<<"orders">>, <<"orders", "search">>, <<"orders", "7">>}} \cup
  {[method |-> "POST", path |-> <<"orders">>], [method |-> "DELETE", path |-> <<"orders", "7">>],
   [method |-> "PATCH", path |-> <<"orders", "search">>]}

Just(p, m, t) == [path |-> p, method |-> m, tool |-> t]

PathTo(p) == Just(p, NoField, NoField)

FewBodies ==
  {PathTo(p) : p \in {<<"orders">>, <<"orders", "search">>, Blank}} \cup
  {Just(NoField, "DELETE", NoField), Just(NoField, NoField, "b")} \cup
  {Just(<<"orders", x>>, "GET", "b") : x \in {"id", "search"}}

ManyBodies ==
  {PathTo(p) : p \in Good \cup Strange \cup {Blank}} \cup
  {Just(NoField, m, NoField) : m \in {"GET", "POST", "PATCH", "DELETE", Blank}} \cup
  {Just(<<"orders", "id">>, "DELETE", NoField), Just(<<"orders">>, "POST", NoField)} \cup
  {Just(NoField, NoField, t) : t \in {"a", "b"}} \cup
  {Just(<<"orders">>, m, t) : m \in {"GET", "DELETE"}, t \in {"a", "b"}}

EveryBody == FewBodies \cup ManyBodies

-------------------------------------------------------------------------------

MCInit ==
  /\ Init
  /\ \/ /\ scene = "credentials"
        /\ endpoints = Nothing /\ route_step = Nothing /\ target = Nothing /\ body = Nothing
        /\ read = Nothing /\ asked = Nothing /\ tool = Nothing /\ ran = Nothing
     \/ scene \in {"routes", "one client"} /\ Routes!Init

(* Two clients; bound: they leave one id unused.                           *)
Pair ==
  /\ \E c \in Writers \cup Callers : Routes!Acts(c, PairBodies, PairRequests)
  /\ Cardinality({d \in Writers : Routes!Creates(d)})' <
       Cardinality({i \in Ids : endpoints[i] = Unused})'

MCNext ==
  /\ UNCHANGED scene
  /\ \/ scene = "credentials" /\ Next /\ UNCHANGED routes
     \/ scene = "routes" /\ Pair /\ UNCHANGED vars
     \/ scene = "one client" /\ Routes!Acts(Solo, SoloBodies, Requests) /\ UNCHANGED vars

MCSpec == MCInit /\ [][MCNext]_<<scene, vars, routes>>

-------------------------------------------------------------------------------

(* The most specific route answers, whoever changes endpoints meanwhile;   *)
(* and when nobody does, a GET runs no tool that writes, and nor does a    *)
(* readonly principal; every stored shape is supported, and no request     *)
(* ends in an exception, but for a path or method that an update set to "" *)
(* and that is still stored: with it, listing the endpoints raises.        *)
CallsAreRouted ==
  /\ scene # "credentials" => Routes!TypeOK /\ Routes!MostSpecific
  /\ scene = "one client" =>
       /\ Routes!ShapesSupported /\ Routes!NoServerError
       /\ Routes!GetsRead /\ Routes!ReadonlyNeverWrites

===============================================================================
