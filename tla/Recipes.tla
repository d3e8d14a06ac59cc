-------------------------------- MODULE Recipes ---------------------------------
(***************************************************************************)
(* Recipes and the tools they refer to: service's create_recipe,           *)
(* update_recipe, set_recipe_tools, delete_recipe and validate_recipes,    *)
(* and the public pages of recipes.py, while servers and endpoints come    *)
(* and go.                                                                 *)
(*                                                                         *)
(* recipe_tool refers to a server by id, with ON DELETE CASCADE, and to an *)
(* endpoint of it by name only.  Clients run in threads of their own; a    *)
(* SELECT that can see a change is a step, and so is a transaction.  The   *)
(* reads that validate a request are one step, since they look at          *)
(* different tables.  Titles, texts and skills are left out.  The tools of *)
(* a recipe are a function of their ordinals, which they keep when others  *)
(* are deleted.                                                            *)
(***************************************************************************)
EXTENDS Naturals, Sequences, FiniteSets, FiniteSetsExt, Functions

CONSTANTS
  Trainers,       (* threads that change recipes, servers and endpoints    *)
  Readers,        (* threads that ask for pages and validations            *)
  Ids,            (* ids of recipes; bounds the creations                  *)
  Slugs,
  Servers,        (* ids of servers                                        *)
  Tools,          (* tool names                                            *)
  Bodies,         (* of POST and PATCH: [slug, published, tools]           *)
  Absent,         (* a field that a body does not have                     *)
  Unused, Deleted,
  Nothing

Clients == Trainers \cup Readers

Refs == Servers \X Tools

(* What is left of the tools ts when servers are deleted.                  *)
Without(ts, gone) == Restrict(ts, {k \in DOMAIN ts : ts[k][1] \notin gone})

Or(given, stored) == IF given = Absent THEN stored ELSE given

ToolLists == {Without(Or(b.tools, <<>>), gone) : b \in Bodies, gone \in SUBSET Servers}

Recipe == [slug : Slugs, published : BOOLEAN, tools : ToolLists]

Body ==
  [slug : Slugs \cup {Absent}, published : BOOLEAN \cup {Absent}, tools : ToolLists \cup {Absent}]

RecipesAssumption ==
  /\ IsFiniteSet(Ids) /\ Ids = 1 .. Cardinality(Ids) /\ IsFiniteSet(Trainers)
  /\ Bodies \subseteq Body /\ \A b \in Bodies : b.tools = Absent \/ b.tools \in Seq(Refs)
  /\ Absent \notin Slugs /\ Absent \notin BOOLEAN /\ Absent \notin ToolLists
  /\ Unused # Deleted /\ {Unused, Deleted} \cap Recipe = {}
  /\ Nothing \notin Body /\ Nothing \notin Ids

VARIABLES
  servers,    (* the servers there are                                     *)
  endpoints,  (* <<server, tool>>: the endpoints there are                 *)
  recipes,    (* recipes[i]: [slug, published, tools], Unused or Deleted   *)
  step,       (* step[c]: what c does next, or how its request ended       *)
  target,     (* target[c]: the recipe that c changes or shows             *)
  body,       (* body[c]: what trainer c sends                             *)
  pending,    (* pending[c]: <<recipe, server, tool>> still to validate    *)
  issues,     (* issues[c]: what the validation of c found                 *)
  dangles,    (* history: what dangled throughout the validation of c      *)
  public      (* history: the tools that the recipe which c shows had      *)
              (* while it was published, since the page was asked for      *)

histories == <<dangles, public>>

vars == <<servers, endpoints, recipes, step, target, body, pending, issues, histories>>

world == <<servers, endpoints, recipes>>

Stored == {i \in Ids : recipes[i] \notin {Unused, Deleted}}

Init ==
  /\ servers = Servers /\ endpoints = Refs
  /\ recipes = [i \in Ids |-> Unused]
  /\ step = [c \in Clients |-> "idle"]
  /\ target = [c \in Clients |-> Nothing] /\ body = target
  /\ pending = [c \in Readers |-> {}] /\ issues = pending
  /\ dangles = pending /\ public = pending

-------------------------------------------------------------------------------

Idle(c) == step[c] \notin {"create", "update", "tools", "page", "refs", "endpoints"}

Goto(c, s) == step' = [step EXCEPT ![c] = s]

Links == {<<i, r[1], r[2]>> : i \in Stored, r \in Refs}

(* The references of the recipes to endpoints that do not exist.           *)
Dangling ==
  {l \in Links : /\ <<l[2], l[3]>> \in Range(recipes[l[1]].tools)
                 /\ <<l[2], l[3]>> \notin endpoints}

(* A change of the tables is seen by what readers have in progress.        *)
Witness ==
  /\ dangles' = [c \in Readers |-> dangles[c] \cap Dangling']
  /\ public' = [c \in Readers |->
       IF step[c] = "page" /\ target[c] \in Stored' /\ recipes'[target[c]].published
         THEN public[c] \cup {recipes'[target[c]].tools} ELSE public[c]]

End(c, how) ==
  /\ Goto(c, how)
  /\ target' = [target EXCEPT ![c] = Nothing]
  /\ body' = [body EXCEPT ![c] = Nothing]
  /\ UNCHANGED <<pending, issues>>

Private == UNCHANGED <<target, body, pending, issues>>

(* create_endpoint, delete_endpoint, and update_endpoint with a new name.  *)
ChangeEndpoints(c, old, new) ==
  /\ c \in Trainers /\ Idle(c) /\ old \subseteq endpoints /\ new \cap endpoints = {}
  /\ \A r \in old \cup new : r[1] \in servers
  /\ endpoints' = (endpoints \ old) \cup new
  /\ Goto(c, "done") /\ Private
  /\ UNCHANGED <<servers, recipes>> /\ Witness

(* The database deletes what refers to the server by its id.               *)
DeleteServer(c, s) ==
  /\ c \in Trainers /\ Idle(c) /\ s \in servers
  /\ servers' = servers \ {s}
  /\ endpoints' = {e \in endpoints : e[1] # s}
  /\ recipes' = [i \in Ids |->
       IF i \notin Stored THEN recipes[i] ELSE [recipes[i] EXCEPT !.tools = Without(@, {s})]]
  /\ Goto(c, "done") /\ Private /\ Witness

-------------------------------------------------------------------------------
(* Changes of recipes.                                                     *)

(* _validate_recipe_tools: no duplicates, and every tool exists.           *)
ToolsValid(ts) ==
  ts # Absent => IsInjective(ts) /\ \A k \in DOMAIN ts : ts[k] \in endpoints

SlugTaken(slug, i) == \E j \in Stored \ {i} : recipes[j].slug = slug

Begin(c, i, b, how, ok) ==
  /\ c \in Trainers /\ Idle(c)
  /\ IF ok
       THEN /\ Goto(c, how)
            /\ target' = [target EXCEPT ![c] = i]
            /\ body' = [body EXCEPT ![c] = b]
       ELSE Goto(c, "refused") /\ UNCHANGED <<target, body>>
  /\ UNCHANGED <<world, pending, issues, histories>>

Free == {i \in Ids : recipes[i] = Unused}

Creating == {d \in Trainers : step[d] = "create"}

(* RecipeCreate's defaults.  The bound Ids leaves an id for every creation *)
(* in progress.                                                            *)
BeginCreate(c, b) ==
  /\ b.slug # Absent
  /\ Cardinality(Creating) < Cardinality(Free)
  /\ LET new == [slug |-> b.slug, published |-> Or(b.published, FALSE), tools |-> Or(b.tools, <<>>)]
     IN  Begin(c, Nothing, new, "create", ~SlugTaken(b.slug, Nothing) /\ ToolsValid(b.tools))

BeginUpdate(c, i, b) ==
  /\ i \in Stored
  /\ Begin(c, i, b, "update", ~SlugTaken(Or(b.slug, recipes[i].slug), i) /\ ToolsValid(b.tools))

BeginSetTools(c, i, b) ==
  /\ i \in Stored /\ b.tools # Absent
  /\ Begin(c, i, [slug |-> Absent, published |-> Absent, tools |-> b.tools], "update", ToolsValid(b.tools))

(* FOREIGN KEY (server_id) refuses tools of a server that is gone.         *)
ServersPresent(ts) == ts # Absent => \A k \in DOMAIN ts : ts[k][1] \in servers

(* create_recipe: UNIQUE (slug) is a Conflict; what replace_recipe_tools   *)
(* raises is not caught.                                                   *)
Create(c) ==
  /\ step[c] = "create"
  /\ \/ SlugTaken(body[c].slug, Nothing) /\ End(c, "refused") /\ UNCHANGED <<world, histories>>
     \/ /\ ~SlugTaken(body[c].slug, Nothing) /\ ~ServersPresent(body[c].tools)
        /\ End(c, "error") /\ UNCHANGED <<world, histories>>
     \/ /\ ~SlugTaken(body[c].slug, Nothing) /\ ServersPresent(body[c].tools)
        /\ recipes' = [recipes EXCEPT ![Min(Free)] = body[c]]
        /\ End(c, "done") /\ UNCHANGED <<servers, endpoints>> /\ Witness

(* update_recipe and set_recipe_tools write what is given.  A recipe that  *)
(* is gone has no row to update; an INSERT of its tools fails.             *)
UpdateFails(c) ==
  /\ step[c] = "update"
  /\ \/ /\ target[c] \notin Stored
        /\ End(c, IF body[c].tools \in {Absent, <<>>} THEN "refused" ELSE "error")
     \/ /\ target[c] \in Stored
        /\ SlugTaken(body[c].slug, target[c]) \/ ~ServersPresent(body[c].tools)
        /\ End(c, "error")
  /\ UNCHANGED <<world, histories>>

Update(c) ==
  /\ step[c] = "update" /\ target[c] \in Stored
  /\ ~SlugTaken(body[c].slug, target[c]) /\ ServersPresent(body[c].tools)
  /\ LET old == recipes[target[c]] IN
       recipes' = [recipes EXCEPT ![target[c]] =
         [slug |-> Or(body[c].slug, old.slug), published |-> Or(body[c].published, old.published),
          tools |-> Or(body[c].tools, old.tools)]]
  /\ End(c, "done") /\ UNCHANGED <<servers, endpoints>> /\ Witness

Delete(c, i) ==
  /\ c \in Trainers /\ Idle(c) /\ i \in Stored
  /\ recipes' = [recipes EXCEPT ![i] = Deleted]
  /\ Goto(c, "done") /\ Private
  /\ UNCHANGED <<servers, endpoints>> /\ Witness

-------------------------------------------------------------------------------
(* Public pages: get_recipe_by_slug, then list_recipe_tools.               *)

Visible(slug) == {i \in Stored : recipes[i].slug = slug /\ recipes[i].published}

Page(c, slug) ==
  /\ c \in Readers /\ Idle(c)
  /\ \/ /\ Visible(slug) = {} /\ Goto(c, "missing") /\ UNCHANGED <<target, public>>
     \/ \E i \in Visible(slug) :
          /\ target' = [target EXCEPT ![c] = i]
          /\ public' = [public EXCEPT ![c] = IF recipes[i].published THEN {recipes[i].tools} ELSE {}]
          /\ Goto(c, "page")
  /\ UNCHANGED <<world, body, pending, issues, dangles>>

(* What the page shows as tools; nothing, if the recipe is gone.           *)
Shown(c) == IF target[c] \in Stored THEN recipes[target[c]].tools ELSE <<>>

PageTools(c) ==
  /\ step[c] = "page"
  /\ End(c, "shown")
  /\ public' = [public EXCEPT ![c] = {}]
  /\ UNCHANGED <<world, dangles>>

(* validate_recipes: the recipes, their tools, then the endpoints of one   *)
(* server after the other.                                                 *)
BeginValidate(c) ==
  /\ c \in Readers /\ Idle(c)
  /\ target' = [target EXCEPT ![c] = Stored]
  /\ issues' = [issues EXCEPT ![c] = {}]
  /\ dangles' = [dangles EXCEPT ![c] = Dangling]
  /\ Goto(c, "refs")
  /\ UNCHANGED <<world, body, pending, public>>

\* mutant: the tools of published recipes only
ReadRefsPublished(c) ==
  /\ step[c] = "refs"
  /\ pending' = [pending EXCEPT ![c] =
       {l \in Links : /\ l[1] \in target[c] /\ recipes[l[1]].published
                      /\ <<l[2], l[3]>> \in Range(recipes[l[1]].tools)}]
  /\ target' = [target EXCEPT ![c] = Nothing]
  /\ Goto(c, "endpoints")
  /\ UNCHANGED <<world, body, issues, histories>>

ReadRefs(c) ==
  /\ step[c] = "refs"
  /\ pending' = [pending EXCEPT ![c] =
       {l \in Links : l[1] \in target[c] /\ <<l[2], l[3]>> \in Range(recipes[l[1]].tools)}]
  /\ target' = [target EXCEPT ![c] = Nothing]
  /\ Goto(c, "endpoints")
  /\ UNCHANGED <<world, body, issues, histories>>

Missing(ls) == {l \in ls : <<l[2], l[3]>> \notin endpoints}

ValidateServer(c, s) ==
  LET ls == {l \in pending[c] : l[2] = s} IN
  /\ step[c] = "endpoints" /\ ls # {}
  /\ issues' = [issues EXCEPT ![c] = @ \cup Missing(ls)]
  /\ pending' = [pending EXCEPT ![c] = @ \ ls]
  /\ UNCHANGED <<world, step, target, body, histories>>

Report(c) ==
  /\ step[c] = "endpoints" /\ pending[c] = {}
  /\ Goto(c, "reported")
  /\ issues' = [issues EXCEPT ![c] = {}]
  /\ dangles' = [dangles EXCEPT ![c] = {}]
  /\ UNCHANGED <<world, target, body, pending, public>>

Trains(c, bodies) ==
  \/ \E r \in Refs : \/ ChangeEndpoints(c, {r}, {}) \/ ChangeEndpoints(c, {}, {r})
                     \/ \E t \in Tools : ChangeEndpoints(c, {r}, {<<r[1], t>>})
  \/ \E s \in Servers : DeleteServer(c, s)
  \/ \E b \in bodies : BeginCreate(c, b) \/ \E i \in Ids : BeginUpdate(c, i, b) \/ BeginSetTools(c, i, b)
  \/ Create(c) \/ Update(c) \/ UpdateFails(c)
  \/ \E i \in Ids : Delete(c, i)

Reads(c, slugs) ==
  \/ \E slug \in slugs : Page(c, slug)
  \/ PageTools(c)
  \/ BeginValidate(c) \/ ReadRefs(c) \/ (\E s \in Servers : ValidateServer(c, s)) \/ Report(c)

Next ==
  \/ \E c \in Trainers : Trains(c, Bodies)
  \/ \E c \in Readers : Reads(c, Slugs)

Spec == Init /\ [][Next]_vars

-------------------------------------------------------------------------------

(* Slugs are unique, and no tool of a recipe is on a server that is gone.  *)
TypeOK ==
  /\ servers \subseteq Servers /\ endpoints \subseteq servers \X Tools
  /\ \A i \in Stored :
       /\ Range(recipes[i].tools) \subseteq servers \X Tools
       /\ \A j \in Stored : recipes[i].slug = recipes[j].slug => i = j
  /\ \A c \in Trainers : (body[c] # Nothing) = (step[c] \in {"create", "update"})

(* No request ends in an uncaught IntegrityError.                          *)
NoServerError == \A c \in Trainers : step[c] # "error"

(* The rest is about every step that is taken.                             *)

(* The tools that a change gives to a recipe exist as endpoints when it    *)
(* is written (test_tool_ref_to_missing_tool_returns_400): only a later    *)
(* change of endpoints leaves a reference dangling.                        *)
NewRefsExist ==
  \A i \in Ids : recipes'[i] # recipes[i] /\ recipes'[i] # Deleted =>
    \A r \in Range(recipes'[i].tools) :
      r \in endpoints' \/ (i \in Stored /\ r \in Range(recipes[i].tools))

(* validate_recipes misses nothing: what dangles from its beginning to its *)
(* end is reported, whatever else changes meanwhile.                       *)
ReportComplete ==
  \A c \in Readers : step[c] = "endpoints" /\ step'[c] = "reported" => dangles[c] \subseteq issues[c]

(* And when nothing changes meanwhile, it reports nothing else.            *)
ReportExact ==
  \A c \in Readers : step[c] = "endpoints" /\ step'[c] = "reported" => issues[c] = Dangling

(* "Only `published = 1` recipes are exposed": the tools that a page shows *)
(* are tools that the recipe had while it was published (recipe_detail).   *)
OnlyPublishedShown ==
  \A c \in Readers : step[c] = "page" /\ step'[c] = "shown" /\ Shown(c) # <<>> =>
    Shown(c) \in public[c]

(* ts is a list of tools as one of bodies has it, less those of servers    *)
(* deleted since.                                                          *)
AsSent(ts, bodies) ==
  \E b \in bodies, gone \in SUBSET Servers :
    gone \cap servers = {} /\ ts = Without(Or(b.tools, <<>>), gone)

(* A page shows one list of tools as it was written, less those of servers *)
(* deleted since (replace_recipe_tools).                                   *)
PageWhole(bodies) ==
  \A c \in Readers : step[c] = "page" /\ step'[c] = "shown" /\ target[c] \in Stored =>
    AsSent(Shown(c), bodies)

-------------------------------------------------------------------------------
(* The invariants behind these properties.                                  *)

Shaped ==
  /\ recipes \in [Ids -> Recipe \cup {Unused, Deleted}]
  /\ step = [c \in Clients |-> step[c]] /\ target = [c \in Clients |-> target[c]]
  /\ body \in [Clients -> Body \cup {Nothing}]
  /\ pending \in [Readers -> SUBSET (Ids \X Servers \X Tools)]
  /\ issues = [c \in Readers |-> issues[c]] /\ dangles = [c \in Readers |-> dangles[c]]
  /\ public = [c \in Readers |-> public[c]]
  /\ \A c \in Trainers : step[c] = "create" => body[c] \in Recipe
  /\ \A c \in Clients \ Trainers : step[c] \notin {"create", "update"}
  /\ \A c \in Clients \ Readers : step[c] \notin {"page", "refs", "endpoints"}

(* There is an id for every creation.                                       *)
Room == Cardinality(Creating) <= Cardinality(Free)

(* What dangles throughout a validation is found, or is still to be.        *)
Reporting(c) ==
  /\ step[c] \in {"refs", "endpoints"} => dangles[c] \subseteq Dangling
  /\ step[c] = "refs" => \A l \in dangles[c] : l[1] \in target[c]
  /\ step[c] = "endpoints" => dangles[c] \subseteq issues[c] \cup pending[c]

IInv == TypeOK /\ Shaped /\ Room /\ \A c \in Readers : Reporting(c)

(* The lists that recipes have, and that requests in progress write, are    *)
(* those of bodies.                                                         *)
Lists(bodies) ==
  /\ \A i \in Stored : AsSent(recipes[i].tools, bodies)
  /\ \A c \in Trainers : step[c] \in {"create", "update"} =>
       body[c].tools = Absent \/ \E b \in bodies : body[c].tools = Or(b.tools, <<>>)

ToolsExist(ts) == ts # Absent => Range(ts) \subseteq endpoints

(* Nobody else is active, and what c has read is still so.                  *)
Alone(c) ==
  /\ \A d \in Clients \ {c} : step[d] = "idle"
  /\ step[c] # "error"
  /\ step[c] = "create" => ~SlugTaken(body[c].slug, Nothing) /\ ToolsExist(body[c].tools)
  /\ step[c] = "update" =>
       target[c] \in Stored /\ ~SlugTaken(body[c].slug, target[c]) /\ ToolsExist(body[c].tools)
  /\ step[c] = "page" => target[c] \in Stored /\ Shown(c) \in public[c]
  /\ step[c] = "refs" => target[c] = Stored /\ issues[c] = {}
  /\ step[c] = "endpoints" => issues[c] \cup Missing(pending[c]) = Dangling

===============================================================================
