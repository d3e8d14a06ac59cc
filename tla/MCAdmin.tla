-------------------------------- MODULE MCAdmin -------------------------------
(***************************************************************************)
(* Small instances of Recipes and LlmEndpoint, each with administrators    *)
(* who get in each other's way, and with one who is alone.                 *)
(*                                                                         *)
(* Recipes: two servers with tools of the same names.  LlmEndpoint: two    *)
(* URLs that are allowed and one that is blocked, two keys, and rule sets  *)
(* that overlap.  The first state chooses which of them runs, the scene.   *)
(***************************************************************************)
EXTENDS Scenes, Naturals, Sequences, FiniteSets

CONSTANTS
  Trainers, Readers, RecipeIds, RecipeSlugs, Servers, Tools, RecipeBodies, (* Recipes *)
  PairRecipes, PageSlugs,                        (* what they choose from  *)
  Writers, Callers, MaxId, Urls, UpstreamKeys, Blocked, LlmBodies, RuleSets,
  Malformed, Probes, Fallback,                   (* LlmEndpoint            *)
  PairSettings                                   (* what they choose from  *)

VARIABLES
  servers, endpoints, recipes, recipe_step, target, body, pending, issues, dangles, public,
  llm, nextId, rules, llm_step, llm_body, read, answer, logged, seen

library ==
  <<servers, endpoints, recipes, recipe_step, target, body, pending, issues, dangles, public>>

endpoint == <<llm, nextId, rules, llm_step, llm_body, read, answer, logged, seen>>

Library == INSTANCE Recipes WITH
  step <- recipe_step, Ids <- RecipeIds, Slugs <- RecipeSlugs, Bodies <- RecipeBodies

Llm == INSTANCE LlmEndpoint WITH
  step <- llm_step, body <- llm_body, Keys <- UpstreamKeys, Bodies <- LlmBodies

-------------------------------------------------------------------------------
(* Bodies for Recipes.                                                     *)

MCRecipe(slug, published, ts) == [slug |-> slug, published |-> published, tools |-> ts]

(* No empty list: a page that shows none has caught a change half done.    *)
FewRecipes ==
  {MCRecipe("x", TRUE, << <<1, "a">>, <<2, "a">> >>), MCRecipe("x", FALSE, << <<1, "b">> >>)}

ManyRecipes ==
  {MCRecipe("x", TRUE, << <<1, "a">>, <<2, "a">> >>), MCRecipe("y", FALSE, << <<2, "b">> >>),
   MCRecipe("x", Absent, << <<1, "b">> >>), MCRecipe(Absent, TRUE, Absent),
   MCRecipe("y", Absent, << >>), MCRecipe(Absent, FALSE, << <<2, "a">>, <<2, "a">> >>)}

AllRecipes == FewRecipes \cup ManyRecipes

(* Bodies and rules for LlmEndpoint.                                       *)

MCSettings(mode, url, key) == [mode |-> mode, url |-> url, key |-> key, clear |-> FALSE]

FewSettings ==
  {MCSettings("proxy", "up", "k1"), MCSettings("mock", "other", "k2"),
   MCSettings("proxy", Absent, "")}

ManySettings ==
  {MCSettings("proxy", Absent, Absent), MCSettings("mock", Absent, ""),
   MCSettings(Absent, "", Absent), MCSettings(Absent, "up", "k1"),
   MCSettings("proxy", "other", "k2"), MCSettings(Absent, "bad", ""),
   [MCSettings(Absent, Absent, Absent) EXCEPT !.clear = TRUE]}

AllSettings == FewSettings \cup ManySettings

MCRule(ps, t) == [matches |-> ps, text |-> t]

MCRuleSets ==
  {<<MCRule({}, "c"), MCRule({"p"}, "a"), MCRule({"p", "q"}, "b")>>,
   <<MCRule({"q"}, "a"), MCRule({"p"}, "b")>>, <<MCRule({"p"}, "")>>}

MCMalformed == {<<MCRule({"p"}, "")>>}

AdminAssumption ==
  /\ Library!RecipesAssumption /\ Llm!LlmAssumption
  /\ Solo \in Trainers \cap Readers /\ Solo \in Writers
  /\ PairRecipes \subseteq RecipeBodies /\ PageSlugs \subseteq RecipeSlugs
  /\ PairSettings \subseteq LlmBodies

ASSUME AdminAssumed == AdminAssumption

-------------------------------------------------------------------------------

NoLibrary ==
  /\ servers = Nothing /\ endpoints = Nothing /\ recipes = Nothing /\ recipe_step = Nothing
  /\ target = Nothing /\ body = Nothing /\ pending = Nothing /\ issues = Nothing
  /\ dangles = Nothing /\ public = Nothing

NoEndpoint ==
  /\ llm = Nothing /\ nextId = Nothing /\ rules = Nothing /\ llm_step = Nothing
  /\ llm_body = Nothing /\ read = Nothing /\ answer = Nothing /\ logged = Nothing
  /\ seen = Nothing

AdminInit ==
  \/ scene \in {"trainers", "one trainer"} /\ Library!Init /\ NoEndpoint
  \/ scene \in {"writers", "one writer"} /\ Llm!Init /\ NoLibrary

LibraryNext ==
  \/ /\ scene = "trainers"
     /\ \/ \E c \in Trainers : Library!Trains(c, PairRecipes)
        \/ \E c \in Readers \ {Solo} : Library!Reads(c, PageSlugs)
  \/ /\ scene = "one trainer"
     /\ Library!Trains(Solo, RecipeBodies) \/ Library!Reads(Solo, RecipeSlugs)

EndpointNext ==
  \/ /\ scene = "writers"
     /\ \/ \E c \in Writers : Llm!Administers(c, PairSettings, RuleSets)
        \/ \E c \in Callers : Llm!Asks(c)
  \/ scene = "one writer" /\ Llm!Administers(Solo, LlmBodies, {})

AdminNext ==
  /\ UNCHANGED scene
  /\ \/ LibraryNext /\ UNCHANGED endpoint
     \/ EndpointNext /\ UNCHANGED library

AdminSpec == AdminInit /\ [][AdminNext]_<<scene, library, endpoint>>

-------------------------------------------------------------------------------

(* What is stored is sound, however changes interleave, and a completion   *)
(* leaves one row in the log unless an exception escapes or its mock goes; *)
(* a proxy has its upstream, and no change ends in an IntegrityError, as   *)
(* long as changes come one after the other (Recipes, LlmEndpoint).        *)
StoredSoundly ==
  /\ scene \in {"trainers", "one trainer"} => Library!TypeOK
  /\ scene = "one trainer" => Library!NoServerError
  /\ scene \in {"writers", "one writer"} => Llm!TypeOK /\ Llm!LoggedOnce
  /\ scene = "one writer" => Llm!ProxyHasUrl /\ Llm!NoServerError

(* A validation report misses nothing that dangled all along, and a page   *)
(* shows one list of tools; without interference the report says nothing   *)
(* else, the page is of a published recipe, and new tools exist (Recipes). *)
RecipesAreWhole ==
  [][/\ scene = "trainers" => Library!ReportComplete /\ Library!PageWhole(PairRecipes)
     /\ scene = "one trainer" =>
          Library!NewRefsExist /\ Library!ReportExact /\ Library!OnlyPublishedShown
    ]_library

(* A completion comes from one set of rules, or goes to an upstream with   *)
(* the key that was stored with it, and the key changes only on purpose,   *)
(* however updates interleave (LlmEndpoint).                               *)
AnswersFromOneRow ==
  [][(scene \in {"writers", "one writer"}) =>
       Llm!OneRuleSet /\ Llm!OneConfiguration /\ Llm!KeyKept]_endpoint

===============================================================================
