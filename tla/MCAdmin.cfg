CONSTANTS
  Absent = Absent
  Unused = Unused
  Deleted = Deleted
  Nothing = Nothing
  Fallback = Fallback
  Solo = "u"
  Trainers = {"u", "t2"}
  Readers = {"u", "r1"}
  RecipeIds = {1, 2}
  RecipeSlugs = {"x", "y"}
  Servers = {1, 2}
  Tools = {"a", "b"}
  RecipeBodies <- AllRecipes
  PairRecipes <- FewRecipes
  PageSlugs = {"x"}
  Writers = {"u", "w2"}
  Callers = {"c1"}
  MaxId = 2
  Urls = {"", "up", "other", "bad"}
  UpstreamKeys = {"", "k1", "k2"}
  Blocked = {"bad"}
  LlmBodies <- AllSettings
  RuleSets <- MCRuleSets
  Malformed <- MCMalformed
  Probes = {"p", "q"}
  PairSettings <- FewSettings

SPECIFICATION AdminSpec


  

PROPERTIES
  RecipesAreWhole
  AnswersFromOneRow
