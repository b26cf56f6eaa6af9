SPECIFICATION Spec
CONSTANTS
  Capacity = 2
  Intents = {"classify", "rank", "other"}
  Templated = {"classify", "rank"}
  TemplateFor <- MCTemplateFor
  Generated = {"good", "bad"}
  Valid = {"classifier", "good"}
  HasModel = TRUE
  MaxRetries = 3
  Specs = {"classify", "other"}
  Clients = {"a", "b", "c"}
  Programs = {"p", "q", "r"}
  MaxRate = 2
  MaxRPS = 2
  MaxResults = 2
  MaxWebhooks = 2
  MaxAttempts = 2
  Prompt = {1}
  MaxSpecs = 2
CONSTRAINT OneAtATime
CHECK_DEADLOCK FALSE

INVARIANTS
  AnswersTrue
  RateHolds
  CopiesAreFew

PROPERTIES
  ImplementsRecent
