SPECIFICATION Spec
CONSTANTS
  Policy <- ExamplePolicy
  Slugs <- MCSlugs
  FragileHost = TRUE
  Prompts <- MCPrompts
  Explored <- MCExplored
  QuotaAnswers <- MCQuotaAnswers
  Catalogs <- MCCatalogs
  Files <- MCFiles
  Commands <- MCCommands
  Texts <- MCTexts
  CanPrompt = TRUE
  MaxAsks = 2
  MaxItems = 2
  MaxCommands = 2
  MaxEvents = 4
  NoPrompt = NoPrompt
INVARIANTS
  VerifiedIsEarned
  OneContinuation
  PlansClimb
  MoreRiskNeverCheaper
PROPERTIES
  HostRunsAreAsked
CHECK_DEADLOCK FALSE
