\* Requests of a few terms on two models, cut down to every budget.
SPECIFICATION Spec
CONSTANTS
  NoAsset = NoAsset
  UnknownAsset = UnknownAsset
  Absent = Absent
  Null = Null
  Numbers <- MCNumbers
  ShortTerms <- MCShortTerms
  Roles <- MCRoles
  Models <- MCModels
  Prompts <- MCPrompts
  Budgets <- MCBudgets
  CandidateLimit = 2
  AssetLimit = 2
  RelationshipLimit = 1
  TagLimit = 2
  AlarmLimit = 1
  MaxRoles = 1
INVARIANTS
  AcceptedMatchesRequest
  RulesAreAccepted
  OmissionsAreReported
PROPERTIES
  LoopShrinksResult
