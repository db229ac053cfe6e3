SPECIFICATION AuditSpec
CONSTANTS
  Configs <- PlainConfigs
  Requests <- PlainRequests
  Answers <- MCAnswers
  Rules <- ReadmeRules
  Accepts <- MCAccepts
  Prefers <- MCPrefers
  Bodies <- MCBodies
INVARIANT RulesRedacted
CHECK_DEADLOCK FALSE
