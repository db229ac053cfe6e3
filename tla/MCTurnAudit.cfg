SPECIFICATION MCSpec
CONSTANTS
  Configs <- MCConfigs
  Requests <- MCRequests
  Answers <- MCAnswers
  Rules <- MCRules
  Accepts <- MCAccepts
  Prefers <- MCPrefers
  Bodies <- MCBodies
ACTION_CONSTRAINT PlainSteps
INVARIANTS
  AuditTypeOK
  Addressed
  Accounted
  Deployment
  IdentityKept
  OnlyMatchesRedacted
  ColumnsAgree
  DamageIsLocal
CHECK_DEADLOCK FALSE
