SPECIFICATION Spec
CONSTANTS
  plain = plain
  secret = secret
  Texts <- AllTexts
  SecretLike <- Secrets
  TaskIds <- AnyIds
  Redacted = Redacted
  OlderFiles <- OnlyNew
  MaxEvents = 2
  MaxLoads = 1
  MaxEdits = 0
CHECK_DEADLOCK FALSE
INVARIANTS SavedChainVerifies
