SPECIFICATION Spec
CONSTANTS
  plain = plain
  secret = secret
  Texts <- AllTexts
  SecretLike <- Secrets
  TaskIds <- PlainIds
  Redacted = Redacted
  OlderFiles <- AnyFile
  MaxEvents = 4
  MaxLoads = 2
  MaxEdits = 2
CHECK_DEADLOCK FALSE
INVARIANTS ChainVerifies SequencesIncrease EditsAreFound
