SPECIFICATION FairSpec
CONSTANTS
  openai = openai
  ollama = ollama
  anthropic = anthropic
  large = large
  small = small
  Providers = {openai, ollama, anthropic}
  Models = {large, small}
  Blank = Blank
  Given <- GivenNames
  Keyless = {ollama}
  Environment = {openai, anthropic}
  Service <- Services
  Series <- ModelSeries
  CustomUrl = {anthropic}
  Listable = {openai, anthropic}
  PickyAbout <- Picky
  Answers <- Replies
  Listings <- Lists
  MaxAttempts = 2
  Backoff = 3
  MaxBackoff = 2
  Jitter = 1
  CheckInterval = 1
  AgentBudget = 3
  ProviderBudget <- PrimaryBudget
  ElapsedBudget = 5
  Threshold = 2
  Cooldown = 2
  HealthCooldown = 1
  Latency = 1
  Horizon = 1
  MaxChats = 2
  MaxRequests = 1
INVARIANTS BooksAreKept ReliableAnswers
PROPERTIES ImplementsBreaker CancelIsPrompt SleepIsUseful ChatEnds
CHECK_DEADLOCK FALSE
