CONSTANTS
  Operator = "op"
  Owner = "op"
  Self = "op"
  RelayKey = "relay"
  Admitted <- Admits
  Bots <- Registry
  Nothing = Nothing
  ProfileOf <- Profiles
  FenceLength = 3
  MaxMentions = 2
  People = {"op", "ann", "lee", "sue", "sam"}
  Letters = {"a", "b", "c", "d", "m", "1"}
  Digits = {"1"}
  Unnamed <- NoLetters
  Dm <- DmTitle
  IdOf <- WrittenIds
  CompactId <- Ids
  FirstSuffix = 2
  SuffixStep = 1
  MaxName = 5
  NoName = NoName
  ChannelOf <- Channels
  MaxQuery = 1
  MaxRequest = 1
  Posts <- MCPosts
  Edits <- MCEdits
  Threads <- MCThreads
  Bodies <- MCBodies
  Answers <- MCAnswers
  Rosters <- MCRosters
  Askings <- MCAskings
  Files <- MCFiles
  Searches <- MCSearches
  Waiter = "host"
  Missing = Missing
  Polls <- MCPolls
  Binds <- MCBinds
  Restarts <- MCRestarts
  Asks <- MCAsksOfKelpie
  Registries <- MCRegistries
  Steps <- MCSteps
  MaxAsks = 3
CHECK_DEADLOCK FALSE
SPECIFICATION TextsSpec
INVARIANTS
  RequestsAreTheirAuthors
  NothingGoesUnheard
  AnswersReachThoseTheyMean
  NamesAreApart
  HandTextStays
  WordsAreTakenAsSaid
