CONSTANTS
  None = None
  Now = 5
  SearchTime = 7
  SignalUnit = 60
  Hour = 2
  FetchTimes = 2
  UpdateTimes <- MCUpdateTimes
  MaxNumChars = 8
  ScoreUnit = 420
  MaxSimilarTerms = 2
  MaxEditDistance = 4
  KnownBangs <- MCKnownBangs
  Stemmer <- MCStemmer
  Detected <- MCDetected
  Letters <- MCLetters
  Page <- MCPage
  TopN = 5
  IsBefore <- MCIsBefore
  Plans <- MCPlans
  Wide = {"caet"}
  Stopwords = {"the", "a"}
  Keys <- MCKeys
  HiddenKeys = {"label"}
  MaxEntities = 3
  MaxRelated = 1
  MaxInfo = 2
  AbstractLength = 6
  InfoLength = 5
SPECIFICATION Spec
INVARIANTS
  AnswersAreExact
  SnippetsShowTheQuery
  
  CorrectionsAreKnown
  EntitiesAreTheArticles
  LinksLieOnTheirWords
