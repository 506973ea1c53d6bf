SPECIFICATION FairSpec
CONSTANTS
  None = None
  Malformed = Malformed
  Version <- MCVersion
  Inputs <- MCInputs
  Documents <- MCDocuments
  Lengths = {0, 3, 4}
  ChunkSizes = {0, 1, 3}
  MAX_RESPONSE_BYTES = 3
INVARIANTS
  TypeOK
  NothingInPlaintext
  TokenGoesToExchangeOnly
  DiscoversThenPosts
  BodyIsWholeOrRefused
PROPERTIES
  SessionSurvivesFailedStart
  StartReturns
