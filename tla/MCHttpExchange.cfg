SPECIFICATION FairSpec
CONSTANTS
  Names <- MCNames
  Texts <- MCTexts
  Size <- MCSize
  Requests <- MCRequests
  Responses <- MCResponses
  Remainders <- MCRemainders
  Hosts = {"a"}
  NoHost = "nohost"
  Ports = {80, 40000}
  HostText <- MCHostText
  Number <- MCNumber
  NotANumber = NotANumber
  BodySizes = {0, 1, 2}
  MaxRequests = 2
  MaxChunk = 4
INVARIANTS TypeOK  KeysUnique ParsedMatches ForwardRoundTrip
  MissingIsOverRead WholeResponse
PROPERTY BodyArrives
CHECK_DEADLOCK FALSE
