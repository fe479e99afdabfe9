SPECIFICATION FairSpec
CONSTANTS
  Names <- MCNames
  Texts <- MCTexts
  Size <- MCSize
  Requests <- GoodRequests
  Responses <- HonestResponses
  Remainders <- MCRemainders
  Hosts = {"a"}
  NoHost = "nohost"
  Ports = {80, 40000}
  HostText <- MCHostText
  Number <- MCNumber
  NotANumber = NotANumber
  BodySizes = {0, 1, 2}
  MaxRequests = 1
  MaxChunk = 4

PROPERTY ResponseRead
CHECK_DEADLOCK FALSE
