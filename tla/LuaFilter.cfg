SPECIFICATION LuaSpec
CONSTANTS
  Words <- MCWords
  Printable <- MCPrintable
  Numeric <- MCNumeric
  Pieces <- MCPieces
  Clip <- MCClip
  Run <- MCRun
  Routes <- MCRoutes
  MaxRoutes = 2
  MaxPath = 3
  RouteTables <- MCRouteTables
  Returns <- MCReturns
  Responses <- MCResponses
  MaxRouteFiles = 3
CHECK_DEADLOCK FALSE
INVARIANTS FirstRouteAnswers RouteFilesOwn AnswerSource CrashCauses NothingLeaks
