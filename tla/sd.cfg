SPECIFICATION ProxySpec
CONSTANTS
  Containers <- MCMoving
  Sanitize <- MCSanitize
  Queries <- MCQueries
  DefaultLevel = "task"
  CacheTtl = 1
  MaxClock = 2
INVARIANTS TypeOK LevelsNested AnswerMeetsRequest ProxyAnswersAlike RoutesFollowRefresh
PROPERTIES ScrapeReachesItsContainer
