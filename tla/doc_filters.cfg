SPECIFICATION Spec
CONSTANTS
  Containers <- MCContainers
  Sanitize <- MCSanitize
  Queries <- MCDocumented
  DefaultLevel = "task"
  CacheTtl = 1
  MaxClock = 2
INVARIANTS AnswerAsDocumented
