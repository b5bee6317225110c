CONSTANT MaxRuntimes = 4
SPECIFICATION TasksFairSpec
INVARIANTS TasksTypeOK NoInstanceForgotten
PROPERTIES CurrentTaskRuns CancelledEnds
CHECK_DEADLOCK FALSE
