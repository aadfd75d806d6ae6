SPECIFICATION Spec
CONSTANTS
  Main = 1
  Background = {2}
  Sessions = {"s"}
  ConfIds = {1, 2, 3, 4, 5, 6}
  HabitSets = {{"background", "enter"}, {"background", "disconnect", "late"}, {"enter", "reopen", "disconnect"}, {"enter", "dialog", "disconnect"}}
CHECK_DEADLOCK FALSE
INVARIANTS
  TypeOK
  NoUseAfterDelete
  OneThreadPerServer
  ForegroundConfsInOrder
PROPERTIES
  CancelSeenIsReported
