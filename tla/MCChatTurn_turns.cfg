SPECIFICATION Spec
CONSTANTS
  Turns = {t1, t2}
  Threads = {h1}
  None = None
  MaxPieces = 2
  Long = {t1}
  MaxSessions = 1
INVARIANTS
  ChatInv
  WholeAnswer
  AnswerKept
  EveryRunStoppable
  OwnQuestion
PROPERTIES
  EveryTurnSettles
