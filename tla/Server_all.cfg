CONSTANTS
  c1 = c1
  c2 = c2
  Threads = {t1, t2}
  Commands <- MCCommands
  Instr <- MCInstr
  States = {s1, s2}
  NoThread = NoThread
  NoState = NoState
SPECIFICATION FairSpec
INVARIANTS
  ServerInv
  CompleteOnReturn
PROPERTIES
  CommandAnswered
  DestructorReturns
CHECK_DEADLOCK FALSE
