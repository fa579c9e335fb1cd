SPECIFICATION Spec
CONSTANTS
  Tasks <- MCTasks
  Program <- MCProgram
  Loops <- MCLoops
  AtBoot <- MCAtBoot
INVARIANTS
  TasksAccounted
  LockFreeDuringPoll
PROPERTIES
  NoOvertaking
  TasksFinish
  LoopsKeepRunning
