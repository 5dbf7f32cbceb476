CONSTANTS
  t1 = t1
  t2 = t2
  t3 = t3
  Commands <- MCCommands
  Tags <- MCTags
  MaxTransactions = 4
SPECIFICATION Spec
SYMMETRY TagSymmetry
CHECK_DEADLOCK FALSE
INVARIANTS TypeOK VerdictIsOwn OkMeansDone OkDataIsOwn OutOfStepFails OkIsBarrier
PROPERTY ServiceSpec
