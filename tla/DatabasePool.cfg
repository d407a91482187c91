CONSTANTS
  save = save
  sale = sale
  log = log
  Thread = {t1, t2}
  Worker = {w1}
  Op = {save, sale, log}
  Transactions = {save, sale}
  Size <- MCSize
  HighWater = 2
  MaxLosses = 2
  None = None
SPECIFICATION FairSpec
INVARIANTS
  TypeOK
  OutcomesAreTrue
PROPERTIES
  ImplementsWriteLog
  OperationsEnd
CHECK_DEADLOCK FALSE
