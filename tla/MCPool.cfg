SPECIFICATION LiveSpec
CONSTANTS
  MaxTransactions = 2
  MaxRetransmit = 1
  Free = Free
  Word = 24
  AckTimeout = 2
  JitterSpan = 2
  MaxTimeout <- MCMaxTimeout
  PollGap = 2
  TickGap = 3
  BootClocks = {0, 1, 2}
  Horizon = 16
  Remotes = {r1}
  Mids = {m1}
  Tokens = {t1}
INVARIANTS TypeOK DueIffElapsed NeverOverdue
PROPERTIES ResendSpacing PatientTimeout EveryTransactionEnds
