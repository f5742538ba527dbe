SPECIFICATION CLiveSpec
CONSTANTS
  alice = alice
  bob = bob
  i1 = i1
  a1 = a1
  a2 = a2
  NoTip = NoTip
  Slot <- MCSlot
  Process <- MCProcess
  WorkerOf <- MCWorkerOf
  Owner <- MCOwner
  MaxCommits = 1
  MaxMishaps = 2
CHECK_DEADLOCK FALSE
INVARIANT FreshStart
INVARIANT OwnWorkReported
PROPERTY ImplementsPublication
PROPERTY WorkspaceComes
PROPERTY WorkPublished
