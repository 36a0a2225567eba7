CONSTANTS
  Threads = {t1, t2, t3}
  NoThread = NoThread
  Main = main
  Algorithms = {a1, a2}
  Environments <- MCEnvironments
  Kernels <- MCKernels
SPECIFICATION FairSpec
INVARIANTS IInv StrictGate CleanPool StrictControls LenientStarts
PROPERTY StartupDecides
CHECK_DEADLOCK FALSE
