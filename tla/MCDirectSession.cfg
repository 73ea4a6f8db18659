SPECIFICATION Spec
CONSTANTS
  Threads = {t1, t2}
  Addresses = {a1, a2, a3}
  NoAddress = NoAddress
  RetiredSlots = 3
  LeaseModulus = 4
  Failures <- MCFailures
INVARIANTS
  TypeOK
  LeasesCountedByOneThread
  RetiredExactlyFreed
  CleanupReverses
  SessionOutlivesCall
SYMMETRY AddressSymmetry
