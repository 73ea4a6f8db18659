\* Two revisions, three commands, one thing that breaks or is edited by hand.
CONSTANTS
  MaxRev = 2
  Sources <- MCSources
  MaxCommands = 3
  MaxBreaks = 1
  InTheWay <- MCInTheWay
SPECIFICATION Spec
INVARIANTS
  TypeOK
  FullIsOneRevision
  EvidenceBacked
  LockedOutOnlyByBrokenRemoval
\* The user may stop typing commands.
CHECK_DEADLOCK FALSE
