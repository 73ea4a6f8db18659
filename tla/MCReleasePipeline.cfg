\* Two revisions, four states of the release documents, one break or edit by hand.
CONSTANTS
  MaxRev = 2
  MaxWrites = 4
  MaxBreaks = 1
SPECIFICATION Spec
INVARIANTS
  TypeOK
  PublishedIsOneBuild
  EvidenceBacked
\* The user may stop typing commands.
CHECK_DEADLOCK FALSE
