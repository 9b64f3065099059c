\* Two jobs, so that a run, an issue or a repair may concern one of them only.
SPECIFICATION Spec
CONSTANTS
  Jobs = {enzyme, slow}
  enzyme = enzyme
  slow = slow
  MaxBreaks = 2
  MaxCalls = 1
  MaxHands = 1
  MaxFaults = 1
INVARIANTS
  OneIssue
PROPERTIES
  ImplementsTicket
  ClosesWhenFixed
  FilesWhenBroken
