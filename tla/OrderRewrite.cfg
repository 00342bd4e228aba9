SPECIFICATION RewriteSpec
CONSTANTS
  Project = {a, b, d, e}
  MaxSort = 5
  Client = {}
  Content = {repository}
  NameOnly = {}
  Verified = {repository}
  NoContent = none
  MaxVersion = 2
  MaxOrder = 6
INVARIANT OutcomeIsAtomic
CHECK_DEADLOCK FALSE
