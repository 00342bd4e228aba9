SPECIFICATION FairSpec
CONSTANTS
  Reader = {r1, r2}
  Writer = {w1, w2}
  InitialKey = 1
  Faults = {"lost", "error", "flush"}
  MaxContent = 2
  MaxVersion = 3
INVARIANTS TypeOK KeptPageNotOlder KeptAnswerNotOlder
PROPERTY EventuallyFresh
