SPECIFICATION FairSpec
CONSTANTS
  Calls = {s1, s2}
  MaxRefusals = 2
  MaxRestarts = 2
  Nil = Nil
INVARIANTS
  TypeOK
  KeychainAgrees
PROPERTIES
  SavedUserComesBack
  EverySignInEnds
  KeepsItsPromise
