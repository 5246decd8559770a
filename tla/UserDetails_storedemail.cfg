SPECIFICATION Spec
CONSTANTS
  Names = {ann, bob}
  Emails = {good, bad}
  ValidEmails = {good}
  Numbers = {n1, n2}
  Empty = Empty
  Nil = Nil
INVARIANTS
  StoredEmailIsValid
