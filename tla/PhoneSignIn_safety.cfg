SPECIFICATION Spec
CONSTANTS
  Numbers = {n1, n2}
  Requests = {r1, r2}
  Attempts = {a1}
  Controllers = {c1, c2}
  Home = Home
  Empty = Empty
  Nil = Nil
SYMMETRY Symmetry
INVARIANTS
  TypeOK
  OtpModeHasSession
  UserHoldsAcceptedNumber
  ResendGoesToLabel
  ProfileOnScreenHasUser
  SignUpFollowsAcceptedCode
  FormShowsLabel
  EverySpinnerIsOwed
PROPERTIES
  KeepsToTheSession
  FollowsTheFlow
  RegistersByForm
