SPECIFICATION FairSpec
CONSTANTS
  Numbers = {n1}
  Requests = {r1, r2}
  Attempts = {}
  Controllers = {c1, c2}
  Home = Home
  Empty = Empty
  Nil = Nil
PROPERTIES
  SpinnerStops
