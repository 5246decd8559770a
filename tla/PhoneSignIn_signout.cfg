SPECIFICATION Spec
CONSTANTS
  Numbers = {n1}
  Requests = {r1}
  Attempts = {a1}
  Controllers = {c1}
  Home = Home
  Empty = Empty
  Nil = Nil
PROPERTIES
  SignOutSignsOut
