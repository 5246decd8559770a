SPECIFICATION Spec
CONSTANTS
  RevealWidth = 260
  Padding = 150
  Threshold = 550
  Velocities <- MCVelocities
  Translations <- MCTranslations
  MaxAnimations = 3
  MaxRotations = 1
  MaxCancels = 2
INVARIANTS
  TypeOK
  RestingMenuAgrees
  OnlyCancelsLeaveHalfOpen
PROPERTIES
  SwipesMoveHalfOpen
