SPECIFICATION Spec
CONSTANTS
  RevealWidth = 260
  Padding = 150
  Threshold = 550
  Velocities <- MCVelocities
  Translations <- MCTranslations
  MaxAnimations = 3
  MaxRotations = 0
  MaxCancels = 1
INVARIANTS
  NeverHalfOpen
