SPECIFICATION Spec
CONSTANTS
  Cells = 6
  Spacing = 160
  ItemWidth = 600
  ActiveDistance = 800
  FarAway = 1000000
  Frames <- MCFrames
  Grain = 80
INVARIANTS
  TypeOK
  OneCellZoomed
  FartherIsNeverEarlier
PROPERTIES
  ReleaseCentresNearest
