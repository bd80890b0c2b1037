CONSTANTS
  Shapes <- MCShapes
  Sizes <- MCSizes
  MaxEvents = 4
SPECIFICATION Spec
INVARIANTS PlayedOnce OwnEvents OwnValues
