SPECIFICATION Spec
INVARIANTS
  TypeOK
  ScreenIsTrue
  FiguresAreHonest
PROPERTIES
  StepsKeep
  WorkEnds
CHECK_DEADLOCK FALSE
