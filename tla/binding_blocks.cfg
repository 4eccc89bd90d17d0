SPECIFICATION Spec
CONSTANTS
  b1 = b1
  b2 = b2
  b3 = b3
  b4 = b4
  m1 = m1
  m2 = m2
  Ids = {b1, b2, b3, b4}
  Machines = {m1, m2}
  Main = m1
  None = none
  NoPoint = noPoint
  Values = {1, 2}
  Defaults <- MCDefaults
  Lines <- MCLines
  Files <- MCFiles
SYMMETRY Symmetry
CONSTRAINT Bounded
VIEW View
INVARIANTS
  TypeOK
  
  
  
PROPERTIES
  TargetsStick
