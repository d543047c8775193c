SPECIFICATION Spec
CONSTANTS
  Calls <- MCCalls
  Modules <- MCModules
  Lessons <- MCLessons
  Files <- MCFiles
  MaxClicks = 5
  None = None
  c1 = c1
  c2 = c2
  m1 = m1
  m2 = m2
  x1 = x1
  x2 = x2
  f1 = f1
SYMMETRY MCSymmetry
CHECK_DEADLOCK FALSE
INVARIANTS TypeOK PdfOfItsLesson VideoOfItsLesson    LinkedPublic
