SPECIFICATION Spec
CONSTANTS
  Modules <- MCTwoModules
  Lessons <- MCThreeLessons
  Attachments <- MCAttachments
  Capacities <- MCCapacities
  NoModule = NoModule
  NoLesson = NoLesson
  m1 = m1
  m2 = m2
  l1 = l1
  l2 = l2
  l3 = l3
  a1 = a1
SYMMETRY MCSymmetry
INVARIANTS TypeOK ListsLasting FreshSuffix ShowsFresh
CHECK_DEADLOCK FALSE
