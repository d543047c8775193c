SPECIFICATION Spec
CONSTANTS
  Requests <- MCRequests
  Admins <- MCAdmins
  Teachers <- MCTeachers
  Students <- MCStudents
  Courses <- MCCourses
  Modules <- MCModules
  Lessons <- MCLessons
  ModuleOf <- MCModuleOf
  CourseOf <- MCCourseOf
  Owners <- MCOwners
  Seats <- MCSeats
  Viewer = s
  None = None
  r1 = r1
  r2 = r2
  a = a
  t = t
  s = s
  s2 = s2
  c1 = c1
  c2 = c2
  m1 = m1
  m2 = m2
  l1 = l1
  l2 = l2
SYMMETRY MCSymmetry
INVARIANTS TypeOK ShownDone
PROPERTY ProgressOwn
