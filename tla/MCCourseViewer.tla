--------------------------- MODULE MCCourseViewer ---------------------------
(* Small instances of CourseViewer.                                        *)
EXTENDS CourseViewer

CONSTANTS r1, r2, a, t, s, s2, c1, c2, m1, m2, l1, l2

MCRequests == {r1, r2}
MCAdmins   == {a}
MCTeachers == {t}
MCStudents == {s, s2}
MCOwners   == {a, t}
MCSeats    == {<<s, c1>>, <<s, c2>>, <<s2, c1>>}
MCCourses  == {c1, c2}
MCModules  == {m1, m2}
MCLessons  == {l1, l2}
MCModuleOf == (l1 :> m1) @@ (l2 :> m1)
MCCourseOf == (m1 :> c1) @@ (m2 :> c2)

MCSymmetry == Permutations({r1, r2}) \cup Permutations({l1, l2})
=============================================================================
