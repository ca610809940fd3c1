SPECIFICATION FairSpec
CONSTANTS
    Runs = {r1, r2}
    Courses = {c1, c2}
    Course = c1
    CourseOf <- MCCourseOf
    Program = {c1, c2}
    Workers = {w1}
    Idle = Idle
CONSTRAINT Scope
INVARIANT RefusalStands
PROPERTY AskedInTheEnd
