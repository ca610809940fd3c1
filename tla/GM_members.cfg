CONSTANTS
    Users = {u1}
    Emails = {e1, e2}
    Groups = {budget, flex}
    BudgetGroups = {budget}
    Courses = {c1}
    Workers = {w1}
    SecondEmail = e2
    SecondGroup = flex
    NoEmail = NoEmail
    NoRow = NoRow
    Idle = Idle
SPECIFICATION Spec
CONSTRAINT Scope
INVARIANTS TypeOK StatusFitsMember LoginBlockedByLateRow
PROPERTIES RegistrationDeliversAll RemovedStaysOut
