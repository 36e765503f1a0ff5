SPECIFICATION Spec
CONSTANTS
    a = a
    b = b
    gui = gui
    term = term
    dir = dir
    file = file
    i1 = i1
    i2 = i2
    i3 = i3
    Threads = {a, b}
    Procs = {gui, term}
    Paths = {dir, file}
    Below <- DirAndFile
    ClaimIds = {i1, i2, i3}
    NoTurn = NoTurn
    InboxLimit = 20
    Nobody = Nobody
    Gone = Gone
    Schedulers = {gui}
    Requests <- DirOrFile
    Edits <- TheFile
    Budget <- GroupBudget
INVARIANTS
    TypeOK
    ClaimsExclusive
    OwnersAreMembers
    WritesExclusive
    OneTurn
    WakeIsOwed
SYMMETRY Alike
CHECK_DEADLOCK FALSE
