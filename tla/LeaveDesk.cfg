SPECIFICATION Spec
CONSTANTS
    anna = anna
    ben = ben
    tara = tara
    anna1 = anna1
    ben1 = ben1
    anna2 = anna2
    annas = annas
    bens = bens
    taras = taras
    morning = morning
    afternoon = afternoon
    r1 = r1
    r2 = r2
    Teachers = {anna, ben, tara}
    Requests = {r1, r2}
    Lessons = {anna1, ben1, anna2}
    Slot <- DeskSlot
    Leaves = {annas, bens, taras}
    Form <- DeskForm
    Rostered <- DeskRostered
    MaxMarks = 1
    Nobody = Nobody
    NoLeave = NoLeave
INVARIANTS SubstitutesAreFree GapsFollowLeaves LastWordStands NobodyWaitsInACircle
SYMMETRY Symmetry
CHECK_DEADLOCK FALSE
