SPECIFICATION Spec
CONSTANTS
    Texts = {a, b, c}
    Passes = {p1}
    PendingCap = 2
    LessonCap = 2
    MaxDrafts = 3
    MaxFaults = 1
SYMMETRY Wordings
INVARIANTS
    LessonsInv
    DraftKept
    LessonKept
