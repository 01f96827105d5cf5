SPECIFICATION Spec
CONSTANTS
    DiskTexts = {f1, f2}
    StudioTexts = {s1}
    Base = base
    None = None
    Settings <- TwoSaves
INVARIANTS ConflictTakesTwo
CHECK_DEADLOCK FALSE
