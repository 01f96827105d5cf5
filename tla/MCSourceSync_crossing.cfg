SPECIFICATION Spec
CONSTANTS
    DiskTexts = {f1}
    StudioTexts = {s1}
    Base = base
    None = None
    Settings <- OneCrossing
INVARIANTS Agreement
CHECK_DEADLOCK FALSE
