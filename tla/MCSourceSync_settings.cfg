SPECIFICATION Spec
CONSTANTS
    DiskTexts = {f1}
    StudioTexts = {s1}
    Base = base
    None = None
    Settings <- AllSettings
INVARIANTS TypeOK BaselineWasShared TurnsAgree ParkedIsCurrent DeleteWaits
CHECK_DEADLOCK FALSE
