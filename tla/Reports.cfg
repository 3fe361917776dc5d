SPECIFICATION Spec
CONSTANTS
    Req = {r1, r2}
    User = {u1, u2}
    Lang = {en, ur}
    None = None
    MaxFacts = 2
    MaxRows = 3
    MaxGen = 2
SYMMETRY Symmetry
CHECK_DEADLOCK FALSE
INVARIANTS
    TypeOK
    ClosedHasNoTeam
    OneOpenAssignment
    ReportShowsTheEnd
    NarrativeTellsItsFacts
    
PROPERTY
    LifeOnlyForward
