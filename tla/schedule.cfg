SPECIFICATION Spec
CONSTANTS
    a = a  b = b
    Unset = Unset  Never = Never  Nobody = Nobody
    Runs = {a, b}
    DurationChoices <- EdgeDurations
    RequeueDependency = 1
    BaseBackoff = 1
    MaxBackoff = 4
    MaxWork = 2
    MaxEvents = 2
INVARIANTS TypeOK NeverDropped AttemptedInTime
