\* One call, two connections and the call that pushes options on each.
CONSTANTS
    r1 = r1
    Calls = {r1}
    MaxConnects = 2
    NoAnswer = NoAnswer
SPECIFICATION Spec
INVARIANTS
    OwnAnswer
    NotStranded
PROPERTIES
    CallEnds
CHECK_DEADLOCK FALSE
