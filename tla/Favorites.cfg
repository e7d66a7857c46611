SPECIFICATION Spec
CONSTANTS
    Services = {a, b, c}
    Beta = {c}
    Defaults = {a, b}
    Edited = {b}
    Requests = {r1, r2, r3}
SYMMETRY Symmetry
INVARIANT MetricIsDelta
INVARIANT ArrangementStands
