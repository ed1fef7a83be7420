\* Two networks for one place, so that loading one evicts the other; a variant
\* besides the initial one.
CONSTANTS
    Nets = {g1, g2}
    Variants = {Initial, v1}
    Initial = Initial
    NoVariant = NoVariant
    NoNet = NoNet
    TTL = 1
    MaxSize = 1
SPECIFICATION Spec
SYMMETRY Symmetry
INVARIANTS TypeOK ConvergedResultsHold
