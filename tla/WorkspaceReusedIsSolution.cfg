CONSTANTS
    Nets = {g1, g2}
    Variants = {Initial, v1}
    Initial = Initial
    NoVariant = NoVariant
    NoNet = NoNet
    TTL = 1
    MaxSize = 1
SPECIFICATION Spec
INVARIANT ReusedIsSolution
