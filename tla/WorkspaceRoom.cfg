\* Three networks for two places, so that removing the current one can switch
\* to another and loading one can evict the current one.  The variants do not
\* matter to the current network: only the initial one.
CONSTANTS
    Nets = {g1, g2, g3}
    Variants = {Initial}
    Initial = Initial
    NoVariant = NoVariant
    NoNet = NoNet
    TTL = 1
    MaxSize = 2
SPECIFICATION Spec
SYMMETRY Symmetry
PROPERTIES CurrentLostOnlyToRoom
