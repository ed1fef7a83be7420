\* Two sessions, so that one can be forked from the other and both go on. An
\* object that a session lets go of is free to be its next one.
CONSTANTS
    Ids = {s1, s2}
    Objects = {o1, o2}
    Providers = {OpenLoadFlow, DynaFlow}
    Configured = OpenLoadFlow
    Default = Default
    Nobody = Nobody
SPECIFICATION Spec
SYMMETRY Symmetry
INVARIANTS TypeOK RunsAsAsked RunsWithChosenProvider
PROPERTIES SettingsArePrivate
