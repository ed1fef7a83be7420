\* Three calls or requests at a time and two tokens, so that one request can clean
\* up what another one has found while a third writes; a link lives two ticks, so
\* that two of them expire apart.
CONSTANTS
    Calls = {c1, c2, c3}
    Tokens = {t1, t2}
    Life = 2
    NoToken = NoToken
    Free = Free
SPECIFICATION Spec
SYMMETRY Symmetry
INVARIANTS TypeOK ListedHasFile FoundStaysListed ServedUntilExpiry FilesHaveOwners
