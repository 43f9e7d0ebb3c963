SPECIFICATION Spec
CONSTANTS
    Calls = {c1, c2, c3}
    Conversations = {k1, k2}
    Scopes = {none, some}
    EmptyScope = none
    NoScope = NoScope
    NoEdit = NoEdit
    NoRow = NoRow
SYMMETRY Symmetry
INVARIANT SelectionIsRestored
CHECK_DEADLOCK FALSE
