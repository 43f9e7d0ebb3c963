SPECIFICATION Spec
CONSTANTS
    Calls = {c1, c2, c3}
    Conversations = {k1, k2}
    Scopes = {none}
    EmptyScope = none
    NoScope = NoScope
    NoEdit = NoEdit
    NoRow = NoRow
SYMMETRY Symmetry
INVARIANTS TypeOK TurnsAreWhole AnswersSurvive DeletedStaysGone
PROPERTY BystandersKeepTheirRows
CHECK_DEADLOCK FALSE
