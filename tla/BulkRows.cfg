\* A served or answered call has nothing left to do.
CONSTANTS
    None = None
    MaxRows = 3
    Bounds <- MCBounds
SPECIFICATION Spec
INVARIANTS
    TypeOK
    NamesOnlyWrongRows
    NamesEveryWrongRow
    ServedWhereAllIsRight
    ListJudgedAsSent
    RefusedRowsStayUnread
CHECK_DEADLOCK FALSE
