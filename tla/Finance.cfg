CONSTANTS
    Null = Null
    NoDoc = NoDoc
    NoOp = NoOp
    NoTask = NoTask
    Supplier = Supplier
    Devices = {d1}
    Others = Others
    Tasks = {t1, t2}
    MaxFiles = 2
    MaxWork = 3
    MaxPapers = 2
    MaxTroubles = 3
SPECIFICATION Spec
SYMMETRY Symmetry
INVARIANTS TypeOK RowsHaveFiles NoStrays
PROPERTIES WaitingIsQueued EditsGoForward InvoicesKept
CHECK_DEADLOCK FALSE
