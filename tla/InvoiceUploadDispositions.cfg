\* Two grants that meet in sale 2, quarantines, operator decisions and writes that
\* find the database locked.
SPECIFICATION Spec
CONSTANTS
    o1 = o1
    o2 = o2
    c1 = c1
    c2 = c2
    Invoice = {1, 2, 3}
    Owner = {o1}
    NoOwner = NoOwner
    OwnerOf <- OneOwner
    Chain = {c1, c2}
    SequenceOn <- Forked
    PhysicalPresence = {1, 2, 3}
    QuickCustomer = {}
    Corrupt = {}
    Faults = {"requeue", "crash", "lost", "busy"}
    MaxFaults = 2
    MaxHolds = 1
INVARIANTS
    SentInOrder
    RowsAgreeOnOutcome
PROPERTIES
    ImplementsDelivery
    TerminalIsFinal
