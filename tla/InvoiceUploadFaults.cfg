\* Two owners in turn at one till: o1's sale 1 is timed and its sale 3 damaged,
\* o2's sale 2 is of a customer created on the register.
SPECIFICATION Spec
CONSTANTS
    o1 = o1
    o2 = o2
    c1 = c1
    c2 = c2
    Invoice = {1, 2, 3}
    Owner = {o1, o2}
    NoOwner = NoOwner
    OwnerOf <- TwoOwners
    Chain = {c1}
    SequenceOn <- NoChain
    PhysicalPresence = {1}
    QuickCustomer = {2}
    Corrupt = {3}
    Faults = {"lost", "crash", "busy", "error", "denied", "signout", "resume"}
    MaxFaults = 3
    MaxHolds = 1
INVARIANTS
    SyncedIsHeld
    OwnerIsolation
PROPERTIES
    SendGates
    ForeignRowsUntouched
