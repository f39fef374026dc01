SPECIFICATION FairSpec
CONSTANTS
    o1 = o1
    o2 = o2
    c1 = c1
    c2 = c2
    Invoice = {1, 2}
    Owner = {o1}
    NoOwner = NoOwner
    OwnerOf <- OneOwner
    Chain = {c1}
    SequenceOn <- OneChain
    PhysicalPresence = {2}
    QuickCustomer = {1}
    Corrupt = {}
    Faults = {"lost", "crash", "busy", "error", "denied", "signout", "resume"}
    MaxFaults = 2
    MaxHolds = 1
PROPERTIES
    EverySaleSettles
