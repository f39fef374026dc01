SPECIFICATION UnaidedSpec
CONSTANTS
    o1 = o1
    o2 = o2
    c1 = c1
    c2 = c2
    Invoice = {1}
    Owner = {o1}
    NoOwner = NoOwner
    OwnerOf <- OneOwner
    Chain = {c1}
    SequenceOn <- NoChain
    PhysicalPresence = {}
    QuickCustomer = {}
    Corrupt = {}
    Faults = {"crash"}
    MaxFaults = 1
    MaxHolds = 1
PROPERTIES
    LeaseFreed
