SPECIFICATION Spec
CONSTANTS
    w1 = w1
    w2 = w2
    inv1 = inv1
    inv2 = inv2
    mpesa1 = mpesa1
    card1 = card1
    Workers = {w1}
    Invoices = {inv1, inv2}
    Drafted = {inv1}
    Posted = {}
    Amounts = {1, 2}
    OpeningGross = 2
    OnAccount = 0
    CreditLimit = 5
    Charges = {card1}
    Mpesa = {}
    Requests = {"create", "edit", "delete", "post", "record", "apply", "creditNote", "writeOff"}
    MaxRequests = 3
    MaxDeliveries = 2
    MaxFaults = 1
    Nobody = Nobody
    NoDoc = NoDoc
    NoCharge = NoCharge
INVARIANTS
    ArReconciles
    UnappliedReconciles
PROPERTIES
    ChargesRecorded
