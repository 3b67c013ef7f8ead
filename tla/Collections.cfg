SPECIFICATION Spec
CONSTANTS
    w1 = w1
    w2 = w2
    inv1 = inv1
    inv2 = inv2
    mpesa1 = mpesa1
    card1 = card1
    Workers = {w1, w2}
    Invoices = {inv1}
    Drafted = {}
    Posted = {inv1}
    Amounts = {2}
    OpeningGross = 3
    OnAccount = 2
    CreditLimit = 4
    Charges = {mpesa1}
    Mpesa = {mpesa1}
    Requests = {"record", "apply", "creditNote", "writeOff"}
    MaxRequests = 2
    MaxDeliveries = 2
    MaxFaults = 1
    Nobody = Nobody
    NoDoc = NoDoc
    NoCharge = NoCharge
INVARIANTS
    TypeOK
    InvoiceConserved
    PaymentConserved
    BankMatchesPayments
    AckedIsRecorded
PROPERTIES
    RequestsTerminate
