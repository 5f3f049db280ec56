SPECIFICATION FairSpec
CONSTANTS
    Workers = {w1, w2, w3}
    t1 = t1
    t2 = t2
    t3 = t3
    t4 = t4
    i1 = i1
    i2 = i2
    Txns = {t3}
    Invoices = {i2}
    NoInvoice = NoInvoice
    NoWorker = NoWorker
    NoTxn = NoTxn
    InvoiceOf <- MCInvoiceOf
    Amount <- MCAmount
    Total <- MCTotal
    Methods <- MCMethods
    MethodOf <- MCMethodOf
    Ages <- MCAges
    PoolSize = 3
    MaxFaults = 0
INVARIANTS
    TypeOK
    InvoiceConsistent
    CreditMatchesStatus
    SinglePayerExact
PROPERTIES
    HandlersFinish
