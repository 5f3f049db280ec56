SPECIFICATION Spec
CONSTANTS
    Workers = {w1}
    t1 = t1
    t2 = t2
    t3 = t3
    t4 = t4
    i1 = i1
    i2 = i2
    Txns = {t1, t2, t4}
    Invoices = {i1}
    NoInvoice = NoInvoice
    NoWorker = NoWorker
    NoTxn = NoTxn
    InvoiceOf <- MCInvoiceOf
    Amount <- MCAmount
    Total <- MCTotal
    Methods <- MCMethods
    MethodOf <- MCMethodOf
    Ages <- MCAges
    PoolSize = 2
    MaxFaults = 2
INVARIANTS
    ReportsAgree
PROPERTIES
    ImplementsLedger
