\* One top-up order.
SPECIFICATION Spec
CONSTANTS
    o1 = o1
    a1 = a1
    inbox_loop = inbox_loop
    order_loop = order_loop
    audit_loop = audit_loop
    Order <- OneOrder
    Api <- OneApi
    Inbox = inbox_loop
    Closer = order_loop
    Auditor = audit_loop
    MaxAttempts = 2
    MaxFaults = 1
INVARIANTS
    TypeOK
    CreditedMeansGranted
    ProcessedMeansCredited
PROPERTIES
    KeepsTopupPromise
    ExpiredOrdersEnd
\* Every order may have ended.
CHECK_DEADLOCK FALSE
