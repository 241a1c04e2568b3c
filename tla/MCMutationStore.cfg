CONSTANTS
    Tenant = {t1}
    Client = {c1, c2}
    Key = {k1, k2}
    Hash = {h1, h2}
    Record = {graph, event}
    PutRecord = {event}
    Nobody = Nobody
    MaxRef = 2
SPECIFICATION FairSpec
INVARIANTS TypeOK AuditChain AnswersAreDurable OneTransaction
PROPERTIES LedgerSpec CallsEnd
CHECK_DEADLOCK FALSE
