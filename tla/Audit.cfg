CONSTANTS
    U64_MAX = 1023
    Images <- MCImages
SPECIFICATION FairSpec
INVARIANTS
    TypeOK
    ReportedOnce
    ReportsExactlyTheDamage
PROPERTIES
    AuditShrinks
    AuditEnds
\* The audit returns.
CHECK_DEADLOCK FALSE
