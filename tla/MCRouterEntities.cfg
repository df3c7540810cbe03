SPECIFICATION Spec
CONSTANTS
    Items <- MCItems
    KindOf <- MCKindOf
    Internal <- MCInternal
    Statuses <- MCStatuses
    Payloads <- MCPayloads
INVARIANTS
    TypeOK
    EntitiesAreItems
    UnavailableTogether
    BreakdownExplained
PROPERTY
    RowsGoWithTheirItem
