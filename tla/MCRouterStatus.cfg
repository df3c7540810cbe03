SPECIFICATION Spec
CONSTANTS
    Items <- MCItems
    KindOf <- MCKindOf
    Internal <- MCInternal
    Statuses <- MCStatuses
    Payloads <- MCPayloads
INVARIANT
    RouterStatusShown
