\* Every close code at a boundary, one clone.
CONSTANTS
    v1 = v1  v2 = v2
    Values = {v1, v2}
    Payloads <- MCPayloads
    NoCode = NoCode
SPECIFICATION Spec
INVARIANTS SignalTruthful ArrivesAsSent
CHECK_DEADLOCK FALSE
