SPECIFICATION Spec
CONSTANTS
    MaxDay = 2
    MaxRows = 3
    Prices = {1, 3}
    Decisions = {"Manually_Accepted"}
    Staged <- MCStagedBuy
    Statements <- MCDateless
INVARIANT ReuploadIsIdempotent
