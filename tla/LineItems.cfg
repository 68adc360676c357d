CONSTANTS
    Amounts <- MCAmounts
    Percents <- MCPercents
    MaxLines = 2
SPECIFICATION LineSpec
INVARIANTS FormIsAccepted LinesAddUp
