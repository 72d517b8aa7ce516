SPECIFICATION Spec
CONSTANTS
    MaxDay = 2
    MaxMove = 2
    Threshold = 2
PROPERTIES
    FrozenByTodaysLoss
