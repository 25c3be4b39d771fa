SPECIFICATION UpgradeSpec
CONSTANT NestedIds = TRUE
PROPERTY MeaningKept
CHECK_DEADLOCK FALSE
