CONSTANTS
    Archives <- OneOrTwo
    MaxRuns = 2
SPECIFICATION Spec
CHECK_DEADLOCK FALSE
INVARIANTS OldTypeOK OldFieldsKept NewFieldsZero DumpHonest SensorsAsFlown ConversionSettles
