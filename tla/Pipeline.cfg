SPECIFICATION Spec
CONSTANTS
  Sources = {a, b}
  Options <- MCOptions
  CommandLines <- MCCommandLines
  MaxInvocations = 3
SYMMETRY MCSymmetry
INVARIANTS TypeOK InstrumentedOnce ExportedIdsAreUsed MetadataOnOwnOutput
PROPERTY SupportedBuildsSucceed
\* The user stops invoking the driver at the bound.
CHECK_DEADLOCK FALSE
