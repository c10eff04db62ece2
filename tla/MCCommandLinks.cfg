SPECIFICATION Spec
CONSTANTS
  Names <- MCNames
  MaxLinks = 2
  Fuel = 16
  MaxSubIndexes = 1
  MaxFaults = 0
  References <- MCReferences
  Images <- MCImages
  Scenarios <- WithLinks
INVARIANTS
  ContentIsOfTheFile
