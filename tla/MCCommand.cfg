SPECIFICATION Spec
CONSTANTS
  Names <- MCNames
  MaxLinks = 2
  Fuel = 16
  MaxSubIndexes = 1
  MaxFaults = 2
  References <- MCReferences
  Images <- MCImages
  Scenarios <- MCScenarios
INVARIANTS
  TypeOK
  FindsFirst
  SameImage
  LoadedIsTested
  OnlyFailuresStay
  HostIsConfirmed
  VerdictAsInContainer
  NoContradictionPasses
PROPERTIES
  CommandEnds
  CommandContract
