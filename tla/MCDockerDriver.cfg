SPECIFICATION Spec
CONSTANTS
  Files <- MCFiles
  RemovalFails = TRUE
INVARIANTS
  TypeOK
  CommandBuildsOnSetup
  OnlyAbandonedStay
  ImagesGoWithContainers
  SaveKeeps
