SPECIFICATION ProfileSpec
CONSTANTS
  Profiles <- CharAndNamed
  NamedProfiles <- OnlyDuel
  Sparse <- OnlyDuel
  StorageFaults <- DuelReads
PROPERTY
  SaveReplacesLoaded
