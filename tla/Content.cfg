CONSTANTS
  Texts <- MCTexts
  InitialRoots <- MCInitialRoots
  NewFiles <- MCNewFiles
  MaxResponseBytes = 11
  NoContentBody <- MCNoContentBody
  CreditsBody <- MCCreditsBody
  MaxEdits = 2
SPECIFICATION Spec
INVARIANTS TypeOK OnlyRegularServed MissMeansNoFile OutcomeNamesBody AnswerIsItsParts SanitizedIsTidy
CHECK_DEADLOCK FALSE
