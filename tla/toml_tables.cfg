SPECIFICATION Spec
CONSTANTS
  Names <- ThreeNames
  Words <- TheirWords
  Headers <- FewHeaders
  Inlines <- FewInlines
  MaxLines = 5
INVARIANTS TypeOK ContextEstablishedIfMarksAgree RefusesRedefinitions LegalValuesKept
PROPERTIES NothingLost
CHECK_DEADLOCK FALSE
