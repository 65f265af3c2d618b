\* Two deletions that race filings and a reader of pages of one; one failed call each.
SPECIFICATION Spec
CONSTANTS
  j1 = j1  j2 = j2  o1 = o1  o2 = o2
  Jobs <- TwoJobs
  Operators <- TwoOperators
  Limit = 1
  LastLetter = 3
  MaxErrors = 1
SYMMETRY SymmetricLetters
INVARIANTS
  LettersTypeOK
  PagesMissNothing
PROPERTIES
  ImplementsBox
CHECK_DEADLOCK FALSE
