CONSTANTS
  n1 = n1
  n2 = n2
  loose = loose
  several = several
  crashing = crashing
  star = star
  slow = slow
  unregistered = unregistered
  NoText = NoText
  Listing <- ThreePages
  Unnumbered = {loose}
  Texts = {several, crashing, star, slow, unregistered}
  Flaws <- FlawsOfTexts
  TextsOf <- TextsByNode
  PageSize = 1
  Attempts = 2
  MaxFailed = 1
  MaxRows = 3
  Changes = 1
  Faults = 1
SPECIFICATION Spec
INVARIANTS
  TypeOK
  StatusIsOfItsText
  GreenHealthIsTrue
PROPERTIES
  CatchesUp
