SPECIFICATION Spec
CONSTANTS
  Null = Null
  Keys <- MCKeys
  Lower <- MCLower
  Texts <- MCTexts
  Others <- MCOthers
INVARIANTS
  UniqueKeys
  AddBindsOneKey
  MergeOverrides
