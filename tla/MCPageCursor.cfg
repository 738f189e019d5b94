CONSTANTS
  Bytes <- MCBytes
  Newline = "n"
  LineBreak = "n"
  Units <- MCUnits
  Prefix <- MCPrefix
  Suffix <- MCSuffix
  Pages <- MCPages
  Unmapped = Unmapped
SPECIFICATION Spec
INVARIANTS
  MapInv
  CodeIsMapped
  TranslationsInvert
  WordsKept
  CursorKept
CHECK_DEADLOCK FALSE
