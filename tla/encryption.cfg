SPECIFICATION Spec
CONSTANTS
  KeyTexts <- MCKeyTexts
  EmptyKey <- MCEmptyKey
  Plaintexts <- MCPlaintexts
  EmptyText <- MCEmptyText
  Slots = {s1, s2}
  MaxStarts = 3
INVARIANTS
  EnabledNeverClear
  ReadBack
  
