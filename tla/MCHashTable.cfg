SPECIFICATION Spec
CONSTANTS
  TableSize = 1
  Keys <- MCKeys
  ValuesOf <- MCValuesOf
  Stray = {r1}
  StrayKeys <- MCStrayKeys
  None = none
  a = a
  b = b
INVARIANTS WellFormed NoNestedReorganisation StrayReadsRight
PROPERTY IsMap
