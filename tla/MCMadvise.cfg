\* Six pages of two units; a stride of three units.
SPECIFICATION Spec
CONSTANTS
  Top = 6
  Page = 2
  Stride = 3
  SizeMax = 256
  Layouts <- MCLayouts
  Ranges <- MCRanges
  Multipliers <- MCMultipliers
INVARIANTS
  TableFits
  CoversAllButTheLast
  Released
  FaultsExplained
  ReadsFit
\* The call and its thread come to an end.
CHECK_DEADLOCK FALSE
