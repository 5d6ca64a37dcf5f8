\* Tame files and others, intact images and damaged ones.
SPECIFICATION FilesSpec
CONSTANTS
  Inputs <- MCInputs
  MaxItems = 7
  Wrap = 30
  Cases <- MCCases
  Images <- MCImages
  Eversions = {0, 1, 2}
INVARIANTS RingsWhole ProjectRight Downloaded
