SPECIFICATION Spec
CONSTANTS
  Numerals <- MCNumerals
  Fractional <- MCFractional
  Truths <- MCTruths
  Positive <- MCPositive
  FrameSizes <- MCFrameSizes
  CommandLines <- ItemLines
INVARIANT ListItemsWhole
