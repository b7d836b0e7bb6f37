SPECIFICATION Spec
CONSTANTS
  Numerals <- MCNumerals
  Fractional <- MCFractional
  Truths <- MCTruths
  Positive <- MCPositive
  FrameSizes <- MCFrameSizes
  CommandLines <- MCCommandLines
INVARIANTS TypeOK Understands SendsWhatIsMeant Authenticates StartsSafely DividesSafely FindsPlace
