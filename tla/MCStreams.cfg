SPECIFICATION Spec
CONSTANTS
  NumValues = 6
  MODULO = 3
  Capacity = 2
  Bits = {0, 1}
  CalcFunction <- MCCalcFunction
  Flips <- MCFlips
  MaxFaults = 2
INVARIANTS StreamInv ComparedIsRight ResultsAgree
PROPERTIES Terminates
