SPECIFICATION Spec
CONSTANTS
  Ports = {p1}
  Values = {0, 6}
  Rates = {9600}
  Unset <- MCUnset
INVARIANTS
  AlwaysReadable
  OnlyFailedOptionsDiffer
PROPERTIES
  UntouchedOptions
