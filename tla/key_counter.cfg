SPECIFICATION SpecKey
CONSTANTS
  PinMax = 4
  BootMax = 2
  MaxCreds = 2
  MaxSigns = 2
PROPERTIES CounterMonotonic
