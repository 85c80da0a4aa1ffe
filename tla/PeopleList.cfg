CONSTANTS
  MaxNodes = 4
  Fields = {LASTNAME}
  Keys = {1, 2}
  NoField = none
SPECIFICATION ListSpec
PROPERTY ImplementsRoster
CHECK_DEADLOCK FALSE
