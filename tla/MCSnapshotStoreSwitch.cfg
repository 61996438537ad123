SPECIFICATION Spec
CONSTANTS
    MaxId = 2
    MaxToken = 3
    Dates = {1}
    Times = {1}
PROPERTIES SwitchedToTheSaveSeen
