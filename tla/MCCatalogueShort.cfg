CONSTANTS
  Symbols = {A, B}
  Builtin = {}
  Registered = {B}
  Dates = {1, 2}
  Strikes = {1, 2, 3}
  Responses = {{1, 2}, {2, 3}}
  SpotMax = 2
  BlockSize = 2
  Callers = {a1}
  Purges = {TRUE}
  Freedoms = {"short_response"}
  MaxCalls = 3
  MaxAnswers = 2
  MaxCrashes = 1
SPECIFICATION Spec
CHECK_DEADLOCK FALSE
PROPERTIES KnownStaysKnown
