SPECIFICATION Spec
CONSTANTS
  None = None
  Day = 24
  Hour = 12
  Minute = 6
  Lifetime = 42
  Window = 18
  Interval = 4
  MaxJob = 2
  MaxFailures = 2
INVARIANTS TypeOK NeverExpires DueIsShown LabelIsClose
