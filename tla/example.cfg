SPECIFICATION FairSpec
CONSTANTS
  Kind = "student_ss_example"
  Addr = {0, 4, 8}
  Data = {0, 1, 3}
  Threshold = 4
  Workload <- GpioAccesses
INVARIANTS TypeOK CountBounded PinsFollowManager ReadsInputs
PROPERTIES IrqPulse InterruptsKeepComing
