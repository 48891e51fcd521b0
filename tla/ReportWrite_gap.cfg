\* One call that replaces a report, with nothing going wrong.
SPECIFICATION Spec
CONSTANTS
  N = 2
  Directories = {here}
  MaxWrites = 2
  MaxFaults = 0
  MaxInterrupts = 0
  MaxLosses = 0
INVARIANT IndividuallyAtomic
