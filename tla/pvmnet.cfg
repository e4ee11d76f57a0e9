SPECIFICATION FairSpec
CONSTANTS
  Units = 1
  Wrap = 2
  TailRoom = 0
  SendSizes = {1}
  RecvSizes = {1}
  Fixed = 1
  Cables = {TRUE, FALSE}
INVARIANTS NoneAsleep InStep
PROPERTIES QueueWoken
