SPECIFICATION Spec
CONSTANTS
  Units = 2
  Wrap = 4
  TailRoom = 1
  SendSizes = {1, 2}
  RecvSizes = {1}
  Fixed = 2
  Cables = {TRUE}
INVARIANTS RingsSound
