SPECIFICATION Spec
CONSTANTS
  Word = 256
  BlockSize = 4
  DirentSize = 2
  EntryLen16 = 2
  EntryLen32 = 4
  DeviceSize = 24
  Starts = {0, 3, 14}
  Devices <- OddDevices
  NoBoot = NoBoot
  MaxReadFaults = 1
INVARIANTS TypeOK VolumeInDevice LayoutOK HintIrrelevant
