\* A 3 by 2 array and files of up to 4 devices with up to 5 events: files
\* that fit, files whose rows spill, files that leave the array.
CONSTANTS
  Rows = 3
  Cols = 2
  MaxDevices = 4
  MaxLength = 5
SPECIFICATION Spec
INVARIANTS TypeOK FittingFileStored LastDeviceLeftOut LastWriterWins
CHECK_DEADLOCK FALSE
