SPECIFICATION Spec
CONSTANTS
  SECTORS = 2
  TABLE = 2
  MEM_BLOCKS = 4
  MAX_RETRIES = 3
  Origins = {"image", "zero", "files", "wide", "long"}
  BOOT_BLOCKS = {0, 1}
  Sizes = {0, 2, 4}
  MaxFaults = 4
INVARIANTS
  FilesSurvive
  MountedWhole
  MountedIsOnDisk
PROPERTY
  BootEnds
\* A machine whose boot loader is overwritten stays off.
CHECK_DEADLOCK FALSE
