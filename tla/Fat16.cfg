SPECIFICATION MountSpec
CONSTANTS
  bytes_per_sector = 8
  sectors_per_cluster = 2
  reserved_sectors = 1
  FAT_count = 2
  sectors_per_FAT = 2
  root_dir_entries = 4
  DirentSize = 4
  FatEntrySize = 2
  Disk <- MCDisk
  BadSectors = {0, 1, 2, 6, 13, 16}
  CaseFold <- MCCaseFold
  Tree <- MCTree
  Root = "/"
  Names <- MCNames
  Rooms = {1, 2, 4}
  Sizes = {3, 18}
  None = None
INVARIANTS TypeOK ListsDirectory DentryAgrees InoUnique MountBalanced
PROPERTY ReadFromStart
