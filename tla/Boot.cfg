SPECIFICATION Spec
CONSTANTS
  Documents <- MCDocuments
  Names <- MCNames
  Launches <- MCLaunches
  Disks <- MCDisks
  Edits <- MCEdits
  MaxEdits = 1
INVARIANTS
  TypeOK
  NoSilentDowngrade
  OpenGateAnnounced
  DoctorAgrees
CHECK_DEADLOCK FALSE
