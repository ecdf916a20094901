CONSTANTS
  j1 = j1
  j2 = j2
  j3 = j3
  Clients = {c1}
  Jobs = {j1, j2}
  NoJob = NoJob
  NoFile = NoFile
  Limits <- OneCancel
SPECIFICATION Spec
INVARIANT ExtensionIsAtomic
CHECK_DEADLOCK FALSE
