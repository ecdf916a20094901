CONSTANTS
  j1 = j1
  j2 = j2
  j3 = j3
  Clients = {c1, c2}
  Jobs = {j1, j2, j3}
  NoJob = NoJob
  NoFile = NoFile
  Limits <- RaceKillsBenign
SPECIFICATION Spec
ACTION_CONSTRAINT InOrder
INVARIANTS AtMostOneActive OnlyDeliveredSamples RecordsAgree
PROPERTIES NeverReactivated ImplementsSlot SamplesSurvive
CHECK_DEADLOCK FALSE
