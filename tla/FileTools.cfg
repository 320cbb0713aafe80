SPECIFICATION Spec
CONSTANTS
  b1 = b1  b2 = b2  write = write  read = read  edit = edit  bash = bash
  s1 = s1  s2 = s2  f1 = f1  workspace = workspace
  Outsider = Outsider  Absent = Absent  NoVersion = NoVersion
  Batches <- MCBatches
  Batched <- MCBatched
  ExecutorOf <- MCExecutor
  Mode <- MCMode
  Key <- MCKey
  NeedsApproval = {bash}
  External = {}
  StagesMayFail = FALSE
  MaxConcurrency = 2
  SessionOf <- MCSession
  KindOf <- MCKind
  FileOf <- MCFile
  ServiceOf <- MCService
  MaxOutside = 1
INVARIANTS ModelOrder SettledMeansQuiet
PROPERTIES OverwritesAreInformed
