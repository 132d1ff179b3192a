SPECIFICATION Spec
CONSTANTS
  Records <- MCRecords
  LockSet <- MCLockSet
  Async = {"S"}
  Passive = {"A", "B", "S"}
  Disabled = {"X"}
  Denied = {"D"}
  HighLimit = 2
  Infos <- MCInfos
  NameOrder <- MCNameOrder
  Files <- MCFiles
  PutValue = 7
  SingleValue = 7
  InfoDocs <- MCInfoDocs
  FileDocs <- MCFileDocs
  Budgets <- MCBudgets
INVARIANTS
  AtomicSeenWhole
  PutReplied
  FirstIsWhole
PROPERTIES
  GroupsAgree
  ViewSettles
CHECK_DEADLOCK FALSE
