SPECIFICATION FairSpec
CONSTANTS
  Dirs = {d1, d2}
  NULL = NULL
  Recursos = {r}
  MaxPid = 1
  MaxTid = 3
  MaxSyscalls = 1
  MemoriaResponde = {TRUE, FALSE}
CHECK_DEADLOCK FALSE
PROPERTY ListoSeDespacha
