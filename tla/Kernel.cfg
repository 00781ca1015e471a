SPECIFICATION Spec
CONSTANTS
  Dirs = {d1, d2, d3}
  NULL = NULL
  Recursos = {r}
  MaxPid = 2
  MaxTid = 3
  MaxSyscalls = 5
  MemoriaResponde = {TRUE, FALSE}
SYMMETRY Simetria
INVARIANTS TidsUnicos MutexCoherente BloqueadoEnLista SinCarreras ArranqueVivo MutexNoSeAgota
CHECK_DEADLOCK FALSE
