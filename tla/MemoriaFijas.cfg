SPECIFICATION Spec
CONSTANTS
  Esquema = "FIJAS"
  Algoritmo = "BEST"
  TamMemoria = 6
  ParticionesFijas <- TresFijas
  Modulo = 64
  Pids = {1, 2}
  Tids = {0, 1}
  Tamanios = {1, 2}
  PidBasura = {0, 99}
INVARIANTS TypeOK UnaParticionPorProceso ContextosAislados
PROPERTY ParticionEstable
CHECK_DEADLOCK FALSE
