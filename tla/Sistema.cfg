SPECIFICATION FairSpec
CONSTANTS
  Dirs = {d1, d2}
  NULL = NULL
  Recursos = {r}
  MaxPid = 2
  MaxTid = 1
  MaxSyscalls = 2
  TamMemoria = 7
  ParticionesFijas <- Fijas
  Modulo = 64
  Tamanios = {1, 2, 9}
  PidBasura = {0, 99}
  TamPrimero = 2
  ParteInicial <- Parte
  Guiones = {"proceso", "hilos", "io", "join", "mutex", "lock", "lejos", "salto", "salida"}
  Instrucciones <- Scripts
  Nada = Nada
CHECK_DEADLOCK FALSE
INVARIANTS PedidosEnProtocolo LlamadorEnExec LoPedidoExiste ContextosSinCarrera
PROPERTIES ImplementaKernel ImplementaCpu ArranqueLlega SyscallAtendida
