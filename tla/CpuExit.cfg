SPECIFICATION FairSpec
CONSTANTS
  Hilos = {"crown", "plani_proc"}
  Programa <- Programas
  Parte <- Partes
  TamMemoria = 16
  Modulo = 64
  Nada = Nada
CHECK_DEADLOCK FALSE
PROPERTY TodaSyscallLlega
