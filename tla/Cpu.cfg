SPECIFICATION FairSpec
CONSTANTS
  Hilos = {"plani_proc", "plani_thread", "mem_fijas", "crown", "mutex", "lejos", "sin_fin", "da_la_vuelta"}
  Programa <- Programas
  Parte <- Partes
  TamMemoria = 16
  Modulo = 64
  Nada = Nada
CHECK_DEADLOCK FALSE
INVARIANTS InstruccionDelPC
PROPERTIES ContextoGuardado
