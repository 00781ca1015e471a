SPECIFICATION FairSpec
CONSTANTS
  Hilos = {h1, h2}
  Largos = {0, 3}
  Offsets = {0, 5}
  MaxEnviados = 2
CHECK_DEADLOCK FALSE
INVARIANTS BloqueJusto
PROPERTIES ImplementaCanal TodoLlega
