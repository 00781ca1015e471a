SPECIFICATION FairSpec
CONSTANTS
  Hilos = {h1, h2, h3}
  ConParte = {h1, h2}
  MaxNuevos = 2
CHECK_DEADLOCK FALSE
PROPERTY DumpRespondido
