SPECIFICATION Spec
CONSTANTS
  Esquema = "DINAMICAS"
  Algoritmo = "FIRST"
  TamMemoria = 6
  ParticionesFijas <- SinFijas
  Modulo = 8
  Pids = {1, 2, 3}
  Tids = {}
  Tamanios = {1, 2, 3}
  PidBasura = {0}
INVARIANTS SumaConservada
PROPERTIES ParticionEstable DivisionDisjunta
CHECK_DEADLOCK FALSE
