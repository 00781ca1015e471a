SPECIFICATION FairSpec
CONSTANTS
  MaxArranques = 2
CHECK_DEADLOCK FALSE
INVARIANTS CadaUnoPorQuienEs MismoKernel SoloInterruptRechaza
PROPERTIES ArrancaOSeCorta CaenTodos
