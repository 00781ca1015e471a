SPECIFICATION Spec
CONSTANTS
  BlockSize = 2
  BlockCount = 7
  Modulo = 64
  Tamanios = {0, 1, 2, 3, 4, 5, 16, 40}
INVARIANTS Prefijo ContenidoIntacto SinBloquesPerdidos
PROPERTIES ImplementaAsignador
