SPECIFICATION Spec
CONSTANTS
  Nombres = {a, b, c}
  ConExtension = {a, b, c}
  Datos = {1}
  BLOCK_SIZE = 1
  BLOCK_COUNT = 5
  BITS_BYTE = 5
  Tamanios = {2, 3, 4}
  Punteros = {0, 1, 15}
  PALABRA = 16
  COTA_LIBRES = 5
  DESVIOS = {{"mover", "compactar", "rechazo"}}
  NADA = NADA
  VACIO = VACIO
SYMMETRY SimetriaNombres
INVARIANTS Disjuntos
CHECK_DEADLOCK FALSE
