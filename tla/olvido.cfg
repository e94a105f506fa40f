SPECIFICATION Spec
CONSTANTS
  Nombres = {a, b, c}
  ConExtension = {a, b}
  Datos = {1}
  BLOCK_SIZE = 1
  BLOCK_COUNT = 4
  BITS_BYTE = 4
  Tamanios = {1, 2, 5}
  Punteros = {0, 1, 15}
  PALABRA = 16
  COTA_LIBRES = 8
  DESVIOS = {{"reinicio", "olvido", "mover", "compactar"}}
  NADA = NADA
  VACIO = VACIO
INVARIANTS Disjuntos
CHECK_DEADLOCK FALSE
