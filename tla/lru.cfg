SPECIFICATION Spec
CONSTANTS
  Pids = {p1, p2}
  CANT_FRAMES = 4
  TAM_PAGINA = 1
  CANTIDAD_ENTRADAS_TLB = 3
  ALGORITMO_TLB = "LRU"
  Bytes = {0}
  TEXTO_ERROR <- SinTexto
  Operaciones = {"MOV_OUT", "IO_READ"}
  Direcciones = {0, 1, 2}
  Tamanios = {1, 2}
  MAX_PAGS = 3
  MAX_INSTRUCCIONES = 6
  NADIE = NADIE
SYMMETRY SimetriaPids
PROPERTIES VictimaMasVieja
CHECK_DEADLOCK FALSE
