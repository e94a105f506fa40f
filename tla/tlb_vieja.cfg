SPECIFICATION Spec
CONSTANTS
  Pids = {p1}
  CANT_FRAMES = 2
  TAM_PAGINA = 1
  CANTIDAD_ENTRADAS_TLB = 1
  ALGORITMO_TLB = "FIFO"
  Bytes = {0}
  TEXTO_ERROR <- SinTexto
  Operaciones = {"MOV_OUT"}
  Direcciones = {0, 1}
  Tamanios = {1}
  MAX_PAGS = 2
  MAX_INSTRUCCIONES = 6
  NADIE = NADIE
PROPERTIES PaginaInexistenteFalla
CHECK_DEADLOCK FALSE
