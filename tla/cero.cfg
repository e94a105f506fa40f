SPECIFICATION Spec
CONSTANTS
  Pids = {p1}
  CANT_FRAMES = 2
  TAM_PAGINA = 2
  CANTIDAD_ENTRADAS_TLB = 1
  ALGORITMO_TLB = "FIFO"
  Bytes = {0, 1}
  TEXTO_ERROR <- SinTexto
  Operaciones = {"COPY_STRING"}
  Direcciones = {0}
  Tamanios = {2}
  MAX_PAGS = 2
  MAX_INSTRUCCIONES = 4
  NADIE = NADIE
PROPERTIES LecturaFiel
CHECK_DEADLOCK FALSE
