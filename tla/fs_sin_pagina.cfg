SPECIFICATION Spec
CONSTANTS
  Pids = {p1}
  CANT_FRAMES = 2
  TAM_PAGINA = 2
  CANTIDAD_ENTRADAS_TLB = 1
  ALGORITMO_TLB = "FIFO"
  Bytes = {0}
  TEXTO_ERROR <- SinTexto
  Operaciones = {"IO_READ", "IO_WRITE"}
  Direcciones = {0, 2}
  Tamanios = {1}
  MAX_PAGS = 2
  MAX_INSTRUCCIONES = 4
  NADIE = NADIE
INVARIANTS CpuSigue
CHECK_DEADLOCK FALSE
