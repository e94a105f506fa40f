SPECIFICATION Spec
CONSTANTS
  Pids = {p1, p2}
  CANT_FRAMES = 3
  TAM_PAGINA = 2
  CANTIDAD_ENTRADAS_TLB = 2
  ALGORITMO_TLB = "FIFO"
  Bytes = {0, 1}
  TEXTO_ERROR <- TextoError
  Operaciones = {"MOV_IN", "MOV_OUT", "COPY_STRING", "IO_READ", "IO_WRITE"}
  Direcciones = {1, 2}
  Tamanios = {1, 2}
  MAX_PAGS = 2
  MAX_INSTRUCCIONES = 4
  NADIE = NADIE
SYMMETRY SimetriaPids
INVARIANTS TypeOK TlbCoherente DireccionesVigentes EnUnMarco
PROPERTIES EscribeLoSuyo
CHECK_DEADLOCK FALSE
