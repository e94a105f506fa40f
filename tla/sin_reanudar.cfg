SPECIFICATION FairSpec
CONSTANTS
  Pids = {p1, p2}
  CONFIGURACIONES <- UnaLinea
  QUANTUM = 2
  TIEMPOS <- UnaUnidad
  Temporizadores = {t1}
  FINALIZABLES = {p1}
  BUFFER = 1
  A_TIEMPO = TRUE
  NADA = NADA
PROPERTY FinalizarReanuda
CHECK_DEADLOCK FALSE
