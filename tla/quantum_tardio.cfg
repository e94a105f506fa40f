SPECIFICATION Spec
CONSTANTS
  Pids = {p1, p2}
  CONFIGURACIONES <- SoloVRR
  QUANTUM = 2
  TIEMPOS <- UnaUnidad
  Temporizadores = {t1}
  FINALIZABLES = {p1}
  BUFFER = 1
  A_TIEMPO = TRUE
  NADA = NADA
INVARIANT CpuSigue
CHECK_DEADLOCK FALSE
