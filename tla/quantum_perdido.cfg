SPECIFICATION FairSpec
CONSTANTS
  Pids = {p1, p2}
  CONFIGURACIONES <- SoloVRR
  QUANTUM = 2
  TIEMPOS <- UnaUnidad
  Temporizadores = {t1}
  FINALIZABLES = {p1}
  BUFFER = 1
  A_TIEMPO = FALSE
  NADA = NADA
PROPERTY QuantumDesaloja
CHECK_DEADLOCK FALSE
