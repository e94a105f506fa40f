SPECIFICATION FairSpec
CONSTANTS
  Pids = {p1, p2}
  CONFIGURACIONES <- RRyVRR
  QUANTUM = 2
  TIEMPOS <- UnaUnidad
  Temporizadores = {t1}
  FINALIZABLES = {p1}
  BUFFER = 1
  A_TIEMPO = TRUE
  NADA = NADA
INVARIANTS TypeOK UnTurnoPorVez
PROPERTIES QuantumDesaloja TurnoParaTodos ConsolaVuelve
CHECK_DEADLOCK FALSE
