SPECIFICATION FairSpec
CONSTANTS
  MAX_PID = 2
  Recursos = {ra}
  INSTANCIAS_RECURSOS <- DosInstancias
  GRADO_MULTIPROGRAMACION = 1
  Hilos = {h1}
  LINEAS = 4
  COMANDOS = {"INICIAR_PROCESO", "DETENER_PLANIFICACION", "INICIAR_PLANIFICACION", "MULTIPROGRAMACION"}
  GRADOS = {1, 2}
  RUTAS = {"valida"}
  Nombres = {ra}
  MAX_INSTR = 2
  EN_ORDEN = TRUE
  INTERFACES = FALSE
INVARIANTS TypeOK CuposConservados ReadyConMemoria SoloAbortaPorDobleFree
PROPERTIES ColasDetenidas CicloDeVidaCumplido ReadyAtendido DetenerTermina
CHECK_DEADLOCK FALSE
