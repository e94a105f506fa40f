SPECIFICATION FairSpec
CONSTANTS
  MAX_PID = 3
  Recursos = {ra}
  INSTANCIAS_RECURSOS <- UnaInstancia
  GRADO_MULTIPROGRAMACION = 3
  Hilos = {h1}
  LINEAS = 3
  COMANDOS = {"INICIAR_PROCESO"}
  GRADOS = {}
  RUTAS = {"valida"}
  Nombres = {ra}
  MAX_INSTR = 3
  EN_ORDEN = TRUE
  INTERFACES = FALSE
PROPERTY BloqueadoAtendido
CHECK_DEADLOCK FALSE
