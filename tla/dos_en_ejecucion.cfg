SPECIFICATION Spec
CONSTANTS
  MAX_PID = 2
  Recursos = {ra}
  INSTANCIAS_RECURSOS <- UnaInstancia
  GRADO_MULTIPROGRAMACION = 2
  Hilos = {h1}
  LINEAS = 2
  COMANDOS = {"INICIAR_PROCESO"}
  GRADOS = {}
  RUTAS = {"valida"}
  Nombres = {ra}
  MAX_INSTR = 1
  EN_ORDEN = TRUE
  INTERFACES = FALSE
INVARIANT UnoEnEjecucion
CHECK_DEADLOCK FALSE
