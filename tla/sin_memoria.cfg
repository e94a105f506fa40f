SPECIFICATION Spec
CONSTANTS
  MAX_PID = 2
  Recursos = {}
  INSTANCIAS_RECURSOS <- UnaInstancia
  GRADO_MULTIPROGRAMACION = 2
  Hilos = {h1, h2}
  LINEAS = 1
  COMANDOS = {"INICIAR_PROCESO"}
  GRADOS = {}
  RUTAS = {"valida"}
  Nombres = {}
  MAX_INSTR = 0
  EN_ORDEN = TRUE
  INTERFACES = FALSE
INVARIANT ReadyConMemoria
CHECK_DEADLOCK FALSE
