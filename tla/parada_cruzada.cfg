SPECIFICATION Spec
CONSTANTS
  MAX_PID = 1
  Recursos = {}
  INSTANCIAS_RECURSOS <- UnaInstancia
  GRADO_MULTIPROGRAMACION = 1
  Hilos = {h1, h2}
  LINEAS = 4
  COMANDOS = {"INICIAR_PROCESO", "DETENER_PLANIFICACION", "INICIAR_PLANIFICACION"}
  GRADOS = {}
  RUTAS = {"valida"}
  Nombres = {}
  MAX_INSTR = 0
  EN_ORDEN = TRUE
  INTERFACES = FALSE
PROPERTY ColasDetenidas
CHECK_DEADLOCK FALSE
