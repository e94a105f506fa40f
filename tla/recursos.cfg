SPECIFICATION Spec
CONSTANTS
  MAX_PID = 3
  Recursos = {ra, rb}
  INSTANCIAS_RECURSOS <- UnaInstancia
  GRADO_MULTIPROGRAMACION = 3
  Hilos = {h1}
  LINEAS = 3
  COMANDOS = {"INICIAR_PROCESO"}
  GRADOS = {}
  RUTAS = {"valida"}
  Nombres = {ra, rb, rx}
  MAX_INSTR = 2
  EN_ORDEN = TRUE
  INTERFACES = FALSE
INVARIANTS RecursosCoherentes InstanciasConservadas ReadyCoherente
CHECK_DEADLOCK FALSE
