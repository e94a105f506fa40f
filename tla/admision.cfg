SPECIFICATION Spec
CONSTANTS
  MAX_PID = 4
  Recursos = {}
  INSTANCIAS_RECURSOS <- UnaInstancia
  GRADO_MULTIPROGRAMACION = 2
  Hilos = {h1, h2}
  LINEAS = 2
  COMANDOS = {"INICIAR_PROCESO"}
  GRADOS = {}
  RUTAS = {"valida", "inexistente"}
  Nombres = {}
  MAX_INSTR = 0
  EN_ORDEN = FALSE
  INTERFACES = TRUE
SYMMETRY SimetriaHilos
INVARIANTS UnSoloLugar NewCoherente
CHECK_DEADLOCK FALSE
