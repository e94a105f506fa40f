SPECIFICATION SpecJusta
CONSTANTS
  Pids = {p1, p2, p3}
  Nombres = {"g", "t"}
  Desconocidos = {"nadie"}
  TIPO <- TipoGenStd
  Pedidos <- PedidosGenStd
  MAX_PEDIDOS = 2
  MAX_CONEXIONES = 1
  DESVIOS = {{}}
  NADA = NADA
INVARIANTS PermisoUnico
PROPERTIES TurnosCumplidos BloqueadoVuelve DesalojoVuelve
CHECK_DEADLOCK FALSE
