SPECIFICATION SpecJusta
CONSTANTS
  Pids = {p1, p2}
  Nombres = {"g", "t"}
  Desconocidos = {"nadie"}
  TIPO <- TipoGenStd
  Pedidos <- PedidosGenStd
  MAX_PEDIDOS = 1
  MAX_CONEXIONES = 1
  DESVIOS = {{"M_EXIT"}}
  NADA = NADA
PROPERTIES DesalojoVuelveSiempre
CHECK_DEADLOCK FALSE
