SPECIFICATION Spec
CONSTANTS
  Pids = {p1, p2}
  Nombres = {"g", "t"}
  Desconocidos = {"nadie"}
  TIPO <- TipoGenStd
  Pedidos <- PedidosGenStd
  MAX_PEDIDOS = 1
  MAX_CONEXIONES = 1
  DESVIOS = {{"tipo_ajeno"}}
  NADA = NADA
INVARIANTS InterfazValida
CHECK_DEADLOCK FALSE
