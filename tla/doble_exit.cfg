SPECIFICATION Spec
CONSTANTS
  Pids = {p1, p2}
  Nombres = {"g", "t"}
  Desconocidos = {"nadie"}
  TIPO <- TipoStdFs
  Pedidos <- PedidosStdFs
  MAX_PEDIDOS = 1
  MAX_CONEXIONES = 1
  DESVIOS = {{}}
  NADA = NADA
INVARIANTS KernelSigueActivo
CHECK_DEADLOCK FALSE
