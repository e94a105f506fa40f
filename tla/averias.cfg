SPECIFICATION Spec
CONSTANTS
  Pids = {p1, p2}
  Nombres = {"g", "t"}
  Desconocidos = {"nadie"}
  TIPO <- TipoStdFs
  Pedidos <- PedidosStdFs
  MAX_PEDIDOS = 1
  MAX_CONEXIONES = 2
  DESVIOS = {{"M_EXIT", "finalizar"}, {"finalizar", "desconexion"}, {"M_EXIT", "desconexion"}, {"repetida"}}
  NADA = NADA
SYMMETRY SimetriaPids
INVARIANTS EnUnLugar VuelveServido SinFantasmas
CHECK_DEADLOCK FALSE
