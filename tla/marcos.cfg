SPECIFICATION Spec
CONSTANTS
  Pids = {p1, p2, p3}
  CANT_FRAMES = 3
  MAX_PAGS = 3
  NADIE = NADIE
SYMMETRY SimetriaPids
INVARIANTS TypeOK MarcosCoherentes
PROPERTIES SinMemoriaDeVerdad MarcosCumplidos
CHECK_DEADLOCK FALSE
