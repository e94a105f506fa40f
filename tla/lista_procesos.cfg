SPECIFICATION Spec
CONSTANTS
  Pids = {p1, p2}
  CANT_FRAMES = 1
  MAX_PAGS = 0
  NADIE = NADIE
INVARIANT InstruccionDevuelta
CHECK_DEADLOCK FALSE
