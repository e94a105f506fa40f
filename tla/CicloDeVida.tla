----------------------------- MODULE CicloDeVida -----------------------------
(***************************************************************************)
(* What the kernel promises about one process, seen from outside: the      *)
(* states of the enum ESTADOS and the only moves between them.  A process  *)
(* that does not exist yet is "..." (the word the kernel logs as the       *)
(* previous state of a new process).                                       *)
(***************************************************************************)
CONSTANT Pids               \* the identifiers the kernel hands out

VARIABLE estado             \* estado[p]: the state of process p

Estados == {"...", "NEW", "READY", "EXEC", "BLOCK", "EXIT"}

TypeOK == estado \in [Pids -> Estados]

Init == estado = [p \in Pids |-> "..."]

Mover(p, desde, hasta) ==
  /\ estado[p] = desde
  /\ estado' = [estado EXCEPT ![p] = hasta]

Crear(p)      == Mover(p, "...", "NEW")
Admitir(p)    == Mover(p, "NEW", "READY")
Rechazar(p)   == Mover(p, "NEW", "EXIT")      \* memory refused the program
Despachar(p)  == Mover(p, "READY", "EXEC")
Bloquear(p)   == Mover(p, "EXEC", "BLOCK")
Desbloquear(p) == Mover(p, "BLOCK", "READY")
Terminar(p)   == Mover(p, "EXEC", "EXIT")

Next == \E p \in Pids : \/ Crear(p)     \/ Admitir(p)  \/ Rechazar(p)
                        \/ Despachar(p) \/ Bloquear(p) \/ Desbloquear(p)
                        \/ Terminar(p)

Spec == Init /\ [][Next]_estado
=============================================================================
