----------------------------- MODULE MCInterfaces -----------------------------
(* Values for the constants of Interfaces.                                 *)
EXTENDS PropiedadesInterfaces, TLC

TipoGenStd   == [g |-> "T_IO_GEN", t |-> "T_IO_STDIN"]
TipoStdFs    == [g |-> "T_IO_STDOUT", t |-> "T_IO_DIALFS"]

PedidosGenStd == {<<"IO_GEN_SLEEP", "g">>, <<"IO_STDIN_READ", "t">>,
                  <<"IO_GEN_SLEEP", "t">>, <<"IO_STDIN_READ", "nadie">>}
PedidosStdFs  == {<<"IO_STDOUT_WRITE", "g">>, <<"IO_FS", "t">>, <<"IO_FS_RW", "t">>,
                  <<"IO_FS", "g">>}

SimetriaPids == Permutations(Pids)
=============================================================================
