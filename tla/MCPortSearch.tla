----------------------------- MODULE MCPortSearch -----------------------------
(***************************************************************************)
(* Small tables for PortSearch: every content of the ports in Varied, the  *)
(* rest all free or all in use.                                            *)
(***************************************************************************)
EXTENDS PortSearch

CONSTANT Varied

SomeTables ==
    {[q \in Ports |-> IF q \in Varied THEN f[q] ELSE rest] :
        f \in [Varied -> Status], rest \in {"free", "busy"}}

=============================================================================
