-------------------------- MODULE MCPortAllocator --------------------------
(***************************************************************************)
(* The port pool on a small instance: two tunnels that prefer the same     *)
(* port of three, and a clock that outlives a reservation.                 *)
(***************************************************************************)
EXTENDS PortAllocator, TLC

CONSTANTS t1, t2

MCTunnel == {t1, t2}
MCHash == (t1 :> 1) @@ (t2 :> 4)
=============================================================================
