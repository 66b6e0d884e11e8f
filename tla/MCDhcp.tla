------------------------------- MODULE MCDhcp -------------------------------
(***************************************************************************)
(* The instance of Dhcp that TLC checks: two servers, of which one grants  *)
(* leases that end and the other leases that never do.                     *)
(***************************************************************************)
EXTENDS Dhcp

MCServers == {"a", "b"}
MCLease == [s \in MCServers |-> IF s = "a" THEN 3 ELSE Endless]
=============================================================================
