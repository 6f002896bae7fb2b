--------------------------- MODULE MCBackhaulGate ---------------------------
(***************************************************************************)
(* Small instances of BackhaulGate: two access points, a cron job on each  *)
(* of them, and hotplug runs on the first.                                 *)
(***************************************************************************)
EXTENDS BackhaulGate

CONSTANTS n1, n2, c1, c2, h1, b1

HostOf == [r \in Cron \cup Hotplug |-> IF r = c2 THEN n2 ELSE n1]
=============================================================================
