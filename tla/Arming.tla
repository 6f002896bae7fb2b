------------------------------- MODULE Arming -------------------------------
(***************************************************************************)
(* What the install control plane promises, without its processes, files   *)
(* and copies: one set of armed MACs, and a DHCP configuration that only   *)
(* ever moves to the one the armed set calls for.  The paragraphs of       *)
(* docs/wisp-netboot-install-design.md on arming (sections 5.4 and 6) say  *)
(* as much; NetbootControl is what the code does about it.                 *)
(***************************************************************************)
CONSTANTS
    Identity,   \* the pucks, records [eth0, eth1]
    Macs

VARIABLES
    armed,      \* the MACs armed for install
    config,     \* the pucks that the installed DHCP configuration tags
    offer       \* the pucks that the running DHCP server tags

promise == <<armed, config, offer>>

Tagged == {p \in Identity : p.eth0 \in armed \/ p.eth1 \in armed}

Init ==
    /\ armed \subseteq Macs
    /\ config = Tagged
    /\ offer = Tagged

(* The operator arms pucks. *)
Arm(ms) ==
    /\ armed' = armed \cup ms
    /\ UNCHANGED <<config, offer>>

(* The operator disarms pucks, or pucks report an install that is done. *)
Disarm(ms) ==
    /\ armed' = armed \ ms
    /\ UNCHANGED <<config, offer>>

(* The configuration is brought in line with the armed set of now. *)
Commit ==
    /\ config' = Tagged
    /\ UNCHANGED <<armed, offer>>

(* The DHCP server starts with the configuration, or fails to start. *)
Activate == offer' = config /\ UNCHANGED <<armed, config>>
Outage   == offer' = {} /\ UNCHANGED <<armed, config>>

Unattended == (\E ms \in SUBSET Macs : Disarm(ms)) \/ Commit \/ Activate \/ Outage

Next == (\E ms \in SUBSET Macs : Arm(ms)) \/ Unattended

Spec == Init /\ [][Next]_promise

(* With no operator at work the armed set can only shrink. *)
UnattendedSpec == Init /\ [][Unattended]_promise
=============================================================================
