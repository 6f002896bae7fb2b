---------------------------- MODULE BackhaulGate ----------------------------
(***************************************************************************)
(* fleet-files/usr/sbin/gwifi-backhaul-gate on every access point of a     *)
(* fleet.  Each run of the script reads the verdict and the miss count of  *)
(* the run before it from $STATE, probes the wired uplink and batman-adv's *)
(* gateway list, announces or withdraws this node as a gateway, enables or *)
(* disables every client BSS and writes $STATE.  cron starts a run every   *)
(* minute and a hotplug event starts one at once; nothing keeps the two    *)
(* apart.  The gateway lists follow the other nodes' roles with a delay.   *)
(***************************************************************************)
EXTENDS Naturals, FiniteSets

CONSTANTS
    Nodes,      \* the access points
    Cron,       \* the periodic runs: busybox crond starts one job at a time
    Hotplug,    \* the runs that hotplug events start, one at a time
    Host,       \* the node a run belongs to
    Bss,        \* the client BSSes of a node, its hostapd.* ubus objects
    K,          \* GWIFI_GATE_K, consecutive misses before gating off
    MaxEvents   \* bound on what the environment does

Runs == Cron \cup Hotplug

ASSUME GateAssumption ==
    /\ Host \in [Runs -> Nodes]
    /\ K \in Nat \ {0}
    /\ MaxEvents \in Nat
    /\ Cron \cap Hotplug = {}

VARIABLES
    wired,      \* wired_reaches_gw would succeed on the node now
    island,     \* nodes with the same island hear each other's gateways
    gwl,        \* the gateways batctl gwl lists on the node
    role,       \* batctl gw of the node
    up,         \* the BSSes of the node that beacon
    file,       \* $STATE, in tmpfs: the last verdict and the miss count
    pc,         \* where a run of the script is
    seen,       \* cur and fail of the run
    plan,       \* role, serve and newfail of the run
    todo,       \* the BSSes apply_serve has still to call
    events      \* what the environment has done so far

(***************************************************************************)
(* History: the verdict of the latest evaluation since boot, how many      *)
(* evaluations in a row found no backhaul (at most K), whether runs have   *)
(* overlapped since boot, and whether anything else has touched the BSSes  *)
(* since the latest run began.                                             *)
(***************************************************************************)
VARIABLES verdict, misses, alone, calm

network == <<wired, island, gwl>>
radio   == <<role, up>>
run     == <<pc, seen, plan, todo>>
history == <<verdict, misses, alone, calm>>
gateVars == <<network, radio, file, run, events, history>>

States == [cur : {"on", "off"}, fail : 0..K]
Plans  == [role : {"server", "client"}, serve : {"on", "off"}, fail : 0..K]

Nothing == [cur |-> "off", fail |-> 0]    \* what an absent or empty $STATE reads as
Least(i, j) == IF i < j THEN i ELSE j

----------------------------------------------------------------------------
(***************************************************************************)
(* decide, and the clamp of _eval on the count it persists.                *)
(***************************************************************************)
Serve(role_) == [role |-> role_, serve |-> "on", fail |-> 0]

(* Mutants of the next definition: plausible mistakes in the code. *)
\* the grace of a run in doubt also holds after the K-th miss
Decide_LateByOne(wired_ok, gw_present, s) ==
    IF wired_ok THEN Serve("server")
    ELSE IF gw_present THEN Serve("client")
    ELSE [role |-> "client",
          serve |-> IF s.cur = "on" /\ s.fail < K THEN "on" ELSE "off",
          fail |-> Least(s.fail + 1, K)]

\* the counter is not reset by a good evaluation
Decide_KeepsCount(wired_ok, gw_present, s) ==
    IF wired_ok THEN [Serve("server") EXCEPT !.fail = s.fail]
    ELSE IF gw_present THEN [Serve("client") EXCEPT !.fail = s.fail]
    ELSE [role |-> "client",
          serve |-> IF s.cur = "on" /\ s.fail + 1 < K THEN "on" ELSE "off",
          fail |-> Least(s.fail + 1, K)]

\* a node that hears a gateway stays one itself
Decide_Lingers(wired_ok, gw_present, s) ==
    IF wired_ok \/ (gw_present /\ s.cur = "on") THEN Serve("server")
    ELSE IF gw_present THEN Serve("client")
    ELSE [role |-> "client",
          serve |-> IF s.cur = "on" /\ s.fail + 1 < K THEN "on" ELSE "off",
          fail |-> Least(s.fail + 1, K)]

\* the clamp is applied to the count before the increment
Decide_Unclamped(wired_ok, gw_present, s) ==
    IF wired_ok THEN Serve("server")
    ELSE IF gw_present THEN Serve("client")
    ELSE [role |-> "client",
          serve |-> IF s.cur = "on" /\ s.fail + 1 < K THEN "on" ELSE "off",
          fail |-> s.fail + 1]

\* the code
Decide(wired_ok, gw_present, s) ==
    LET fail == s.fail + 1
        grace == s.cur = "on" /\ fail < K
    IN  IF wired_ok THEN Serve("server")
        ELSE IF gw_present THEN Serve("client")
        ELSE [role |-> "client",
              serve |-> IF grace THEN "on" ELSE "off",
              fail |-> Least(fail, K)]

Others(r) == {q \in Runs : Host[q] = Host[r] /\ q # r /\ pc[q] # "idle"}
Idle(n) == \A r \in Runs : Host[r] = n => pc[r] = "idle"

Exits(n) == {m \in Nodes : island[m] = island[n] /\ wired[m]}
Heard(n) == {m \in Nodes \ {n} : island[m] = island[n] /\ role[m] = "server"}

GateInit ==
    /\ wired \in [Nodes -> BOOLEAN]
    /\ island = [n \in Nodes |-> CHOOSE i \in Nodes : TRUE]
    /\ gwl = [n \in Nodes |-> {}]
    /\ role = [n \in Nodes |-> "client"]
    /\ up = [n \in Nodes |-> Bss]
    /\ file = [n \in Nodes |-> Nothing]
    /\ pc = [r \in Runs |-> "idle"]
    /\ seen = [r \in Runs |-> Nothing]
    /\ plan = [r \in Runs |-> Serve("client")]
    /\ todo = [r \in Runs |-> {}]
    /\ events = 0
    /\ verdict = [n \in Nodes |-> "none"]
    /\ misses = [n \in Nodes |-> 0]
    /\ alone = [n \in Nodes |-> TRUE]
    /\ calm = [n \in Nodes |-> FALSE]

----------------------------------------------------------------------------
(***************************************************************************)
(* One run of main.                                                        *)
(***************************************************************************)
Event == events < MaxEvents /\ events' = events + 1

Start(r) ==
    LET n == Host[r] IN
    /\ pc[r] = "idle"
    /\ IF r \in Hotplug THEN Event ELSE UNCHANGED events
    /\ seen' = [seen EXCEPT ![r] = file[n]]
    /\ pc' = [pc EXCEPT ![r] = "wired"]
    /\ alone' = [alone EXCEPT ![n] = @ /\ Others(r) = {}]
    /\ calm' = [calm EXCEPT ![n] = TRUE]
    /\ UNCHANGED <<network, radio, file, plan, todo, verdict, misses>>

Conclude(r, p, miss) ==
    LET n == Host[r] IN
    /\ plan' = [plan EXCEPT ![r] = p]
    /\ pc' = [pc EXCEPT ![r] = "role"]
    /\ verdict' = [verdict EXCEPT ![n] = p.serve]
    /\ misses' = [misses EXCEPT ![n] = IF miss THEN Least(@ + 1, K) ELSE 0]
    /\ UNCHANGED <<network, radio, file, seen, todo, events, alone, calm>>

WiredReaches(r) ==
    /\ pc[r] = "wired"
    /\ wired[Host[r]]
    /\ Conclude(r, Decide(TRUE, FALSE, seen[r]), FALSE)

WiredFails(r) ==
    /\ pc[r] = "wired"
    /\ ~wired[Host[r]]
    /\ pc' = [pc EXCEPT ![r] = "mesh"]
    /\ UNCHANGED <<network, radio, file, seen, plan, todo, events, history>>

ProbeMesh(r) ==
    LET present == gwl[Host[r]] # {} IN
    /\ pc[r] = "mesh"
    /\ Conclude(r, Decide(FALSE, present, seen[r]), ~present)

(* A mutant of the next definition: a plausible mistake in the code. *)
\* a verdict that equals the one in $STATE is not actuated again
ApplyRole_OnlyChanges(r) ==
    /\ pc[r] = "role"
    /\ role' = [role EXCEPT ![Host[r]] = plan[r].role]
    /\ todo' = [todo EXCEPT ![r] =
                   IF plan[r].serve = seen[r].cur THEN {} ELSE Bss]
    /\ pc' = [pc EXCEPT ![r] = "serve"]
    /\ UNCHANGED <<network, up, file, seen, plan, events, history>>

\* the code
ApplyRole(r) ==
    /\ pc[r] = "role"
    /\ role' = [role EXCEPT ![Host[r]] = plan[r].role]
    /\ todo' = [todo EXCEPT ![r] = Bss]
    /\ pc' = [pc EXCEPT ![r] = "serve"]
    /\ UNCHANGED <<network, up, file, seen, plan, events, history>>

ApplyServe(r, b) ==
    /\ pc[r] = "serve"
    /\ b \in todo[r]
    /\ up' = [up EXCEPT ![Host[r]] =
                 IF plan[r].serve = "on" THEN @ \cup {b} ELSE @ \ {b}]
    /\ todo' = [todo EXCEPT ![r] = @ \ {b}]
    /\ UNCHANGED <<network, role, file, pc, seen, plan, events, history>>

\* The object is gone, or hostapd does not answer: the loop goes on.
ApplyServeFails(r, b) ==
    /\ pc[r] = "serve"
    /\ b \in todo[r]
    /\ Event
    /\ todo' = [todo EXCEPT ![r] = @ \ {b}]
    /\ calm' = [calm EXCEPT ![Host[r]] = FALSE]
    /\ UNCHANGED <<network, radio, file, pc, seen, plan, verdict, misses, alone>>

\* The redirection empties $STATE before printf writes it.
Truncate(r) ==
    /\ pc[r] = "serve"
    /\ todo[r] = {}
    /\ file' = [file EXCEPT ![Host[r]] = Nothing]
    /\ pc' = [pc EXCEPT ![r] = "write"]
    /\ UNCHANGED <<network, radio, seen, plan, todo, events, history>>

Persist(r) ==
    /\ pc[r] = "write"
    /\ file' = [file EXCEPT ![Host[r]] =
                   [cur |-> plan[r].serve, fail |-> plan[r].fail]]
    /\ pc' = [pc EXCEPT ![r] = "idle"]
    /\ seen' = [seen EXCEPT ![r] = Nothing]
    /\ plan' = [plan EXCEPT ![r] = Serve("client")]
    /\ UNCHANGED <<network, radio, todo, events, history>>

Step(r) ==
    \/ WiredReaches(r) \/ WiredFails(r) \/ ProbeMesh(r) \/ ApplyRole(r)
    \/ Truncate(r) \/ Persist(r)
    \/ \E b \in Bss : ApplyServe(r, b) \/ ApplyServeFails(r, b)

----------------------------------------------------------------------------
(***************************************************************************)
(* The network, batman-adv, OpenWISP and power.                            *)
(***************************************************************************)
Uplink(n) ==
    /\ Event
    /\ wired' = [wired EXCEPT ![n] = ~@]
    /\ UNCHANGED <<island, gwl, radio, file, run, history>>

Roam(n) ==
    /\ Event
    /\ \E i \in Nodes \ {island[n]} : island' = [island EXCEPT ![n] = i]
    /\ UNCHANGED <<wired, gwl, radio, file, run, history>>

Propagate(n) ==
    /\ gwl[n] # Heard(n)
    /\ gwl' = [gwl EXCEPT ![n] = Heard(n)]
    /\ UNCHANGED <<wired, island, radio, file, run, events, history>>

\* A wifi reload starts every BSS of the configuration.
Reload(n) ==
    /\ Event
    /\ up' = [up EXCEPT ![n] = Bss]
    /\ calm' = [calm EXCEPT ![n] = FALSE]
    /\ UNCHANGED <<network, role, file, run, verdict, misses, alone>>

PowerCycle(n) ==
    LET Ends(f, v) == [r \in Runs |-> IF Host[r] = n THEN v ELSE f[r]] IN
    /\ Event
    /\ role' = [role EXCEPT ![n] = "client"]
    /\ up' = [up EXCEPT ![n] = Bss]
    /\ gwl' = [gwl EXCEPT ![n] = {}]
    /\ file' = [file EXCEPT ![n] = Nothing]
    /\ pc' = Ends(pc, "idle")
    /\ seen' = Ends(seen, Nothing)
    /\ plan' = Ends(plan, Serve("client"))
    /\ todo' = Ends(todo, {})
    /\ verdict' = [verdict EXCEPT ![n] = "none"]
    /\ misses' = [misses EXCEPT ![n] = 0]
    /\ alone' = [alone EXCEPT ![n] = TRUE]
    /\ calm' = [calm EXCEPT ![n] = FALSE]
    /\ UNCHANGED <<wired, island>>

GateNext ==
    \/ \E r \in Runs : Start(r) \/ Step(r)
    \/ \E n \in Nodes :
         Uplink(n) \/ Roam(n) \/ Propagate(n) \/ Reload(n) \/ PowerCycle(n)

GateSpec == GateInit /\ [][GateNext]_gateVars

(***************************************************************************)
(* The gates if no run started while another one of its node is at work,   *)
(* as a lock would have it.  The script takes none.                        *)
(***************************************************************************)
LockedSpec ==
    GateInit /\ [][GateNext /\ \A r \in Runs : Start(r) => Others(r) = {}]_gateVars

(***************************************************************************)
(* cron comes every minute, a run that started ends, and gateway lists     *)
(* follow the roles.  Nothing makes a hotplug event happen.                *)
(***************************************************************************)
GateFairness ==
    /\ \A r \in Cron : WF_gateVars(Start(r))
    /\ \A r \in Runs : WF_gateVars(Step(r))
    /\ \A n \in Nodes : WF_gateVars(Propagate(n))

LiveGateSpec == GateSpec /\ GateFairness

----------------------------------------------------------------------------
GateTypeOK ==
    /\ wired \in [Nodes -> BOOLEAN]
    /\ island \in [Nodes -> Nodes]
    /\ gwl \in [Nodes -> SUBSET Nodes]
    /\ role \in [Nodes -> {"server", "client"}]
    /\ up \in [Nodes -> SUBSET Bss]
    /\ file \in [Nodes -> States]
    /\ pc \in [Runs -> {"idle", "wired", "mesh", "role", "serve", "write"}]
    /\ seen \in [Runs -> States]
    /\ plan \in [Runs -> Plans]
    /\ todo \in [Runs -> SUBSET Bss]
    /\ events \in 0..MaxEvents
    /\ verdict \in [Nodes -> {"none", "on", "off"}]
    /\ misses \in [Nodes -> 0..K]
    /\ alone \in [Nodes -> BOOLEAN]
    /\ calm \in [Nodes -> BOOLEAN]

(***************************************************************************)
(* Between runs that never overlapped, and with nothing else touching the  *)
(* BSSes, K evaluations without backhaul have silenced every BSS of the    *)
(* node, and one evaluation with backhaul has every BSS beaconing: the     *)
(* counter in $STATE counts the evaluations.                               *)
(***************************************************************************)
GatedInTime ==
    \A n \in Nodes :
        Idle(n) /\ alone[n] /\ calm[n] =>
            /\ misses[n] = K => up[n] = {}
            /\ misses[n] = 0 => up[n] = Bss

(***************************************************************************)
(* The verdict goes from on to off only on the K-th evaluation in a row    *)
(* that finds no backhaul, whichever runs made them.                       *)
(***************************************************************************)
GateOffAfterK ==
    [][\A n \in Nodes :
          verdict[n] = "on" /\ verdict'[n] = "off" => misses'[n] = K]_gateVars

(***************************************************************************)
(* The same as long as no two runs of the node have overlapped since boot. *)
(***************************************************************************)
AloneGatesOffAfterK ==
    [][\A n \in Nodes :
          alone[n] /\ verdict[n] = "on" /\ verdict'[n] = "off"
              => misses'[n] = K]_gateVars

(***************************************************************************)
(* A node that no exit can reach any more goes silent and withdraws as a   *)
(* gateway for good: servers that have lost their uplink do not keep each  *)
(* other, or the rest of the island, serving.                              *)
(***************************************************************************)
IslandedGoesSilent ==
    \A n \in Nodes :
        <>[](Exits(n) = {}) => <>[](up[n] = {} /\ role[n] = "client")

(***************************************************************************)
(* A node whose island has a wired exit for good ends up serving for good, *)
(* whatever overlapping runs, reloads and restarts have done to it.        *)
(***************************************************************************)
ReachableServes ==
    \A n \in Nodes :
        <>[](Exits(n) # {}) => <>[](up[n] = Bss)

=============================================================================
