------------------------- MODULE BackhaulGate_proof -------------------------
(* Proofs about the backhaul gate, for any number of nodes, runs and BSSes   *)
(* and any K.                                                                *)
EXTENDS BackhaulGate, TLAPS

-----------------------------------------------------------------------------
(* The inductive invariant. *)

(* s says what the evaluations so far came to.                               *)
Knows(n, s) ==
    /\ s.fail = misses[n]
    /\ s.cur = IF verdict[n] = "none" THEN "off" ELSE verdict[n]

(* While no runs of the node have overlapped, the one that is at work, or    *)
(* else $STATE, knows the latest verdict and how many misses led to it.      *)
Counts(n) ==
    /\ \A q, r \in Runs :
          Host[q] = n /\ Host[r] = n /\ pc[q] # "idle" /\ pc[r] # "idle" => q = r
    /\ Idle(n) => Knows(n, file[n])
    /\ \A r \in Runs : Host[r] = n =>
          /\ pc[r] \in {"wired", "mesh"} => Knows(n, seen[r])
          /\ pc[r] \in {"role", "serve", "write"} =>
                verdict[n] = plan[r].serve /\ misses[n] = plan[r].fail
    /\ misses[n] = K => verdict[n] = "off"
    /\ misses[n] = 0 => verdict[n] # "off"

(* The BSSes that a run has called beacon or not as it has decided.          *)
Obeys(n) ==
    /\ Idle(n) => /\ verdict[n] # "none"
                  /\ verdict[n] = "off" => up[n] = {}
                  /\ verdict[n] = "on" => up[n] = Bss
    /\ \A r \in Runs : Host[r] = n =>
          /\ pc[r] = "serve" => /\ plan[r].serve = "off" => up[n] \subseteq todo[r]
                                /\ plan[r].serve = "on" => Bss \ todo[r] \subseteq up[n]
          /\ pc[r] = "write" => /\ plan[r].serve = "off" => up[n] = {}
                                /\ plan[r].serve = "on" => up[n] = Bss

Sequential == \A n \in Nodes : alone[n] => Counts(n)
Actuated == \A n \in Nodes : alone[n] /\ calm[n] => Obeys(n)

GateInv == GateTypeOK /\ Sequential /\ Actuated
-----------------------------------------------------------------------------
(* Type correctness *)

(* The constants, one by one.                                                *)
LEMMA GateConstants ==
    /\ \A r \in Runs : Host[r] \in Nodes
    /\ K \in Nat /\ K >= 1 /\ 0 \in 0..K
    /\ MaxEvents \in Nat
<1>1. K \in Nat /\ K # 0 /\ MaxEvents \in Nat
  BY GateAssumption
<1>2. K >= 1 /\ 0 \in 0..K
  BY <1>1
<1>3. \A r \in Runs : Host[r] \in Nodes
  BY GateAssumption
<1> QED
  BY <1>1, <1>2, <1>3

(* A count that goes up is clamped to K.                                     *)
LEMMA LeastType ==
    ASSUME NEW i \in 0..K
    PROVE  /\ Least(i + 1, K) \in 0..K /\ Least(i + 1, K) # 0
           /\ Least(i + 1, K) = K <=> i + 1 >= K
<1>1. i \in Nat /\ K \in Nat /\ K >= 1
  BY GateConstants
<1> QED
  BY <1>1 DEF Least

(* What decide makes of a state.                                             *)
LEMMA DecideFacts ==
    ASSUME NEW w \in BOOLEAN, NEW g \in BOOLEAN, NEW s \in States
    PROVE  /\ Decide(w, g, s) \in Plans
           /\ w \/ g => Decide(w, g, s).serve = "on" /\ Decide(w, g, s).fail = 0
           /\ ~w /\ ~g =>
                /\ Decide(w, g, s).fail = Least(s.fail + 1, K)
                /\ Decide(w, g, s).serve = IF s.cur = "on" /\ s.fail + 1 < K THEN "on" ELSE "off"
<1>1. s.fail \in 0..K /\ Least(s.fail + 1, K) \in 0..K /\ 0 \in 0..K
  BY LeastType, GateConstants DEF States
<1> QED
  BY <1>1 DEF Decide, Serve, Plans

(* The empty $STATE and the plan of a run that has none.                     *)
LEMMA BlankFacts ==
    Nothing \in States /\ Serve("client") \in Plans
  BY GateConstants DEF Nothing, States, Serve, Plans

(* What the environment does is counted up to the bound.                     *)
LEMMA EventType ==
    ASSUME events \in 0..MaxEvents, Event PROVE events' \in 0..MaxEvents
<1>1. MaxEvents \in Nat
  BY GateConstants
<1> QED
  BY <1>1 DEF Event

(* A verdict that is concluded has its types.                                *)
LEMMA ConcludeType ==
    ASSUME GateTypeOK, NEW r \in Runs, NEW p \in Plans, NEW miss \in BOOLEAN, Conclude(r, p, miss)
    PROVE  GateTypeOK'
<1>1. Host[r] \in Nodes
  BY GateConstants
<1>2. misses' \in [Nodes -> 0..K]
  <2>1. misses[Host[r]] \in 0..K
    BY <1>1 DEF GateTypeOK
  <2>2. (IF miss THEN Least(misses[Host[r]] + 1, K) ELSE 0) \in 0..K
    BY <2>1, LeastType, GateConstants
  <2> QED
    BY <1>1, <2>2 DEF GateTypeOK, Conclude
<1>3. verdict' \in [Nodes -> {"none", "on", "off"}] /\ plan' \in [Runs -> Plans]
  BY <1>1 DEF GateTypeOK, Conclude, Plans
<1>4. pc' \in [Runs -> {"idle", "wired", "mesh", "role", "serve", "write"}]
  BY DEF GateTypeOK, Conclude
<1> QED
  BY <1>2, <1>3, <1>4 DEF GateTypeOK, Conclude, network, radio

(* The types are kept by every step.                                         *)
LEMMA GateTypeStep ==
    ASSUME GateTypeOK, [GateNext]_gateVars
    PROVE  GateTypeOK'
<1>0. events \in 0..MaxEvents /\ (Event => events' \in 0..MaxEvents)
  BY EventType DEF GateTypeOK
<1> USE BlankFacts DEF GateTypeOK, network, radio, run, history
<1>1. ASSUME NEW r \in Runs, Start(r) PROVE GateTypeOK'
  <2>1. Host[r] \in Nodes /\ events' \in 0..MaxEvents
    BY <1>0, <1>1, GateConstants DEF Start
  <2>2. seen' \in [Runs -> States]
    BY <1>1, <2>1 DEF Start
  <2>3. alone' \in [Nodes -> BOOLEAN] /\ calm' \in [Nodes -> BOOLEAN]
    BY <1>1, <2>1 DEF Start
  <2> QED
    BY <1>1, <2>1, <2>2, <2>3 DEF Start
<1>2. ASSUME NEW r \in Runs, WiredReaches(r) \/ ProbeMesh(r) PROVE GateTypeOK'
  <2>1. seen[r] \in States
    OBVIOUS
  <2>2. \A w, g \in BOOLEAN : Decide(w, g, seen[r]) \in Plans
    BY <2>1, DecideFacts
  <2>3. (gwl[Host[r]] # {}) \in BOOLEAN
    OBVIOUS
  <2> QED
    BY <1>2, <2>2, <2>3, ConcludeType DEF WiredReaches, ProbeMesh
<1>3. ASSUME NEW r \in Runs, WiredFails(r) PROVE GateTypeOK'
  BY <1>3 DEF WiredFails
<1>4. ASSUME NEW r \in Runs, ApplyRole(r) PROVE GateTypeOK'
  <2>1. role' \in [Nodes -> {"server", "client"}]
    BY <1>4, GateConstants DEF ApplyRole, Plans
  <2> QED
    BY <1>4, <2>1 DEF ApplyRole
<1>5. ASSUME NEW r \in Runs, NEW b \in Bss, ApplyServe(r, b) PROVE GateTypeOK'
  <2>1. up' \in [Nodes -> SUBSET Bss]
    BY <1>5, GateConstants DEF ApplyServe
  <2> QED
    BY <1>5, <2>1 DEF ApplyServe
<1>6. ASSUME NEW r \in Runs, NEW b \in Bss, ApplyServeFails(r, b) PROVE GateTypeOK'
  <2>1. calm' \in [Nodes -> BOOLEAN]
    BY <1>6, GateConstants DEF ApplyServeFails
  <2> QED
    BY <1>0, <1>6, <2>1 DEF ApplyServeFails
<1>7. ASSUME NEW r \in Runs, Truncate(r) PROVE GateTypeOK'
  BY <1>7, GateConstants DEF Truncate
<1>8. ASSUME NEW r \in Runs, Persist(r) PROVE GateTypeOK'
  <2>1. [cur |-> plan[r].serve, fail |-> plan[r].fail] \in States
    BY DEF Plans, States
  <2>2. file' \in [Nodes -> States]
    BY <1>8, <2>1, GateConstants DEF Persist
  <2> QED
    BY <1>8, <2>2 DEF Persist
<1>9. ASSUME NEW n \in Nodes, Uplink(n) \/ Roam(n) \/ Propagate(n) PROVE GateTypeOK'
  <2>1. CASE Uplink(n)
    <3>1. wired' \in [Nodes -> BOOLEAN]
      BY <2>1 DEF Uplink
    <3> QED
      BY <1>0, <2>1, <3>1 DEF Uplink
  <2>2. CASE Roam(n)
    BY <1>0, <2>2 DEF Roam
  <2>3. CASE Propagate(n)
    BY <1>0, <2>3 DEF Propagate, Heard
  <2> QED
    BY <1>9, <2>1, <2>2, <2>3
<1>10. ASSUME NEW n \in Nodes, Reload(n) PROVE GateTypeOK'
  BY <1>0, <1>10 DEF Reload
<1>11. ASSUME NEW n \in Nodes, PowerCycle(n) PROVE GateTypeOK'
  <2>1. misses' \in [Nodes -> 0..K]
    BY <1>11, GateConstants DEF PowerCycle
  <2>2. /\ pc' \in [Runs -> {"idle", "wired", "mesh", "role", "serve", "write"}]
        /\ seen' \in [Runs -> States] /\ plan' \in [Runs -> Plans] /\ todo' \in [Runs -> SUBSET Bss]
    BY <1>11 DEF PowerCycle
  <2> QED
    BY <1>0, <1>11, <2>1, <2>2 DEF PowerCycle
<1>12. CASE UNCHANGED gateVars
  BY <1>12 DEF gateVars
<1> QED
  BY <1>1, <1>2, <1>3, <1>4, <1>5, <1>6, <1>7, <1>8, <1>9, <1>10, <1>11, <1>12 DEF GateNext, Step
-----------------------------------------------------------------------------
(* The count *)

(* What is known of a node does not change while its state does not.         *)
LEMMA CountsSame ==
    ASSUME NEW n \in Nodes, Counts(n), verdict'[n] = verdict[n], misses'[n] = misses[n],
           file'[n] = file[n],
           \A r \in Runs : Host[r] = n => pc'[r] = pc[r] /\ seen'[r] = seen[r] /\ plan'[r] = plan[r]
    PROVE  Counts(n)'
  BY DEF Counts, Knows, Idle

(* A run that moves leaves the runs and the records of other nodes alone.    *)
LEMMA OnlyItsNode ==
    ASSUME GateTypeOK, NEW r \in Runs, Start(r) \/ Step(r), NEW n \in Nodes, n # Host[r]
    PROVE  /\ verdict'[n] = verdict[n] /\ misses'[n] = misses[n] /\ file'[n] = file[n]
           /\ alone'[n] = alone[n] /\ calm'[n] = calm[n] /\ up'[n] = up[n]
           /\ \A q \in Runs : Host[q] = n => /\ pc'[q] = pc[q] /\ seen'[q] = seen[q]
                                             /\ plan'[q] = plan[q] /\ todo'[q] = todo[q]
<1>0. Host[r] \in Nodes /\ \A q \in Runs : Host[q] = n => q # r
  BY GateConstants
<1> USE <1>0 DEF GateTypeOK, network, radio, history
<1>1. CASE Start(r)
  BY <1>1 DEF Start
<1>2. ASSUME NEW p, NEW miss, Conclude(r, p, miss)
      PROVE  /\ verdict'[n] = verdict[n] /\ misses'[n] = misses[n] /\ file'[n] = file[n]
             /\ alone'[n] = alone[n] /\ calm'[n] = calm[n] /\ up'[n] = up[n]
             /\ \A q \in Runs : Host[q] = n => /\ pc'[q] = pc[q] /\ seen'[q] = seen[q]
                                               /\ plan'[q] = plan[q] /\ todo'[q] = todo[q]
  BY <1>2 DEF Conclude
<1>3. CASE WiredReaches(r) \/ ProbeMesh(r)
  BY <1>2, <1>3 DEF WiredReaches, ProbeMesh
<1>4. CASE WiredFails(r) \/ ApplyRole(r) \/ Truncate(r)
  BY <1>4 DEF WiredFails, ApplyRole, Truncate
<1>5. CASE Persist(r)
  BY <1>5 DEF Persist
<1>6. ASSUME NEW b \in Bss, ApplyServe(r, b) \/ ApplyServeFails(r, b)
      PROVE  /\ verdict'[n] = verdict[n] /\ misses'[n] = misses[n] /\ file'[n] = file[n]
             /\ alone'[n] = alone[n] /\ calm'[n] = calm[n] /\ up'[n] = up[n]
             /\ \A q \in Runs : Host[q] = n => /\ pc'[q] = pc[q] /\ seen'[q] = seen[q]
                                               /\ plan'[q] = plan[q] /\ todo'[q] = todo[q]
  BY <1>6 DEF ApplyServe, ApplyServeFails
<1> QED
  BY <1>1, <1>3, <1>4, <1>5, <1>6 DEF Step

(* Two runs of a node at once are an overlap.                                *)
LEMMA AloneStarts ==
    ASSUME GateTypeOK, NEW r \in Runs, Start(r), alone'[Host[r]]
    PROVE  alone[Host[r]] /\ Idle(Host[r])
<1>1. Host[r] \in Nodes
  BY GateConstants
<1>2. alone'[Host[r]] = (alone[Host[r]] /\ Others(r) = {})
  BY <1>1 DEF Start, GateTypeOK
<1>3. alone[Host[r]] /\ Others(r) = {}
  BY <1>2, Zenon
<1>4. \A q \in Runs : Host[q] = Host[r] /\ q # r => pc[q] = "idle"
  BY <1>3 DEF Others
<1> QED
  BY <1>3, <1>4 DEF Start, Idle

(* The evaluation of a run that knows the count keeps it.                    *)
LEMMA ConcludeCounts ==
    ASSUME GateTypeOK, NEW r \in Runs, Counts(Host[r]), pc[r] \in {"wired", "mesh"},
           NEW w \in BOOLEAN, NEW g \in BOOLEAN, NEW miss \in BOOLEAN, miss <=> (~w /\ ~g),
           Conclude(r, Decide(w, g, seen[r]), miss)
    PROVE  /\ Counts(Host[r])'
           /\ verdict[Host[r]] = "on" /\ verdict'[Host[r]] = "off" => misses'[Host[r]] = K
<1> DEFINE n == Host[r]
           p == Decide(w, g, seen[r])
<1>1. n \in Nodes /\ seen[r] \in States /\ misses[n] \in 0..K /\ K \in Nat /\ K >= 1
  BY GateConstants DEF GateTypeOK
<1>2. Knows(n, seen[r])
  BY DEF Counts
<1>3. /\ p \in Plans
      /\ ~miss => p.serve = "on" /\ p.fail = 0
      /\ miss => /\ p.fail = Least(seen[r].fail + 1, K)
                 /\ p.serve = IF seen[r].cur = "on" /\ seen[r].fail + 1 < K THEN "on" ELSE "off"
  BY <1>1, DecideFacts
<1>4. /\ plan'[r] = p /\ pc'[r] = "role" /\ verdict'[n] = p.serve
      /\ misses'[n] = IF miss THEN Least(misses[n] + 1, K) ELSE 0
  BY <1>1 DEF Conclude, GateTypeOK
<1>5. \A q \in Runs : q # r => pc'[q] = pc[q]
  BY DEF Conclude, GateTypeOK
<1> HIDE DEF n, p
<1>6. misses'[n] = p.fail
  BY <1>2, <1>3, <1>4 DEF Knows
<1>7. misses'[n] = K => p.serve = "off"
  <2>1. CASE miss
    <3>1. Least(misses[n] + 1, K) = K <=> misses[n] + 1 >= K
      BY <1>1, LeastType
    <3>2. misses[n] \in Nat /\ seen[r].fail = misses[n]
      BY <1>1, <1>2 DEF Knows
    <3> QED
      BY <1>1, <1>3, <1>4, <2>1, <3>1, <3>2
  <2>2. CASE ~miss
    BY <1>1, <1>4, <2>2
  <2> QED
    BY <2>1, <2>2
<1>8. misses'[n] = 0 => p.serve = "on"
  BY <1>1, <1>3, <1>4, LeastType
<1>9. verdict[n] = "on" /\ p.serve = "off" => misses'[n] = K
  <2>1. ASSUME verdict[n] = "on", p.serve = "off" PROVE misses'[n] = K
    <3>1. miss /\ seen[r].cur = "on" /\ seen[r].fail = misses[n]
      BY <1>2, <1>3, <2>1 DEF Knows
    <3>2. ~(misses[n] + 1 < K)
      BY <1>3, <2>1, <3>1
    <3>3. misses[n] \in Nat
      BY <1>1
    <3> QED
      BY <1>1, <1>4, <3>1, <3>2, <3>3, LeastType
  <2> QED
    BY <2>1
<1>10. \A q \in Runs : Host[q] = n /\ pc[q] # "idle" => q = r
  BY DEF Counts, n
<1>11. /\ \A q, s \in Runs :
             Host[q] = n /\ Host[s] = n /\ pc'[q] # "idle" /\ pc'[s] # "idle" => q = s
       /\ ~Idle(n)'
  BY <1>4, <1>5, <1>10 DEF Idle, n
<1>12. \A q \in Runs : Host[q] = n => q = r \/ pc'[q] = "idle"
  BY <1>5, <1>10
<1>13. Counts(n)'
  BY <1>4, <1>6, <1>7, <1>8, <1>11, <1>12 DEF Counts
<1> QED
  BY <1>4, <1>9, <1>13 DEF n

(* What the network and the power of other nodes do leaves a node alone.     *)
LEMMA EnvironmentEffect ==
    ASSUME GateTypeOK, NEW m \in Nodes, NEW n \in Nodes,
           \/ Uplink(m) \/ Roam(m) \/ Propagate(m)
           \/ Reload(m)
           \/ PowerCycle(m) /\ m # n
    PROVE  /\ verdict'[n] = verdict[n] /\ misses'[n] = misses[n] /\ file'[n] = file[n]
           /\ alone'[n] = alone[n]
           /\ (calm'[n] = calm[n] /\ up'[n] = up[n]) \/ ~calm'[n]
           /\ \A q \in Runs : Host[q] = n => /\ pc'[q] = pc[q] /\ seen'[q] = seen[q]
                                             /\ plan'[q] = plan[q] /\ todo'[q] = todo[q]
<1> USE DEF GateTypeOK, network, radio, run, history
<1>1. CASE Uplink(m) \/ Roam(m) \/ Propagate(m)
  BY <1>1 DEF Uplink, Roam, Propagate
<1>2. CASE Reload(m)
  BY <1>2 DEF Reload
<1>3. CASE PowerCycle(m) /\ m # n
  BY <1>3 DEF PowerCycle
<1> QED
  BY <1>1, <1>2, <1>3

(* A power cycle forgets everything, and so does the count.                  *)
LEMMA PowerCycleCounts ==
    ASSUME GateTypeOK, NEW n \in Nodes, PowerCycle(n)
    PROVE  Counts(n)' /\ ~calm'[n]
<1>1. /\ verdict'[n] = "none" /\ misses'[n] = 0 /\ file'[n] = Nothing /\ calm'[n] = FALSE
      /\ \A r \in Runs : Host[r] = n => pc'[r] = "idle"
  BY DEF PowerCycle, GateTypeOK
<1>2. K # 0
  BY GateConstants
<1> QED
  BY <1>1, <1>2 DEF Counts, Knows, Nothing

(* As long as no runs of a node overlap, $STATE counts its evaluations.      *)
LEMMA SequentialStep ==
    ASSUME GateTypeOK, Sequential, [GateNext]_gateVars
    PROVE  Sequential'
<1> SUFFICES ASSUME NEW n \in Nodes, alone'[n] PROVE Counts(n)'
  BY DEF Sequential
<1> USE DEF network, radio, history
<1>1. ASSUME NEW r \in Runs, Start(r) \/ Step(r), Host[r] # n PROVE Counts(n)'
  BY <1>1, OnlyItsNode, CountsSame DEF Sequential
<1>2. ASSUME NEW r \in Runs, Start(r), Host[r] = n PROVE Counts(n)'
  <2>1. alone[n] /\ Idle(n)
    BY <1>2, AloneStarts
  <2>2. Counts(n) /\ Knows(n, file[n])
    BY <2>1 DEF Sequential, Counts
  <2>3. /\ pc'[r] = "wired" /\ seen'[r] = file[n]
        /\ \A q \in Runs : q # r => pc'[q] = pc[q]
        /\ verdict' = verdict /\ misses' = misses
    BY <1>2 DEF Start, GateTypeOK
  <2>4. \A q \in Runs : Host[q] = n => q = r \/ pc'[q] = "idle"
    BY <2>1, <2>3 DEF Idle
  <2>5. Knows(n, seen[r])'
    BY <2>2, <2>3 DEF Knows
  <2>6. ~Idle(n)'
    BY <1>2, <2>3 DEF Idle
  <2> QED
    BY <2>2, <2>3, <2>4, <2>5, <2>6 DEF Counts
<1>3. ASSUME NEW r \in Runs, Step(r), Host[r] = n PROVE Counts(n)'
  <2>1. pc[r] # "idle" /\ alone' = alone
    BY <1>3 DEF Step, WiredReaches, WiredFails, ProbeMesh, Conclude, ApplyRole, Truncate, Persist,
                ApplyServe, ApplyServeFails
  <2>2. Counts(n) /\ alone[n]
    BY <2>1 DEF Sequential
  <2>3. \A q \in Runs : Host[q] = n => q = r \/ pc[q] = "idle"
    BY <1>3, <2>1, <2>2 DEF Counts
  <2>4. CASE WiredReaches(r)
    BY <1>3, <2>2, <2>4, ConcludeCounts DEF WiredReaches
  <2>5. CASE ProbeMesh(r)
    <3>1. (gwl[Host[r]] # {}) \in BOOLEAN
      OBVIOUS
    <3> QED
      BY <1>3, <2>2, <2>5, <3>1, ConcludeCounts DEF ProbeMesh
  <2>6. ASSUME WiredFails(r) \/ ApplyRole(r) PROVE Counts(n)'
    <3>1. /\ verdict' = verdict /\ misses' = misses /\ plan' = plan /\ seen' = seen
          /\ \A q \in Runs : q # r => pc'[q] = pc[q]
          /\ (pc[r] = "wired" /\ pc'[r] = "mesh") \/ (pc[r] = "role" /\ pc'[r] = "serve")
      BY <2>6 DEF WiredFails, ApplyRole, GateTypeOK
    <3>2. ~Idle(n)'
      BY <1>3, <3>1 DEF Idle
    <3> QED
      BY <1>3, <2>2, <2>3, <3>1, <3>2 DEF Counts, Knows
  <2>7. ASSUME NEW b \in Bss, ApplyServe(r, b) \/ ApplyServeFails(r, b) PROVE Counts(n)'
    BY <2>2, <2>7, CountsSame DEF ApplyServe, ApplyServeFails
  <2>8. CASE Truncate(r)
    <3>1. /\ verdict' = verdict /\ misses' = misses /\ plan' = plan
          /\ \A q \in Runs : q # r => pc'[q] = pc[q]
          /\ pc[r] = "serve" /\ pc'[r] = "write"
      BY <2>8 DEF Truncate, GateTypeOK
    <3>2. ~Idle(n)'
      BY <1>3, <3>1 DEF Idle
    <3> QED
      BY <1>3, <2>2, <2>3, <3>1, <3>2 DEF Counts
  <2>9. CASE Persist(r)
    <3>1. /\ verdict' = verdict /\ misses' = misses /\ pc[r] = "write" /\ pc'[r] = "idle"
          /\ \A q \in Runs : q # r => pc'[q] = pc[q]
          /\ file'[n] = [cur |-> plan[r].serve, fail |-> plan[r].fail]
      BY <1>3, <2>9 DEF Persist, GateTypeOK
    <3>2. verdict[n] = plan[r].serve /\ misses[n] = plan[r].fail /\ plan[r].serve \in {"on", "off"}
      BY <1>3, <2>2, <3>1 DEF Counts, GateTypeOK, Plans
    <3>3. Knows(n, file[n])'
      BY <3>1, <3>2 DEF Knows
    <3>4. \A q \in Runs : Host[q] = n => pc'[q] = "idle"
      BY <2>3, <3>1
    <3> QED
      BY <2>2, <3>1, <3>3, <3>4 DEF Counts
  <2> QED
    BY <1>3, <2>4, <2>5, <2>6, <2>7, <2>8, <2>9 DEF Step
<1>4. ASSUME NEW m \in Nodes, PowerCycle(m), m = n PROVE Counts(n)'
  BY <1>4, PowerCycleCounts
<1>5. ASSUME NEW m \in Nodes,
             \/ Uplink(m) \/ Roam(m) \/ Propagate(m) \/ Reload(m)
             \/ PowerCycle(m) /\ m # n
      PROVE  Counts(n)'
  BY <1>5, EnvironmentEffect, CountsSame DEF Sequential
<1>6. CASE UNCHANGED gateVars
  BY <1>6, CountsSame DEF gateVars, run, Sequential
<1> QED
  BY <1>1, <1>2, <1>3, <1>4, <1>5, <1>6 DEF GateNext
-----------------------------------------------------------------------------
(* The BSSes *)

(* Nothing is asked of the BSSes before a run gets to them.                  *)
LEMMA NotThereYet ==
    ASSUME NEW n \in Nodes, NEW r \in Runs, Host[r] = n, pc'[r] \in {"wired", "mesh", "role"},
           \A q \in Runs : Host[q] = n => q = r \/ pc'[q] = "idle"
    PROVE  Obeys(n)'
<1>1. ~Idle(n)'
  BY DEF Idle
<1> QED
  BY <1>1 DEF Obeys

(* The BSSes do as the verdict says once a run is through with them.         *)
LEMMA ActuatedStep ==
    ASSUME GateTypeOK, Sequential, Actuated, [GateNext]_gateVars
    PROVE  Actuated'
<1> SUFFICES ASSUME NEW n \in Nodes, alone'[n], calm'[n] PROVE Obeys(n)'
  BY DEF Actuated
<1> USE DEF network, radio, history
<1>s. ASSUME alone[n], calm[n], verdict'[n] = verdict[n], up'[n] = up[n],
             \A r \in Runs : Host[r] = n => pc'[r] = pc[r] /\ plan'[r] = plan[r] /\ todo'[r] = todo[r]
      PROVE  Obeys(n)'
  BY <1>s DEF Actuated, Obeys, Idle
<1>1. ASSUME NEW r \in Runs, Start(r) \/ Step(r), Host[r] # n PROVE Obeys(n)'
  BY <1>1, <1>s, OnlyItsNode
<1>2. ASSUME NEW r \in Runs, Start(r), Host[r] = n PROVE Obeys(n)'
  <2>1. Idle(n)
    BY <1>2, AloneStarts
  <2>2. pc'[r] = "wired" /\ \A q \in Runs : q # r => pc'[q] = pc[q]
    BY <1>2 DEF Start, GateTypeOK
  <2> QED
    BY <1>2, <2>1, <2>2, NotThereYet DEF Idle
<1>3. ASSUME NEW r \in Runs, Step(r), Host[r] = n PROVE Obeys(n)'
  <2>1. pc[r] # "idle" /\ alone' = alone
    BY <1>3 DEF Step, WiredReaches, WiredFails, ProbeMesh, Conclude, ApplyRole, Truncate, Persist,
                ApplyServe, ApplyServeFails
  <2>2. Counts(n) /\ alone[n]
    BY <2>1 DEF Sequential
  <2>3. \A q \in Runs : Host[q] = n => q = r \/ pc[q] = "idle"
    BY <1>3, <2>1, <2>2 DEF Counts
  <2>4. plan[r].serve \in {"on", "off"} /\ up[n] \subseteq Bss
    BY DEF GateTypeOK, Plans
  <2>5. ASSUME NEW p, NEW miss, Conclude(r, p, miss) PROVE Obeys(n)'
    <3>1. pc'[r] = "role" /\ \A q \in Runs : q # r => pc'[q] = pc[q]
      BY <2>5 DEF Conclude, GateTypeOK
    <3> QED
      BY <1>3, <2>3, <3>1, NotThereYet
  <2>6. CASE WiredFails(r)
    <3>1. pc'[r] = "mesh" /\ \A q \in Runs : q # r => pc'[q] = pc[q]
      BY <2>6 DEF WiredFails, GateTypeOK
    <3> QED
      BY <1>3, <2>3, <3>1, NotThereYet
  <2>7. CASE ApplyRole(r)
    <3>1. /\ pc'[r] = "serve" /\ \A q \in Runs : q # r => pc'[q] = pc[q]
          /\ todo'[r] = Bss /\ up' = up
      BY <2>7 DEF ApplyRole, GateTypeOK
    <3>2. ~Idle(n)' /\ \A q \in Runs : Host[q] = n => q = r \/ pc'[q] = "idle"
      BY <1>3, <2>3, <3>1 DEF Idle
    <3> QED
      BY <2>4, <3>1, <3>2 DEF Obeys
  <2>8. ASSUME NEW b \in Bss, ApplyServe(r, b) PROVE Obeys(n)'
    <3>1. /\ pc' = pc /\ plan' = plan /\ pc[r] = "serve" /\ todo'[r] = todo[r] \ {b}
          /\ up'[n] = IF plan[r].serve = "on" THEN up[n] \cup {b} ELSE up[n] \ {b}
          /\ calm' = calm
      BY <1>3, <2>8 DEF ApplyServe, GateTypeOK
    <3>2. ~Idle(n)' /\ \A q \in Runs : Host[q] = n => q = r \/ pc'[q] = "idle"
      BY <1>3, <2>3, <3>1 DEF Idle
    <3>3. Obeys(n)
      BY <2>2, <3>1 DEF Actuated
    <3>4. /\ plan[r].serve = "off" => up[n] \subseteq todo[r]
          /\ plan[r].serve = "on" => Bss \ todo[r] \subseteq up[n]
      BY <1>3, <3>1, <3>3 DEF Obeys
    <3>5. /\ plan[r].serve = "off" => up'[n] \subseteq todo'[r]
          /\ plan[r].serve = "on" => Bss \ todo'[r] \subseteq up'[n]
      BY <2>4, <3>1, <3>4
    <3> QED
      BY <3>1, <3>2, <3>5 DEF Obeys
  <2>9. ASSUME NEW b \in Bss, ApplyServeFails(r, b) PROVE FALSE
    BY <1>3, <2>9 DEF ApplyServeFails, GateTypeOK
  <2>10. CASE Truncate(r)
    <3>1. /\ pc[r] = "serve" /\ todo[r] = {} /\ pc'[r] = "write"
          /\ \A q \in Runs : q # r => pc'[q] = pc[q]
          /\ up' = up /\ plan' = plan /\ calm' = calm
      BY <2>10 DEF Truncate, GateTypeOK
    <3>2. ~Idle(n)' /\ \A q \in Runs : Host[q] = n => q = r \/ pc'[q] = "idle"
      BY <1>3, <2>3, <3>1 DEF Idle
    <3>3. /\ plan[r].serve = "off" => up[n] = {}
          /\ plan[r].serve = "on" => up[n] = Bss
      BY <1>3, <2>2, <2>4, <3>1 DEF Actuated, Obeys
    <3> QED
      BY <3>1, <3>2, <3>3 DEF Obeys
  <2>11. CASE Persist(r)
    <3>1. /\ pc[r] = "write" /\ pc'[r] = "idle" /\ \A q \in Runs : q # r => pc'[q] = pc[q]
          /\ up' = up /\ verdict' = verdict /\ calm' = calm
      BY <2>11 DEF Persist, GateTypeOK
    <3>2. verdict[n] = plan[r].serve
      BY <1>3, <2>2, <3>1 DEF Counts
    <3>3. /\ plan[r].serve = "off" => up[n] = {}
          /\ plan[r].serve = "on" => up[n] = Bss
      BY <1>3, <2>2, <3>1 DEF Actuated, Obeys
    <3>4. \A q \in Runs : Host[q] = n => pc'[q] = "idle"
      BY <2>3, <3>1
    <3> QED
      BY <2>4, <3>1, <3>2, <3>3, <3>4 DEF Obeys
  <2> QED
    BY <1>3, <2>5, <2>6, <2>7, <2>8, <2>9, <2>10, <2>11 DEF Step, WiredReaches, ProbeMesh
<1>4. ASSUME NEW m \in Nodes, PowerCycle(m), m = n PROVE FALSE
  BY <1>4, PowerCycleCounts
<1>5. ASSUME NEW m \in Nodes,
             \/ Uplink(m) \/ Roam(m) \/ Propagate(m) \/ Reload(m)
             \/ PowerCycle(m) /\ m # n
      PROVE  Obeys(n)'
  BY <1>5, <1>s, EnvironmentEffect
<1>6. CASE UNCHANGED gateVars
  BY <1>6, <1>s DEF gateVars, run
<1> QED
  BY <1>1, <1>2, <1>3, <1>4, <1>5, <1>6 DEF GateNext

(* The invariant holds at first and is kept.                                 *)
LEMMA GateInductive ==
    /\ GateInit => GateInv
    /\ GateInv /\ [GateNext]_gateVars => GateInv'
<1>1. ASSUME GateInit PROVE GateInv
  <2>1. 0 \in 0..K /\ 0 \in 0..MaxEvents /\ K # 0
    BY GateConstants
  <2>2. island \in [Nodes -> Nodes]
    BY <1>1 DEF GateInit
  <2>3. GateTypeOK
    BY <1>1, <2>1, <2>2, BlankFacts DEF GateInit, GateTypeOK
  <2>4. Sequential
    BY <1>1, <2>1 DEF GateInit, Sequential, Counts, Knows, Idle, Nothing
  <2>5. Actuated
    BY <1>1 DEF GateInit, Actuated
  <2> QED
    BY <2>3, <2>4, <2>5 DEF GateInv
<1>2. GateInv /\ [GateNext]_gateVars => GateInv'
  BY GateTypeStep, SequentialStep, ActuatedStep DEF GateInv
<1> QED
  BY <1>1, <1>2

(* The gates of a fleet keep the invariant.                                  *)
LEMMA GateInvariant == GateSpec => []GateInv
  BY GateInductive, PTL DEF GateSpec
-----------------------------------------------------------------------------
(* The theorems *)

(* Every variable of the gates and their network has its type.               *)
THEOREM GateTypeCorrect == GateSpec => []GateTypeOK
<1>1. GateInv => GateTypeOK
  BY DEF GateInv
<1> QED
  BY <1>1, GateInvariant, PTL

(* Between runs that never overlapped K misses have silenced every BSS, and  *)
(* one evaluation with backhaul has every BSS beaconing.                     *)
THEOREM GatedInTimeInvariant == GateSpec => []GatedInTime
<1>1. GateInv => GatedInTime
  <2> SUFFICES ASSUME GateInv, NEW n \in Nodes, Idle(n), alone[n], calm[n]
               PROVE  /\ misses[n] = K => up[n] = {}
                      /\ misses[n] = 0 => up[n] = Bss
    BY DEF GatedInTime
  <2>1. Counts(n) /\ Obeys(n)
    BY DEF GateInv, Sequential, Actuated
  <2>2. verdict[n] \in {"on", "off"}
    BY <2>1 DEF GateInv, GateTypeOK, Obeys
  <2> QED
    BY <2>1, <2>2 DEF Counts, Obeys
<1> QED
  BY <1>1, GateInvariant, PTL

(* As long as no runs of a node overlap, only the K-th miss in a row takes   *)
(* it off the air.                                                           *)
THEOREM AloneGatesOffAfterKTheorem == GateSpec => AloneGatesOffAfterK
<1>1. ASSUME GateInv, [GateNext]_gateVars, NEW n \in Nodes,
             alone[n], verdict[n] = "on", verdict'[n] = "off"
      PROVE  misses'[n] = K
  <2>0. GateTypeOK /\ Counts(n)
    BY <1>1 DEF GateInv, Sequential
  <2>1. ASSUME NEW r \in Runs, WiredReaches(r) PROVE misses'[n] = K
    <3>1. Host[r] = n
      BY <1>1, <2>0, <2>1, OnlyItsNode DEF Step
    <3> QED
      BY <1>1, <2>0, <2>1, <3>1, ConcludeCounts DEF WiredReaches
  <2>2. ASSUME NEW r \in Runs, ProbeMesh(r) PROVE misses'[n] = K
    <3>1. Host[r] = n
      BY <1>1, <2>0, <2>2, OnlyItsNode DEF Step
    <3>2. (gwl[Host[r]] # {}) \in BOOLEAN
      OBVIOUS
    <3> QED
      BY <1>1, <2>0, <2>2, <3>1, <3>2, ConcludeCounts DEF ProbeMesh
  <2>3. ASSUME NEW r \in Runs,
               Start(r) \/ WiredFails(r) \/ ApplyRole(r) \/ Truncate(r) \/ Persist(r)
        PROVE  FALSE
    BY <1>1, <2>3 DEF Start, WiredFails, ApplyRole, Truncate, Persist, history
  <2>4. ASSUME NEW r \in Runs, NEW b \in Bss, ApplyServe(r, b) \/ ApplyServeFails(r, b)
        PROVE  FALSE
    BY <1>1, <2>4 DEF ApplyServe, ApplyServeFails, history
  <2>5. ASSUME NEW m \in Nodes,
               Uplink(m) \/ Roam(m) \/ Propagate(m) \/ Reload(m) \/ PowerCycle(m)
        PROVE  FALSE
    BY <1>1, <2>0, <2>5
    DEF Uplink, Roam, Propagate, Reload, PowerCycle, history, GateTypeOK
  <2>6. CASE UNCHANGED gateVars
    BY <1>1, <2>6 DEF gateVars, history
  <2> QED
    BY <1>1, <2>1, <2>2, <2>3, <2>4, <2>5, <2>6 DEF GateNext, Step
<1>2. GateInv /\ [GateNext]_gateVars =>
        [\A n \in Nodes : alone[n] /\ verdict[n] = "on" /\ verdict'[n] = "off"
            => misses'[n] = K]_gateVars
  BY <1>1
<1> QED
  BY <1>2, GateInvariant, PTL DEF GateSpec, AloneGatesOffAfterK

(* With a lock, runs do not overlap.                                         *)
LEMMA LockedRunsAlone ==
    ASSUME GateTypeOK, \A n \in Nodes : alone[n], [GateNext]_gateVars,
           \A r \in Runs : Start(r) => Others(r) = {}
    PROVE  \A n \in Nodes : alone'[n]
<1>1. ASSUME NEW r \in Runs, Start(r) PROVE \A n \in Nodes : alone'[n]
  BY <1>1 DEF Start, GateTypeOK
<1>2. ASSUME NEW r \in Runs,
             \/ WiredReaches(r) \/ ProbeMesh(r) \/ WiredFails(r) \/ ApplyRole(r)
             \/ Truncate(r) \/ Persist(r)
      PROVE  alone' = alone
  BY <1>2 DEF WiredReaches, ProbeMesh, Conclude, WiredFails, ApplyRole, Truncate, Persist, history
<1>3. ASSUME NEW r \in Runs, NEW b \in Bss, ApplyServe(r, b) \/ ApplyServeFails(r, b)
      PROVE  alone' = alone
  BY <1>3 DEF ApplyServe, ApplyServeFails, history
<1>4. ASSUME NEW m \in Nodes, Uplink(m) \/ Roam(m) \/ Propagate(m) \/ Reload(m)
      PROVE  alone' = alone
  BY <1>4 DEF Uplink, Roam, Propagate, Reload, history
<1>5. ASSUME NEW m \in Nodes, PowerCycle(m) PROVE \A n \in Nodes : alone'[n]
  BY <1>5 DEF PowerCycle, GateTypeOK
<1>6. CASE UNCHANGED gateVars
  BY <1>6 DEF gateVars, history
<1> QED
  BY <1>1, <1>2, <1>3, <1>4, <1>5, <1>6 DEF GateNext, Step

(* The design's K holds for every run if a lock keeps a node's runs apart.   *)
THEOREM LockedGatesOffAfterK == LockedSpec => GateOffAfterK
<1> DEFINE AllAlone == \A n \in Nodes : alone[n]
           Locked == \A r \in Runs : Start(r) => Others(r) = {}
<1>1. GateInit => AllAlone
  BY DEF GateInit
<1>2. GateTypeOK /\ AllAlone /\ [GateNext /\ Locked]_gateVars => AllAlone'
  <2>1. UNCHANGED gateVars /\ AllAlone => AllAlone'
    BY DEF gateVars, history
  <2> QED
    BY <2>1, LockedRunsAlone
<1>3. AllAlone /\ [\A n \in Nodes : alone[n] /\ verdict[n] = "on" /\ verdict'[n] = "off"
                     => misses'[n] = K]_gateVars
        => [\A n \in Nodes : verdict[n] = "on" /\ verdict'[n] = "off" => misses'[n] = K]_gateVars
  OBVIOUS
<1>4. LockedSpec => GateSpec
  BY PTL DEF LockedSpec, GateSpec
<1> QED
  BY <1>1, <1>2, <1>3, <1>4, GateTypeCorrect, AloneGatesOffAfterKTheorem, PTL
  DEF LockedSpec, AloneGatesOffAfterK, GateOffAfterK

(* So it does without a hotplug hook: cron starts a node's runs one by one.  *)
THEOREM CronGatesOffAfterK ==
    ASSUME \A q, r \in Runs : Host[q] = Host[r] => q = r
    PROVE  GateSpec => GateOffAfterK
<1>1. \A r \in Runs : Others(r) = {}
  BY DEF Others
<1>2. [GateNext]_gateVars => [GateNext /\ \A r \in Runs : Start(r) => Others(r) = {}]_gateVars
  BY <1>1
<1>3. GateSpec => LockedSpec
  BY <1>2, PTL DEF GateSpec, LockedSpec
<1> QED
  BY <1>3, LockedGatesOffAfterK
=============================================================================
