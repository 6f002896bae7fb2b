------------------------ MODULE NetbootControl_proof ------------------------
(* Proofs about the install control plane, for any number of pucks, MACs,  *)
(* handler threads and command-line processes.                             *)
EXTENDS NetbootControl, TLAPS

-----------------------------------------------------------------------------
(* Type correctness *)

(* The empty store is a store. *)
LEMMA BlankType == Blank \in Store
  BY DEF Blank, Store, Entry

(* A report or command leaves a store a store. *)
LEMMA MutatedType ==
    ASSUME NEW s \in Store, NEW j \in Report \cup Command
    PROVE  Mutated(s, j) \in Store
  BY DEF Mutated, Commanded, Disarms, Store, Entry, Report, Command

(* Rendering yields a set of known pucks. *)
LEMMA RenderType == ASSUME NEW A PROVE Render(A) \in Conf
  BY DEF Render, Conf

(* What the CLI may be asked to do is a command. *)
LEMMA CommandsType == Commands \subseteq Command \cup {Converge}
  BY IdentityAssumption DEF Commands, Command

(* A command, a report and the lone `render' are told apart. *)
LEMMA KindsDiffer ==
    /\ Converge \notin Report \cup Command
    /\ \A j \in Report : j.kind = "report"
    /\ \A j \in Command : j.kind \in {"arm", "disarm"} /\ j.macs \subseteq Macs
  BY DEF Converge, Report, Command

(* The workers that end keep the types of their locals. *)
LEMMA GoneType ==
    ASSUME TypeOK, NEW ws, Gone(ws)
    PROVE  /\ pc' \in [Workers -> Locations]
           /\ job' \in [Workers -> Job] /\ JobOK'
           /\ saved' \in [Workers -> Store]
           /\ content' \in [Workers -> Conf]
<1>1. pc' \in [Workers -> Locations]
  BY DEF TypeOK, Gone, Locations
<1>2. job' \in [Workers -> Job]
  BY DEF TypeOK, Gone, Job
<1>3. JobOK'
  BY DEF TypeOK, JobOK, Gone, Workers
<1>4. saved' \in [Workers -> Store]
  BY BlankType DEF TypeOK, Gone
<1>5. content' \in [Workers -> Conf]
  BY DEF TypeOK, Gone, Conf
<1> QED
  BY <1>1, <1>2, <1>3, <1>4, <1>5

(* A freed copy is blank, which is a store. *)
LEMMA FreedType ==
    ASSUME TypeOK, NEW ws, Freed(ws)
    PROVE  mem' \in [Stores -> Store]
  BY BlankType DEF TypeOK, Freed

(* A worker that stops leaves every variable it changes in its type. *)
LEMMA StopType ==
    ASSUME TypeOK, NEW w \in Workers, Stop(w)
    PROVE  /\ pc' \in [Workers -> Locations]
           /\ job' \in [Workers -> Job] /\ JobOK'
           /\ saved' \in [Workers -> Store]
           /\ content' \in [Workers -> Conf]
           /\ mem' \in [Stores -> Store]
           /\ daemon' \in {"down", "starting", "serving"}
<1>1. Gone({w}) /\ Freed({w})
  BY DEF Stop
<1>2. daemon' \in {"down", "starting", "serving"}
  BY DEF TypeOK, Stop
<1> QED
  BY <1>1, <1>2, GoneType, FreedType

(* A job releases MACs. *)
LEMMA ReleasedType ==
    ASSUME NEW j \in Job PROVE Released(j) \subseteq Macs
  BY DEF Released, Disarms, Job, Report, Command, Converge

(* Every variable holds a value of its kind: the copies of state.json, the *)
(* files on their way into place, and the steps of the workers.            *)
THEOREM TypeCorrect == Spec => []TypeOK
<1>1. Init => TypeOK
  <2> SUFFICES ASSUME Init PROVE TypeOK
    OBVIOUS
  <2>1. ArmedMacs(disk) \subseteq Macs
    BY DEF ArmedMacs
  <2>2. JobOK
    BY DEF Init, JobOK, Workers
  <2> QED
    BY <2>1, <2>2, BlankType, RenderType DEF Init, TypeOK, Locations, Job, Conf
<1>2. TypeOK /\ [Next]_vars => TypeOK'
  <2> SUFFICES ASSUME TypeOK, [Next]_vars PROVE TypeOK'
    OBVIOUS
  <2> USE DEF TypeOK, history
  <2>1. ASSUME NEW w \in Workers, Mutate(w) PROVE TypeOK'
    <3>1. job[w] \in Report \cup Command
      BY <2>1 DEF Mutate, JobOK, Job
    <3>2. Mutated(mem[StoreOf(w)], job[w]) \in Store
      BY <3>1, MutatedType DEF StoreOf, Stores
    <3>3. mem' \in [Stores -> Store]
      BY <2>1, <3>2 DEF Mutate
    <3>4. JobOK'
      BY <2>1 DEF Mutate, Goto, JobOK, Workers
    <3>5. cleared' \subseteq Macs /\ ever' \subseteq Macs
      BY <2>1, <3>1, KindsDiffer DEF Mutate
    <3> QED
      BY <2>1, <3>3, <3>4, <3>5 DEF Mutate, Goto, Locations
  <2>2. ASSUME NEW w \in Workers, Reject(w) PROVE TypeOK'
    BY <2>2, StopType DEF Reject
  <2>3. ASSUME NEW w \in Workers, Dump(w) PROVE TypeOK'
    BY <2>3 DEF Dump, Goto, Locations, StoreOf, Stores, JobOK, Workers
  <2>4. ASSUME NEW w \in Workers, Replace(w) PROVE TypeOK'
    <3>1. job[w] \in Report \cup Command
      BY <2>4 DEF Replace, JobOK, Job
    <3>2. owed' \subseteq Macs
      BY <2>4, <3>1, KindsDiffer DEF Replace
    <3>3. JobOK'
      BY <2>4 DEF Replace, Goto, JobOK, Workers
    <3> QED
      BY <2>4, <3>2, <3>3, BlankType DEF Replace, Goto, Locations
  <2>5. ASSUME NEW w \in Workers, RenderFragment(w) PROVE TypeOK'
    <3>1. JobOK'
      BY <2>5 DEF RenderFragment, Goto, JobOK, Workers
    <3> QED
      BY <2>5, <3>1, RenderType DEF RenderFragment, Goto, Locations
  <2>6. ASSUME NEW w \in Workers, InstallFragment(w) PROVE TypeOK'
    <3>1. JobOK'
      BY <2>6 DEF InstallFragment, Goto, JobOK, Workers
    <3> QED
      BY <2>6, <3>1 DEF InstallFragment, Goto, Locations, Conf
  <2>7. ASSUME NEW w \in Workers, Restart(w) PROVE TypeOK'
    <3>1. JobOK'
      BY <2>7 DEF Restart, Goto, JobOK, Workers
    <3> QED
      BY <2>7, <3>1 DEF Restart, Goto, Locations
  <2>8. ASSUME NEW w \in Workers, Answer(w) PROVE TypeOK'
    <3>1. cleared' \subseteq Macs
      BY <2>8, ReleasedType DEF Answer
    <3>2. Gone({w}) /\ Freed({w} \cap Clis)
      BY <2>8 DEF Answer
    <3> QED
      BY <2>8, <3>1, <3>2, GoneType, FreedType DEF Answer
  <2>9. ASSUME NEW w \in Workers, Fail(w) PROVE TypeOK'
    BY <2>9, StopType DEF Fail, SaveFails, TestFails, RestartFails, Conf
  <2>10. CASE Begin
    <3>1. CASE StartDaemon
      <4>1. JobOK'
        BY <3>1, ProcessAssumption DEF StartDaemon, Goto, JobOK, Workers
      <4> QED
        BY <3>1, <4>1 DEF StartDaemon, Goto, Locations, Job, Stores, Workers
    <3>2. CASE StartDnsmasq
      BY <3>2 DEF StartDnsmasq, JobOK
    <3>3. ASSUME NEW h \in Handlers, NEW r \in Report, Receive(h, r) PROVE TypeOK'
      <4>1. JobOK'
        BY <3>3, ProcessAssumption, KindsDiffer DEF Receive, Goto, JobOK, Workers
      <4> QED
        BY <3>3, <4>1 DEF Receive, Goto, Locations, Job, Workers
    <3>4. ASSUME NEW c \in Clis, NEW j \in Commands, StartCli(c, j) PROVE TypeOK'
      <4>1. j \in Command \cup {Converge}
        BY CommandsType
      <4>2. JobOK'
        BY <3>4, <4>1, ProcessAssumption, KindsDiffer DEF StartCli, Goto, JobOK, Workers
      <4> QED
        BY <3>4, <4>1, <4>2 DEF StartCli, Goto, Locations, Job, Workers, Stores
    <3> QED
      BY <2>10, <3>1, <3>2, <3>3, <3>4 DEF Begin
  <2>11. ASSUME NEW c \in Clis, KillCli(c) PROVE TypeOK'
    BY <2>11, StopType DEF KillCli, Workers
  <2>12. CASE Crash
    BY <2>12, GoneType, FreedType DEF Crash
  <2>13. CASE Reboot
    BY <2>13, GoneType, FreedType DEF Reboot
  <2>14. CASE UNCHANGED vars
    BY <2>14 DEF vars, program, JobOK
  <2> QED
    BY <2>1, <2>2, <2>3, <2>4, <2>5, <2>6, <2>7, <2>8, <2>9, <2>10, <2>11, <2>12, <2>13, <2>14
    DEF Next, Advance, Fault
<1> QED
  BY <1>1, <1>2, PTL DEF Spec

-----------------------------------------------------------------------------
(* What dnsmasq offers was armed by the operator *)

(* No MAC is armed in the empty store. *)
LEMMA BlankArms == ArmedMacs(Blank) = {}
  BY DEF ArmedMacs, Blank

(* A job arms the MACs of an `arm' and disarms those it releases. *)
LEMMA MutatedArms ==
    ASSUME NEW s \in Store, NEW j \in Report \cup Command
    PROVE  ArmedMacs(Mutated(s, j)) =
             (ArmedMacs(s) \ Released(j)) \cup (IF j.kind = "arm" THEN j.macs ELSE {})
<1>1. CASE j \in Report
  BY <1>1 DEF ArmedMacs, Mutated, Commanded, Released, Disarms, Store, Entry, Report
<1>2. CASE j \in Command
  BY <1>2 DEF ArmedMacs, Mutated, Commanded, Released, Disarms, Store, Entry, Command
<1> QED
  BY <1>1, <1>2

(* A rendered puck has one of its MACs in the set it was rendered from. *)
LEMMA RenderedIsArmed ==
    ASSUME NEW A, NEW p \in Render(A)
    PROVE  {p.eth0, p.eth1} \cap A # {}
  BY DEF Render

(* Workers and copies that go away leave nothing behind. *)
LEMMA GoneInventsNothing ==
    ASSUME TypeOK, NothingInvented, NEW ws, NEW vs, Gone(ws), Freed(vs), ever' = ever
    PROVE  /\ \A s \in Stores : ArmedMacs(mem'[s]) \subseteq ever'
           /\ \A w \in Workers : ArmedMacs(saved'[w]) \subseteq ever'
           /\ \A w \in Workers : \A p \in content'[w] : {p.eth0, p.eth1} \cap ever' # {}
  BY BlankArms DEF NothingInvented, Gone, Freed

(* NothingInvented is an invariant. *)
THEOREM NothingInventedInvariant == Spec => []NothingInvented
<1>1. Init => NothingInvented
  <2> SUFFICES ASSUME Init PROVE NothingInvented
    OBVIOUS
  <2>1. \A p \in Render(ArmedMacs(disk)) : {p.eth0, p.eth1} \cap ever # {}
    BY RenderedIsArmed DEF Init
  <2> QED
    BY <2>1, BlankArms DEF Init, NothingInvented, OfferedOnlyIfArmed
<1>2. TypeOK /\ NothingInvented /\ [Next]_vars => NothingInvented'
  <2> SUFFICES ASSUME TypeOK, NothingInvented, [Next]_vars PROVE NothingInvented'
    OBVIOUS
  <2> USE DEF NothingInvented, OfferedOnlyIfArmed, history
  <2>1. ASSUME NEW w \in Workers, Mutate(w) PROVE NothingInvented'
    <3> DEFINE s == mem[StoreOf(w)]
               j == job[w]
    <3>1. StoreOf(w) \in Stores /\ s \in Store /\ j \in Report \cup Command
      BY <2>1 DEF TypeOK, StoreOf, Stores, Mutate, JobOK, Job
    <3>2. ArmedMacs(s) \subseteq ever
      BY <3>1
    <3>3. ever \subseteq ever' /\ (j.kind = "arm" => j.macs \subseteq ever')
      BY <2>1 DEF Mutate
    <3>4. ArmedMacs(Mutated(s, j)) \subseteq ever'
      BY <3>1, <3>2, <3>3, MutatedArms
    <3>5. \A t \in Stores : ArmedMacs(mem'[t]) \subseteq ever'
      BY <2>1, <3>3, <3>4 DEF Mutate, TypeOK
    <3> QED
      BY <2>1, <3>3, <3>5 DEF Mutate
  <2>2. ASSUME NEW w \in Workers, Reject(w) PROVE NothingInvented'
    BY <2>2, GoneInventsNothing DEF Reject, Stop
  <2>3. ASSUME NEW w \in Workers, Dump(w) PROVE NothingInvented'
    BY <2>3 DEF Dump, TypeOK, StoreOf, Stores
  <2>4. ASSUME NEW w \in Workers, Replace(w) PROVE NothingInvented'
    BY <2>4, BlankArms DEF Replace, TypeOK
  <2>5. ASSUME NEW w \in Workers, RenderFragment(w) PROVE NothingInvented'
    <3>1. ArmedMacs(mem[StoreOf(w)]) \subseteq ever
      BY DEF StoreOf, Stores
    <3>2. \A p \in Render(ArmedMacs(mem[StoreOf(w)])) : {p.eth0, p.eth1} \cap ever # {}
      BY <3>1, RenderedIsArmed
    <3> QED
      BY <2>5, <3>2 DEF RenderFragment, TypeOK
  <2>6. ASSUME NEW w \in Workers, InstallFragment(w) PROVE NothingInvented'
    BY <2>6 DEF InstallFragment, TypeOK
  <2>7. ASSUME NEW w \in Workers, Restart(w) PROVE NothingInvented'
    BY <2>7 DEF Restart
  <2>8. ASSUME NEW w \in Workers, Answer(w) PROVE NothingInvented'
    BY <2>8, GoneInventsNothing DEF Answer
  <2>9. ASSUME NEW w \in Workers, Fail(w) PROVE NothingInvented'
    <3>1. Gone({w}) /\ Freed({w}) /\ ever' = ever
      BY <2>9 DEF Fail, SaveFails, TestFails, RestartFails, Stop
    <3> QED
      BY <2>9, <3>1, GoneInventsNothing DEF Fail, SaveFails, TestFails, RestartFails
  <2>10. CASE Begin
    <3>1. CASE StartDaemon
      BY <3>1 DEF StartDaemon, TypeOK
    <3>2. CASE StartDnsmasq
      BY <3>2 DEF StartDnsmasq
    <3>3. ASSUME NEW h \in Handlers, NEW r \in Report, Receive(h, r) PROVE NothingInvented'
      BY <3>3 DEF Receive
    <3>4. ASSUME NEW c \in Clis, NEW j \in Commands, StartCli(c, j) PROVE NothingInvented'
      BY <3>4 DEF StartCli, TypeOK
    <3> QED
      BY <2>10, <3>1, <3>2, <3>3, <3>4 DEF Begin
  <2>11. ASSUME NEW c \in Clis, KillCli(c) PROVE NothingInvented'
    BY <2>11, GoneInventsNothing DEF KillCli, Stop
  <2>12. CASE Crash
    BY <2>12, GoneInventsNothing DEF Crash
  <2>13. CASE Reboot
    BY <2>13, GoneInventsNothing DEF Reboot
  <2>14. CASE UNCHANGED vars
    BY <2>14 DEF vars, program
  <2> QED
    BY <2>1, <2>2, <2>3, <2>4, <2>5, <2>6, <2>7, <2>8, <2>9, <2>10, <2>11, <2>12, <2>13, <2>14
    DEF Next, Advance, Fault
<1> QED
  BY <1>1, <1>2, TypeCorrect, PTL DEF Spec

(* Whatever threads, CLI runs, failures and crashes do to each other, only *)
(* a puck that the operator armed at some time is offered the installer.   *)
THEOREM OfferedOnlyIfArmedInvariant == Spec => []OfferedOnlyIfArmed
<1>1. NothingInvented => OfferedOnlyIfArmed
  BY DEF NothingInvented
<1> QED
  BY <1>1, NothingInventedInvariant, PTL

-----------------------------------------------------------------------------
(* The phases of the serve process *)

(* The handlers run only while Main has nothing to do, and neither runs    *)
(* while the serve process is down.                                        *)
THEOREM PhasesInvariant == Spec => []Phases
<1>1. Init => Phases
  BY DEF Init, Phases, Workers
<1>2. TypeOK /\ Phases /\ [Next]_vars => Phases'
  <2> SUFFICES ASSUME TypeOK, Phases, [Next]_vars PROVE Phases'
    OBVIOUS
  <2> USE ProcessAssumption DEF Phases, history
  <2>1. ASSUME NEW w \in Workers, Mutate(w) PROVE Phases'
    BY <2>1 DEF Mutate, Goto, TypeOK, Workers
  <2>2. ASSUME NEW w \in Workers, Dump(w) PROVE Phases'
    BY <2>2 DEF Dump, Goto, TypeOK, Workers
  <2>3. ASSUME NEW w \in Workers, Replace(w) PROVE Phases'
    BY <2>3 DEF Replace, Goto, TypeOK, Workers
  <2>4. ASSUME NEW w \in Workers, RenderFragment(w) PROVE Phases'
    BY <2>4 DEF RenderFragment, Goto, TypeOK, Workers
  <2>5. ASSUME NEW w \in Workers, InstallFragment(w) PROVE Phases'
    BY <2>5 DEF InstallFragment, Goto, TypeOK, Workers
  <2>6. ASSUME NEW w \in Workers, Restart(w) PROVE Phases'
    BY <2>6 DEF Restart, Goto, TypeOK, Workers
  <2>7. ASSUME NEW w \in Workers, Answer(w) PROVE Phases'
    BY <2>7 DEF Answer, Gone, TypeOK, Workers
  <2>8. ASSUME NEW w \in Workers, Reject(w) \/ Fail(w) PROVE Phases'
    <3>1. Stop(w) /\ pc[w] # "idle"
      BY <2>8 DEF Reject, Fail, SaveFails, TestFails, RestartFails
    <3> QED
      BY <3>1 DEF Stop, Gone, TypeOK, Workers
  <2>9. CASE StartDaemon
    BY <2>9 DEF StartDaemon, Goto, TypeOK, Workers
  <2>10. CASE StartDnsmasq
    BY <2>10 DEF StartDnsmasq
  <2>11. ASSUME NEW h \in Handlers, NEW r \in Report, Receive(h, r) PROVE Phases'
    BY <2>11 DEF Receive, Goto, TypeOK, Workers
  <2>12. ASSUME NEW c \in Clis, NEW j \in Commands, StartCli(c, j) PROVE Phases'
    BY <2>12 DEF StartCli, Goto, TypeOK, Workers
  <2>13. ASSUME NEW c \in Clis, KillCli(c) PROVE Phases'
    BY <2>13 DEF KillCli, Stop, Gone, TypeOK, Workers
  <2>14. CASE Crash
    BY <2>14 DEF Crash, Gone, TypeOK, Workers
  <2>15. CASE Reboot
    BY <2>15 DEF Reboot, Gone, TypeOK, Workers
  <2>16. CASE UNCHANGED vars
    BY <2>16 DEF vars, program
  <2> QED
    BY <2>1, <2>2, <2>3, <2>4, <2>5, <2>6, <2>7, <2>8, <2>9, <2>10, <2>11, <2>12, <2>13,
       <2>14, <2>15, <2>16
    DEF Next, Advance, Begin, Fault
<1> QED
  BY <1>1, <1>2, TypeCorrect, PTL DEF Spec

-----------------------------------------------------------------------------
(* Who runs beside whom *)

(* An instance with one handler thread or one command-line process has one *)
(* worker active at most.                                                  *)
Alone == \A v, w \in Handlers \cup Clis : v = w

(* A worker uses its own copy or the daemon's; only a command arms.        *)
LEMMA StoresOfWorkers ==
    ASSUME TypeOK, NEW w \in Workers
    PROVE  /\ StoreOf(w) \in Stores /\ mem[StoreOf(w)] \in Store
           /\ w \in Clis => StoreOf(w) = w /\ job[w] \in Command \cup {Converge}
           /\ w \notin Clis => StoreOf(w) = Main /\ job[w] \in Report \cup {Converge}
  BY ProcessAssumption DEF Workers, StoreOf, Stores, TypeOK, JobOK

(* Whoever changes or saves a copy has a job that is not `render'.         *)
LEMMA SavingJob ==
    ASSUME TypeOK, NEW w \in Workers, pc[w] \in {"mutate", "dump", "replace"}
    PROVE  /\ job[w] \in Report \cup Command
           /\ w \in Clis => job[w] \in Command
           /\ w \notin Clis => job[w] \in Report
  BY StoresOfWorkers DEF TypeOK, JobOK

(* With the serve process stopped for each command, a command at work is   *)
(* the only worker at work,                                                *)
LEMMA CommandIsAlone ==
    ASSUME Phases, CliAlone, NEW c \in Clis, pc[c] # "idle"
    PROVE  daemon = "down" /\ \A v \in Workers : v # c => pc[v] = "idle"
  BY DEF Phases, CliAlone, Workers

(* and no command is at work beside a thread of the serve process.         *)
LEMMA ThreadSeesNoCommand ==
    ASSUME Phases, CliAlone, NEW w \in Workers, w \notin Clis, pc[w] # "idle"
    PROVE  daemon # "down" /\ \A c \in Clis : pc[c] = "idle"
  BY DEF Phases, CliAlone, Workers

(* CliAlone and OneAtATime hold of the specifications that ask for them.   *)
LEMMA DisciplinesKept ==
    /\ StoppedSpec => Spec /\ []CliAlone
    /\ SequentialSpec => Spec /\ []OneAtATime
    /\ SerialSpec => SequentialSpec /\ StoppedSpec
    /\ CleanSerialSpec => SerialSpec
<1>1. Init => CliAlone /\ OneAtATime
  BY ProcessAssumption DEF Init, CliAlone, OneAtATime, Workers
<1>2. CliAlone /\ [Next /\ CliAlone']_vars => CliAlone' /\ [Next]_vars
  BY DEF CliAlone, vars, program
<1>3. OneAtATime /\ [Next /\ OneAtATime']_vars => OneAtATime' /\ [Next]_vars
  BY DEF OneAtATime, vars, program
<1>4. [Next /\ OneAtATime' /\ CliAlone']_vars
        => [Next /\ OneAtATime']_vars /\ [Next /\ CliAlone']_vars
  OBVIOUS
<1>5. [((\E w \in Workers : Advance(w)) \/ Begin) /\ OneAtATime' /\ CliAlone']_vars
        => [Next /\ OneAtATime' /\ CliAlone']_vars
  BY DEF Next
<1>6. StoppedSpec => Spec /\ []CliAlone
  BY <1>1, <1>2, PTL DEF StoppedSpec, Spec
<1>7. SequentialSpec => Spec /\ []OneAtATime
  BY <1>1, <1>3, PTL DEF SequentialSpec, Spec
<1>8. SerialSpec => SequentialSpec /\ StoppedSpec
  BY <1>4, PTL DEF SerialSpec, SequentialSpec, StoppedSpec
<1>9. CleanSerialSpec => SerialSpec
  BY <1>5, PTL DEF CleanSerialSpec, SerialSpec
<1> QED
  BY <1>6, <1>7, <1>8, <1>9

(* One handler thread without a command line, or one command-line process  *)
(* without a serve process, needs no discipline,                           *)
LEMMA AloneIsSerial ==
    ASSUME Alone
    PROVE  Spec => SerialSpec
<1>1. TypeOK /\ Phases => OneAtATime /\ CliAlone
  <2> SUFFICES ASSUME TypeOK, Phases PROVE OneAtATime /\ CliAlone
    OBVIOUS
  <2>1. OneAtATime
    BY ProcessAssumption DEF Alone, Phases, Workers, OneAtATime
  <2>2. CliAlone
    BY ProcessAssumption DEF Alone, Phases, CliAlone
  <2> QED
    BY <2>1, <2>2
<1>2. (TypeOK /\ Phases)' => (OneAtATime /\ CliAlone)'
  BY <1>1, PTL
<1>3. (TypeOK /\ Phases)' /\ [Next]_vars => [Next /\ OneAtATime' /\ CliAlone']_vars
  BY <1>2
<1> QED
  BY <1>3, TypeCorrect, PhasesInvariant, PTL DEF Spec, SerialSpec

(* nor does a serve process that is alone on its host, for the second one. *)
LEMMA NoCommandsIsStopped ==
    ASSUME Clis = {}
    PROVE  Spec => StoppedSpec
<1>1. CliAlone'
  BY DEF CliAlone
<1>2. [Next]_vars => [Next /\ CliAlone']_vars
  BY <1>1
<1> QED
  BY <1>2, PTL DEF Spec, StoppedSpec

-----------------------------------------------------------------------------
(* No save loses an install that is owed *)

(* Workers that end leave the files of the others. *)
LEMMA GoneKeepsOwed ==
    ASSUME TypeOK, OwedEverywhere, NEW ws, Gone(ws), owed' = owed
    PROVE  \A w \in Workers : pc'[w] = "replace" => owed' \subseteq ArmedMacs(saved'[w])
  BY DEF OwedEverywhere, Gone

(* ... and a command at work with its copy and its job.                    *)
LEMMA GoneKeepsCommands ==
    ASSUME TypeOK, OwedEverywhere, NEW ws, Gone(ws), owed' = owed,
           \A c \in Clis \ ws : mem'[c] = mem[c]
    PROVE  \A c \in Clis :
             /\ pc'[c] # "idle" => owed' \subseteq ArmedMacs(mem'[c])
             /\ pc'[c] \in {"dump", "replace"} /\ job'[c].kind = "arm"
                  => job'[c].macs \subseteq ArmedMacs(mem'[c])
             /\ pc'[c] = "replace" => saved'[c] = mem'[c]
<1> SUFFICES ASSUME NEW c \in Clis, pc'[c] # "idle"
             PROVE  /\ owed \subseteq ArmedMacs(mem'[c])
                    /\ pc'[c] \in {"dump", "replace"} /\ job'[c].kind = "arm"
                         => job'[c].macs \subseteq ArmedMacs(mem'[c])
                    /\ pc'[c] = "replace" => saved'[c] = mem'[c]
  OBVIOUS
<1>1. c \in Workers /\ c \notin ws
  BY DEF Gone, Workers
<1>2. pc'[c] = pc[c] /\ job'[c] = job[c] /\ saved'[c] = saved[c] /\ mem'[c] = mem[c]
  BY <1>1 DEF Gone
<1> QED
  BY <1>2 DEF OwedEverywhere

(* Any number of threads, commands, failures, crashes and restarts lose no *)
(* owed install as long as the serve process is stopped for each command:  *)
(* "failures never disarm", and one puck's report never disarms another.   *)
THEOREM StoppedNoLostArm == StoppedSpec => []NoLostArm
<1>1. Init => OwedEverywhere
  BY DEF Init, OwedEverywhere, NoLostArm, Workers
<1>2. TypeOK /\ Phases /\ CliAlone /\ OwedEverywhere /\ [Next]_vars => OwedEverywhere'
  <2> SUFFICES ASSUME TypeOK, Phases, CliAlone, OwedEverywhere, [Next]_vars
               PROVE  OwedEverywhere'
    OBVIOUS
  <2> USE ProcessAssumption DEF OwedEverywhere, NoLostArm, history
  <2>1. ASSUME NEW w \in Workers, Mutate(w) PROVE OwedEverywhere'
    <3> DEFINE t == StoreOf(w)
               j == job[w]
    <3>1. t \in Stores /\ mem[t] \in Store /\ j \in Report \cup Command
      BY <2>1, StoresOfWorkers, SavingJob DEF Mutate
    <3>2. mem' = [mem EXCEPT ![t] = Mutated(mem[t], j)] /\ mem \in [Stores -> Store]
      BY <2>1 DEF Mutate, TypeOK
    <3>3. ArmedMacs(mem'[t])
            = (ArmedMacs(mem[t]) \ Released(j)) \cup (IF j.kind = "arm" THEN j.macs ELSE {})
      BY <3>1, <3>2, MutatedArms
    <3>4. /\ pc' = [pc EXCEPT ![w] = "dump"] /\ owed' = owed \ Released(j)
          /\ UNCHANGED <<disk, saved, job, daemon>>
      BY <2>1 DEF Mutate, Goto
    <3>5. \A v \in Workers : pc'[v] = "replace" => pc[v] = "replace"
      BY <3>4 DEF TypeOK
    <3>6. CASE w \in Clis
      <4>1. t = w /\ daemon = "down" /\ \A v \in Workers : v # w => pc[v] = "idle"
        BY <3>6, <2>1, StoresOfWorkers, CommandIsAlone DEF Mutate
      <4>2. owed' \subseteq ArmedMacs(mem'[w])
        BY <2>1, <3>3, <3>4, <3>6, <4>1 DEF Mutate
      <4>3. j.kind = "arm" => j.macs \subseteq ArmedMacs(mem'[w])
        BY <3>3, <4>1
      <4> QED
        BY <3>4, <3>5, <4>1, <4>2, <4>3 DEF TypeOK, Workers
    <3>7. CASE w \notin Clis
      <4>1. t = Main /\ daemon # "down" /\ \A c \in Clis : pc[c] = "idle"
        BY <3>7, <2>1, StoresOfWorkers, ThreadSeesNoCommand DEF Mutate
      <4>2. owed' \subseteq ArmedMacs(mem'[Main])
        BY <3>3, <3>4, <4>1
      <4>3. \A c \in Clis : pc'[c] = "idle"
        BY <3>4, <3>7, <4>1 DEF TypeOK, Workers
      <4> QED
        BY <3>4, <3>5, <4>2, <4>3
    <3> QED
      BY <3>6, <3>7
  <2>2. ASSUME NEW w \in Workers, Dump(w) PROVE OwedEverywhere'
    <3>1. /\ pc' = [pc EXCEPT ![w] = "replace"] /\ saved' = [saved EXCEPT ![w] = mem[StoreOf(w)]]
          /\ pc[w] = "dump" /\ UNCHANGED <<disk, mem, job, daemon, owed>>
      BY <2>2 DEF Dump, Goto
    <3>2. owed \subseteq ArmedMacs(mem[StoreOf(w)])
      BY <3>1, StoresOfWorkers DEF Phases, Workers
    <3>3. w \in Clis => saved'[w] = mem[w]
      BY <3>1, StoresOfWorkers DEF TypeOK
    <3> QED
      BY <3>1, <3>2, <3>3 DEF TypeOK, Workers
  <2>3. ASSUME NEW w \in Workers, Replace(w) PROVE OwedEverywhere'
    <3>1. /\ pc' = [pc EXCEPT ![w] = "render"] /\ saved' = [saved EXCEPT ![w] = Blank]
          /\ pc[w] = "replace" /\ disk' = saved[w] /\ UNCHANGED <<mem, job, daemon>>
          /\ owed' = IF job[w].kind = "arm" THEN owed \cup job[w].macs ELSE owed
      BY <2>3 DEF Replace, Goto
    <3>2. \A v \in Workers : v # w => pc'[v] = pc[v] /\ saved'[v] = saved[v]
      BY <3>1 DEF TypeOK
    <3>3. CASE w \in Clis
      <4>1. daemon = "down" /\ \A v \in Workers : v # w => pc[v] = "idle"
        BY <3>1, <3>3, CommandIsAlone
      <4>2. saved[w] = mem[w] /\ owed' \subseteq ArmedMacs(mem[w])
        BY <3>1, <3>3
      <4>3. pc'[w] = "render"
        BY <3>1 DEF TypeOK
      <4> QED
        BY <3>1, <3>2, <4>1, <4>2, <4>3 DEF Workers
    <3>4. CASE w \notin Clis
      <4>1. owed' = owed
        BY <3>1, <3>4, SavingJob, KindsDiffer
      <4>2. owed \subseteq ArmedMacs(saved[w]) /\ pc'[w] = "render"
        BY <3>1 DEF TypeOK
      <4>3. \A c \in Clis : pc'[c] = pc[c] /\ saved'[c] = saved[c]
        BY <3>2, <3>4 DEF Workers
      <4> QED
        BY <3>1, <3>2, <4>1, <4>2, <4>3
    <3> QED
      BY <3>3, <3>4
  <2>4. ASSUME NEW w \in Workers, RenderFragment(w) \/ InstallFragment(w) \/ Restart(w)
        PROVE  OwedEverywhere'
    <3>1. /\ pc[w] # "idle" /\ UNCHANGED <<disk, mem, saved, job, daemon, owed>>
          /\ \E l \in {"test", "restart", "answer"} : pc' = [pc EXCEPT ![w] = l]
      BY <2>4 DEF RenderFragment, InstallFragment, Restart, Goto
    <3>2. \A v \in Workers : pc'[v] = pc[v] \/ pc'[v] \in {"test", "restart", "answer"}
      BY <3>1 DEF TypeOK
    <3>3. \A v \in Workers : pc'[v] # "idle" => pc[v] # "idle"
      BY <3>1 DEF TypeOK
    <3> QED
      BY <3>1, <3>2, <3>3 DEF Workers
  <2>5. ASSUME NEW w \in Workers, Answer(w) PROVE OwedEverywhere'
    <3>1. Gone({w}) /\ Freed({w} \cap Clis) /\ owed' = owed /\ disk' = disk
      BY <2>5 DEF Answer
    <3>2. mem'[Main] = mem[Main] /\ \A c \in Clis \ {w} : mem'[c] = mem[c]
      BY <3>1 DEF Freed, TypeOK, Stores
    <3>3. daemon' # "down" => daemon # "down"
      BY <2>5 DEF Answer, Phases
    <3> QED
      BY <3>1, <3>2, <3>3, GoneKeepsOwed, GoneKeepsCommands
  <2>6. ASSUME NEW w \in Workers, Reject(w) \/ Fail(w) PROVE OwedEverywhere'
    <3>1. Stop(w) /\ owed' = owed /\ disk' = disk
      BY <2>6 DEF Reject, Fail, SaveFails, TestFails, RestartFails
    <3>2. Gone({w}) /\ \A c \in Clis \ {w} : mem'[c] = mem[c]
      BY <3>1 DEF Stop, Freed, TypeOK, Stores
    <3>3. daemon' # "down" => daemon # "down" /\ mem'[Main] = mem[Main]
      BY <3>1 DEF Stop, Freed, TypeOK, Stores
    <3> QED
      BY <3>1, <3>2, <3>3, GoneKeepsOwed, GoneKeepsCommands
  <2>7. CASE StartDaemon
    <3>1. /\ pc' = [pc EXCEPT ![Main] = "render"] /\ mem' = [mem EXCEPT ![Main] = disk]
          /\ job' = [job EXCEPT ![Main] = Converge] /\ UNCHANGED <<disk, saved, owed>>
      BY <2>7 DEF StartDaemon, Goto
    <3>2. mem'[Main] = disk /\ \A v \in Workers : pc'[v] = "replace" => pc[v] = "replace"
      BY <3>1 DEF TypeOK, Stores
    <3>3. \A c \in Clis : mem'[c] = mem[c] /\ pc'[c] = pc[c] /\ job'[c] = job[c]
      BY <3>1 DEF TypeOK, Stores, Workers
    <3> QED
      BY <3>1, <3>2, <3>3
  <2>8. CASE StartDnsmasq
    BY <2>8 DEF StartDnsmasq
  <2>9. ASSUME NEW h \in Handlers, NEW r \in Report, Receive(h, r) PROVE OwedEverywhere'
    <3>1. /\ pc' = [pc EXCEPT ![h] = "mutate"] /\ job' = [job EXCEPT ![h] = r]
          /\ UNCHANGED <<disk, mem, saved, daemon, owed>>
      BY <2>9 DEF Receive, Goto
    <3>2. \A c \in Clis : pc'[c] = pc[c] /\ job'[c] = job[c]
      BY <3>1 DEF TypeOK, Workers
    <3> QED
      BY <3>1, <3>2 DEF TypeOK, Workers
  <2>10. ASSUME NEW c \in Clis, NEW j \in Commands, StartCli(c, j) PROVE OwedEverywhere'
    <3>1. /\ mem' = [mem EXCEPT ![c] = disk] /\ job' = [job EXCEPT ![c] = j]
          /\ UNCHANGED <<disk, saved, daemon, owed>>
      BY <2>10 DEF StartCli
    <3>2. pc'[c] \in {"render", "mutate"} /\ \A v \in Workers : v # c => pc'[v] = pc[v]
      BY <2>10 DEF StartCli, Goto, TypeOK, Workers
    <3>3. mem'[c] = disk /\ mem'[Main] = mem[Main]
      BY <3>1 DEF TypeOK, Stores
    <3>4. \A d \in Clis : d # c => mem'[d] = mem[d] /\ job'[d] = job[d]
      BY <3>1 DEF TypeOK, Stores, Workers
    <3> QED
      BY <3>1, <3>2, <3>3, <3>4 DEF Workers
  <2>11. ASSUME NEW c \in Clis, KillCli(c) PROVE OwedEverywhere'
    <3>1. Stop(c) /\ owed' = owed /\ disk' = disk
      BY <2>11 DEF KillCli
    <3>2. Gone({c}) /\ \A d \in Clis \ {c} : mem'[d] = mem[d]
      BY <3>1 DEF Stop, Freed, TypeOK, Stores
    <3>3. daemon' = daemon /\ mem'[Main] = mem[Main]
      BY <3>1 DEF Stop, Freed, TypeOK, Stores
    <3> QED
      BY <3>1, <3>2, <3>3, GoneKeepsOwed, GoneKeepsCommands
  <2>12. CASE Crash
    <3>1. Gone(Handlers \cup {Main}) /\ owed' = owed /\ disk' = disk /\ daemon' = "down"
      BY <2>12 DEF Crash
    <3>2. \A c \in Clis : mem'[c] = mem[c]
      BY <2>12 DEF Crash, Freed, TypeOK, Stores
    <3> QED
      BY <3>1, <3>2, GoneKeepsOwed, GoneKeepsCommands
  <2>13. CASE Reboot
    <3>1. Gone(Workers) /\ owed' = owed /\ disk' = disk /\ daemon' = "down"
      BY <2>13 DEF Reboot
    <3>2. \A w \in Workers : pc'[w] = "idle"
      BY <3>1 DEF Gone
    <3> QED
      BY <3>1, <3>2 DEF Workers
  <2>14. CASE UNCHANGED vars
    BY <2>14 DEF vars, program
  <2> QED
    BY <2>1, <2>2, <2>3, <2>4, <2>5, <2>6, <2>7, <2>8, <2>9, <2>10, <2>11, <2>12, <2>13, <2>14
    DEF Next, Advance, Begin, Fault
<1>3. OwedEverywhere => NoLostArm
  BY DEF OwedEverywhere
<1> QED
  BY <1>1, <1>2, <1>3, TypeCorrect, PhasesInvariant, DisciplinesKept, PTL DEF Spec

(* With nobody at the command line, or one command-line process and no     *)
(* serve process, no discipline is needed for it.                          *)
THEOREM NoLostArmInvariant ==
    ASSUME Alone \/ Clis = {}
    PROVE  Spec => []NoLostArm
<1>1. CASE Alone
  <2>1. Spec => SerialSpec
    BY <1>1, AloneIsSerial
  <2> QED
    BY <2>1, DisciplinesKept, StoppedNoLostArm, PTL
<1>2. CASE Clis = {}
  <2>1. Spec => StoppedSpec
    BY <1>2, NoCommandsIsStopped
  <2> QED
    BY <2>1, StoppedNoLostArm, PTL
<1> QED
  BY <1>1, <1>2

-----------------------------------------------------------------------------
(* One worker at a time: success means that dnsmasq offers what state.json *)
(* says                                                                    *)

(* When the only active worker ends, every step of InStep that speaks of   *)
(* an active worker holds of nobody.                                       *)
LEMMA LastOneGone ==
    ASSUME OneAtATime, NEW w \in Workers, pc[w] # "idle", Gone({w})
    PROVE  \A v \in Workers : pc'[v] = "idle"
  BY DEF OneAtATime, Gone

(* A job that does nothing releases nothing, one that arms nothing either. *)
LEMMA ReleasesNothing ==
    /\ Released(Converge) = {}
    /\ \A j \in Job : j.kind = "arm" => Released(j) = {}
  BY DEF Released, Disarms, Converge

(* Copy, file, fragment and dnsmasq agree step by step, in any deployment  *)
(* of threads and commands of which one is at work at a time.              *)
THEOREM InStepInvariant == SequentialSpec => []InStep
<1>1. Init => InStep
  BY DEF Init, InStep, AnswerMeansOffered
<1>2. TypeOK /\ OneAtATime /\ InStep /\ [Next /\ OneAtATime']_vars => InStep'
  <2> SUFFICES ASSUME TypeOK, OneAtATime, InStep, [Next /\ OneAtATime']_vars
               PROVE  InStep'
    OBVIOUS
  <2> USE ProcessAssumption DEF InStep, AnswerMeansOffered, history
  <2>1. ASSUME NEW w \in Workers, Mutate(w) PROVE InStep'
    <3> DEFINE s == mem[StoreOf(w)]
               j == job[w]
    <3>1. StoreOf(w) \in Stores /\ s \in Store /\ j \in Report \cup Command /\ j \in Job
      BY <2>1, StoresOfWorkers, SavingJob DEF Mutate, Job
    <3>2. mem' = [mem EXCEPT ![StoreOf(w)] = Mutated(s, j)]
      BY <2>1 DEF Mutate
    <3>3. ArmedMacs(mem'[StoreOf(w)])
            = (ArmedMacs(s) \ Released(j)) \cup (IF j.kind = "arm" THEN j.macs ELSE {})
      BY <3>1, <3>2, MutatedArms DEF TypeOK
    <3>4. Released(j) \cap ArmedMacs(mem'[StoreOf(w)]) = {}
      BY <3>1, <3>3, ReleasesNothing
    <3>5. \A v \in Workers : v # w => pc[v] = "idle"
      BY <2>1 DEF Mutate, OneAtATime
    <3>6. pc' = [pc EXCEPT ![w] = "dump"] /\ job' = job
      BY <2>1 DEF Mutate, Goto
    <3> QED
      BY <3>4, <3>5, <3>6 DEF TypeOK
  <2>2. ASSUME NEW w \in Workers, Dump(w) PROVE InStep'
    <3>1. \A v \in Workers : v # w => pc[v] = "idle"
      BY <2>2 DEF Dump, OneAtATime
    <3> QED
      BY <2>2, <3>1 DEF Dump, Goto, TypeOK
  <2>3. ASSUME NEW w \in Workers, Replace(w) PROVE InStep'
    <3>1. \A v \in Workers : v # w => pc[v] = "idle"
      BY <2>3 DEF Replace, OneAtATime
    <3>2. disk' = mem[StoreOf(w)] /\ Released(job[w]) \cap ArmedMacs(mem[StoreOf(w)]) = {}
      BY <2>3 DEF Replace
    <3>3. pc' = [pc EXCEPT ![w] = "render"] /\ UNCHANGED <<mem, job>>
      BY <2>3 DEF Replace, Goto
    <3> QED
      BY <3>1, <3>2, <3>3 DEF TypeOK
  <2>4. ASSUME NEW w \in Workers, RenderFragment(w) PROVE InStep'
    <3>1. \A v \in Workers : v # w => pc[v] = "idle"
      BY <2>4 DEF RenderFragment, OneAtATime
    <3>2. content'[w] = Render(ArmedMacs(disk))
      BY <2>4 DEF RenderFragment, TypeOK
    <3> QED
      BY <2>4, <3>1, <3>2 DEF RenderFragment, Goto, TypeOK
  <2>5. ASSUME NEW w \in Workers, InstallFragment(w) PROVE InStep'
    <3>1. \A v \in Workers : v # w => pc[v] = "idle"
      BY <2>5 DEF InstallFragment, OneAtATime
    <3> QED
      BY <2>5, <3>1 DEF InstallFragment, Goto, TypeOK
  <2>6. ASSUME NEW w \in Workers, Restart(w) PROVE InStep'
    <3>1. \A v \in Workers : v # w => pc[v] = "idle"
      BY <2>6 DEF Restart, OneAtATime
    <3> QED
      BY <2>6, <3>1 DEF Restart, Goto, TypeOK
  <2>7. ASSUME NEW w \in Workers, Answer(w) \/ Reject(w) \/ Fail(w) PROVE InStep'
    <3>1. Gone({w}) /\ pc[w] # "idle"
      BY <2>7 DEF Answer, Reject, Fail, SaveFails, TestFails, RestartFails, Stop
    <3> QED
      BY <3>1, LastOneGone
  <2>8. CASE StartDaemon /\ OneAtATime'
    <3>1. pc' = [pc EXCEPT ![Main] = "render"] /\ Main \in Workers
      BY <2>8 DEF StartDaemon, Goto, Workers
    <3>2. \A v \in Workers : v # Main => pc'[v] = "idle"
      BY <2>8, <3>1 DEF OneAtATime, TypeOK
    <3>3. mem'[Main] = disk /\ disk' = disk /\ job'[Main] = Converge /\ StoreOf(Main) = Main
      BY <2>8 DEF StartDaemon, TypeOK, Stores, Workers, StoreOf
    <3> QED
      BY <3>1, <3>2, <3>3, ReleasesNothing DEF TypeOK
  <2>9. CASE StartDnsmasq
    BY <2>9 DEF StartDnsmasq
  <2>10. ASSUME NEW h \in Handlers, NEW r \in Report, Receive(h, r), OneAtATime'
         PROVE  InStep'
    <3>1. pc' = [pc EXCEPT ![h] = "mutate"] /\ h \in Workers
      BY <2>10 DEF Receive, Goto, Workers
    <3>2. \A v \in Workers : v # h => pc'[v] = "idle"
      BY <2>10, <3>1 DEF OneAtATime, TypeOK
    <3> QED
      BY <3>1, <3>2 DEF TypeOK
  <2>11. ASSUME NEW c \in Clis, NEW j \in Commands, StartCli(c, j), OneAtATime'
         PROVE  InStep'
    <3>1. pc' = [pc EXCEPT ![c] = IF j = Converge THEN "render" ELSE "mutate"] /\ c \in Workers
      BY <2>11 DEF StartCli, Goto, Workers
    <3>2. \A v \in Workers : v # c => pc'[v] = "idle"
      BY <2>11, <3>1 DEF OneAtATime, TypeOK
    <3>3. mem'[c] = disk /\ disk' = disk /\ job'[c] = j /\ StoreOf(c) = c
      BY <2>11, <3>1 DEF StartCli, TypeOK, Stores, StoreOf
    <3> QED
      BY <3>1, <3>2, <3>3, ReleasesNothing DEF TypeOK
  <2>12. ASSUME NEW c \in Clis, KillCli(c) PROVE InStep'
    BY <2>12, LastOneGone DEF KillCli, Stop, Workers
  <2>13. CASE Crash
    <3>1. \A v \in Workers : \/ pc'[v] = "idle"
                             \/ /\ v \in Clis /\ StoreOf(v) = v /\ v # Main
                                /\ pc'[v] = pc[v] /\ job'[v] = job[v] /\ saved'[v] = saved[v]
                                /\ content'[v] = content[v]
      BY <2>13 DEF Crash, Gone, Workers, StoreOf
    <3>2. \A c \in Clis : mem'[c] = mem[c]
      BY <2>13 DEF Crash, Freed, Stores
    <3>3. UNCHANGED <<disk, fragment, offered>>
      BY <2>13 DEF Crash
    <3> QED
      BY <3>1, <3>2, <3>3
  <2>14. CASE Reboot
    <3>1. \A v \in Workers : pc'[v] = "idle"
      BY <2>14 DEF Reboot, Gone
    <3> QED
      BY <3>1
  <2>15. CASE UNCHANGED vars
    BY <2>15 DEF vars, program
  <2> QED
    BY <2>1, <2>2, <2>3, <2>4, <2>5, <2>6, <2>7, <2>8, <2>9, <2>10, <2>11, <2>12, <2>13,
       <2>14, <2>15
    DEF Next, Advance, Begin, Fault
<1>3. SequentialSpec => Init /\ [][Next /\ OneAtATime']_vars
  BY DEF SequentialSpec
<1> QED
  BY <1>1, <1>2, <1>3, TypeCorrect, DisciplinesKept, PTL

(* One worker at a time, be it a thread or a command: a 200, or the CLI's  *)
(* success, means that dnsmasq offers exactly what state.json says.        *)
THEOREM SequentialAnswers == SequentialSpec => []AnswerMeansOffered
<1>1. InStep => AnswerMeansOffered
  BY DEF InStep
<1> QED
  BY <1>1, InStepInvariant, PTL

(* One thread, or one command-line process, is one worker at a time.       *)
THEOREM AnswerMeansOfferedInvariant ==
    ASSUME Alone
    PROVE  Spec => []AnswerMeansOffered
<1>1. Spec => SerialSpec
  BY AloneIsSerial
<1> QED
  BY <1>1, SequentialAnswers, DisciplinesKept, PTL

-----------------------------------------------------------------------------
(* One worker at a time and the serve process stopped for every command: a *)
(* confirmed disarm stays                                                  *)

(* No copy that may be saved holds what was confirmed disarmed.            *)
THEOREM ClearedEverywhereInvariant == SerialSpec => []ClearedEverywhere
<1>1. Init => ClearedEverywhere
  BY DEF Init, ClearedEverywhere, NoZombieArm, Workers
<1>2. /\ TypeOK /\ Phases /\ OneAtATime /\ CliAlone /\ InStep /\ ClearedEverywhere
      /\ [Next]_vars
      => ClearedEverywhere'
  <2> SUFFICES ASSUME TypeOK, Phases, OneAtATime, CliAlone, InStep, ClearedEverywhere,
                      [Next]_vars
               PROVE  ClearedEverywhere'
    OBVIOUS
  <2> USE ProcessAssumption DEF ClearedEverywhere, NoZombieArm, history
  <2>0. ASSUME NEW w \in Workers, pc[w] # "idle"
        PROVE  cleared \cap ArmedMacs(mem[StoreOf(w)]) = {}
    BY <2>0, StoresOfWorkers, ThreadSeesNoCommand DEF Workers
  <2>1. ASSUME NEW w \in Workers, Mutate(w) PROVE ClearedEverywhere'
    <3> DEFINE t == StoreOf(w)
               j == job[w]
    <3>1. t \in Stores /\ mem[t] \in Store /\ j \in Report \cup Command /\ pc[w] # "idle"
      BY <2>1, StoresOfWorkers, SavingJob DEF Mutate
    <3>2. mem' = [mem EXCEPT ![t] = Mutated(mem[t], j)] /\ mem \in [Stores -> Store]
      BY <2>1 DEF Mutate, TypeOK
    <3>3. ArmedMacs(mem'[t])
            = (ArmedMacs(mem[t]) \ Released(j)) \cup (IF j.kind = "arm" THEN j.macs ELSE {})
      BY <3>1, <3>2, MutatedArms
    <3>4. cleared' = IF j.kind = "arm" THEN cleared \ j.macs ELSE cleared
      BY <2>1 DEF Mutate
    <3>5. cleared' \cap ArmedMacs(mem'[t]) = {}
      BY <2>0, <3>1, <3>3, <3>4
    <3>6. \A s \in Stores : s # t => mem'[s] = mem[s]
      BY <3>1, <3>2
    <3>7. /\ UNCHANGED <<disk, daemon>> /\ cleared' \subseteq cleared
          /\ \A v \in Workers : v # w => pc'[v] = pc[v]
      BY <2>1, <3>4 DEF Mutate, Goto, TypeOK
    <3>8. ASSUME daemon # "down" PROVE cleared' \cap ArmedMacs(mem'[Main]) = {}
      BY <3>5, <3>6, <3>7, <3>8 DEF Stores
    <3>9. ASSUME NEW c \in Clis, pc'[c] # "idle"
          PROVE  cleared' \cap ArmedMacs(mem'[c]) = {}
      <4>1. c = w \/ pc[c] # "idle"
        BY <3>7, <3>9 DEF Workers
      <4>2. c = w
        BY <3>1, <4>1 DEF OneAtATime, Workers
      <4> QED
        BY <3>5, <4>2, StoresOfWorkers
    <3> QED
      BY <3>7, <3>8, <3>9
  <2>2. ASSUME NEW w \in Workers, Replace(w) PROVE ClearedEverywhere'
    <3>1. disk' = mem[StoreOf(w)] /\ pc[w] # "idle"
      BY <2>2 DEF Replace, InStep
    <3>2. cleared \cap ArmedMacs(disk') = {}
      BY <2>0, <3>1
    <3>3. UNCHANGED <<mem, daemon, cleared>> /\ \A c \in Clis : pc'[c] # "idle" => pc[c] # "idle"
      BY <2>2 DEF Replace, Goto, TypeOK, Workers
    <3> QED
      BY <3>2, <3>3
  <2>3. ASSUME NEW w \in Workers,
               Dump(w) \/ RenderFragment(w) \/ InstallFragment(w) \/ Restart(w)
        PROVE  ClearedEverywhere'
    <3>1. /\ UNCHANGED <<disk, mem, daemon, cleared>>
          /\ \A c \in Clis : pc'[c] # "idle" => pc[c] # "idle"
      BY <2>3 DEF Dump, RenderFragment, InstallFragment, Restart, Goto, TypeOK, Workers
    <3> QED
      BY <3>1
  <2>4. ASSUME NEW w \in Workers, Answer(w) PROVE ClearedEverywhere'
    <3>1. \A v \in Workers : pc'[v] = "idle"
      BY <2>4, LastOneGone DEF Answer
    <3>2. /\ disk' = disk /\ cleared' = cleared \cup Released(job[w])
          /\ pc[w] = "answer" /\ mem'[Main] = mem[Main]
      BY <2>4 DEF Answer, Freed, TypeOK, Stores
    <3>3. disk = mem[StoreOf(w)] /\ Released(job[w]) \cap ArmedMacs(mem[StoreOf(w)]) = {}
      BY <3>2 DEF InStep
    <3>4. cleared' \cap ArmedMacs(disk') = {}
      BY <3>2, <3>3
    <3>5. ASSUME daemon' # "down" PROVE cleared' \cap ArmedMacs(mem'[Main]) = {}
      <4>1. daemon # "down"
        BY <2>4, <3>5 DEF Answer, Phases
      <4>2. w \notin Clis
        BY <3>2, <4>1, CommandIsAlone
      <4> QED
        BY <3>2, <3>3, <3>4, <4>2, StoresOfWorkers
    <3> QED
      BY <3>1, <3>4, <3>5 DEF Workers
  <2>5. ASSUME NEW w \in Workers, Reject(w) \/ Fail(w) \/ (w \in Clis /\ KillCli(w))
        PROVE  ClearedEverywhere'
    <3>1. Stop(w) /\ disk' = disk /\ cleared' = cleared /\ pc[w] # "idle"
      BY <2>5 DEF Reject, Fail, SaveFails, TestFails, RestartFails, KillCli
    <3>2. \A v \in Workers : pc'[v] = "idle"
      BY <3>1, LastOneGone DEF Stop
    <3>3. daemon' # "down" => daemon # "down" /\ mem'[Main] = mem[Main]
      BY <3>1 DEF Stop, Freed, TypeOK, Stores
    <3> QED
      BY <3>1, <3>2, <3>3 DEF Workers
  <2>6. CASE StartDaemon
    <3>1. /\ mem' = [mem EXCEPT ![Main] = disk] /\ UNCHANGED <<disk, cleared>>
          /\ \A c \in Clis : pc'[c] = pc[c]
      BY <2>6 DEF StartDaemon, Goto, TypeOK, Workers
    <3>2. mem'[Main] = disk /\ \A c \in Clis : mem'[c] = mem[c]
      BY <3>1 DEF TypeOK, Stores
    <3> QED
      BY <3>1, <3>2
  <2>7. CASE StartDnsmasq
    BY <2>7 DEF StartDnsmasq
  <2>8. ASSUME NEW h \in Handlers, NEW r \in Report, Receive(h, r) PROVE ClearedEverywhere'
    <3>1. /\ UNCHANGED <<disk, mem, daemon, cleared>>
          /\ \A c \in Clis : pc'[c] = pc[c]
      BY <2>8 DEF Receive, Goto, TypeOK, Workers
    <3> QED
      BY <3>1
  <2>9. ASSUME NEW c \in Clis, NEW j \in Commands, StartCli(c, j) PROVE ClearedEverywhere'
    <3>1. /\ mem' = [mem EXCEPT ![c] = disk] /\ UNCHANGED <<disk, daemon, cleared>>
          /\ \A d \in Clis : d # c => pc'[d] = pc[d]
      BY <2>9 DEF StartCli, Goto, TypeOK, Workers
    <3>2. mem'[c] = disk /\ \A s \in Stores : s # c => mem'[s] = mem[s]
      BY <3>1 DEF TypeOK, Stores
    <3> QED
      BY <3>1, <3>2 DEF Stores
  <2>10. CASE Crash
    <3>1. /\ UNCHANGED <<disk, cleared>> /\ daemon' = "down"
          /\ \A c \in Clis : mem'[c] = mem[c] /\ pc'[c] = pc[c]
      BY <2>10 DEF Crash, Gone, Freed, Workers, Stores
    <3> QED
      BY <3>1
  <2>11. CASE Reboot
    <3>1. /\ UNCHANGED <<disk, cleared>> /\ daemon' = "down"
          /\ \A c \in Clis : pc'[c] = "idle"
      BY <2>11 DEF Reboot, Gone, Workers
    <3> QED
      BY <3>1
  <2>12. CASE UNCHANGED vars
    BY <2>12 DEF vars, program
  <2> QED
    BY <2>1, <2>2, <2>3, <2>4, <2>5, <2>6, <2>7, <2>8, <2>9, <2>10, <2>11, <2>12
    DEF Next, Advance, Begin, Fault, Workers
<1> QED
  BY <1>1, <1>2, TypeCorrect, PhasesInvariant, DisciplinesKept, InStepInvariant, PTL DEF Spec

(* With one worker at a time, and the serve process stopped for every      *)
(* command, a confirmed disarm stays until the operator arms again.        *)
THEOREM SerialNoZombieArm == SerialSpec => []NoZombieArm
<1>1. ClearedEverywhere => NoZombieArm
  BY DEF ClearedEverywhere
<1> QED
  BY <1>1, ClearedEverywhereInvariant, PTL

(* One thread, or one command-line process, needs no discipline for it.    *)
THEOREM NoZombieArmInvariant ==
    ASSUME Alone
    PROVE  Spec => []NoZombieArm
<1>1. Spec => SerialSpec
  BY AloneIsSerial
<1> QED
  BY <1>1, SerialNoZombieArm, PTL

-----------------------------------------------------------------------------
(* The serial control plane implements Arming *)

(* The daemon's copy only ever loses armed MACs that state.json may still  *)
(* hold, and a command's copy is its own job away from state.json.         *)
THEOREM OneJobAwayInvariant == SerialSpec => []OneJobAway
<1>1. Init => OneJobAway
  BY DEF Init, OneJobAway, Workers
<1>2. /\ TypeOK /\ Phases /\ OneAtATime /\ CliAlone /\ InStep /\ OneJobAway /\ [Next]_vars
      => OneJobAway'
  <2> SUFFICES ASSUME TypeOK, Phases, OneAtATime, CliAlone, InStep, OneJobAway, [Next]_vars
               PROVE  OneJobAway'
    OBVIOUS
  <2> USE ProcessAssumption DEF OneJobAway, history
  <2>1. ASSUME NEW w \in Workers, Mutate(w) PROVE OneJobAway'
    <3> DEFINE t == StoreOf(w)
               j == job[w]
    <3>1. t \in Stores /\ mem[t] \in Store /\ j \in Report \cup Command /\ pc[w] = "mutate"
      BY <2>1, StoresOfWorkers, SavingJob DEF Mutate
    <3>2. mem' = [mem EXCEPT ![t] = Mutated(mem[t], j)] /\ mem \in [Stores -> Store]
      BY <2>1 DEF Mutate, TypeOK
    <3>3. ArmedMacs(mem'[t]) = Applied(j, ArmedMacs(mem[t]))
      BY <3>1, <3>2, MutatedArms DEF Applied
    <3>4. UNCHANGED <<disk, daemon, job>> /\ pc' = [pc EXCEPT ![w] = "dump"]
      BY <2>1 DEF Mutate, Goto
    <3>5. CASE w \in Clis
      <4>1. t = w /\ daemon = "down" /\ \A v \in Workers : v # w => pc[v] = "idle"
        BY <3>1, <3>5, StoresOfWorkers, CommandIsAlone
      <4>2. ArmedMacs(mem'[w]) = Applied(j, ArmedMacs(disk))
        BY <3>1, <3>3, <3>5, <4>1
      <4>3. \A c \in Clis : pc'[c] # "idle" => c = w /\ pc'[c] = "dump"
        BY <3>4, <4>1 DEF TypeOK, Workers
      <4> QED
        BY <3>4, <4>1, <4>2, <4>3
    <3>6. CASE w \notin Clis
      <4>1. t = Main /\ j.kind = "report" /\ \A c \in Clis : pc[c] = "idle"
        BY <3>1, <3>6, StoresOfWorkers, SavingJob, KindsDiffer, ThreadSeesNoCommand
      <4>2. ArmedMacs(mem'[Main]) \subseteq ArmedMacs(mem[Main])
        BY <3>3, <4>1 DEF Applied
      <4>3. \A c \in Clis : pc'[c] = "idle"
        BY <3>4, <3>6, <4>1 DEF TypeOK, Workers
      <4> QED
        BY <3>4, <4>2, <4>3
    <3> QED
      BY <3>5, <3>6
  <2>2. ASSUME NEW w \in Workers, Replace(w) PROVE OneJobAway'
    <3>1. disk' = mem[StoreOf(w)] /\ pc[w] = "replace" /\ UNCHANGED <<mem, daemon, job>>
      BY <2>2 DEF Replace, InStep
    <3>2. \A c \in Clis : pc'[c] \in {"idle", "render"}
      <4>1. pc' = [pc EXCEPT ![w] = "render"] /\ \A v \in Workers : v # w => pc[v] = "idle"
        BY <2>2, <3>1 DEF Replace, Goto, OneAtATime
      <4> QED
        BY <4>1 DEF TypeOK, Workers
    <3>3. daemon # "down" => disk' = mem[Main]
      BY <3>1, StoresOfWorkers, CommandIsAlone
    <3> QED
      BY <3>1, <3>2, <3>3
  <2>3. ASSUME NEW w \in Workers, Dump(w) PROVE OneJobAway'
    BY <2>3 DEF Dump, Goto, TypeOK, Workers
  <2>4. ASSUME NEW w \in Workers, RenderFragment(w) \/ InstallFragment(w) \/ Restart(w)
        PROVE  OneJobAway'
    <3>1. /\ UNCHANGED <<disk, mem, daemon, job>>
          /\ \A c \in Clis : pc'[c] = pc[c] \/ pc'[c] \in {"test", "restart", "answer"}
      BY <2>4 DEF RenderFragment, InstallFragment, Restart, Goto, TypeOK, Workers
    <3> QED
      BY <3>1
  <2>5. ASSUME NEW w \in Workers,
               Answer(w) \/ Reject(w) \/ Fail(w) \/ (w \in Clis /\ KillCli(w))
        PROVE  OneJobAway'
    <3>1. Gone({w}) /\ disk' = disk /\ pc[w] # "idle"
      BY <2>5 DEF Answer, Reject, Fail, SaveFails, TestFails, RestartFails, KillCli, Stop
    <3>2. \A v \in Workers : pc'[v] = "idle"
      BY <3>1, LastOneGone
    <3>3. daemon' # "down" => daemon # "down" /\ mem'[Main] = mem[Main]
      BY <2>5 DEF Answer, Reject, Fail, SaveFails, TestFails, RestartFails, KillCli, Stop, Freed,
         TypeOK, Stores, Phases
    <3> QED
      BY <3>1, <3>2, <3>3 DEF Workers
  <2>6. CASE StartDaemon
    <3>1. /\ mem' = [mem EXCEPT ![Main] = disk] /\ disk' = disk
          /\ \A c \in Clis : pc'[c] = pc[c] /\ job'[c] = job[c]
      BY <2>6 DEF StartDaemon, Goto, TypeOK, Workers
    <3>2. mem'[Main] = disk /\ \A c \in Clis : mem'[c] = mem[c]
      BY <3>1 DEF TypeOK, Stores
    <3> QED
      BY <3>1, <3>2
  <2>7. CASE StartDnsmasq
    BY <2>7 DEF StartDnsmasq
  <2>8. ASSUME NEW h \in Handlers, NEW r \in Report, Receive(h, r) PROVE OneJobAway'
    <3>1. /\ UNCHANGED <<disk, mem, daemon>>
          /\ \A c \in Clis : pc'[c] = pc[c] /\ job'[c] = job[c]
      BY <2>8 DEF Receive, Goto, TypeOK, Workers
    <3> QED
      BY <3>1
  <2>9. ASSUME NEW c \in Clis, NEW j \in Commands, StartCli(c, j) PROVE OneJobAway'
    <3>1. /\ mem' = [mem EXCEPT ![c] = disk] /\ UNCHANGED <<disk, daemon>>
          /\ pc'[c] \in {"render", "mutate"}
          /\ \A d \in Clis : d # c => pc'[d] = pc[d] /\ job'[d] = job[d]
      BY <2>9 DEF StartCli, Goto, TypeOK, Workers
    <3>2. mem'[c] = disk /\ \A s \in Stores : s # c => mem'[s] = mem[s]
      BY <3>1 DEF TypeOK, Stores
    <3> QED
      BY <3>1, <3>2 DEF Stores
  <2>10. CASE Crash
    <3>1. /\ disk' = disk /\ daemon' = "down"
          /\ \A c \in Clis : mem'[c] = mem[c] /\ pc'[c] = pc[c] /\ job'[c] = job[c]
      BY <2>10 DEF Crash, Gone, Freed, Workers, Stores
    <3> QED
      BY <3>1
  <2>11. CASE Reboot
    <3>1. daemon' = "down" /\ \A c \in Clis : pc'[c] = "idle"
      BY <2>11 DEF Reboot, Gone, Workers
    <3> QED
      BY <3>1
  <2>12. CASE UNCHANGED vars
    BY <2>12 DEF vars, program
  <2> QED
    BY <2>1, <2>2, <2>3, <2>4, <2>5, <2>6, <2>7, <2>8, <2>9, <2>10, <2>11, <2>12
    DEF Next, Advance, Begin, Fault, Workers
<1> QED
  BY <1>1, <1>2, TypeCorrect, PhasesInvariant, DisciplinesKept, InStepInvariant, PTL DEF Spec

(* The save of a thread is a Disarm of Arming, the save of a command is an *)
(* Arm or a Disarm of the MACs it names.                                   *)
LEMMA SaveIsArming ==
    ASSUME TypeOK, Phases, CliAlone, InStep, OneJobAway, NEW w \in Workers, Replace(w)
    PROVE  /\ Promise!Next
           /\ w \notin Clis => Promise!Unattended
<1>1. disk' = mem[StoreOf(w)] /\ pc[w] = "replace" /\ UNCHANGED <<fragment, offered>>
  BY DEF Replace, InStep
<1>2. job[w] \in Report \cup Command
  BY <1>1, SavingJob
<1>3. CASE w \notin Clis
  <2>1. ArmedMacs(mem[Main]) \subseteq ArmedMacs(disk)
    BY <1>1, <1>3, ThreadSeesNoCommand DEF OneJobAway
  <2> DEFINE gone == ArmedMacs(disk) \ ArmedMacs(mem[Main])
  <2>2. ArmedMacs(disk') = ArmedMacs(disk) \ gone
    BY <1>1, <1>3, <2>1, StoresOfWorkers
  <2>3. gone \in SUBSET Macs
    BY DEF ArmedMacs
  <2>4. Promise!Disarm(gone)
    BY <1>1, <2>2 DEF Promise!Disarm
  <2> QED
    BY <1>3, <2>3, <2>4 DEF Promise!Unattended, Promise!Next
<1>4. CASE w \in Clis
  <2> DEFINE j == job[w]
  <2>1. ArmedMacs(disk') = Applied(j, ArmedMacs(disk))
    BY <1>1, <1>4, StoresOfWorkers DEF OneJobAway
  <2>2. j \in Command /\ j \in Job
    BY <1>1, <1>4, SavingJob DEF Job
  <2>3. CASE j.kind = "arm"
    <3>1. ArmedMacs(disk') = ArmedMacs(disk) \cup j.macs
      BY <2>1, <2>2, <2>3, ReleasesNothing DEF Applied
    <3>2. Promise!Arm(j.macs) /\ j.macs \in SUBSET Macs
      BY <1>1, <2>2, <3>1, KindsDiffer DEF Promise!Arm
    <3> QED
      BY <1>4, <3>2 DEF Promise!Next
  <2>4. CASE j.kind = "disarm"
    <3>1. ArmedMacs(disk') = ArmedMacs(disk) \ j.macs
      BY <2>1, <2>4 DEF Applied, Released
    <3>2. Promise!Disarm(j.macs) /\ j.macs \in SUBSET Macs
      BY <1>1, <2>2, <3>1, KindsDiffer DEF Promise!Disarm
    <3> QED
      BY <1>4, <3>2 DEF Promise!Next, Promise!Unattended
  <2> QED
    BY <2>2, <2>3, <2>4, KindsDiffer
<1> QED
  BY <1>3, <1>4

(* Every step but a save publishes what state.json says, starts or stops   *)
(* dnsmasq, or changes nothing that Arming sees.                           *)
LEMMA OtherStepsUnattended ==
    ASSUME InStep, [Next]_vars, ~ \E w \in Workers : Replace(w)
    PROVE  [Promise!Unattended]_(Promise!promise)
<1> USE DEF Promise!Unattended, Promise!promise, history
<1>1. ASSUME NEW w \in Workers, InstallFragment(w) PROVE Promise!Unattended
  <2>1. fragment' = Promise!Tagged
    BY <1>1 DEF InstallFragment, InStep, Promise!Tagged, Render
  <2> QED
    BY <1>1, <2>1 DEF InstallFragment, Promise!Commit
<1>2. ASSUME NEW w \in Workers, Restart(w) PROVE Promise!Unattended
  BY <1>2 DEF Restart, Promise!Activate
<1>3. ASSUME NEW w \in Workers, Fail(w) \/ (w \in Clis /\ KillCli(w))
      PROVE  Promise!Unattended \/ UNCHANGED Promise!promise
  BY <1>3 DEF Fail, SaveFails, TestFails, RestartFails, KillCli, Promise!Outage
<1>4. ASSUME NEW w \in Workers,
             Mutate(w) \/ Reject(w) \/ Dump(w) \/ RenderFragment(w) \/ Answer(w)
      PROVE  UNCHANGED Promise!promise
  BY <1>4 DEF Mutate, Reject, Dump, RenderFragment, Answer
<1>5. ASSUME Begin PROVE Promise!Unattended \/ UNCHANGED Promise!promise
  BY <1>5 DEF Begin, StartDaemon, StartDnsmasq, Receive, StartCli, Promise!Activate
<1>6. ASSUME Crash \/ Reboot PROVE Promise!Unattended \/ UNCHANGED Promise!promise
  BY <1>6 DEF Crash, Reboot, Promise!Activate
<1>7. CASE UNCHANGED vars
  BY <1>7 DEF vars, program
<1> QED
  BY <1>1, <1>2, <1>3, <1>4, <1>5, <1>6, <1>7 DEF Next, Advance, Fault, Workers

(* Arming starts where the control plane does. *)
LEMMA PromiseInit == Init => Promise!Init
  BY DEF Init, Promise!Init, Promise!Tagged, Render, ArmedMacs

(* With one worker at a time, and the serve process stopped for every      *)
(* command, arm, disarm, phone-homes and their failures are steps of       *)
(* Arming on state.json, the fragment and dnsmasq.                         *)
THEOREM SerialImplementsArming == SerialSpec => ImplementsArming
<1>1. TypeOK /\ Phases /\ CliAlone /\ InStep /\ OneJobAway /\ [Next]_vars
        => [Promise!Next]_(Promise!promise)
  BY SaveIsArming, OtherStepsUnattended DEF Promise!Next
<1> QED
  BY <1>1, PromiseInit, TypeCorrect, PhasesInvariant, DisciplinesKept, InStepInvariant,
     OneJobAwayInvariant, PTL
  DEF Spec, ImplementsArming, Promise!Spec

(* One command-line process without a serve process, or one thread without *)
(* a command line, implements Arming as it is.                             *)
THEOREM ImplementsArmingTheorem ==
    ASSUME Alone
    PROVE  Spec => ImplementsArming
<1>1. Spec => SerialSpec
  BY AloneIsSerial
<1> QED
  BY <1>1, SerialImplementsArming, PTL

(* With nobody at the command line and one thread at a time, every step on *)
(* state.json, the fragment and dnsmasq is one in which the armed set can  *)
(* only shrink, or changes none of the three.                              *)
THEOREM SerialImplementsUnattended ==
    ASSUME Clis = {}
    PROVE  SerialSpec => ImplementsUnattended
<1>1. TypeOK /\ Phases /\ CliAlone /\ InStep /\ OneJobAway /\ [Next]_vars
        => [Promise!Unattended]_(Promise!promise)
  BY SaveIsArming, OtherStepsUnattended
<1> QED
  BY <1>1, PromiseInit, TypeCorrect, PhasesInvariant, DisciplinesKept, InStepInvariant,
     OneJobAwayInvariant, PTL
  DEF Spec, ImplementsUnattended, Promise!UnattendedSpec

(* One thread is one at a time. *)
THEOREM ImplementsUnattendedTheorem ==
    ASSUME Alone, Clis = {}
    PROVE  Spec => ImplementsUnattended
<1>1. Spec => SerialSpec
  BY AloneIsSerial
<1>2. SerialSpec => ImplementsUnattended
  BY SerialImplementsUnattended
<1> QED
  BY <1>1, <1>2, PTL

-----------------------------------------------------------------------------
(* Nothing fails, one worker at a time, no command beside the daemon: what *)
(* dnsmasq offers is what the daemon believes                              *)

(* The stale fragment of two overlapping phone-homes needs the overlap.    *)
THEOREM SerialQuietMeansOffered == CleanSerialSpec => []QuietMeansOffered
<1>1. Init => InLine
  BY DEF Init, InLine
<1>2. /\ TypeOK /\ Phases /\ OneAtATime /\ CliAlone /\ InStep /\ InLine
      /\ [((\E w \in Workers : Advance(w)) \/ Begin) /\ OneAtATime' /\ CliAlone']_vars
      => InLine'
  <2> SUFFICES ASSUME TypeOK, Phases, OneAtATime, CliAlone, InStep, InLine,
                      [(\E w \in Workers : Advance(w)) \/ Begin]_vars
               PROVE  InLine'
    OBVIOUS
  <2> USE ProcessAssumption DEF InLine, history
  <2>1. ASSUME NEW w \in Workers, Answer(w) PROVE InLine'
    <3>1. /\ fragment = Render(ArmedMacs(disk)) /\ offered = Render(ArmedMacs(disk))
          /\ disk = mem[StoreOf(w)]
      BY <2>1 DEF Answer, InStep, AnswerMeansOffered
    <3>2. UNCHANGED <<fragment, offered>> /\ mem'[Main] = mem[Main] /\ pc[w] # "idle"
      BY <2>1 DEF Answer, Freed, TypeOK, Stores
    <3>3. CASE w \notin Clis
      BY <3>1, <3>2, <3>3, StoresOfWorkers
    <3>4. CASE w \in Clis
      <4>1. daemon = "down" /\ w # Main
        BY <3>2, <3>4, CommandIsAlone
      <4> QED
        BY <2>1, <4>1 DEF Answer
    <3> QED
      BY <3>3, <3>4
  <2>2. ASSUME NEW w \in Workers, Reject(w) PROVE InLine'
    <3>1. pc[w] = "mutate" /\ Stop(w) /\ UNCHANGED <<fragment, offered>>
      BY <2>2 DEF Reject
    <3>2. w \notin Clis /\ w # Main
      BY <2>2, <3>1, SavingJob, KindsDiffer DEF Reject, TypeOK, JobOK
    <3>3. daemon' = daemon /\ mem'[Main] = mem[Main]
      BY <3>1, <3>2 DEF Stop, Freed, TypeOK, Stores
    <3>4. \A v \in Workers : v # w => pc'[v] = pc[v]
      BY <3>1 DEF Stop, Gone
    <3> QED
      BY <3>1, <3>3, <3>4
  <2>3. ASSUME NEW w \in Workers,
               \/ Mutate(w) \/ Dump(w) \/ Replace(w) \/ RenderFragment(w)
               \/ InstallFragment(w) \/ Restart(w)
        PROVE  InLine'
    <3>1. pc'[w] \notin {"idle", "mutate"}
      BY <2>3 DEF Mutate, Dump, Replace, RenderFragment, InstallFragment, Restart, Goto, TypeOK
    <3> QED
      BY <3>1
  <2>4. CASE StartDaemon
    BY <2>4 DEF StartDaemon
  <2>5. CASE StartDnsmasq
    BY <2>5 DEF StartDnsmasq
  <2>6. ASSUME NEW h \in Handlers, NEW r \in Report, Receive(h, r) PROVE InLine'
    <3>1. UNCHANGED <<fragment, offered, mem, daemon>> /\ pc[h] = "idle"
      BY <2>6 DEF Receive
    <3>2. \A v \in Workers : v # h => pc'[v] = pc[v]
      BY <2>6 DEF Receive, Goto, TypeOK
    <3> QED
      BY <3>1, <3>2
  <2>7. ASSUME NEW c \in Clis, NEW j \in Commands, StartCli(c, j) PROVE InLine'
    <3>1. UNCHANGED <<fragment, offered, daemon>> /\ pc[c] = "idle" /\ mem'[Main] = mem[Main]
      BY <2>7 DEF StartCli, TypeOK, Stores
    <3>2. \A v \in Workers : v # c => pc'[v] = pc[v]
      BY <2>7 DEF StartCli, Goto, TypeOK
    <3> QED
      BY <3>1, <3>2
  <2>8. CASE UNCHANGED vars
    BY <2>8 DEF vars, program
  <2> QED
    BY <2>1, <2>2, <2>3, <2>4, <2>5, <2>6, <2>7, <2>8 DEF Advance, Begin
<1>3. InLine => QuietMeansOffered
  BY DEF InLine, QuietMeansOffered
<1> QED
  BY <1>1, <1>2, <1>3, TypeCorrect, PhasesInvariant, DisciplinesKept, InStepInvariant, PTL
  DEF CleanSerialSpec, Spec
=============================================================================
