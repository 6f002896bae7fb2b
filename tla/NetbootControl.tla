--------------------------- MODULE NetbootControl ---------------------------
(***************************************************************************)
(* The install control plane on wisp (tools/gwifi-netboot): the armed set  *)
(* kept in state.json, the dnsmasq fragment rendered from it, and the      *)
(* processes that change both without any lock between them:               *)
(*                                                                         *)
(*   - Main, the `serve` process: it reads state.json ONCE, regenerates    *)
(*     the fragment, then serves;                                          *)
(*   - Handlers, the threads of its ThreadingHTTPServer, one per           *)
(*     phone-home in progress, which share Main's in-memory copy;          *)
(*   - Clis, runs of `gwifi-netboot arm | disarm | render`, each a process *)
(*     that reads state.json into a copy of its own.                       *)
(*                                                                         *)
(* A worker walks mutate -> dump -> replace -> render -> test -> restart   *)
(* -> answer; every arrow is a point where another worker may run, a step  *)
(* may fail or the process may die.  `owed', `cleared' and `ever' are      *)
(* history variables: no action of the program reads them.                 *)
(***************************************************************************)
EXTENDS FiniteSets

CONSTANTS
    Identity,   \* pucks.json: a set of records [eth0, eth1]
    Macs,       \* every MAC address a phone-home may carry
    Handlers,   \* phone-home threads that may run at once
    Clis,       \* command-line processes that may run at once
    Main        \* the main thread of the `serve` process

ASSUME IdentityAssumption ==
    /\ Identity \subseteq [eth0 : Macs, eth1 : Macs]
    /\ \A p, q \in Identity :
         p # q => {p.eth0, p.eth1} \cap {q.eth0, q.eth1} = {}

ASSUME ProcessAssumption ==
    /\ Handlers \cap Clis = {}
    /\ Main \notin Handlers \cup Clis

VARIABLES
    disk,       \* state.json
    mem,        \* StateStore._data of the serve process (Main) and of each CLI
    saved,      \* the temporary state file each worker has written
    fragment,   \* the installed dnsmasq fragment: the pucks tagged `install'
    offered,    \* the pucks dnsmasq offers the installer; none while it is down
    content,    \* the fragment text each worker has rendered
    pc,         \* where each worker is
    job,        \* what each worker was asked to do
    daemon,     \* the serve process: "down", "starting" or "serving"
    owed,       \* armed on disk, with no cause to disarm received since
    cleared,    \* confirmed disarmed, and not armed again since
    ever        \* armed at some time, by the operator

program == <<disk, mem, saved, fragment, offered, content, pc, job, daemon>>
history == <<owed, cleared, ever>>
vars    == <<program, history>>

-----------------------------------------------------------------------------
(* Data *)

Workers == Handlers \cup Clis \cup {Main}
Stores  == Clis \cup {Main}
StoreOf(w) == IF w \in Clis THEN w ELSE Main

(* What is kept of a puck's entry in state.json.  (The history and the     *)
(* installed image id are recorded for `status' and never read back.)      *)
Entry == [armed : BOOLEAN]
Store == [Macs -> Entry]
Blank == [m \in Macs |-> [armed |-> FALSE]]

ArmedMacs(s) == {m \in Macs : s[m].armed}

(* Mistake: a dhcp-boot line without its tag offers the installer to all.  *)
Render_Untagged(armed) == IF armed = {} THEN {} ELSE Identity

(* The pucks whose dhcp-host line carries set:install.  The dhcp-boot line *)
(* is present exactly when this set is not empty.                          *)
Render(armed) == {p \in Identity : p.eth0 \in armed \/ p.eth1 \in armed}

Conf == SUBSET Identity

DisarmingResults == {"success", "already-current"}
ValidResults     == DisarmingResults \cup {"failed"}

Report   == [kind : {"report"}, mac : Macs, result : ValidResults \cup {"malformed"}]
Command  == [kind : {"arm", "disarm"}, macs : SUBSET Macs]
Converge == [kind |-> "render"]
Job      == Report \cup Command \cup {Converge}

Locations == {"idle", "mutate", "dump", "replace", "render", "test", "restart", "answer"}

Disarms(j) == j.kind = "report" /\ j.result \in DisarmingResults

(* arm and disarm on an in-memory copy. *)
Commanded(s, j) ==
    [m \in Macs |-> IF m \in j.macs THEN [s[m] EXCEPT !.armed = (j.kind = "arm")] ELSE s[m]]

(* Mistakes: every report disarms; only a success does; one puck's report  *)
(* disarms them all.                                                       *)
Mutated_AnyResult(s, j) ==
    IF j.kind = "report" THEN [s EXCEPT ![j.mac].armed = FALSE] ELSE Commanded(s, j)
Mutated_OnlySuccess(s, j) ==
    IF j.kind # "report" THEN Commanded(s, j)
    ELSE IF j.result = "success" THEN [s EXCEPT ![j.mac].armed = FALSE] ELSE s
Mutated_DisarmsAll(s, j) ==
    IF j.kind # "report" THEN Commanded(s, j) ELSE IF Disarms(j) THEN Blank ELSE s

(* record_phone_home, arm and disarm on an in-memory copy. *)
Mutated(s, j) ==
    IF j.kind # "report" THEN Commanded(s, j)
    ELSE IF Disarms(j) THEN [s EXCEPT ![j.mac].armed = FALSE] ELSE s

(* The MACs a job disarms. *)
Released(j) == IF j.kind = "disarm" THEN j.macs
               ELSE IF Disarms(j) THEN {j.mac} ELSE {}

-----------------------------------------------------------------------------
(* Initially the serve process is down and no worker runs; state.json and  *)
(* the fragment are what earlier runs of the CLI left.                     *)
Init ==
    /\ disk \in {s \in Store : ArmedMacs(s) \subseteq {p.eth0 : p \in Identity}}
    /\ fragment = Render(ArmedMacs(disk))
    /\ offered  = fragment
    /\ mem      = [s \in Stores |-> Blank]
    /\ saved    = [w \in Workers |-> Blank]
    /\ content  = [w \in Workers |-> {}]
    /\ pc       = [w \in Workers |-> "idle"]
    /\ job      = [w \in Workers |-> Converge]
    /\ daemon   = "down"
    /\ owed     = ArmedMacs(disk)
    /\ cleared  = {}
    /\ ever     = ArmedMacs(disk)

-----------------------------------------------------------------------------
(* The steps every worker shares.  `mem[StoreOf(w)]' is shared by Main and *)
(* all handlers, so what a step reads may be newer than what w wrote.      *)

Goto(w, l) == pc' = [pc EXCEPT ![w] = l]

(* Mistake: the threads of a process that ended run on. *)
Gone_RunOn(ws) ==
    /\ pc'      = pc
    /\ job'     = [w \in Workers |-> IF w \in ws THEN Converge ELSE job[w]]
    /\ saved'   = [w \in Workers |-> IF w \in ws THEN Blank ELSE saved[w]]
    /\ content' = [w \in Workers |-> IF w \in ws THEN {} ELSE content[w]]

(* The workers of ws end: what they were doing and their temporary files   *)
(* are gone.                                                               *)
Gone(ws) ==
    /\ pc'      = [w \in Workers |-> IF w \in ws THEN "idle" ELSE pc[w]]
    /\ job'     = [w \in Workers |-> IF w \in ws THEN Converge ELSE job[w]]
    /\ saved'   = [w \in Workers |-> IF w \in ws THEN Blank ELSE saved[w]]
    /\ content' = [w \in Workers |-> IF w \in ws THEN {} ELSE content[w]]

(* The processes of ws end, and with them their in-memory copies. *)
Freed(ws) == mem' = [s \in Stores |-> IF s \in ws THEN Blank ELSE mem[s]]

(* A worker that fails.  An exception in Main ends the serve process with  *)
(* exit status 1; one in a handler closes its connection without an answer *)
(* and leaves the shared copy as it is.                                    *)
Stop(w) ==
    /\ Gone({w})
    /\ Freed({w})
    /\ daemon' = IF w = Main THEN "down" ELSE daemon

(* Change the in-memory copy.  Receiving a disarming report, or running    *)
(* `disarm', is a cause to stop owing the install.                         *)
Mutate(w) ==
    /\ pc[w] = "mutate"
    /\ job[w].kind = "report" => job[w].result \in ValidResults
    /\ mem' = [mem EXCEPT ![StoreOf(w)] = Mutated(@, job[w])]
    /\ owed' = owed \ Released(job[w])
    /\ IF job[w].kind = "arm"
       THEN /\ cleared' = cleared \ job[w].macs
            /\ ever' = ever \cup job[w].macs
       ELSE UNCHANGED <<cleared, ever>>
    /\ Goto(w, "dump")
    /\ UNCHANGED <<disk, saved, fragment, offered, content, job, daemon>>

(* Missing or invalid fields: 400, nothing recorded. *)
Reject(w) ==
    /\ pc[w] = "mutate"
    /\ job[w].kind = "report"
    /\ job[w].result \notin ValidResults
    /\ Stop(w)
    /\ UNCHANGED <<disk, fragment, offered, history>>

(* _save, first half: json.dump of the copy into a temporary file. *)
Dump(w) ==
    /\ pc[w] = "dump"
    /\ saved' = [saved EXCEPT ![w] = mem[StoreOf(w)]]
    /\ Goto(w, "replace")
    /\ UNCHANGED <<disk, mem, fragment, offered, content, job, daemon, history>>

(* Mistake: the temporary file is never renamed into place. *)
Replace_Forgotten(w) ==
    /\ pc[w] = "replace"
    /\ saved' = [saved EXCEPT ![w] = Blank]
    /\ owed' = IF job[w].kind = "arm" THEN owed \cup job[w].macs ELSE owed
    /\ Goto(w, "render")
    /\ UNCHANGED <<disk, mem, fragment, offered, content, job, daemon, cleared, ever>>

(* _save, second half: os.replace. *)
Replace(w) ==
    /\ pc[w] = "replace"
    /\ disk' = saved[w]
    /\ saved' = [saved EXCEPT ![w] = Blank]
    /\ owed' = IF job[w].kind = "arm" THEN owed \cup job[w].macs ELSE owed
    /\ Goto(w, "render")
    /\ UNCHANGED <<mem, fragment, offered, content, job, daemon, cleared, ever>>

(* Mistake: a failed save is ignored and the fragment rendered anyway. *)
SaveFails_Ignored(w) ==
    /\ pc[w] \in {"dump", "replace"}
    /\ Goto(w, "render")
    /\ UNCHANGED <<disk, mem, saved, fragment, offered, content, job, daemon, history>>

(* _save raises (disk full, or another thread added a key while json.dump  *)
(* was walking the dictionary): the temporary file is removed, the         *)
(* in-memory copy keeps the change, and the worker ends.                   *)
SaveFails(w) ==
    /\ pc[w] \in {"dump", "replace"}
    /\ Stop(w)
    /\ UNCHANGED <<disk, fragment, offered, history>>

(* regenerate: read the armed MACs, render, write the temporary fragment. *)
RenderFragment(w) ==
    /\ pc[w] = "render"
    /\ content' = [content EXCEPT ![w] = Render(ArmedMacs(mem[StoreOf(w)]))]
    /\ Goto(w, "test")
    /\ UNCHANGED <<disk, mem, saved, fragment, offered, job, daemon, history>>

(* `dnsmasq --test' accepts the temporary fragment and it is renamed over  *)
(* the installed one.                                                      *)
InstallFragment(w) ==
    /\ pc[w] = "test"
    /\ fragment' = content[w]
    /\ content' = [content EXCEPT ![w] = {}]
    /\ Goto(w, "restart")
    /\ UNCHANGED <<disk, mem, saved, offered, job, daemon, history>>

(* `dnsmasq --test' fails: the last-good fragment stays, no restart. *)
TestFails(w) ==
    /\ pc[w] = "test"
    /\ Stop(w)
    /\ UNCHANGED <<disk, fragment, offered, history>>

(* Mistake: a reload, which does not read the fragment again. *)
Restart_Reload(w) ==
    /\ pc[w] = "restart"
    /\ Goto(w, "answer")
    /\ UNCHANGED <<disk, mem, saved, fragment, offered, content, job, daemon, history>>

(* `systemctl restart dnsmasq': it reads whatever fragment is installed    *)
(* now, not necessarily the one this worker installed.                     *)
Restart(w) ==
    /\ pc[w] = "restart"
    /\ offered' = fragment
    /\ Goto(w, "answer")
    /\ UNCHANGED <<disk, mem, saved, fragment, content, job, daemon, history>>

RestartFails(w) ==
    /\ pc[w] = "restart"
    /\ offered' = {}
    /\ Stop(w)
    /\ UNCHANGED <<disk, fragment, history>>

(* The worker's success is told: 200 to the installer, or the CLI's line   *)
(* and exit status 0.  After its start-up regenerate, Main serves.         *)
Answer(w) ==
    /\ pc[w] = "answer"
    /\ cleared' = cleared \cup Released(job[w])
    /\ daemon' = IF w = Main THEN "serving" ELSE daemon
    /\ Gone({w})
    /\ Freed({w} \cap Clis)
    /\ UNCHANGED <<disk, fragment, offered, owed, ever>>

-----------------------------------------------------------------------------
(* The serve process *)

(* systemd starts it (also again after a failure): state.json is read here *)
(* and never again.  A host with no handler thread has no serve process.   *)
StartDaemon ==
    /\ daemon = "down"
    /\ Handlers # {}
    /\ daemon' = "starting"
    /\ mem' = [mem EXCEPT ![Main] = disk]
    /\ job' = [job EXCEPT ![Main] = Converge]
    /\ Goto(Main, "render")
    /\ UNCHANGED <<disk, saved, fragment, offered, content, history>>

(* A phone-home request is read by an idle handler thread. *)
Receive(h, r) ==
    /\ daemon = "serving"
    /\ pc[h] = "idle"
    /\ job' = [job EXCEPT ![h] = r]
    /\ Goto(h, "mutate")
    /\ UNCHANGED <<disk, mem, saved, fragment, offered, content, daemon, history>>

(* The serve process is killed: its threads and its memory are gone. *)
Crash ==
    /\ daemon # "down"
    /\ daemon' = "down"
    /\ Gone(Handlers \cup {Main})
    /\ Freed({Main})
    /\ UNCHANGED <<disk, fragment, offered, history>>

-----------------------------------------------------------------------------
(* The command line *)

Commands ==
    {[kind |-> k, macs |-> {p.eth0 : p \in ps}] :
        k \in {"arm", "disarm"}, ps \in SUBSET Identity \ {{}}}
    \cup {Converge}

(* Mistake: the CLI starts from an empty state. *)
StartCli_Empty(c, j) ==
    /\ pc[c] = "idle"
    /\ mem' = [mem EXCEPT ![c] = Blank]
    /\ job' = [job EXCEPT ![c] = j]
    /\ Goto(c, IF j = Converge THEN "render" ELSE "mutate")
    /\ UNCHANGED <<disk, saved, fragment, offered, content, daemon, history>>

(* A run of the CLI reads state.json into a copy of its own. *)
StartCli(c, j) ==
    /\ pc[c] = "idle"
    /\ mem' = [mem EXCEPT ![c] = disk]
    /\ job' = [job EXCEPT ![c] = j]
    /\ Goto(c, IF j = Converge THEN "render" ELSE "mutate")
    /\ UNCHANGED <<disk, saved, fragment, offered, content, daemon, history>>

KillCli(c) ==
    /\ pc[c] # "idle"
    /\ Stop(c)
    /\ UNCHANGED <<disk, fragment, offered, history>>

(* wisp restarts: every process is gone and dnsmasq starts with the        *)
(* installed fragment.                                                     *)
Reboot ==
    /\ Gone(Workers)
    /\ Freed(Workers)
    /\ daemon' = "down"
    /\ offered' = fragment
    /\ UNCHANGED <<disk, fragment, history>>

(* The operator, or the boot of the host, starts dnsmasq with the          *)
(* installed fragment.                                                     *)
StartDnsmasq ==
    /\ offered' = fragment
    /\ UNCHANGED <<disk, mem, saved, fragment, content, pc, job, daemon, history>>

-----------------------------------------------------------------------------
Advance(w) ==
    \/ Mutate(w) \/ Reject(w)
    \/ Dump(w) \/ Replace(w)
    \/ RenderFragment(w) \/ InstallFragment(w) \/ Restart(w)
    \/ Answer(w)

Fail(w) == SaveFails(w) \/ TestFails(w) \/ RestartFails(w)

Begin ==
    \/ StartDaemon
    \/ StartDnsmasq
    \/ \E h \in Handlers, r \in Report : Receive(h, r)
    \/ \E c \in Clis, j \in Commands : StartCli(c, j)

Fault ==
    \/ \E w \in Workers : Fail(w)
    \/ \E c \in Clis : KillCli(c)
    \/ Crash
    \/ Reboot

Next == (\E w \in Workers : Advance(w)) \/ Begin \/ Fault

Spec == Init /\ [][Next]_vars

(* Nothing fails. *)
CleanSpec == Init /\ [][(\E w \in Workers : Advance(w)) \/ Begin]_vars

(* No two workers are ever active together: what a lock held for the whole *)
(* of each request and each command would give.                            *)
OneAtATime == \A v, w \in Workers : pc[v] # "idle" /\ pc[w] # "idle" => v = w

SequentialSpec == Init /\ [][Next /\ OneAtATime']_vars

(* The operator stops the serve process for each command, and runs one     *)
(* command at a time.  Nothing in the code asks for it.                    *)
CliAlone ==
    \A c \in Clis : pc[c] # "idle" =>
        daemon = "down" /\ \A d \in Clis : pc[d] # "idle" => d = c

StoppedSpec == Init /\ [][Next /\ CliAlone']_vars

(* Both, and both without a failure.                                       *)
SerialSpec == Init /\ [][Next /\ OneAtATime' /\ CliAlone']_vars

CleanSerialSpec ==
    Init /\ [][((\E w \in Workers : Advance(w)) \/ Begin) /\ OneAtATime' /\ CliAlone']_vars

-----------------------------------------------------------------------------
(* Properties *)

(* A handler works on a report, a CLI process on a command, and a worker   *)
(* that changes or saves the state has something to do.                    *)
JobOK ==
    /\ \A h \in Handlers : job[h] \in Report \cup {Converge}
    /\ \A c \in Clis : job[c] \in Command \cup {Converge}
    /\ job[Main] = Converge
    /\ \A w \in Workers :
          pc[w] \in {"mutate", "dump", "replace"} => job[w] # Converge

(* Every variable holds a value of its kind: state.json and its copies map *)
(* MACs to entries, a worker is at one of the steps of its code.           *)
TypeOK ==
    /\ disk \in Store
    /\ mem \in [Stores -> Store]
    /\ saved \in [Workers -> Store]
    /\ fragment \in Conf /\ offered \in Conf
    /\ content \in [Workers -> Conf]
    /\ pc \in [Workers -> Locations]
    /\ job \in [Workers -> Job] /\ JobOK
    /\ daemon \in {"down", "starting", "serving"}
    /\ owed \subseteq Macs /\ cleared \subseteq Macs /\ ever \subseteq Macs

(* Whatever the threads, CLI runs, failures and crashes do to each other,  *)
(* dnsmasq only ever offers the installer, which rewrites the eMMC, to a   *)
(* puck that the operator armed at some time.                              *)
OfferedOnlyIfArmed ==
    \A p \in offered \cup fragment : {p.eth0, p.eth1} \cap ever # {}

(* "Failures never disarm": a MAC that state.json holds as armed stays so  *)
(* until a disarming report or a `disarm' for it arrives; no save by       *)
(* another worker, failed save or restart loses the install.               *)
NoLostArm == owed \subseteq ArmedMacs(disk)

(* "arming is CLI-only": once a disarm was confirmed, by a 200 to the      *)
(* installer or by the CLI's exit status, state.json does not hold the MAC *)
(* as armed until the operator arms it again.                              *)
NoZombieArm == cleared \cap ArmedMacs(disk) = {}

(* "dnsmasq updated": when a worker reports success, what dnsmasq offers   *)
(* is what state.json says.                                                *)
AnswerMeansOffered ==
    \A w \in Workers : pc[w] = "answer" => offered = Render(ArmedMacs(disk))

(* "Render the fragment from identity + state and activate it": with the   *)
(* daemon serving and no worker active, dnsmasq offers what the daemon's   *)
(* copy of the state says.  (Without failures, see CleanSpec: after one    *)
(* the last-good fragment legitimately stays.)                             *)
QuietMeansOffered ==
    daemon = "serving" /\ (\A w \in Workers : pc[w] = "idle")
        => offered = Render(ArmedMacs(mem[Main]))

-----------------------------------------------------------------------------
(* Inductive strengthenings of the properties above *)

(* OfferedOnlyIfArmed: no copy of the armed set, and no rendering of it,   *)
(* holds a MAC that the operator never armed.                              *)
NothingInvented ==
    /\ ArmedMacs(disk) \subseteq ever
    /\ \A s \in Stores : ArmedMacs(mem[s]) \subseteq ever
    /\ \A w \in Workers : ArmedMacs(saved[w]) \subseteq ever
    /\ \A w \in Workers : \A p \in content[w] : {p.eth0, p.eth1} \cap ever # {}
    /\ OfferedOnlyIfArmed

(* Main works only while the serve process starts, the handlers only once  *)
(* it serves.                                                              *)
Phases ==
    /\ pc[Main] # "idle" => daemon = "starting"
    /\ \A h \in Handlers : pc[h] # "idle" => daemon = "serving"
    /\ daemon # "down" => Handlers # {}

(* NoLostArm: no copy, and no file about to be renamed into place, lacks a *)
(* MAC that is owed its install, or one that the command at work arms.     *)
OwedEverywhere ==
    /\ NoLostArm
    /\ daemon # "down" => owed \subseteq ArmedMacs(mem[Main])
    /\ \A w \in Workers : pc[w] = "replace" => owed \subseteq ArmedMacs(saved[w])
    /\ \A c \in Clis :
         /\ pc[c] # "idle" => owed \subseteq ArmedMacs(mem[c])
         /\ pc[c] \in {"dump", "replace"} /\ job[c].kind = "arm"
              => job[c].macs \subseteq ArmedMacs(mem[c])
         /\ pc[c] = "replace" => saved[c] = mem[c]

(* AnswerMeansOffered, when one worker runs at a time: its copy,           *)
(* state.json, the fragment and dnsmasq fall into step one by one.         *)
InStep ==
    /\ \A w \in Workers :
         /\ pc[w] \in {"dump", "replace", "render", "test", "restart", "answer"}
              => Released(job[w]) \cap ArmedMacs(mem[StoreOf(w)]) = {}
         /\ pc[w] = "replace" => saved[w] = mem[StoreOf(w)]
         /\ pc[w] \in {"render", "test", "restart", "answer"} => disk = mem[StoreOf(w)]
         /\ pc[w] = "test" => content[w] = Render(ArmedMacs(disk))
         /\ pc[w] \in {"restart", "answer"} => fragment = Render(ArmedMacs(disk))
    /\ AnswerMeansOffered

(* NoZombieArm, when the daemon is down besides while a command runs: what *)
(* was confirmed disarmed is in no copy that may be saved.                 *)
ClearedEverywhere ==
    /\ NoZombieArm
    /\ daemon # "down" => cleared \cap ArmedMacs(mem[Main]) = {}
    /\ \A c \in Clis : pc[c] # "idle" => cleared \cap ArmedMacs(mem[c]) = {}

(* The armed set that a job makes of another. *)
Applied(j, armed) == (armed \ Released(j)) \cup (IF j.kind = "arm" THEN j.macs ELSE {})

(* ImplementsArming: the daemon's copy of the armed set is never larger    *)
(* than state.json, a command's is its own job away from it.               *)
OneJobAway ==
    /\ daemon # "down" => ArmedMacs(mem[Main]) \subseteq ArmedMacs(disk)
    /\ \A c \in Clis :
         /\ pc[c] = "mutate" => mem[c] = disk
         /\ pc[c] \in {"dump", "replace"}
              => ArmedMacs(mem[c]) = Applied(job[c], ArmedMacs(disk))

(* QuietMeansOffered, with nothing failing: until a handler changes the    *)
(* daemon's copy, fragment and dnsmasq are what that copy calls for.       *)
InLine ==
    daemon = "serving" /\ (\A w \in Workers : pc[w] \in {"idle", "mutate"})
        => fragment = Render(ArmedMacs(mem[Main])) /\ offered = fragment

-----------------------------------------------------------------------------
(* state.json, the installed fragment and the running dnsmasq implement    *)
(* the promise of Arming.                                                  *)
Promise == INSTANCE Arming WITH
               armed  <- ArmedMacs(disk),
               config <- fragment,
               offer  <- offered

(* One worker at a time, and the serve process stopped for every command:  *)
(* the control plane arms, disarms and publishes as Arming promises.       *)
ImplementsArming == Promise!Spec

(* One phone-home at a time and nobody at the command line: the daemon     *)
(* "only mutates state toward disarm", and never publishes a stale state.  *)
ImplementsUnattended == Promise!UnattendedSpec
=============================================================================
