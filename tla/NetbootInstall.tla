--------------------------- MODULE NetbootInstall ---------------------------
(***************************************************************************)
(* The pucks beside the control plane of NetbootControl.  A puck that is   *)
(* powered on asks for DHCP; offered the bootfile, it runs the installer   *)
(* image (gale-installer/files/usr/sbin/gale-autoinstall) from RAM,        *)
(* otherwise its firmware boots the eMMC.  The installer fetches the       *)
(* manifest, compares markers, writes and verifies the eMMC, wipes the old *)
(* overlay, reports, and reboots when the report was answered with 200; on *)
(* any failure it reports if it can and stays up.                          *)
(*                                                                         *)
(* Every step of NetbootControl is a step here, joined with what it does   *)
(* to the puck at the other end of the handler's connection.  Faults       *)
(* (failing steps, lost answers, power cuts, crashes) are counted up to    *)
(* MaxFaults; an operator's power cycle of a parked puck is not a fault.   *)
(***************************************************************************)
EXTENDS NetbootControl, Naturals

CONSTANTS
    Images,         \* image ids
    MaxFaults,      \* bound on the faults of a behaviour
    MaxPublishes    \* bound on the manifests published in a behaviour

ASSUME BoundsAssumption == MaxFaults \in Nat /\ MaxPublishes \in Nat

VARIABLES
    place,      \* what each puck is doing
    want,       \* the manifest each installer has fetched
    result,     \* the result each installer is reporting
    conn,       \* the handlers that serve each puck's phone-home: one or none
    marker,     \* the image id that each eMMC's /etc/gwifi-image-id reads
    whole,      \* FALSE from the start of a dd to an eMMC until its end
    overlay,    \* the image whose first boot made each puck's overlay, or none
    manifest,   \* the published manifest
    faults, publishes

pucks       == <<place, want, result, conn, marker, whole, overlay>>
server      == <<manifest, publishes>>
installVars == <<vars, pucks, server, faults>>

-----------------------------------------------------------------------------
None == "none"   \* no marker, or no overlay

ASSUME MarkerAssumption == None \notin Images

Manifests == [image : Images, force : SUBSET Macs]

(* The steps of the installer script, in order. *)
Installing == {"network", "manifest", "compare", "fetch", "write", "writing", "verify",
               "wipe", "report", "waiting", "parked"}
Places == Installing \cup {"off", "boot", "emmc", "dead"}

InstallInit ==
    /\ Init
    /\ place = [p \in Identity |-> "off"]
    /\ manifest \in [image : Images, force : {{}}]
    /\ want = [p \in Identity |-> manifest]
    /\ result = [p \in Identity |-> "failed"]
    /\ conn = [p \in Identity |-> {}]
    /\ marker \in [Identity -> {None} \cup Images]
    /\ whole = [p \in Identity |-> TRUE]
    /\ overlay = marker
    /\ faults = 0
    /\ publishes = 0

Move(p, l) == place' = [place EXCEPT ![p] = l]

FaultHappens == faults < MaxFaults /\ faults' = faults + 1

-----------------------------------------------------------------------------
(* The firmware *)

PowerOn(p) ==
    /\ place[p] = "off"
    /\ Move(p, "boot")
    /\ UNCHANGED <<vars, want, result, conn, marker, whole, overlay, server, faults>>

(* Mistake: the firmware netboots whether offered the bootfile or not. *)
NetBoot_Always(p) ==
    /\ place[p] = "boot"
    /\ Move(p, "network")
    /\ UNCHANGED <<vars, want, result, conn, marker, whole, overlay, server, faults>>

(* DHCP offers the bootfile and TFTP delivers it. *)
NetBoot(p) ==
    /\ place[p] = "boot"
    /\ p \in offered
    /\ Move(p, "network")
    /\ UNCHANGED <<vars, want, result, conn, marker, whole, overlay, server, faults>>

(* Mistake: half an image makes an overlay too. *)
BootDisk_Torn(p) ==
    /\ Move(p, "emmc")
    /\ overlay' = [overlay EXCEPT ![p] = IF @ = None THEN "torn" ELSE @]
    /\ UNCHANGED <<vars, want, result, conn, marker, whole, server>>

(* The eMMC boots, if it holds a whole image; a first boot without an      *)
(* overlay makes one.                                                      *)
BootDisk(p) ==
    /\ Move(p, IF whole[p] THEN "emmc" ELSE "dead")
    /\ overlay' = [overlay EXCEPT ![p] = IF whole[p] /\ @ = None THEN marker[p] ELSE @]
    /\ UNCHANGED <<vars, want, result, conn, marker, whole, server>>

(* No bootfile is offered: the firmware falls back to the eMMC. *)
EmmcBoot(p) ==
    /\ place[p] = "boot"
    /\ p \notin offered
    /\ BootDisk(p)
    /\ UNCHANGED faults

(* The bootfile is offered but does not arrive. *)
TftpFails(p) ==
    /\ place[p] = "boot"
    /\ p \in offered
    /\ BootDisk(p)
    /\ FaultHappens

(* Power is cut, in the middle of anything.  A phone-home already with a   *)
(* handler goes on without the puck.                                       *)
PowerCut(p) ==
    /\ place[p] \notin {"off", "boot"}
    /\ Move(p, "off")
    /\ conn' = [conn EXCEPT ![p] = {}]
    /\ UNCHANGED <<vars, want, result, marker, whole, overlay, server>>

(* The operator power-cycles a puck to (re)enter the installer. *)
PowerCycle(p) ==
    /\ place[p] \in {"parked", "dead", "emmc"}
    /\ PowerCut(p)
    /\ UNCHANGED faults

PowerLoss(p) == FaultHappens /\ PowerCut(p)

-----------------------------------------------------------------------------
(* The installer script *)

(* A step that leaves the control plane and the eMMC alone. *)
Quietly == UNCHANGED <<vars, conn, marker, whole, overlay, server>>

(* `log ...; exit 1': the installer stays up, with nothing reported. *)
Park(p) == Move(p, "parked") /\ UNCHANGED <<want, result>> /\ Quietly

(* Go and report r. *)
Conclude(p, r) == Move(p, "report") /\ result' = [result EXCEPT ![p] = r]

NetworkUp(p) ==
    /\ place[p] = "network"
    /\ Move(p, "manifest")
    /\ UNCHANGED <<want, result, faults>> /\ Quietly

FetchManifest(p) ==
    /\ place[p] = "manifest"
    /\ daemon = "serving"
    /\ want' = [want EXCEPT ![p] = manifest]
    /\ Move(p, "compare")
    /\ UNCHANGED <<result, faults>> /\ Quietly

(* Mistake: a marker that cannot be read counts as current. *)
Current_Unreadable(p) ==
    marker[p] \in {None, want[p].image} /\ p.eth0 \notin want[p].force

(* The idempotence check looks at nothing but the marker on the eMMC. *)
Current(p) == marker[p] = want[p].image /\ p.eth0 \notin want[p].force

Compare(p) ==
    /\ place[p] = "compare"
    /\ IF Current(p)
       THEN Conclude(p, "already-current")
       ELSE Move(p, "fetch") /\ UNCHANGED result
    /\ UNCHANGED <<want, faults>> /\ Quietly

(* The image is fetched and its sha256 agrees with the manifest's. *)
FetchImage(p) ==
    /\ place[p] = "fetch"
    /\ Move(p, "write")
    /\ UNCHANGED <<want, result, faults>> /\ Quietly

(* dd to the eMMC, first to last block: the boot partition and the old     *)
(* rootfs are overwritten in turn, so for a while the old marker can still *)
(* be read, then none can.                                                 *)
StartWrite(p) ==
    /\ place[p] = "write"
    /\ \E m \in {None, marker[p]} : marker' = [marker EXCEPT ![p] = m]
    /\ whole' = [whole EXCEPT ![p] = FALSE]
    /\ Move(p, "writing")
    /\ UNCHANGED <<vars, want, result, conn, overlay, server, faults>>

(* Mistake: what is written is the newest image, not the manifest's. *)
EndWrite_Newest(p) ==
    /\ place[p] = "writing"
    /\ marker' = [marker EXCEPT ![p] = manifest.image]
    /\ whole' = [whole EXCEPT ![p] = TRUE]
    /\ Move(p, "verify")
    /\ UNCHANGED <<vars, want, result, conn, overlay, server, faults>>

(* dd has written and synced the last block. *)
EndWrite(p) ==
    /\ place[p] = "writing"
    /\ marker' = [marker EXCEPT ![p] = want[p].image]
    /\ whole' = [whole EXCEPT ![p] = TRUE]
    /\ Move(p, "verify")
    /\ UNCHANGED <<vars, want, result, conn, overlay, server, faults>>

(* The new partition table, the mount and the marker on it are right. *)
Verify(p) ==
    /\ place[p] = "verify"
    /\ Move(p, "wipe")
    /\ UNCHANGED <<want, result, faults>> /\ Quietly

(* The old overlay is zeroed, so that the next boot is a first boot. *)
Wipe(p) ==
    /\ place[p] = "wipe"
    /\ overlay' = [overlay EXCEPT ![p] = None]
    /\ Conclude(p, "success")
    /\ UNCHANGED <<vars, want, conn, marker, whole, server, faults>>

(* Mistake: a failed step is reported as a success. *)
StepFails_Unnoticed(p) ==
    /\ place[p] \in {"fetch", "writing", "verify", "wipe"}
    /\ FaultHappens
    /\ Conclude(p, "success")
    /\ UNCHANGED want /\ Quietly

(* A step that fails is reported as such. *)
StepFails(p) ==
    /\ place[p] \in {"fetch", "writing", "verify", "wipe"}
    /\ FaultHappens
    /\ Conclude(p, "failed")
    /\ UNCHANGED want /\ Quietly

(* phone_home *)
ReportOf(p) == [kind |-> "report", mac |-> p.eth0, result |-> result[p]]

PhoneHome(p, h) ==
    /\ place[p] = "report"
    /\ Receive(h, ReportOf(p))
    /\ conn' = [conn EXCEPT ![p] = {h}]
    /\ Move(p, "waiting")
    /\ UNCHANGED <<want, result, marker, whole, overlay, server, faults>>

(* The API is down: connection refused. *)
GiveUp(p) ==
    /\ place[p] \in {"manifest", "report"}
    /\ daemon # "serving"
    /\ Park(p)
    /\ UNCHANGED faults

(* No network within the timeout, no manifest, or the report is lost. *)
LinkFails(p) ==
    /\ place[p] \in {"network", "manifest", "report"}
    /\ Park(p)
    /\ FaultHappens

(* The answer is lost, or late beyond the client's timeout. *)
LoseAnswer(p) ==
    /\ place[p] = "waiting"
    /\ FaultHappens
    /\ Move(p, "parked")
    /\ conn' = [conn EXCEPT ![p] = {}]
    /\ UNCHANGED <<vars, want, result, marker, whole, overlay, server>>

-----------------------------------------------------------------------------
(* The control plane's steps, as the pucks see them *)

(* The connections that the workers of ws serve close: with a 200 after    *)
(* which an installed puck reboots, or without.                            *)
HangUp(ws, ok) ==
    /\ place' = [p \in Identity |->
                    IF conn[p] \cap ws = {} THEN place[p]
                    ELSE IF ok /\ result[p] \in DisarmingResults THEN "boot"
                    ELSE "parked"]
    /\ conn' = [p \in Identity |-> IF conn[p] \cap ws = {} THEN conn[p] ELSE {}]
    /\ UNCHANGED <<want, result, marker, whole, overlay>>

Serve(w) ==
    /\ \/ Mutate(w) \/ Dump(w) \/ Replace(w)
       \/ RenderFragment(w) \/ InstallFragment(w) \/ Restart(w)
    /\ UNCHANGED <<pucks, server, faults>>

(* (The installer's reports are well-formed, so Reject has no part here.) *)
Finish(w) == Answer(w) /\ HangUp({w}, TRUE) /\ UNCHANGED <<server, faults>>

ServeFails(w) == Fail(w) /\ HangUp({w}, FALSE) /\ FaultHappens /\ UNCHANGED server

Launch ==
    /\ StartDaemon \/ StartDnsmasq \/ (\E c \in Clis, j \in Commands : StartCli(c, j))
    /\ UNCHANGED <<pucks, server, faults>>

Die ==
    /\ Crash \/ Reboot \/ (\E c \in Clis : KillCli(c))
    /\ HangUp({w \in Handlers : pc'[w] = "idle"}, FALSE)
    /\ FaultHappens
    /\ UNCHANGED server

(* gwifi-netboot publish: the image first, then the manifest. *)
Publish(i, fs) ==
    /\ publishes < MaxPublishes
    /\ publishes' = publishes + 1
    /\ manifest' = [image |-> i, force |-> fs]
    /\ UNCHANGED <<vars, pucks, faults>>

-----------------------------------------------------------------------------
PuckStep(p) ==
    \/ PowerOn(p) \/ NetBoot(p) \/ EmmcBoot(p)
    \/ NetworkUp(p) \/ FetchManifest(p) \/ Compare(p) \/ FetchImage(p)
    \/ StartWrite(p) \/ EndWrite(p) \/ Verify(p) \/ Wipe(p)
    \/ (\E h \in Handlers : PhoneHome(p, h)) \/ GiveUp(p)

PuckFails(p) ==
    \/ TftpFails(p) \/ PowerLoss(p)
    \/ StepFails(p) \/ LinkFails(p) \/ LoseAnswer(p)

InstallNext ==
    \/ \E p \in Identity : PuckStep(p) \/ PuckFails(p) \/ PowerCycle(p)
    \/ \E w \in Workers : Serve(w) \/ Finish(w) \/ ServeFails(w)
    \/ Launch
    \/ Die
    \/ \E i \in Images, fs \in SUBSET {p.eth0 : p \in Identity} : Publish(i, fs)

InstallSpec == InstallInit /\ [][InstallNext]_installVars

(* The window of gale-autoinstall in which an install must not be cut: the *)
(* eMMC is whole and reads as current, the old overlay is not yet gone.    *)
(* Nothing keeps a fault out of it.                                        *)
CutBeforeWipe(p) == place[p] \in {"verify", "wipe"} /\ (StepFails(p) \/ PowerLoss(p))

UncutSpec ==
    InstallInit /\ [][InstallNext /\ ~\E p \in Identity : CutBeforeWipe(p)]_installVars

(* The processes of wisp and the installer script run, systemd restarts    *)
(* the serve process, and the operator starts a dead dnsmasq and           *)
(* power-cycles a puck that is still armed.                                *)
Fairness ==
    /\ \A p \in Identity :
          /\ WF_installVars(PuckStep(p))
          /\ WF_installVars(p.eth0 \in ArmedMacs(disk) /\ PowerCycle(p))
    /\ \A w \in Workers : WF_installVars(Serve(w) \/ Finish(w))
    /\ WF_installVars(StartDaemon /\ Launch)
    /\ WF_installVars(StartDnsmasq /\ Launch)

LiveSpec == InstallSpec /\ Fairness

-----------------------------------------------------------------------------
(* Properties *)

(* Every variable holds a value of its kind. *)
InstallTypeOK ==
    /\ place \in [Identity -> Places]
    /\ want \in [Identity -> Manifests] /\ manifest \in Manifests
    /\ result \in [Identity -> ValidResults]
    /\ conn \in [Identity -> SUBSET Handlers]
    /\ marker \in [Identity -> Images \cup {None}]
    /\ whole \in [Identity -> BOOLEAN]
    /\ overlay \in [Identity -> Images \cup {None}]
    /\ faults \in Nat /\ publishes \in Nat

(* The eMMC of a puck is written only if the operator armed that puck at   *)
(* some time, whatever races, losses and restarts came between.            *)
WriteOnlyIfArmed ==
    [][\A p \in Identity :
          whole'[p] # whole[p] \/ marker'[p] # marker[p]
              => {p.eth0, p.eth1} \cap ever # {}]_installVars

(* "flashed+verified": a success that wisp is handed over a live           *)
(* connection is true of the puck's eMMC at that time: it holds the whole  *)
(* of the image that is reported.                                          *)
ReportIsTrue ==
    \A p \in Identity :
        place[p] = "waiting" /\ result[p] = "success"
            => whole[p] /\ marker[p] = want[p].image

(* "corrupt eMMC => treat as stale": an installer that reports             *)
(* already-current, which disarms the puck, has a whole image on its eMMC. *)
CurrentIsWhole ==
    \A p \in Identity :
        place[p] = "waiting" /\ result[p] = "already-current" => whole[p]

(* "puck still netbootable for a retry cycle": a puck whose eMMC holds     *)
(* half an image is still armed, so that a power cycle offers it the       *)
(* installer again.                                                        *)
TornIsArmed ==
    \A p \in Identity : ~whole[p] => p.eth0 \in ArmedMacs(disk)

(* "clean firstboot": OpenWrt never runs on an overlay that an older image *)
(* made, whose configuration would shadow the new one.                     *)
NoStaleOverlay ==
    \A p \in Identity : place[p] = "emmc" => overlay[p] = marker[p]

(* "Self-healing": an armed puck is in the end current and no longer       *)
(* armed, after any faults within the bound.                               *)
InstallCompletes ==
    \A p \in Identity :
        p.eth0 \in owed ~> (p.eth0 \notin ArmedMacs(disk) /\ whole[p] /\ marker[p] = want[p].image)

(* Inductive strengthening of WriteOnlyIfArmed and ReportIsTrue: a puck in *)
(* the installer was armed, from the end of dd on its eMMC holds the image *)
(* it is going to report, and only a puck that waits has a connection.     *)
InstallerSound ==
    \A p \in Identity :
      /\ place[p] \in Installing => {p.eth0, p.eth1} \cap ever # {}
      /\ (place[p] \in {"verify", "wipe"}
           \/ (place[p] \in {"report", "waiting"} /\ result[p] = "success"))
           => whole[p] /\ marker[p] = want[p].image
      /\ conn[p] # {} => place[p] = "waiting"
=============================================================================
