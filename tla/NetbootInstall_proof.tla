------------------------ MODULE NetbootInstall_proof ------------------------
(* Proofs about the pucks and the control plane together, for any number   *)
(* of pucks, images, handler threads and command-line processes, and any   *)
(* bounds on faults and publishes.                                         *)
EXTENDS NetbootInstall, NetbootControl_proof

-----------------------------------------------------------------------------
(* Type correctness *)

(* A connection that closes leaves its puck rebooting or parked. *)
LEMMA HangUpType ==
    ASSUME InstallTypeOK, NEW ws, NEW ok, HangUp(ws, ok)
    PROVE  /\ place' \in [Identity -> Places]
           /\ conn' \in [Identity -> SUBSET Handlers]
           /\ UNCHANGED <<want, result, marker, whole, overlay>>
<1>1. place' \in [Identity -> Places]
  BY DEF InstallTypeOK, HangUp, Places, Installing
<1>2. conn' \in [Identity -> SUBSET Handlers]
  BY DEF InstallTypeOK, HangUp
<1> QED
  BY <1>1, <1>2 DEF HangUp

(* A fault counts. *)
LEMMA FaultType ==
    ASSUME InstallTypeOK, FaultHappens \/ UNCHANGED faults
    PROVE  faults' \in Nat
  BY DEF InstallTypeOK, FaultHappens

(* Every variable of the pucks and of the image server holds a value of    *)
(* its kind.                                                               *)
THEOREM InstallTypeCorrect == InstallSpec => []InstallTypeOK
<1>1. InstallInit => InstallTypeOK
  BY DEF InstallInit, InstallTypeOK, Places, ValidResults, Manifests
<1>2. InstallTypeOK /\ [InstallNext]_installVars => InstallTypeOK'
  <2> SUFFICES ASSUME InstallTypeOK, [InstallNext]_installVars PROVE InstallTypeOK'
    OBVIOUS
  <2> USE DEF InstallTypeOK, Move, Places, Installing, server, pucks
  <2>1. ASSUME NEW p \in Identity,
               PowerOn(p) \/ NetBoot(p) \/ PowerCycle(p) \/ PowerLoss(p)
        PROVE  InstallTypeOK'
    BY <2>1, FaultType DEF PowerOn, NetBoot, PowerCycle, PowerLoss, PowerCut
  <2>2. ASSUME NEW p \in Identity, EmmcBoot(p) \/ TftpFails(p) PROVE InstallTypeOK'
    <3>1. overlay' \in [Identity -> Images \cup {None}]
      BY <2>2 DEF EmmcBoot, TftpFails, BootDisk
    <3>2. place' \in [Identity -> Places]
      BY <2>2 DEF EmmcBoot, TftpFails, BootDisk
    <3> QED
      BY <2>2, <3>1, <3>2, FaultType DEF EmmcBoot, TftpFails, BootDisk
  <2>3. ASSUME NEW p \in Identity,
               NetworkUp(p) \/ FetchManifest(p) \/ FetchImage(p) \/ Verify(p)
        PROVE  InstallTypeOK'
    BY <2>3 DEF NetworkUp, FetchManifest, FetchImage, Verify, Quietly
  <2>4. ASSUME NEW p \in Identity, Compare(p) \/ Wipe(p) \/ StepFails(p) PROVE InstallTypeOK'
    <3>1. result' \in [Identity -> ValidResults] /\ place' \in [Identity -> Places]
      BY <2>4 DEF Compare, Wipe, StepFails, Conclude, ValidResults, DisarmingResults
    <3> QED
      BY <2>4, <3>1, FaultType DEF Compare, Wipe, StepFails, Quietly
  <2>5. ASSUME NEW p \in Identity, StartWrite(p) \/ EndWrite(p) PROVE InstallTypeOK'
    <3>1. whole' \in [Identity -> BOOLEAN]
      BY <2>5 DEF StartWrite, EndWrite
    <3>2. marker' \in [Identity -> Images \cup {None}]
      <4>1. \A m \in Images \cup {None} :
               [marker EXCEPT ![p] = m] \in [Identity -> Images \cup {None}]
        OBVIOUS
      <4>2. want[p].image \in Images
        BY DEF Manifests
      <4> QED
        BY <2>5, <4>1, <4>2 DEF StartWrite, EndWrite
    <3>3. place' \in [Identity -> Places]
      BY <2>5 DEF StartWrite, EndWrite
    <3> QED
      BY <2>5, <3>1, <3>2, <3>3 DEF StartWrite, EndWrite
  <2>6. ASSUME NEW p \in Identity, NEW h \in Handlers, PhoneHome(p, h) PROVE InstallTypeOK'
    BY <2>6 DEF PhoneHome
  <2>7. ASSUME NEW p \in Identity, GiveUp(p) \/ LinkFails(p) \/ LoseAnswer(p)
        PROVE  InstallTypeOK'
    BY <2>7, FaultType DEF GiveUp, LinkFails, LoseAnswer, Park, Quietly
  <2>8. ASSUME NEW w \in Workers, Serve(w) PROVE InstallTypeOK'
    BY <2>8 DEF Serve
  <2>9. ASSUME NEW w \in Workers, Finish(w) \/ ServeFails(w) PROVE InstallTypeOK'
    BY <2>9, HangUpType, FaultType DEF Finish, ServeFails
  <2>10. CASE Launch
    BY <2>10 DEF Launch
  <2>11. CASE Die
    BY <2>11, HangUpType, FaultType DEF Die
  <2>12. ASSUME NEW i \in Images, NEW fs \in SUBSET {p.eth0 : p \in Identity}, Publish(i, fs)
         PROVE  InstallTypeOK'
    <3>1. fs \subseteq Macs
      BY IdentityAssumption
    <3> QED
      BY <2>12, <3>1 DEF Publish, Manifests
  <2>13. CASE UNCHANGED installVars
    BY <2>13 DEF installVars
  <2> QED
    BY <2>1, <2>2, <2>3, <2>4, <2>5, <2>6, <2>7, <2>8, <2>9, <2>10, <2>11, <2>12, <2>13
    DEF InstallNext, PuckStep, PuckFails
<1> QED
  BY <1>1, <1>2, PTL DEF InstallSpec

-----------------------------------------------------------------------------
(* The control plane inside the composition *)

(* What the installer reports is a report. *)
LEMMA ReportOfType ==
    ASSUME InstallTypeOK, NEW p \in Identity
    PROVE  ReportOf(p) \in Report
  BY IdentityAssumption DEF InstallTypeOK, ReportOf, Report, Manifests

(* Seen from wisp, a step of the composition is a step of the control      *)
(* plane or changes nothing there.                                         *)
LEMMA InstallStepIsControlStep ==
    ASSUME InstallTypeOK, [InstallNext]_installVars
    PROVE  [Next]_vars
<1>1. ASSUME NEW p \in Identity, PuckStep(p) PROVE [Next]_vars
  <2>1. ASSUME NEW h \in Handlers, PhoneHome(p, h) PROVE Next
    BY <2>1, ReportOfType DEF PhoneHome, Next, Begin
  <2>2. ASSUME ~\E h \in Handlers : PhoneHome(p, h) PROVE UNCHANGED vars
    BY <1>1, <2>2 DEF PuckStep, PowerOn, NetBoot, EmmcBoot, BootDisk, NetworkUp,
       FetchManifest, Compare, FetchImage, StartWrite, EndWrite, Verify, Wipe, GiveUp,
       Park, Quietly
  <2> QED
    BY <2>1, <2>2
<1>2. ASSUME NEW p \in Identity, PuckFails(p) \/ PowerCycle(p) PROVE UNCHANGED vars
  BY <1>2 DEF PuckFails, TftpFails, BootDisk, PowerLoss, PowerCycle, PowerCut, StepFails,
     LinkFails, LoseAnswer, Park, Quietly
<1>3. ASSUME NEW w \in Workers, Serve(w) \/ Finish(w) \/ ServeFails(w) PROVE Next
  BY <1>3 DEF Serve, Finish, ServeFails, Next, Advance, Fault
<1>4. CASE Launch
  BY <1>4 DEF Launch, Next, Begin
<1>5. CASE Die
  BY <1>5 DEF Die, Next, Fault
<1>6. ASSUME NEW i \in Images, NEW fs, Publish(i, fs) PROVE UNCHANGED vars
  BY <1>6 DEF Publish
<1>7. CASE UNCHANGED installVars
  BY <1>7 DEF installVars
<1> QED
  BY <1>1, <1>2, <1>3, <1>4, <1>5, <1>6, <1>7 DEF InstallNext

(* So every theorem about the control plane holds with pucks at work: the  *)
(* composition implements NetbootControl's specification.                  *)
THEOREM InstallRefinesControl == InstallSpec => Spec
<1>1. InstallInit => Init
  BY DEF InstallInit
<1>2. InstallTypeOK /\ [InstallNext]_installVars => [Next]_vars
  BY InstallStepIsControlStep
<1> QED
  BY <1>1, <1>2, InstallTypeCorrect, PTL DEF InstallSpec, Spec

-----------------------------------------------------------------------------
(* The eMMC of a puck *)

(* The operator's arming is never forgotten. *)
LEMMA EverGrows == ASSUME [Next]_vars PROVE ever \subseteq ever'
<1> USE DEF history
<1>1. ASSUME NEW w \in Workers, Mutate(w) \/ Reject(w) \/ Dump(w) \/ Replace(w)
      PROVE  ever \subseteq ever'
  BY <1>1 DEF Mutate, Reject, Dump, Replace
<1>2. ASSUME NEW w \in Workers,
             RenderFragment(w) \/ InstallFragment(w) \/ Restart(w) \/ Answer(w)
      PROVE  ever \subseteq ever'
  BY <1>2 DEF RenderFragment, InstallFragment, Restart, Answer
<1>3. CASE Begin
  BY <1>3 DEF Begin, StartDaemon, StartDnsmasq, Receive, StartCli
<1>4. CASE Fault
  <2>1. ASSUME NEW w \in Workers, Fail(w) PROVE ever' = ever
    BY <2>1 DEF Fail, SaveFails, TestFails, RestartFails
  <2>2. ASSUME NEW c \in Clis, KillCli(c) PROVE ever' = ever
    BY <2>2 DEF KillCli
  <2>3. CASE Crash \/ Reboot
    BY <2>3 DEF Crash, Reboot
  <2> QED
    BY <1>4, <2>1, <2>2, <2>3 DEF Fault
<1>5. CASE UNCHANGED vars
  BY <1>5 DEF vars
<1> QED
  BY <1>1, <1>2, <1>3, <1>4, <1>5 DEF Next, Advance

(* A connection that closes leaves the installers sound. *)
LEMMA HangUpSound ==
    ASSUME InstallTypeOK, InstallerSound, ever \subseteq ever',
           NEW ws, NEW ok, HangUp(ws, ok)
    PROVE  InstallerSound'
  BY DEF InstallTypeOK, InstallerSound, HangUp, Installing

(* A puck in the installer was armed, and from the end of its dd its eMMC  *)
(* holds the image that it is going to report.                             *)
THEOREM InstallerSoundInvariant == InstallSpec => []InstallerSound
<1>1. InstallInit => InstallerSound
  BY DEF InstallInit, InstallerSound, Installing
<1>2. InstallTypeOK /\ OfferedOnlyIfArmed /\ InstallerSound /\ [InstallNext]_installVars
        => InstallerSound'
  <2> SUFFICES ASSUME InstallTypeOK, OfferedOnlyIfArmed, InstallerSound,
                      [InstallNext]_installVars
               PROVE  InstallerSound'
    OBVIOUS
  <2>0. ever \subseteq ever'
    BY InstallStepIsControlStep, EverGrows
  <2> USE DEF InstallTypeOK, InstallerSound, Move, Installing, server, pucks
  <2>1. ASSUME NEW p \in Identity, PowerOn(p) \/ PowerCycle(p) \/ PowerLoss(p)
        PROVE  InstallerSound'
    BY <2>0, <2>1 DEF PowerOn, PowerCycle, PowerLoss, PowerCut
  <2>2. ASSUME NEW p \in Identity, NetBoot(p) PROVE InstallerSound'
    <3>1. {p.eth0, p.eth1} \cap ever # {}
      BY <2>2 DEF NetBoot, OfferedOnlyIfArmed
    <3> QED
      BY <2>0, <2>2, <3>1 DEF NetBoot
  <2>3. ASSUME NEW p \in Identity, EmmcBoot(p) \/ TftpFails(p) PROVE InstallerSound'
    BY <2>0, <2>3 DEF EmmcBoot, TftpFails, BootDisk
  <2>4. ASSUME NEW p \in Identity,
               NetworkUp(p) \/ FetchManifest(p) \/ FetchImage(p) \/ Verify(p)
        PROVE  InstallerSound'
    <3>1. place[p] \in {"network", "manifest", "fetch", "verify"} /\ conn[p] = {}
      BY <2>4 DEF NetworkUp, FetchManifest, FetchImage, Verify
    <3>2. \A q \in Identity : q # p => place'[q] = place[q] /\ want'[q] = want[q]
      BY <2>4 DEF NetworkUp, FetchManifest, FetchImage, Verify
    <3>3. place'[p] \in {"manifest", "compare", "write", "wipe"}
          /\ (place'[p] = "wipe" => place[p] = "verify" /\ want' = want)
      BY <2>4 DEF NetworkUp, FetchManifest, FetchImage, Verify
    <3>4. UNCHANGED <<conn, marker, whole, result>>
      BY <2>4 DEF NetworkUp, FetchManifest, FetchImage, Verify, Quietly
    <3> QED
      BY <2>0, <3>1, <3>2, <3>3, <3>4
  <2>5. ASSUME NEW p \in Identity, Compare(p) \/ Wipe(p) \/ StepFails(p)
        PROVE  InstallerSound'
    <3>1. place[p] \in Installing /\ conn[p] = {}
      BY <2>5 DEF Compare, Wipe, StepFails
    <3>2. \A q \in Identity : q # p => place'[q] = place[q] /\ result'[q] = result[q]
      BY <2>5 DEF Compare, Wipe, StepFails, Conclude
    <3>3. UNCHANGED <<conn, marker, whole, want>>
      BY <2>5 DEF Compare, Wipe, StepFails, Quietly
    <3>4. CASE Compare(p)
      BY <2>0, <3>1, <3>2, <3>3, <3>4 DEF Compare, Current, Conclude
    <3>5. CASE Wipe(p)
      BY <2>0, <3>1, <3>2, <3>3, <3>5 DEF Wipe, Conclude
    <3>6. CASE StepFails(p)
      BY <2>0, <3>1, <3>2, <3>3, <3>6 DEF StepFails, Conclude, DisarmingResults
    <3> QED
      BY <2>5, <3>4, <3>5, <3>6
  <2>6. ASSUME NEW p \in Identity, StartWrite(p) \/ EndWrite(p) PROVE InstallerSound'
    BY <2>0, <2>6 DEF StartWrite, EndWrite
  <2>7. ASSUME NEW p \in Identity, NEW h \in Handlers, PhoneHome(p, h)
        PROVE  InstallerSound'
    BY <2>0, <2>7 DEF PhoneHome
  <2>8. ASSUME NEW p \in Identity, GiveUp(p) \/ LinkFails(p) \/ LoseAnswer(p)
        PROVE  InstallerSound'
    BY <2>0, <2>8 DEF GiveUp, LinkFails, LoseAnswer, Park, Quietly
  <2>9. ASSUME NEW w \in Workers, Serve(w) PROVE InstallerSound'
    BY <2>0, <2>9 DEF Serve
  <2>10. ASSUME NEW w \in Workers, Finish(w) \/ ServeFails(w) PROVE InstallerSound'
    BY <2>0, <2>10, HangUpSound DEF Finish, ServeFails
  <2>11. CASE Launch
    BY <2>0, <2>11 DEF Launch
  <2>12. CASE Die
    BY <2>0, <2>12, HangUpSound DEF Die
  <2>13. ASSUME NEW i \in Images, NEW fs, Publish(i, fs) PROVE InstallerSound'
    BY <2>0, <2>13 DEF Publish
  <2>14. CASE UNCHANGED installVars
    BY <2>0, <2>14 DEF installVars
  <2> QED
    BY <2>1, <2>2, <2>3, <2>4, <2>5, <2>6, <2>7, <2>8, <2>9, <2>10, <2>11, <2>12, <2>13,
       <2>14
    DEF InstallNext, PuckStep, PuckFails
<1> QED
  BY <1>1, <1>2, InstallTypeCorrect, InstallRefinesControl, OfferedOnlyIfArmedInvariant, PTL
  DEF InstallSpec

(* A success over a live connection is true of the eMMC, whatever is       *)
(* published or fails in the meantime.                                     *)
THEOREM ReportIsTrueInvariant == InstallSpec => []ReportIsTrue
<1>1. InstallerSound => ReportIsTrue
  BY DEF InstallerSound, ReportIsTrue
<1> QED
  BY <1>1, InstallerSoundInvariant, PTL

(* The eMMC of a puck is only ever written when the operator armed that    *)
(* puck at some time, with any races between threads and processes on      *)
(* wisp, and any losses, power cuts and restarts.                          *)
THEOREM WriteOnlyIfArmedTheorem == InstallSpec => WriteOnlyIfArmed
<1>1. InstallTypeOK /\ InstallerSound /\ [InstallNext]_installVars
        => [\A p \in Identity :
              whole'[p] # whole[p] \/ marker'[p] # marker[p] => {p.eth0, p.eth1} \cap ever # {}]_installVars
  <2> SUFFICES ASSUME InstallTypeOK, InstallerSound, [InstallNext]_installVars,
                      NEW p \in Identity, whole'[p] # whole[p] \/ marker'[p] # marker[p]
               PROVE  {p.eth0, p.eth1} \cap ever # {}
    OBVIOUS
  <2>1. ASSUME NEW q \in Identity, StartWrite(q) \/ EndWrite(q)
        PROVE  {p.eth0, p.eth1} \cap ever # {}
    BY <2>1 DEF StartWrite, EndWrite, InstallTypeOK, InstallerSound, Installing
  <2>2. ASSUME UNCHANGED <<marker, whole>> PROVE FALSE
    BY <2>2
  <2>3. (\E q \in Identity : StartWrite(q) \/ EndWrite(q)) \/ UNCHANGED <<marker, whole>>
    BY DEF InstallNext, PuckStep, PuckFails, PowerOn, NetBoot, EmmcBoot, TftpFails,
       BootDisk, PowerCycle, PowerLoss, PowerCut, NetworkUp, FetchManifest, Compare,
       FetchImage, Verify, Wipe, GiveUp, LinkFails, LoseAnswer, StepFails, PhoneHome,
       Park, Quietly, Serve, Finish, ServeFails, HangUp, Launch, Die, Publish, pucks,
       installVars
  <2> QED
    BY <2>1, <2>2, <2>3
<1> QED
  BY <1>1, InstallTypeCorrect, InstallerSoundInvariant, PTL DEF InstallSpec, WriteOnlyIfArmed
-----------------------------------------------------------------------------
(* The overlay of a puck *)

(* Once an install has been through its wipe, the overlay is that of the   *)
(* image on the eMMC, or there is none; OpenWrt runs on the former.        *)
OverlayFits ==
    \A p \in Identity :
      /\ whole[p] /\ place[p] \notin {"verify", "wipe"} => overlay[p] \in {None, marker[p]}
      /\ place[p] = "emmc" => whole[p] /\ overlay[p] = marker[p]

(* A puck whose connection closes was waiting, and does not run OpenWrt.   *)
LEMMA HangUpFits ==
    ASSUME InstallTypeOK, InstallerSound, OverlayFits, NEW ws, NEW ok, HangUp(ws, ok)
    PROVE  OverlayFits'
<1>1. UNCHANGED <<marker, whole, overlay>>
  BY DEF HangUp
<1>2. ASSUME NEW p \in Identity
      PROVE  \/ place'[p] = place[p]
             \/ place[p] = "waiting" /\ place'[p] \in {"boot", "parked"}
  BY DEF HangUp, InstallerSound
<1> QED
  BY <1>1, <1>2 DEF OverlayFits

(* Only an install that is cut between its dd and its wipe leaves an       *)
(* overlay that does not fit.                                              *)
LEMMA OverlayFitsStep ==
    ASSUME InstallTypeOK, InstallerSound, OverlayFits, [InstallNext]_installVars,
           ~\E p \in Identity : CutBeforeWipe(p)
    PROVE  OverlayFits'
<1> USE DEF InstallTypeOK, OverlayFits, Move, server, pucks
<1>1. ASSUME NEW p \in Identity, PowerOn(p) \/ NetBoot(p) PROVE OverlayFits'
  BY <1>1 DEF PowerOn, NetBoot
<1>2. ASSUME NEW p \in Identity, PowerCycle(p) \/ PowerLoss(p) PROVE OverlayFits'
  <2>1. PowerCut(p) /\ place[p] \notin {"verify", "wipe"}
    BY <1>2 DEF PowerCycle, PowerLoss, CutBeforeWipe
  <2> QED
    BY <2>1 DEF PowerCut
<1>3. ASSUME NEW p \in Identity, EmmcBoot(p) \/ TftpFails(p) PROVE OverlayFits'
  <2>1. place[p] = "boot" /\ BootDisk(p)
    BY <1>3 DEF EmmcBoot, TftpFails
  <2>2. /\ marker' = marker /\ whole' = whole
        /\ \A q \in Identity : q # p => place'[q] = place[q] /\ overlay'[q] = overlay[q]
        /\ place'[p] = IF whole[p] THEN "emmc" ELSE "dead"
        /\ overlay'[p] = IF whole[p] /\ overlay[p] = None THEN marker[p] ELSE overlay[p]
    BY <2>1 DEF BootDisk
  <2> QED
    BY <2>1, <2>2
<1>4. ASSUME NEW p \in Identity,
             \/ NetworkUp(p) \/ FetchManifest(p) \/ FetchImage(p) \/ Verify(p)
             \/ Compare(p) \/ GiveUp(p) \/ LinkFails(p)
      PROVE  OverlayFits'
  BY <1>4 DEF NetworkUp, FetchManifest, FetchImage, Verify, Compare, Conclude, GiveUp,
     LinkFails, Park, Quietly
<1>5. ASSUME NEW p \in Identity, StepFails(p) PROVE OverlayFits'
  <2>1. place[p] \notin {"verify", "wipe"}
    BY <1>5 DEF CutBeforeWipe
  <2> QED
    BY <1>5, <2>1 DEF StepFails, Conclude, Quietly
<1>6. ASSUME NEW p \in Identity, StartWrite(p) \/ EndWrite(p) PROVE OverlayFits'
  BY <1>6 DEF StartWrite, EndWrite
<1>7. ASSUME NEW p \in Identity, Wipe(p) PROVE OverlayFits'
  BY <1>7 DEF Wipe, Conclude
<1>8. ASSUME NEW p \in Identity, NEW h \in Handlers, PhoneHome(p, h) PROVE OverlayFits'
  BY <1>8 DEF PhoneHome
<1>9. ASSUME NEW p \in Identity, LoseAnswer(p) PROVE OverlayFits'
  BY <1>9 DEF LoseAnswer
<1>10. ASSUME NEW w \in Workers, Serve(w) PROVE OverlayFits'
  BY <1>10 DEF Serve
<1>11. ASSUME NEW w \in Workers, Finish(w) \/ ServeFails(w) PROVE OverlayFits'
  BY <1>11, HangUpFits DEF Finish, ServeFails
<1>12. CASE Launch
  BY <1>12 DEF Launch
<1>13. CASE Die
  BY <1>13, HangUpFits DEF Die
<1>14. ASSUME NEW i \in Images, NEW fs, Publish(i, fs) PROVE OverlayFits'
  BY <1>14 DEF Publish
<1>15. CASE UNCHANGED installVars
  BY <1>15 DEF installVars
<1> QED
  BY <1>1, <1>2, <1>3, <1>4, <1>5, <1>6, <1>7, <1>8, <1>9, <1>10, <1>11, <1>12, <1>13,
     <1>14, <1>15
  DEF InstallNext, PuckStep, PuckFails

(* OpenWrt runs on the overlay of another image only after an install was  *)
(* cut between the end of its dd and its wipe: every other fault, and any  *)
(* publishes, races on wisp and commands, are harmless.                    *)
THEOREM UncutNoStaleOverlay == UncutSpec => []NoStaleOverlay
<1>1. InstallInit => OverlayFits
  BY DEF InstallInit, OverlayFits
<1>2. UncutSpec => InstallSpec
  BY PTL DEF UncutSpec, InstallSpec
<1>3. InstallTypeOK /\ InstallerSound /\ OverlayFits
        /\ [InstallNext /\ ~\E p \in Identity : CutBeforeWipe(p)]_installVars
      => OverlayFits'
  <2>1. ASSUME InstallTypeOK, InstallerSound, OverlayFits, UNCHANGED installVars
        PROVE  OverlayFits'
    BY <2>1 DEF installVars, pucks, OverlayFits
  <2> QED
    BY <2>1, OverlayFitsStep
<1>4. OverlayFits => NoStaleOverlay
  BY DEF OverlayFits, NoStaleOverlay
<1> QED
  BY <1>1, <1>2, <1>3, <1>4, InstallTypeCorrect, InstallerSoundInvariant, PTL DEF UncutSpec
-----------------------------------------------------------------------------
(* One manifest, nobody at the command line: what a retry finds *)

(* The eMMC holds all of the image that the manifest names. *)
Done(p) == whole[p] /\ marker[p] = manifest.image

(* While the manifest stays, an eMMC that is half written does not read    *)
(* like a current one, so that a retry writes it again; and what was ever  *)
(* reported, armed and is owed no more is on the eMMC for good.            *)
RetrySound ==
    /\ manifest.force = {}
    /\ ever \subseteq {p.eth0 : p \in Identity}
    /\ \A p \in Identity :
         /\ want[p] = manifest
         /\ place[p] \in {"fetch", "write"} => marker[p] # manifest.image
         /\ place[p] \in {"verify", "wipe"} => Done(p)
         /\ ~whole[p] => marker[p] # manifest.image /\ p.eth0 \in ever
         /\ place[p] \in {"report", "waiting"} /\ result[p] \in DisarmingResults => Done(p)
         /\ p.eth0 \in ever \ owed => Done(p)
         /\ \A h \in Handlers :
              pc[h] = "mutate" /\ Disarms(job[h]) /\ job[h].mac = p.eth0 => Done(p)

(* What a step of the control plane, but a phone-home that arrives, does   *)
(* to what RetrySound speaks of.                                           *)
ControlKeeps ==
    /\ ever' = ever
    /\ \A h \in Handlers : pc'[h] = "mutate" => pc[h] = "mutate" /\ job'[h] = job[h]
    /\ \/ owed' = owed
       \/ \E h \in Handlers : pc[h] = "mutate" /\ owed' = owed \ Released(job[h])

LEMMA WorkerKeeps ==
    ASSUME Clis = {}, TypeOK, NEW w \in Workers, Advance(w) \/ Fail(w)
    PROVE  ControlKeeps
<1> USE ProcessAssumption DEF TypeOK, Workers, ControlKeeps, history, Goto
<1>0. job[w] \in Report \cup {Converge} /\ (w \notin Handlers => job[w] = Converge)
  BY DEF JobOK
<1>1. CASE Mutate(w)
  <2>1. job[w].kind # "arm" /\ w \in Handlers
    BY <1>0, <1>1 DEF Mutate, JobOK, Report, Converge
  <2> QED
    BY <1>1, <2>1 DEF Mutate
<1>2. CASE Replace(w)
  <2>1. job[w].kind # "arm"
    BY <1>0 DEF Report, Converge
  <2> QED
    BY <1>2, <2>1 DEF Replace
<1>3. CASE Dump(w) \/ RenderFragment(w) \/ InstallFragment(w) \/ Restart(w)
  BY <1>3 DEF Dump, RenderFragment, InstallFragment, Restart
<1>4. CASE Answer(w)
  BY <1>4 DEF Answer, Gone
<1>5. CASE Reject(w) \/ Fail(w)
  BY <1>5 DEF Reject, Fail, SaveFails, TestFails, RestartFails, Stop, Gone
<1> QED
  BY <1>1, <1>2, <1>3, <1>4, <1>5 DEF Advance

LEMMA ProcessKeeps ==
    ASSUME Clis = {}, TypeOK, StartDaemon \/ StartDnsmasq \/ Crash \/ Reboot
    PROVE  ControlKeeps
<1> USE ProcessAssumption DEF TypeOK, Workers, ControlKeeps, history, Goto
<1>1. CASE StartDaemon \/ StartDnsmasq
  BY <1>1 DEF StartDaemon, StartDnsmasq
<1>2. CASE Crash \/ Reboot
  BY <1>2 DEF Crash, Reboot, Gone
<1> QED
  BY <1>1, <1>2

(* The pucks' side of such a step only closes connections.                 *)
LEMMA RetrySoundKept ==
    ASSUME TypeOK, InstallTypeOK, RetrySound, ControlKeeps,
           UNCHANGED <<want, result, marker, whole, manifest>>,
           \A p \in Identity : place'[p] \in {place[p], "boot", "parked"}
    PROVE  RetrySound'
<1>1. \A p \in Identity : Done(p)' = Done(p)
  BY DEF Done
<1>2. ASSUME NEW p \in Identity, p.eth0 \in ever \ owed' PROVE Done(p)
  <2>1. CASE owed' = owed
    BY <1>2, <2>1 DEF RetrySound
  <2>2. ASSUME NEW h \in Handlers, pc[h] = "mutate", owed' = owed \ Released(job[h])
        PROVE  Done(p)
    <3>1. job[h] \in Report \cup {Converge}
      BY DEF TypeOK, JobOK
    <3>2. Released(job[h]) = IF Disarms(job[h]) THEN {job[h].mac} ELSE {}
      BY <3>1 DEF Released, Report, Converge
    <3> QED
      BY <1>2, <2>2, <3>2 DEF RetrySound
  <2> QED
    BY <2>1, <2>2 DEF ControlKeeps
<1>3. \A h \in Handlers : pc'[h] = "mutate" => pc[h] = "mutate" /\ job'[h] = job[h]
  BY DEF ControlKeeps
<1>4. ever' = ever
  BY DEF ControlKeeps
<1> QED
  BY <1>1, <1>2, <1>3, <1>4 DEF RetrySound, Done

(* A step of a puck that changes neither its eMMC nor the control plane    *)
(* keeps RetrySound, if the new place calls for nothing new.               *)
LEMMA QuietStepSound ==
    ASSUME RetrySound, NEW p \in Identity,
           UNCHANGED <<pc, job, owed, ever, marker, whole, manifest>>,
           \A q \in Identity \ {p} :
              place'[q] = place[q] /\ result'[q] = result[q] /\ want'[q] = want[q],
           want'[p] = manifest,
           place'[p] \in {"fetch", "write"} => marker[p] # manifest.image,
           place'[p] \in {"verify", "wipe"} => Done(p),
           place'[p] \in {"report", "waiting"} /\ result'[p] \in DisarmingResults => Done(p)
    PROVE  RetrySound'
<1>1. \A q \in Identity : Done(q)' = Done(q)
  BY DEF Done
<1>2. ASSUME NEW q \in Identity
      PROVE  /\ want'[q] = manifest
             /\ place'[q] \in {"fetch", "write"} => marker[q] # manifest.image
             /\ place'[q] \in {"verify", "wipe"} => Done(q)
             /\ place'[q] \in {"report", "waiting"} /\ result'[q] \in DisarmingResults => Done(q)
  BY DEF RetrySound
<1> QED
  BY <1>1, <1>2 DEF RetrySound

(* RetrySound is kept by every step of a puck. *)
LEMMA PuckKeepsRetrySound ==
    ASSUME TypeOK, InstallTypeOK, InstallerSound, RetrySound,
           NEW p \in Identity, PuckStep(p) \/ PuckFails(p) \/ PowerCycle(p)
    PROVE  RetrySound'
<1> USE DEF InstallTypeOK, Move, server, pucks, vars, program, history
<1>1. CASE PowerOn(p) \/ NetBoot(p) \/ PowerCycle(p) \/ PowerLoss(p)
  BY <1>1, QuietStepSound DEF PowerOn, NetBoot, PowerCycle, PowerLoss, PowerCut, RetrySound
<1>2. CASE EmmcBoot(p) \/ TftpFails(p)
  BY <1>2, QuietStepSound DEF EmmcBoot, TftpFails, BootDisk, RetrySound
<1>3. CASE NetworkUp(p) \/ FetchManifest(p) \/ FetchImage(p) \/ Verify(p)
  BY <1>3, QuietStepSound DEF NetworkUp, FetchManifest, FetchImage, Verify, Quietly, RetrySound
<1>4. CASE Compare(p)
  <2>1. want[p] = manifest /\ manifest.force = {} /\ (~whole[p] => marker[p] # manifest.image)
    BY DEF RetrySound
  <2>2. Current(p) => Done(p)
    BY <2>1 DEF Current, Done
  <2>3. ~Current(p) => marker[p] # manifest.image
    BY <2>1 DEF Current
  <2>4. CASE Current(p)
    BY <1>4, <2>1, <2>2, <2>4, QuietStepSound DEF Compare, Conclude, Quietly
  <2>5. CASE ~Current(p)
    BY <1>4, <2>1, <2>3, <2>5, QuietStepSound DEF Compare, Quietly
  <2> QED
    BY <2>4, <2>5
<1>5. CASE Wipe(p)
  BY <1>5, QuietStepSound DEF Wipe, Conclude, RetrySound
<1>6. CASE StepFails(p)
  BY <1>6, QuietStepSound DEF StepFails, Conclude, Quietly, RetrySound, DisarmingResults
<1>7. CASE StartWrite(p)
  <2>1. {p.eth0, p.eth1} \cap ever # {}
    BY <1>7 DEF StartWrite, InstallerSound, Installing
  <2>2. p.eth0 \in ever
    <3>1. PICK m \in {p.eth0, p.eth1} : m \in ever
      BY <2>1
    <3>2. PICK q \in Identity : m = q.eth0
      BY <3>1 DEF RetrySound
    <3>3. q = p
      BY <3>1, <3>2, IdentityAssumption
    <3> QED
      BY <3>1, <3>2, <3>3
  <2>3. marker[p] # manifest.image /\ manifest.image # None
    BY <1>7, MarkerAssumption DEF StartWrite, RetrySound, Manifests
  <2>4. ~Done(p)
    BY <2>3 DEF Done
  <2>5. marker'[p] # manifest.image /\ ~whole'[p] /\ place'[p] = "writing"
    BY <1>7, <2>3 DEF StartWrite
  <2>6. /\ UNCHANGED <<pc, job, owed, ever, want, result, manifest>>
        /\ \A q \in Identity \ {p} :
             place'[q] = place[q] /\ marker'[q] = marker[q] /\ whole'[q] = whole[q]
    BY <1>7 DEF StartWrite
  <2> QED
    BY <2>2, <2>4, <2>5, <2>6 DEF RetrySound, Done
<1>8. CASE EndWrite(p)
  <2>1. Done(p)'
    BY <1>8 DEF EndWrite, Done, RetrySound
  <2>2. place'[p] = "verify" /\ whole'[p] /\ \A q \in Identity \ {p} :
             place'[q] = place[q] /\ marker'[q] = marker[q] /\ whole'[q] = whole[q]
    BY <1>8 DEF EndWrite
  <2>3. UNCHANGED <<pc, job, owed, ever, want, result, manifest>>
    BY <1>8 DEF EndWrite
  <2>4. ASSUME NEW q \in Identity \ {p} PROVE Done(q)' = Done(q)
    BY <2>2, <2>3 DEF Done
  <2>5. whole'[p] /\ want'[p] = manifest
    BY <2>2, <2>3 DEF RetrySound
  <2> QED
    BY <2>1, <2>2, <2>3, <2>4, <2>5 DEF RetrySound
<1>9. ASSUME NEW h \in Handlers, PhoneHome(p, h) PROVE RetrySound'
  <2>1. /\ job' = [job EXCEPT ![h] = ReportOf(p)] /\ pc' = [pc EXCEPT ![h] = "mutate"]
        /\ place[p] = "report" /\ place' = [place EXCEPT ![p] = "waiting"]
        /\ UNCHANGED <<owed, ever, want, result, marker, whole, manifest>>
    BY <1>9 DEF PhoneHome, Receive, Goto
  <2>2. \A q \in Identity : Done(q)' = Done(q)
    BY <2>1 DEF Done
  <2>3. Disarms(ReportOf(p)) => Done(p)
    BY <2>1 DEF RetrySound, Disarms, ReportOf
  <2>4. ASSUME NEW q \in Identity, NEW g \in Handlers,
               pc'[g] = "mutate", Disarms(job'[g]), job'[g].mac = q.eth0
        PROVE  Done(q)
    <3>1. CASE g # h
      BY <2>1, <2>4, <3>1 DEF RetrySound, TypeOK, Workers
    <3>2. CASE g = h
      <4>1. job'[g] = ReportOf(p) /\ p.eth0 = q.eth0
        BY <2>1, <2>4, <3>2 DEF ReportOf, TypeOK, Workers
      <4>2. p = q
        BY <4>1, IdentityAssumption
      <4> QED
        BY <2>3, <2>4, <4>1, <4>2
    <3> QED
      BY <3>1, <3>2
  <2>5. \A q \in Identity : place'[q] \in {place[q], "waiting"}
                           /\ (place'[q] # place[q] => q = p)
    BY <2>1
  <2>6. \A q \in Identity :
           place'[q] \in {"report", "waiting"} /\ result[q] \in DisarmingResults => Done(q)
    BY <2>1, <2>5 DEF RetrySound
  <2> QED
    BY <2>1, <2>2, <2>4, <2>5, <2>6 DEF RetrySound
<1>10. CASE GiveUp(p) \/ LinkFails(p) \/ LoseAnswer(p)
  BY <1>10, QuietStepSound DEF GiveUp, LinkFails, LoseAnswer, Park, Quietly, RetrySound
<1> QED
  BY <1>1, <1>2, <1>3, <1>4, <1>5, <1>6, <1>7, <1>8, <1>9, <1>10 DEF PuckStep, PuckFails

(* RetrySound is an invariant as long as nothing is published and nobody   *)
(* is at the command line.                                                 *)
THEOREM RetrySoundInvariant ==
    ASSUME Clis = {}, MaxPublishes = 0
    PROVE  InstallSpec => []RetrySound
<1>1. InstallInit => RetrySound
  <2>1. ASSUME InstallInit PROVE RetrySound
    <3>1. ever = owed /\ \A h \in Handlers : pc[h] = "idle"
      BY <2>1 DEF InstallInit, Init, Workers
    <3>2. \A p \in Identity : want[p] = manifest /\ place[p] = "off" /\ whole[p]
      BY <2>1 DEF InstallInit
    <3>3. manifest.force = {} /\ ever \subseteq {p.eth0 : p \in Identity}
      BY <2>1 DEF InstallInit, Init
    <3> QED
      BY <3>1, <3>2, <3>3 DEF RetrySound
  <2> QED
    BY <2>1
<1>2. TypeOK /\ InstallTypeOK /\ InstallerSound /\ RetrySound /\ [InstallNext]_installVars
        => RetrySound'
  <2> SUFFICES ASSUME TypeOK, InstallTypeOK, InstallerSound, RetrySound,
                      [InstallNext]_installVars
               PROVE  RetrySound'
    OBVIOUS
  <2>1. ASSUME NEW p \in Identity, PuckStep(p) \/ PuckFails(p) \/ PowerCycle(p)
        PROVE  RetrySound'
    BY <2>1, PuckKeepsRetrySound
  <2>2. ASSUME NEW w \in Workers, Serve(w) PROVE RetrySound'
    BY <2>2, WorkerKeeps, RetrySoundKept DEF Serve, Advance, pucks, server
  <2>3. ASSUME NEW w \in Workers, Finish(w) \/ ServeFails(w) PROVE RetrySound'
    <3>1. ControlKeeps
      BY <2>3, WorkerKeeps DEF Finish, ServeFails, Advance
    <3> QED
      BY <2>3, <3>1, RetrySoundKept DEF Finish, ServeFails, HangUp, server
  <2>4. CASE Launch
    BY <2>4, ProcessKeeps, RetrySoundKept DEF Launch, pucks, server
  <2>5. CASE Die
    BY <2>5, ProcessKeeps, RetrySoundKept DEF Die, HangUp, server
  <2>6. ASSUME NEW i \in Images, NEW fs, Publish(i, fs) PROVE FALSE
    BY <2>6 DEF Publish, InstallTypeOK
  <2>7. CASE UNCHANGED installVars
    BY <2>7 DEF installVars, pucks, server, vars, program, history, RetrySound, Done
  <2> QED
    BY <2>1, <2>2, <2>3, <2>4, <2>5, <2>6, <2>7 DEF InstallNext
<1> QED
  BY <1>1, <1>2, InstallTypeCorrect, InstallerSoundInvariant, InstallRefinesControl,
     TypeCorrect, PTL
  DEF InstallSpec

(* "puck still netbootable for a retry cycle": with one manifest, any      *)
(* number of pucks and handler threads, and any faults, a half-written     *)
(* puck is still armed.                                                    *)
THEOREM TornIsArmedInvariant ==
    ASSUME Clis = {}, MaxPublishes = 0
    PROVE  InstallSpec => []TornIsArmed
<1>1. NoLostArm /\ RetrySound => TornIsArmed
  BY DEF NoLostArm, RetrySound, TornIsArmed, Done
<1> QED
  BY <1>1, RetrySoundInvariant, InstallRefinesControl, NoLostArmInvariant, PTL

(* With one manifest, a puck that reports already-current has a whole      *)
(* image on its eMMC.                                                      *)
THEOREM CurrentIsWholeInvariant ==
    ASSUME Clis = {}, MaxPublishes = 0
    PROVE  InstallSpec => []CurrentIsWhole
<1>1. RetrySound => CurrentIsWhole
  BY DEF RetrySound, CurrentIsWhole, Done, DisarmingResults
<1> QED
  BY <1>1, RetrySoundInvariant, PTL
=============================================================================
