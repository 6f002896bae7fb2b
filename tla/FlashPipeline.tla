--------------------------- MODULE FlashPipeline ----------------------------
(* flash_one_puck.py and flash_gale_fleet.py on top of FlashTool, with the   *)
(* records they keep: the off-site archive, inventory/<serial>.json, which   *)
(* collect_puck_live.py writes too, and the sheet sync_sheet.py fills.       *)
EXTENDS FlashTool

CONSTANTS Upstreams,    \* the switch ports a collector may find a puck at
          MaxRuns       \* bound: runs of the scripts that write records

ASSUME PipelineAssumption ==
    MaxRuns \in Nat /\ Upstreams \cap {"", "flashed", "verified"} = {}

VARIABLES
    pc,         \* the step flash_one_puck.py is at
    hint,       \* its --serial-hint, or the <expected-serial> of a direct flash
    rekeyedOk,  \* its --rekeyed-ok
    direct,     \* only flash_gale_fleet.py runs
    archive,    \* the capture of every puck on big-storage
    inventory,  \* inventory/<serial>.json: its flash status and its upstream
    sheet,      \* the same two columns of the sheet, for every serial
    syncing,    \* what a sync_sheet.py has computed and not written yet
    unfinished, \* history: pucks whose last flash has not ended well
    aside,      \* history: pucks whose last flash was a direct one
    booted,     \* history: pucks that have booted what is on them
    runs

runVars == <<pc, hint, rekeyedOk, direct>>
recVars == <<archive, inventory, sheet, syncing>>
history == <<unfinished, aside, booted>>
vars    == <<toolSees, runVars, recVars, history, runs>>

Fields == {"flash", "upstream"}
Blank == [f \in Fields |-> ""]
Record == {r \in [Fields -> {"", "flashed", "verified"} \cup Upstreams] :
             r["flash"] \notin Upstreams /\ r["upstream"] \in {""} \cup Upstreams}
Syncers == {"pipeline", "operator"}
NoSync == [p \in Pucks |-> Blank]

CommandOf == [backup |-> "read", unprotect |-> "unprotect", guard |-> "read",
              flash |-> "flash", boot |-> "boot"]
Steps == DOMAIN CommandOf \cup {"archive", "record", "build", "image", "book", "sheet", "write"}

PipelineInit ==
    /\ ToolInit
    /\ pc = "idle" /\ hint = attached /\ rekeyedOk = FALSE /\ direct = FALSE
    /\ archive = [p \in Pucks |-> "none"]
    /\ inventory = [p \in Pucks |-> Blank] /\ sheet = [p \in Pucks |-> Blank]
    /\ syncing = [a \in Syncers |-> NoSync]
    /\ unfinished = {} /\ aside = {} /\ booted = {} /\ runs = 0
-----------------------------------------------------------------------------
(* The two scripts.                                                          *)

(* The options of a run end with it.                                         *)
GoTo(step) ==
    /\ pc' = step /\ UNCHANGED hint
    /\ IF step = "idle" THEN rekeyedOk' = FALSE /\ direct' = FALSE
                        ELSE UNCHANGED <<rekeyedOk, direct>>

(* The command of the step has ended: its exit status is looked at once.     *)
Returned(status) ==
    /\ result = status /\ result' = "none"
    /\ UNCHANGED <<attached, content, cmd, got>>

Run ==
    /\ runs < MaxRuns /\ runs' = runs + 1
    /\ pc = "idle"
    /\ UNCHANGED <<toolSees, recVars, history>>

Start(p, ok) ==
    /\ Run
    /\ pc' = "backup" /\ hint' = p /\ rekeyedOk' = ok /\ direct' = FALSE

(* flash_gale_fleet.py alone, of a fleet image built on its own: any puck,   *)
(* whether captured, recorded or already flashed; it looks at no record.     *)
FlashDirect(p) ==
    /\ Run
    /\ pc' = "guard" /\ hint' = p /\ direct' = TRUE /\ UNCHANGED rekeyedOk

Issue ==
    /\ pc \in DOMAIN CommandOf /\ result = "none"
    /\ Launch(CommandOf[pc])
    /\ IF pc = "flash"
         THEN /\ unfinished' = unfinished \cup {hint}
              /\ aside' = IF direct THEN aside \cup {hint} ELSE aside \ {hint}
         ELSE UNCHANGED <<unfinished, aside>>
    /\ UNCHANGED <<runVars, recVars, booted, runs>>

(* The script dies of an exception that nothing catches.                     *)
Dies ==
    /\ Returned(result)
    /\ GoTo("idle")
    /\ syncing' = [syncing EXCEPT !["pipeline"] = NoSync]
    /\ UNCHANGED <<archive, inventory, sheet, history, runs>>

(* A command that fails ends the run: only the verdict on a boot is caught.  *)
CommandFailed == pc \notin {"idle", "boot"} /\ result = "failed" /\ Dies

StepFails_Orphans == pc # "idle" /\ result # "failed" /\ Dies
StepFails == pc # "idle" /\ cmd = "none" /\ result # "failed" /\ Dies

(* orchestrator.plan: zeros and a half written flash do not vboot-verify;    *)
(* the serial of the dump must be the hint's.                                *)
Planned_AnySerial == got[2] \in {"stock", "rekeyed"}
Planned == got[1] = hint /\ got[2] \in {"stock", "rekeyed"}

Backup ==
    /\ pc = "backup" /\ Returned("ok")
    /\ GoTo(IF Planned THEN "archive" ELSE "idle")
    /\ UNCHANGED <<recVars, history, runs>>

ArchiveCapture ==
    /\ pc = "archive"
    /\ archive' = [archive EXCEPT ![hint] = got[2]]
    /\ GoTo("record")
    /\ UNCHANGED <<toolSees, inventory, sheet, syncing, history, runs>>

Refused == got[2] = "rekeyed" /\ ~rekeyedOk

(* The record is written with nothing but the identity, then the refusal.    *)
WriteIdentity_Merges ==
    /\ pc = "record"
    /\ GoTo(IF Refused THEN "idle" ELSE "build")
    /\ UNCHANGED <<toolSees, archive, inventory, sheet, syncing, history, runs>>

WriteIdentity ==
    /\ pc = "record"
    /\ inventory' = [inventory EXCEPT ![hint] = Blank]
    /\ GoTo(IF Refused THEN "idle" ELSE "build")
    /\ UNCHANGED <<toolSees, archive, sheet, syncing, history, runs>>

Build ==
    /\ pc = "build"
    /\ GoTo("unprotect")
    /\ UNCHANGED <<toolSees, recVars, history, runs>>

Unprotected ==
    /\ pc = "unprotect" /\ Returned("ok")
    /\ GoTo("guard")
    /\ UNCHANGED <<recVars, history, runs>>

(* serialguard: the serial in the RO_VPD of the puck on the cable.           *)
SerialOk_Off == TRUE
SerialOk == got[1] = hint /\ got[2] # "zeros"

Guarded_Waits ==
    /\ pc = "guard" /\ SerialOk /\ Returned("ok")
    /\ GoTo("flash")
    /\ UNCHANGED <<recVars, history, runs>>

Guarded ==
    /\ pc = "guard" /\ Returned("ok")
    /\ GoTo(IF SerialOk THEN "flash" ELSE "idle")
    /\ UNCHANGED <<recVars, history, runs>>

Flashed ==
    /\ pc = "flash" /\ Returned("ok")
    /\ GoTo(IF direct THEN "idle" ELSE "image")
    /\ unfinished' = unfinished \ {hint}
    /\ UNCHANGED <<recVars, aside, booted, runs>>

ArchiveImage ==
    /\ pc = "image"
    /\ GoTo("book")
    /\ UNCHANGED <<toolSees, recVars, history, runs>>

Bookkeeping(status) ==
    inventory' = [inventory EXCEPT ![hint] = [Blank EXCEPT !["flash"] = status]]

(* --skip-verify leaves the boot out.                                        *)
Book ==
    /\ pc = "book"
    /\ Bookkeeping("flashed")
    /\ GoTo("boot") \/ GoTo("sheet")
    /\ UNCHANGED <<toolSees, archive, sheet, syncing, history, runs>>

BootVerdict_Any ==
    /\ pc = "boot" /\ cmd = "none" /\ Returned(result)
    /\ Bookkeeping("verified")
    /\ GoTo("sheet")
    /\ UNCHANGED <<archive, sheet, syncing, history, runs>>

BootVerdict ==
    /\ pc = "boot"
    /\ \/ Returned("ok") /\ Bookkeeping("verified")
       \/ Returned("failed") /\ UNCHANGED inventory
    /\ GoTo("sheet")
    /\ UNCHANGED <<archive, sheet, syncing, history, runs>>
-----------------------------------------------------------------------------
(* sync_sheet.py: reads the sheet, then every record of the inventory; one   *)
(* conflict of any record and nothing is written for any.                    *)

Differs(p, f) == inventory[p][f] \notin {"", sheet[p][f]}
Conflict(allow) == \E p \in Pucks, f \in Fields \ allow : Differs(p, f) /\ sheet[p][f] # ""
Updates == [p \in Pucks |-> [f \in Fields |-> IF Differs(p, f) THEN inventory[p][f] ELSE ""]]

SyncRead(a, allow) ==
    /\ syncing[a] = NoSync
    /\ ~Conflict(allow)
    /\ syncing' = [syncing EXCEPT ![a] = Updates]
    /\ UNCHANGED <<toolSees, archive, inventory, sheet, history, runs>>

Written_FirstRow(p, a) == [f \in Fields |->
    LET all == {syncing[a][q][f] : q \in Pucks} \ {""}
    IN IF all = {} THEN sheet[p][f] ELSE CHOOSE v \in all : TRUE]
Written(p, a) == [f \in Fields |-> IF syncing[a][p][f] = "" THEN sheet[p][f] ELSE syncing[a][p][f]]

SyncWrite(a) ==
    /\ sheet' = [p \in Pucks |-> Written(p, a)]
    /\ syncing' = [syncing EXCEPT ![a] = NoSync]
    /\ UNCHANGED <<toolSees, archive, inventory, history, runs>>

SheetStep ==
    \/ pc = "sheet" /\ SyncRead("pipeline", {"flash"}) /\ GoTo("write")
    \/ pc = "sheet" /\ Conflict({"flash"}) /\ Dies
    \/ pc = "write" /\ SyncWrite("pipeline") /\ GoTo("idle")

OperatorSync ==
    /\ \/ \E allow \in SUBSET Fields : SyncRead("operator", allow)
       \/ SyncWrite("operator")
    /\ UNCHANGED runVars

(* collect_puck_live.py, of a puck that is out in the mesh.                  *)
Collect(p, u) ==
    /\ runs < MaxRuns /\ runs' = runs + 1
    /\ p # attached
    /\ inventory' = [inventory EXCEPT ![p]["upstream"] = u]
    /\ UNCHANGED <<toolSees, runVars, archive, sheet, syncing, history>>
-----------------------------------------------------------------------------
Command ==
    /\ CommandStep
    /\ booted' = IF cmd = "flash" THEN booted \ {attached}
                 ELSE IF cmd = "boot" /\ result' = "ok" THEN booted \cup {attached}
                 ELSE booted
    /\ UNCHANGED <<runVars, recVars, unfinished, aside, runs>>

(* Nothing compares the serial again once the guard has: the operator is     *)
(* taken to leave the cable alone from there on.                             *)
SwapPuck ==
    /\ pc \in {"idle", "backup", "archive", "record", "build", "unprotect", "guard"}
    /\ pc = "guard" => result = "none"
    /\ Swap
    /\ UNCHANGED <<runVars, recVars, history, runs>>

RunStep ==
    \/ Issue \/ CommandFailed \/ Backup \/ ArchiveCapture \/ WriteIdentity \/ Build
    \/ Unprotected \/ Guarded \/ Flashed \/ ArchiveImage \/ Book \/ BootVerdict
    \/ SheetStep

PipelineNext ==
    \/ RunStep \/ StepFails \/ Command \/ SwapPuck \/ OperatorSync
    \/ \E p \in Pucks, ok \in BOOLEAN : Start(p, ok)
    \/ \E p \in Pucks : FlashDirect(p)
    \/ \E p \in Pucks, u \in Upstreams : Collect(p, u)

PipelineSpec == PipelineInit /\ [][PipelineNext]_vars

(* The scripts go on, and a command ends: CommandEnds of SpiFlash.           *)
CommandOver == Command /\ cmd' = "none"
LivePipelineSpec == PipelineSpec /\ WF_vars(RunStep) /\ WF_vars(CommandOver)
-----------------------------------------------------------------------------
(* Every variable holds a value of its kind, a command runs only at the step *)
(* that issues it, and nothing is lost of what a step handed to the next.    *)
PipelineTypeOK ==
    /\ attached \in Pucks /\ content \in [Pucks -> Contents]
    /\ cmd \in Commands \cup {"none"} /\ result \in {"none", "running", "ok", "failed"}
    /\ got \in {<<"nobody", "none">>} \cup (Pucks \X (Contents \cup {"zeros"}))
    /\ pc \in Steps \cup {"idle"} /\ hint \in Pucks
    /\ rekeyedOk \in BOOLEAN /\ direct \in BOOLEAN
    /\ archive \in [Pucks -> {"none", "stock", "rekeyed"}]
    /\ inventory \in [Pucks -> Record] /\ sheet \in [Pucks -> Record]
    /\ syncing \in [Syncers -> [Pucks -> Record]]
    /\ unfinished \subseteq Pucks /\ aside \subseteq Pucks /\ booted \subseteq Pucks
    /\ runs \in 0..MaxRuns
    /\ cmd # "none" => pc \in DOMAIN CommandOf /\ cmd = CommandOf[pc]
    /\ (cmd # "none") <=> (result = "running")
    /\ pc \notin DOMAIN CommandOf => result = "none"

(* flash_one_puck.py writes a puck as Google shipped it only when its        *)
(* capture is off-site: the capture is what nobody can make again. A direct  *)
(* flash asks for none.                                                      *)
CaptureFirst ==
    [][\A p \in Pucks : content[p] = "stock" /\ content'[p] # "stock" =>
          direct \/ archive[p] = "stock"]_vars

(* Only the puck whose serial was asked for is ever written, although the    *)
(* operator may hang another one on the cable until the guard has read it.   *)
OnlyHintedPuck ==
    [][\A p \in Pucks : content'[p] # content[p] => pc = "flash" /\ p = hint]_vars

(* A record that says flashed is of a puck that wholly has the image, while  *)
(* flash_one_puck.py flashes it again and after that failed too. Only a      *)
(* direct flash that did not end well leaves a record that is not true.      *)
InventoryIsTrue ==
    \A p \in Pucks : inventory[p]["flash"] # "" =>
        content[p] = "rekeyed" \/ p \in unfinished \cap aside

(* A record that says boot-verified is of a puck that booted what it has,    *)
(* unless a direct flash has written it since.                               *)
VerifiedMeansBooted ==
    \A p \in Pucks : inventory[p]["flash"] = "verified" => p \in booted \cup aside

(* The sheet, which may lag behind, calls no puck flashed that is not, but   *)
(* one that a later run began to flash and did not finish.                   *)
SheetIsTrue ==
    \A p \in Pucks \ unfinished : sheet[p]["flash"] # "" => content[p] = "rekeyed"

(* A run comes to its end, whatever fails.                                   *)
RunEnds == pc # "idle" ~> pc = "idle"
=============================================================================
