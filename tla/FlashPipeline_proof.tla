------------------------ MODULE FlashPipeline_proof -------------------------
(* Proofs about the flashing scripts and their records, for any number of    *)
(* pucks, upstream ports and runs.                                           *)
EXTENDS FlashPipeline, TLAPS

-----------------------------------------------------------------------------
(* The inductive invariant.                                                  *)

(* What a step of a run hands to the next: the capture that was archived,    *)
(* and that the image is built from, is what the named puck still has.       *)
DumpIsTrue ==
    /\ pc \in {"backup", "guard"} /\ result = "ok" =>
          got[1] \in Pucks /\ got[2] \in {content[got[1]], "zeros"}
    /\ pc = "guard" /\ result = "ok" => got[1] = attached
    /\ pc \in {"archive", "record", "build"} =>
          got[1] = hint /\ got[2] = content[hint] /\ content[hint] # "torn"
    /\ pc \in {"record", "build", "unprotect", "guard", "flash"} /\ ~direct =>
          (content[hint] = "stock" => archive[hint] = "stock")

(* Once the guard has let it pass, the puck on the cable is the named one.   *)
CableIsHint == pc \in {"flash", "image", "book", "boot"} => attached = hint

(* The record of a puck that flash_one_puck.py is about to write, or did not *)
(* finish as the last to flash it, says nothing of a flash.                  *)
StatusWithheld ==
    /\ \A p \in unfinished \ aside : inventory[p]["flash"] = ""
    /\ pc \in {"build", "unprotect", "guard", "flash"} /\ ~direct =>
          inventory[hint]["flash"] = ""
    /\ pc = "flash" /\ result # "none" =>
          hint \in unfinished /\ (direct => hint \in aside)
    /\ pc \in {"image", "book", "boot"} => hint \notin unfinished /\ content[hint] = "rekeyed"
    /\ pc = "flash" /\ result = "ok" => content[hint] = "rekeyed"
    /\ pc = "boot" /\ result = "ok" => hint \in booted

(* What a sync has computed is still true when it is written.                *)
SyncIsTrue ==
    \A a \in Syncers, p \in Pucks \ unfinished :
        syncing[a][p]["flash"] # "" => content[p] = "rekeyed"

PipelineInv ==
    /\ PipelineTypeOK /\ DumpIsTrue /\ CableIsHint /\ StatusWithheld /\ SyncIsTrue
    /\ InventoryIsTrue /\ VerifiedMeansBooted /\ SheetIsTrue

-----------------------------------------------------------------------------
(* Type correctness *)

(* What the scripts write into a record keeps it a record.                   *)
LEMMA RecordFacts ==
    /\ Blank \in Record
    /\ [Blank EXCEPT !["flash"] = "flashed"] \in Record
    /\ [Blank EXCEPT !["flash"] = "verified"] \in Record
    /\ \A r \in Record, u \in Upstreams : [r EXCEPT !["upstream"] = u] \in Record
  BY PipelineAssumption DEF Blank, Record, Fields

(* The columns a sync computes, and the rows it writes, are records.         *)
LEMMA SheetType ==
    ASSUME PipelineTypeOK, NEW a \in Syncers
    PROVE  /\ Updates \in [Pucks -> Record]
           /\ [p \in Pucks |-> Written(p, a)] \in [Pucks -> Record]
<1>1. \A p \in Pucks : inventory[p] \in Record /\ sheet[p] \in Record /\ syncing[a][p] \in Record
  BY DEF PipelineTypeOK
<1>2. ASSUME NEW p \in Pucks
      PROVE  [f \in Fields |-> IF Differs(p, f) THEN inventory[p][f] ELSE ""] \in Record
  BY <1>1, PipelineAssumption DEF Record, Fields
<1>3. ASSUME NEW p \in Pucks PROVE Written(p, a) \in Record
  BY <1>1, PipelineAssumption DEF Record, Fields, Written
<1> QED
  BY <1>2, <1>3 DEF Updates

(* The steps that issue a command, and which.                                *)
LEMMA CommandFacts ==
    /\ DOMAIN CommandOf = {"backup", "unprotect", "guard", "flash", "boot"}
    /\ CommandOf["backup"] = "read" /\ CommandOf["guard"] = "read"
    /\ CommandOf["unprotect"] = "unprotect" /\ CommandOf["flash"] = "flash"
    /\ CommandOf["boot"] = "boot"
  BY DEF CommandOf

(* What every step of a command keeps.                                       *)
LEMMA CommandStepType ==
    ASSUME PipelineTypeOK, CommandStep
    PROVE  /\ attached' = attached /\ content' \in [Pucks -> Contents]
           /\ cmd # "none" /\ cmd' \in {cmd, "none"}
           /\ result' \in {"running", "ok", "failed"}
           /\ (cmd' # "none") <=> (result' = "running")
           /\ got' \in {<<"nobody", "none">>} \cup (Pucks \X (Contents \cup {"zeros"}))
<1> USE DEF PipelineTypeOK, Contents, Commands
<1>1. CASE ReadEnds
  BY <1>1 DEF ReadEnds, Ends
<1>2. CASE UnprotectEnds \/ FlashEnds \/ BootEnds
  BY <1>2 DEF UnprotectEnds, FlashEnds, BootEnds, Ends
<1>3. CASE Writes
  BY <1>3 DEF Writes
<1>4. CASE Fails
  BY <1>4 DEF Fails, Ends
<1> QED
  BY <1>1, <1>2, <1>3, <1>4 DEF CommandStep

(* A run that dies, of whatever, leaves the types.                           *)
LEMMA DiesType ==
    ASSUME PipelineTypeOK, Dies, cmd = "none", result # "running"
    PROVE  PipelineTypeOK'
<1>1. NoSync \in [Pucks -> Record]
  BY RecordFacts DEF NoSync
<1>2. syncing' \in [Syncers -> [Pucks -> Record]]
  BY <1>1 DEF Dies, PipelineTypeOK, Syncers
<1> QED
  BY <1>2, CommandFacts
  DEF Dies, Returned, GoTo, PipelineTypeOK, Steps, history

(* The runs are counted up to the bound.                                     *)
LEMMA RunsBounded ==
    ASSUME PipelineTypeOK, runs < MaxRuns, runs' = runs + 1
    PROVE  runs' \in 0..MaxRuns
<1>1. runs \in 0..MaxRuns
  BY DEF PipelineTypeOK
<1>2. MaxRuns \in Nat
  BY PipelineAssumption
<1> QED
  BY <1>1, <1>2

(* The types are kept by every step.                                         *)
LEMMA TypeStep ==
    ASSUME PipelineTypeOK, DumpIsTrue, [PipelineNext]_vars
    PROVE  PipelineTypeOK'
<1> USE PipelineAssumption, CommandFacts
    DEF PipelineTypeOK, toolSees, runVars, recVars, history, Steps
<1>1. CASE Issue
  <2>1. result' = "running" /\ cmd' = CommandOf[pc] /\ cmd' \in Commands /\ pc' = pc
    BY <1>1 DEF Issue, Launch, Commands
  <2>2. unfinished' \subseteq Pucks /\ aside' \subseteq Pucks
    <3>1. unfinished' = unfinished \/ unfinished' = unfinished \cup {hint}
      BY <1>1 DEF Issue
    <3>2. aside' = aside \/ aside' = aside \cup {hint} \/ aside' = aside \ {hint}
      BY <1>1 DEF Issue
    <3> QED
      BY <3>1, <3>2
  <2>3. UNCHANGED <<attached, content, got, hint, rekeyedOk, direct, archive, inventory, sheet,
                    syncing, booted, runs>>
    BY <1>1 DEF Issue, Launch
  <2>4. pc \in DOMAIN CommandOf
    BY <1>1 DEF Issue
  <2> QED
    BY <2>1, <2>2, <2>3, <2>4 DEF Commands
<1>2. CASE CommandFailed \/ StepFails
  <2>1. cmd = "none" /\ result # "running" /\ Dies
    BY <1>2 DEF CommandFailed, StepFails
  <2> QED
    BY <2>1, DiesType
<1>3. CASE Backup
  BY <1>3 DEF Backup, Returned, GoTo
<1>4. CASE ArchiveCapture
  <2>1. got[2] \in {"stock", "rekeyed"}
    BY <1>4 DEF ArchiveCapture, DumpIsTrue, Contents
  <2>2. archive' \in [Pucks -> {"none", "stock", "rekeyed"}]
    BY <1>4, <2>1 DEF ArchiveCapture
  <2> QED
    BY <1>4, <2>2 DEF ArchiveCapture, GoTo
<1>5. CASE WriteIdentity
  BY <1>5, RecordFacts DEF WriteIdentity, GoTo
<1>6. CASE Build
  BY <1>6 DEF Build, GoTo
<1>7. CASE Unprotected \/ Guarded \/ Flashed
  BY <1>7 DEF Unprotected, Guarded, Flashed, Returned, GoTo
<1>8. CASE ArchiveImage
  BY <1>8 DEF ArchiveImage, GoTo
<1>9. CASE Book
  BY <1>9, RecordFacts DEF Book, Bookkeeping, GoTo
<1>10. CASE BootVerdict
  <2>1. inventory' \in [Pucks -> Record]
    BY <1>10, RecordFacts DEF BootVerdict, Bookkeeping
  <2>2. cmd = "none"
    BY <1>10 DEF BootVerdict, Returned
  <2> QED
    BY <1>10, <2>1, <2>2 DEF BootVerdict, Returned, GoTo
<1>11. ASSUME NEW a \in Syncers, NEW allow, SyncRead(a, allow)
       PROVE  syncing' \in [Syncers -> [Pucks -> Record]]
  BY <1>11, SheetType DEF SyncRead
<1>12. ASSUME NEW a \in Syncers, SyncWrite(a)
       PROVE  /\ sheet' \in [Pucks -> Record]
              /\ syncing' \in [Syncers -> [Pucks -> Record]]
  <2>1. NoSync \in [Pucks -> Record]
    BY RecordFacts DEF NoSync
  <2> QED
    BY <1>12, <2>1, SheetType DEF SyncWrite
<1>13. CASE SheetStep
  <2>1. CASE pc = "sheet" /\ SyncRead("pipeline", {"flash"}) /\ GoTo("write")
    BY <1>11, <2>1 DEF SyncRead, GoTo, Syncers
  <2>2. CASE pc = "sheet" /\ Conflict({"flash"}) /\ Dies
    BY <2>2, DiesType
  <2>3. CASE pc = "write" /\ SyncWrite("pipeline") /\ GoTo("idle")
    BY <1>12, <2>3 DEF SyncWrite, GoTo, Syncers
  <2> QED
    BY <1>13, <2>1, <2>2, <2>3 DEF SheetStep
<1>14. CASE OperatorSync
  BY <1>11, <1>12, <1>14 DEF OperatorSync, SyncRead, SyncWrite, Syncers
<1>15. ASSUME NEW p \in Pucks, NEW u \in Upstreams, Collect(p, u) PROVE PipelineTypeOK'
  <2>1. inventory' \in [Pucks -> Record]
    BY <1>15, RecordFacts DEF Collect
  <2>2. runs' \in 0..MaxRuns
    BY <1>15, RunsBounded DEF Collect
  <2> QED
    BY <1>15, <2>1, <2>2 DEF Collect
<1>16. CASE Command
  <2>1. booted' \subseteq Pucks
    BY <1>16 DEF Command
  <2> QED
    BY <1>16, <2>1, CommandStepType DEF Command
<1>17. CASE SwapPuck
  BY <1>17 DEF SwapPuck, Swap
<1>18. ASSUME NEW p \in Pucks, NEW ok \in BOOLEAN, Start(p, ok) PROVE PipelineTypeOK'
  <2>1. runs' \in 0..MaxRuns
    BY <1>18, RunsBounded DEF Start, Run
  <2> QED
    BY <1>18, <2>1 DEF Start, Run
<1>19. ASSUME NEW p \in Pucks, FlashDirect(p) PROVE PipelineTypeOK'
  <2>1. runs' \in 0..MaxRuns
    BY <1>19, RunsBounded DEF FlashDirect, Run
  <2> QED
    BY <1>19, <2>1 DEF FlashDirect, Run
<1>20. CASE UNCHANGED vars
  BY <1>20 DEF vars
<1> QED
  BY <1>1, <1>2, <1>3, <1>4, <1>5, <1>6, <1>7, <1>8, <1>9, <1>10, <1>13, <1>14, <1>15, <1>16,
     <1>17, <1>18, <1>19, <1>20 DEF PipelineNext, RunStep
-----------------------------------------------------------------------------
(* The records *)

(* What a step of a command does to the flash and to the file of a read.     *)
LEMMA CommandEffect ==
    ASSUME PipelineTypeOK, CommandStep
    PROVE  /\ attached' = attached
           /\ \A p \in Pucks : content'[p] # content[p] =>
                 cmd = "flash" /\ p = attached /\ content'[p] # "stock"
           /\ cmd = "flash" /\ result' = "ok" => content'[attached] = "rekeyed"
           /\ cmd # "read" => got' = got
           /\ cmd = "read" /\ result' = "ok" =>
                 got'[1] = attached /\ got'[2] \in {content[attached], "zeros"}
           /\ pc \in DOMAIN CommandOf /\ cmd = CommandOf[pc] /\ cmd # "none"
<1> USE DEF PipelineTypeOK, Contents
<1>1. pc \in DOMAIN CommandOf /\ cmd = CommandOf[pc]
  BY DEF CommandStep, ReadEnds, UnprotectEnds, Writes, FlashEnds, BootEnds, Fails
<1>2. CASE ReadEnds
  BY <1>1, <1>2 DEF ReadEnds, Ends
<1>3. CASE UnprotectEnds \/ FlashEnds \/ BootEnds
  BY <1>1, <1>3 DEF UnprotectEnds, FlashEnds, BootEnds, Ends
<1>4. CASE Writes
  BY <1>1, <1>4 DEF Writes
<1>5. CASE Fails
  BY <1>1, <1>5 DEF Fails, Ends
<1> QED
  BY <1>2, <1>3, <1>4, <1>5 DEF CommandStep

(* A sheet step leaves everything but the sheet, the sync and the run alone. *)
LEMMA SheetEffect ==
    ASSUME SheetStep \/ OperatorSync
    PROVE  /\ UNCHANGED <<attached, content, cmd, got, archive, inventory, history, runs, hint>>
           /\ result' \in {result, "none"}
           /\ \/ pc' = pc /\ direct' = direct
              \/ (pc = "sheet" /\ pc' \in {"write", "idle"}) \/ (pc = "write" /\ pc' = "idle")
  BY DEF SheetStep, OperatorSync, SyncRead, SyncWrite, Dies, Returned, GoTo, toolSees, runVars

(* A run that dies leaves the flash and the records alone.                   *)
LEMMA DiesEffect ==
    ASSUME CommandFailed \/ StepFails
    PROVE  /\ UNCHANGED <<attached, content, cmd, got, archive, inventory, sheet, history, runs, hint>>
           /\ pc' = "idle" /\ result' = "none"
           /\ syncing' = [syncing EXCEPT !["pipeline"] = NoSync]
  BY DEF CommandFailed, StepFails, Dies, Returned, GoTo, runVars

(* The captures and the images built from them are true in every step.       *)
LEMMA DumpStep ==
    ASSUME PipelineTypeOK, DumpIsTrue, CableIsHint, [PipelineNext]_vars
    PROVE  DumpIsTrue'
<1> USE CommandFacts DEF DumpIsTrue, toolSees, runVars, recVars, history
<1>1. CASE Issue
  BY <1>1 DEF Issue, Launch
<1>2. CASE CommandFailed \/ StepFails
  BY <1>2, DiesEffect
<1>3. CASE Backup
  BY <1>3 DEF Backup, Planned, Returned, GoTo, PipelineTypeOK, Contents
<1>4. CASE ArchiveCapture
  BY <1>4 DEF ArchiveCapture, GoTo, PipelineTypeOK
<1>5. CASE WriteIdentity
  BY <1>5 DEF WriteIdentity, GoTo
<1>6. CASE Build
  BY <1>6 DEF Build, GoTo
<1>7. CASE Unprotected \/ Guarded \/ Flashed
  BY <1>7 DEF Unprotected, Guarded, Flashed, Returned, GoTo
<1>8. CASE ArchiveImage \/ Book \/ BootVerdict
  BY <1>8 DEF ArchiveImage, Book, BootVerdict, Bookkeeping, Returned, GoTo
<1>9. CASE SheetStep \/ OperatorSync
  BY <1>9, SheetEffect DEF PipelineTypeOK
<1>10. ASSUME NEW p \in Pucks, NEW u \in Upstreams, Collect(p, u) PROVE DumpIsTrue'
  BY <1>10 DEF Collect
<1>11. CASE Command
  <2>1. UNCHANGED <<pc, hint, direct, archive>> /\ CommandStep
    BY <1>11 DEF Command
  <2>2. hint \in Pucks /\ attached \in Pucks
    BY DEF PipelineTypeOK
  <2>3. \A p \in Pucks : content'[p] = content[p] \/ (pc = "flash" /\ content'[p] # "stock")
    BY <2>1, CommandEffect
  <2>4. pc \notin {"archive", "record", "build"}
    BY <2>1, CommandEffect
  <2>5. pc \in {"backup", "guard"} /\ result' = "ok" =>
           got'[1] = attached /\ got'[2] \in {content[attached], "zeros"}
    BY <2>1, CommandEffect
  <2> QED
    BY <2>1, <2>2, <2>3, <2>4, <2>5, CommandEffect
<1>12. CASE SwapPuck
  BY <1>12 DEF SwapPuck, Swap
<1>13. ASSUME NEW p \in Pucks, NEW ok \in BOOLEAN, Start(p, ok) PROVE DumpIsTrue'
  BY <1>13 DEF Start, Run, PipelineTypeOK
<1>14. ASSUME NEW p \in Pucks, FlashDirect(p) PROVE DumpIsTrue'
  BY <1>14 DEF FlashDirect, Run, PipelineTypeOK
<1>15. CASE UNCHANGED vars
  BY <1>15 DEF vars
<1> QED
  BY <1>1, <1>2, <1>3, <1>4, <1>5, <1>6, <1>7, <1>8, <1>9, <1>10, <1>11, <1>12, <1>13, <1>14,
     <1>15 DEF PipelineNext, RunStep

(* The puck that passed the guard stays on the cable.                        *)
LEMMA CableStep ==
    ASSUME PipelineTypeOK, DumpIsTrue, CableIsHint, [PipelineNext]_vars
    PROVE  CableIsHint'
<1> USE DEF CableIsHint, toolSees, runVars, recVars, history
<1>1. CASE Issue \/ Backup \/ ArchiveCapture \/ WriteIdentity \/ Build \/ ArchiveImage \/ Book
  BY <1>1 DEF Issue, Launch, Backup, ArchiveCapture, WriteIdentity, Build, ArchiveImage, Book,
              Returned, GoTo
<1>2. CASE CommandFailed \/ StepFails
  BY <1>2, DiesEffect
<1>3. CASE Guarded
  BY <1>3 DEF Guarded, SerialOk, Returned, GoTo, DumpIsTrue
<1>4. CASE Unprotected \/ Flashed \/ BootVerdict
  BY <1>4 DEF Unprotected, Flashed, BootVerdict, Returned, GoTo
<1>5. CASE SheetStep \/ OperatorSync
  BY <1>5, SheetEffect
<1>6. CASE Command
  BY <1>6, CommandEffect DEF Command
<1>7. CASE SwapPuck \/ UNCHANGED vars
  BY <1>7 DEF SwapPuck, vars
<1>8. ASSUME NEW p \in Pucks, NEW u \in Upstreams, Collect(p, u) PROVE CableIsHint'
  BY <1>8 DEF Collect
<1>9. ASSUME NEW p \in Pucks, NEW ok \in BOOLEAN, Start(p, ok) \/ FlashDirect(p) PROVE CableIsHint'
  BY <1>9 DEF Start, FlashDirect, Run
<1> QED
  BY <1>1, <1>2, <1>3, <1>4, <1>5, <1>6, <1>7, <1>8, <1>9 DEF PipelineNext, RunStep

(* Which puck's record a step writes, and what becomes of its flash status.  *)
LEMMA RecordEffect ==
    ASSUME PipelineTypeOK, NEW p \in Pucks
    PROVE  /\ WriteIdentity => inventory'[p]["flash"] = IF p = hint THEN "" ELSE inventory[p]["flash"]
           /\ Book => inventory'[p]["flash"] = IF p = hint THEN "flashed" ELSE inventory[p]["flash"]
           /\ BootVerdict => \/ inventory'[p]["flash"] = inventory[p]["flash"]
                             \/ p = hint /\ result = "ok" /\ inventory'[p]["flash"] = "verified"
           /\ \A q \in Pucks, u \in Upstreams :
                 Collect(q, u) => inventory'[p]["flash"] = inventory[p]["flash"]
<1>1. inventory \in [Pucks -> [Fields -> {"", "flashed", "verified"} \cup Upstreams]]
  BY DEF PipelineTypeOK, Record
<1> QED
  BY <1>1 DEF WriteIdentity, Book, BootVerdict, Bookkeeping, Returned, Collect, Blank, Fields

(* The status of a puck that is about to be written is withheld.             *)
LEMMA StatusStep ==
    ASSUME PipelineTypeOK, DumpIsTrue, CableIsHint, StatusWithheld, [PipelineNext]_vars
    PROVE  StatusWithheld'
<1>0. hint \in Pucks /\ attached \in Pucks /\ unfinished \subseteq Pucks
  BY DEF PipelineTypeOK
<1> USE <1>0, CommandFacts DEF StatusWithheld, toolSees, runVars, recVars, history
<1>1. CASE Issue
  <2>1. /\ UNCHANGED <<inventory, content, hint, pc, direct, booted>>
        /\ result = "none" /\ result' = "running"
    BY <1>1 DEF Issue, Launch
  <2>2. CASE pc = "flash"
    <3>1. unfinished' = unfinished \cup {hint}
      BY <1>1, <2>2 DEF Issue
    <3>2. CASE direct
      <4>1. aside' = aside \cup {hint}
        BY <1>1, <2>2, <3>2 DEF Issue
      <4> QED
        BY <2>1, <2>2, <3>1, <3>2, <4>1
    <3>3. CASE ~direct
      <4>1. aside' = aside \ {hint}
        BY <1>1, <2>2, <3>3 DEF Issue
      <4> QED
        BY <2>1, <2>2, <3>1, <3>3, <4>1
    <3> QED
      BY <3>2, <3>3
  <2>3. CASE pc # "flash"
    <3>1. UNCHANGED <<unfinished, aside>>
      BY <1>1, <2>3 DEF Issue
    <3> QED
      BY <2>1, <2>3, <3>1
  <2> QED
    BY <2>2, <2>3
<1>2. CASE CommandFailed \/ StepFails
  <2>1. pc' = "idle" /\ UNCHANGED <<inventory, content, unfinished, aside>>
    BY <1>2, DiesEffect
  <2> QED
    BY <2>1
<1>3. CASE Backup \/ ArchiveCapture
  BY <1>3 DEF Backup, ArchiveCapture, Returned, GoTo
<1>4. CASE WriteIdentity
  <2>1. \A p \in Pucks : inventory'[p]["flash"] = IF p = hint THEN "" ELSE inventory[p]["flash"]
    BY <1>4, RecordEffect
  <2> QED
    BY <1>4, <2>1 DEF WriteIdentity, GoTo
<1>5. CASE Build \/ Unprotected \/ Guarded \/ ArchiveImage
  BY <1>5 DEF Build, Unprotected, Guarded, ArchiveImage, Returned, GoTo
<1>6. CASE Flashed
  BY <1>6 DEF Flashed, Returned, GoTo
<1>7. CASE Book
  <2>1. \A p \in Pucks : inventory'[p]["flash"] = IF p = hint THEN "flashed" ELSE inventory[p]["flash"]
    BY <1>7, RecordEffect
  <2>2. result = "none"
    BY <1>7 DEF Book, PipelineTypeOK
  <2> QED
    BY <1>7, <2>1, <2>2 DEF Book, GoTo
<1>8. CASE BootVerdict
  <2>1. \A p \in Pucks : p # hint => inventory'[p]["flash"] = inventory[p]["flash"]
    BY <1>8, RecordEffect
  <2> QED
    BY <1>8, <2>1 DEF BootVerdict, Returned, GoTo
<1>9. CASE SheetStep \/ OperatorSync
  <2>1. /\ UNCHANGED <<content, inventory, hint, unfinished, aside, booted>>
        /\ result' \in {result, "none"}
    BY <1>9, SheetEffect
  <2>2. CASE pc' = pc /\ direct' = direct
    BY <2>1, <2>2
  <2>3. CASE pc' \in {"write", "idle"}
    BY <2>1, <2>3
  <2> QED
    BY <1>9, <2>2, <2>3, SheetEffect
<1>10. ASSUME NEW p \in Pucks, NEW u \in Upstreams, Collect(p, u) PROVE StatusWithheld'
  <2>1. \A q \in Pucks : inventory'[q]["flash"] = inventory[q]["flash"]
    BY <1>10, RecordEffect
  <2> QED
    BY <1>10, <2>1 DEF Collect
<1>11. CASE Command
  <2>1. CommandStep /\ UNCHANGED <<pc, hint, direct, inventory, unfinished, aside>>
    BY <1>11 DEF Command
  <2>2. result # "none"
    BY <2>1, CommandEffect DEF PipelineTypeOK
  <2>3. pc \notin {"image", "book"}
    BY <2>1, CommandEffect
  <2>4. pc = "boot" => cmd = "boot" /\ attached = hint
    BY <2>1, CommandEffect DEF CableIsHint
  <2>5. pc = "flash" => cmd = "flash" /\ attached = hint
    BY <2>1, CommandEffect DEF CableIsHint
  <2>6. pc = "boot" => content'[hint] = content[hint]
    BY <2>1, <2>4, CommandEffect
  <2>7. pc = "boot" /\ result' = "ok" => hint \in booted'
    BY <1>11, <2>4 DEF Command
  <2>8. pc = "flash" /\ result' = "ok" => content'[hint] = "rekeyed"
    BY <2>1, <2>5, CommandEffect
  <2> QED
    BY <2>1, <2>2, <2>3, <2>6, <2>7, <2>8
<1>12. CASE SwapPuck
  BY <1>12 DEF SwapPuck, Swap
<1>13. ASSUME NEW p \in Pucks, NEW ok \in BOOLEAN, Start(p, ok) PROVE StatusWithheld'
  BY <1>13 DEF Start, Run
<1>14. ASSUME NEW p \in Pucks, FlashDirect(p) PROVE StatusWithheld'
  BY <1>14 DEF FlashDirect, Run
<1>15. CASE UNCHANGED vars
  BY <1>15 DEF vars
<1> QED
  BY <1>1, <1>2, <1>3, <1>4, <1>5, <1>6, <1>7, <1>8, <1>9, <1>10, <1>11, <1>12, <1>13, <1>14,
     <1>15 DEF PipelineNext, RunStep

(* A puck is written only while its record and every later sync of it are    *)
(* mute; nothing else makes a puck rekeyed, or takes that away.              *)
LEMMA OnlyTheHint ==
    ASSUME PipelineTypeOK, CableIsHint, [PipelineNext]_vars, NEW p \in Pucks
    PROVE  content'[p] # content[p] => pc = "flash" /\ p = hint /\ cmd = "flash" /\ Command
<1> USE DEF toolSees, runVars, recVars, history
<1>1. CASE Command
  BY <1>1, CommandEffect, CommandFacts DEF Command, CableIsHint
<1>2. CASE CommandFailed \/ StepFails
  BY <1>2, DiesEffect
<1>3. CASE SheetStep \/ OperatorSync
  BY <1>3, SheetEffect
<1>4. CASE Issue \/ Backup \/ Unprotected \/ Guarded \/ Flashed \/ BootVerdict \/ SwapPuck
  BY <1>4 DEF Issue, Launch, Backup, Unprotected, Guarded, Flashed, BootVerdict, Returned,
              SwapPuck, Swap
<1>5. CASE ArchiveCapture \/ WriteIdentity \/ Build \/ ArchiveImage \/ Book \/ UNCHANGED vars
  BY <1>5 DEF ArchiveCapture, WriteIdentity, Build, ArchiveImage, Book, vars
<1>6. ASSUME NEW q \in Pucks, NEW u \in Upstreams, Collect(q, u) PROVE content' = content
  BY <1>6 DEF Collect
<1>7. ASSUME NEW q \in Pucks, NEW ok \in BOOLEAN, Start(q, ok) \/ FlashDirect(q)
      PROVE  content' = content
  BY <1>7 DEF Start, FlashDirect, Run
<1> QED
  BY <1>1, <1>2, <1>3, <1>4, <1>5, <1>6, <1>7 DEF PipelineNext, RunStep

(* A sync copies what the inventory says into itself, then into the sheet.   *)
LEMMA SyncEffect ==
    ASSUME PipelineTypeOK, NEW p \in Pucks,
           SheetStep \/ OperatorSync \/ CommandFailed \/ StepFails
    PROVE  /\ \A a \in Syncers : syncing'[a][p]["flash"] \in
                 {"", syncing[a][p]["flash"], inventory[p]["flash"]}
           /\ \/ sheet'[p]["flash"] = sheet[p]["flash"]
              \/ \E a \in Syncers : sheet'[p]["flash"] = syncing[a][p]["flash"]
<1> USE DEF Syncers, Fields
<1>1. syncing \in [Syncers -> [Pucks -> Record]] /\ sheet \in [Pucks -> Record]
  BY DEF PipelineTypeOK
<1>2. NoSync[p]["flash"] = ""
  BY DEF NoSync, Blank
<1>3. Updates[p]["flash"] \in {"", inventory[p]["flash"]}
  BY DEF Updates
<1>4. \A a \in Syncers : Written(p, a)["flash"] \in {sheet[p]["flash"], syncing[a][p]["flash"]}
  BY DEF Written
<1>5. ASSUME NEW a \in Syncers, NEW allow, SyncRead(a, allow)
      PROVE  /\ sheet' = sheet
             /\ \A b \in Syncers : syncing'[b][p]["flash"] \in
                   {"", syncing[b][p]["flash"], inventory[p]["flash"]}
  BY <1>1, <1>3, <1>5 DEF SyncRead
<1>6. ASSUME NEW a \in Syncers, SyncWrite(a)
      PROVE  /\ sheet'[p]["flash"] \in {sheet[p]["flash"], syncing[a][p]["flash"]}
             /\ \A b \in Syncers : syncing'[b][p]["flash"] \in {"", syncing[b][p]["flash"]}
  BY <1>1, <1>2, <1>4, <1>6 DEF SyncWrite
<1>7. ASSUME Dies
      PROVE  /\ sheet' = sheet
             /\ \A b \in Syncers : syncing'[b][p]["flash"] \in {"", syncing[b][p]["flash"]}
  BY <1>1, <1>2, <1>7 DEF Dies
<1> QED
  BY <1>5, <1>6, <1>7 DEF SheetStep, OperatorSync, CommandFailed, StepFails

(* The steps that leave the records, the syncs and the flash alone.          *)
LEMMA QuietSteps ==
    ASSUME \/ Backup \/ ArchiveCapture \/ Build \/ Unprotected \/ Guarded \/ ArchiveImage
           \/ SwapPuck \/ UNCHANGED vars
           \/ \E p \in Pucks, ok \in BOOLEAN : Start(p, ok)
           \/ \E p \in Pucks : FlashDirect(p)
    PROVE  UNCHANGED <<content, inventory, sheet, syncing, booted, unfinished, aside>>
  BY DEF Backup, ArchiveCapture, Build, Unprotected, Guarded, ArchiveImage, SwapPuck, Start,
         FlashDirect, Run, Returned, Swap, vars, toolSees, recVars, history

(* What the records, the syncs under way and the sheet say stays true.       *)
LEMMA RecordStep ==
    ASSUME PipelineInv, [PipelineNext]_vars
    PROVE  InventoryIsTrue' /\ VerifiedMeansBooted' /\ SyncIsTrue' /\ SheetIsTrue'
<1>0. /\ hint \in Pucks /\ attached \in Pucks
      /\ PipelineTypeOK /\ DumpIsTrue /\ CableIsHint /\ StatusWithheld
  BY DEF PipelineInv, PipelineTypeOK
<1> USE DEF InventoryIsTrue, VerifiedMeansBooted, SyncIsTrue, SheetIsTrue, history
<1>1. CASE Issue
  <2>1. UNCHANGED <<content, inventory, sheet, syncing, booted>>
    BY <1>1 DEF Issue, Launch, recVars
  <2>2. unfinished \subseteq unfinished'
    BY <1>1 DEF Issue
  <2>3. \A p \in Pucks : inventory[p]["flash"] # "" /\ p \in aside => p \in aside'
    BY <1>0, <1>1 DEF Issue, StatusWithheld
  <2> QED
    BY <2>1, <2>2, <2>3 DEF PipelineInv
<1>2. CASE SheetStep \/ OperatorSync \/ CommandFailed \/ StepFails
  <2>1. UNCHANGED <<content, inventory, unfinished, aside, booted>>
    BY <1>2, SheetEffect, DiesEffect
  <2>2. InventoryIsTrue' /\ VerifiedMeansBooted'
    BY <2>1 DEF PipelineInv
  <2>3. ASSUME NEW a \in Syncers, NEW p \in Pucks \ unfinished, syncing'[a][p]["flash"] # ""
        PROVE  content[p] = "rekeyed"
    <3>1. syncing'[a][p]["flash"] \in {"", syncing[a][p]["flash"], inventory[p]["flash"]}
      BY <1>0, <1>2, SyncEffect
    <3> QED
      BY <2>3, <3>1 DEF PipelineInv
  <2>4. ASSUME NEW p \in Pucks \ unfinished, sheet'[p]["flash"] # ""
        PROVE  content[p] = "rekeyed"
    <3>1. CASE sheet'[p]["flash"] = sheet[p]["flash"]
      BY <2>4, <3>1 DEF PipelineInv
    <3>2. CASE \E a \in Syncers : sheet'[p]["flash"] = syncing[a][p]["flash"]
      BY <2>4, <3>2 DEF PipelineInv
    <3> QED
      BY <1>0, <1>2, <3>1, <3>2, SyncEffect
  <2> QED
    BY <2>1, <2>2, <2>3, <2>4
<1>3. CASE WriteIdentity
  <2>1. UNCHANGED <<content, sheet, syncing, unfinished, aside, booted>>
    BY <1>3 DEF WriteIdentity, toolSees
  <2>2. \A p \in Pucks : inventory'[p]["flash"] \in {"", inventory[p]["flash"]}
    BY <1>0, <1>3, RecordEffect
  <2> QED
    BY <2>1, <2>2 DEF PipelineInv
<1>4. CASE Flashed
  <2>1. content[hint] = "rekeyed"
    BY <1>0, <1>4 DEF Flashed, Returned, StatusWithheld
  <2>2. UNCHANGED <<content, inventory, sheet, syncing, aside, booted>> /\ unfinished' = unfinished \ {hint}
    BY <1>4 DEF Flashed, Returned, recVars
  <2> QED
    BY <1>0, <2>1, <2>2 DEF PipelineInv
<1>5. CASE Book
  <2>1. UNCHANGED <<content, sheet, syncing, unfinished, aside, booted>> /\ content[hint] = "rekeyed"
    BY <1>0, <1>5 DEF Book, toolSees, StatusWithheld
  <2>2. \A p \in Pucks :
           inventory'[p]["flash"] = IF p = hint THEN "flashed" ELSE inventory[p]["flash"]
    BY <1>0, <1>5, RecordEffect
  <2> QED
    BY <1>0, <2>1, <2>2 DEF PipelineInv
<1>6. CASE BootVerdict
  <2>1. UNCHANGED <<content, sheet, syncing, unfinished, aside, booted>> /\ content[hint] = "rekeyed"
    BY <1>0, <1>6 DEF BootVerdict, Returned, StatusWithheld
  <2>2. result = "ok" => hint \in booted
    BY <1>0, <1>6 DEF BootVerdict, StatusWithheld
  <2>3. \A p \in Pucks : \/ inventory'[p]["flash"] = inventory[p]["flash"]
                         \/ p = hint /\ result = "ok" /\ inventory'[p]["flash"] = "verified"
    BY <1>0, <1>6, RecordEffect
  <2> QED
    BY <1>0, <2>1, <2>2, <2>3 DEF PipelineInv
<1>7. ASSUME NEW q \in Pucks, NEW u \in Upstreams, Collect(q, u)
      PROVE  InventoryIsTrue' /\ VerifiedMeansBooted' /\ SyncIsTrue' /\ SheetIsTrue'
  <2>1. UNCHANGED <<content, sheet, syncing, unfinished, aside, booted>>
    BY <1>7 DEF Collect, toolSees
  <2>2. \A p \in Pucks : inventory'[p]["flash"] = inventory[p]["flash"]
    BY <1>0, <1>7, RecordEffect
  <2> QED
    BY <2>1, <2>2 DEF PipelineInv
<1>8. CASE Command
  <2>1. UNCHANGED <<inventory, sheet, syncing, unfinished, aside, pc, hint>> /\ CommandStep
    BY <1>8 DEF Command, recVars, runVars
  <2>2. result # "none"
    BY <1>0, <2>1, CommandEffect DEF PipelineTypeOK
  <2>3. \A p \in Pucks : content'[p] # content[p] =>
           p \in unfinished /\ (inventory[p]["flash"] = "" \/ p \in aside)
    BY <1>0, <2>2, OnlyTheHint DEF StatusWithheld
  <2>4. \A p \in Pucks : p \in booted /\ p \notin booted' =>
           inventory[p]["flash"] = "" \/ p \in aside
    <3>1. cmd = "flash" => pc = "flash" /\ attached = hint
      BY <1>0, <2>1, CommandEffect, CommandFacts DEF CableIsHint
    <3> QED
      BY <1>0, <1>8, <2>2, <3>1 DEF Command, StatusWithheld
  <2> QED
    BY <2>1, <2>3, <2>4 DEF PipelineInv
<1>9. CASE \/ Backup \/ ArchiveCapture \/ Build \/ Unprotected \/ Guarded \/ ArchiveImage
           \/ SwapPuck \/ UNCHANGED vars
           \/ \E p \in Pucks, ok \in BOOLEAN : Start(p, ok)
           \/ \E p \in Pucks : FlashDirect(p)
  BY <1>9, QuietSteps DEF PipelineInv
<1> QED
  BY <1>1, <1>2, <1>3, <1>4, <1>5, <1>6, <1>7, <1>8, <1>9 DEF PipelineNext, RunStep

(* The invariant holds at first and is kept.                                 *)
LEMMA PipelineInductive ==
    /\ PipelineInit => PipelineInv
    /\ PipelineInv /\ [PipelineNext]_vars => PipelineInv'
<1>1. ASSUME PipelineInit PROVE PipelineTypeOK
  <2>1. MaxRuns \in Nat
    BY PipelineAssumption
  <2>2. runs \in 0..MaxRuns
    BY <1>1, <2>1 DEF PipelineInit
  <2>3. syncing \in [Syncers -> [Pucks -> Record]]
    BY <1>1, RecordFacts DEF PipelineInit, NoSync
  <2>4. inventory \in [Pucks -> Record] /\ sheet \in [Pucks -> Record]
    BY <1>1, RecordFacts DEF PipelineInit
  <2>5. /\ attached \in Pucks /\ content \in [Pucks -> Contents]
        /\ cmd = "none" /\ result = "none" /\ got = <<"nobody", "none">>
    BY <1>1 DEF PipelineInit, ToolInit, Contents
  <2> QED
    BY <1>1, <2>2, <2>3, <2>4, <2>5, CommandFacts DEF PipelineInit, PipelineTypeOK
<1>2. ASSUME PipelineInit
      PROVE  /\ DumpIsTrue /\ CableIsHint /\ StatusWithheld /\ VerifiedMeansBooted
             /\ SyncIsTrue /\ InventoryIsTrue /\ SheetIsTrue
  <2>1. pc = "idle" /\ unfinished = {}
    BY <1>2 DEF PipelineInit
  <2>2. /\ \A p \in Pucks : inventory[p]["flash"] = "" /\ sheet[p]["flash"] = ""
        /\ \A a \in Syncers, p \in Pucks : syncing[a][p]["flash"] = ""
    BY <1>2 DEF PipelineInit, NoSync, Blank, Fields
  <2>3. DumpIsTrue /\ CableIsHint /\ StatusWithheld
    BY <2>1 DEF DumpIsTrue, CableIsHint, StatusWithheld
  <2> QED
    BY <2>2, <2>3 DEF VerifiedMeansBooted, SyncIsTrue, InventoryIsTrue, SheetIsTrue
<1>3. PipelineInv /\ [PipelineNext]_vars => PipelineInv'
  BY TypeStep, DumpStep, CableStep, StatusStep, RecordStep DEF PipelineInv
<1> QED
  BY <1>1, <1>2, <1>3 DEF PipelineInv

(* The scripts and their records keep the invariant.                         *)
LEMMA PipelineInvariant == PipelineSpec => []PipelineInv
  BY PipelineInductive, PTL DEF PipelineSpec
-----------------------------------------------------------------------------
(* The theorems *)

(* Every variable of the scripts and their records has its type.             *)
THEOREM PipelineTypeCorrect == PipelineSpec => []PipelineTypeOK
<1>1. PipelineInv => PipelineTypeOK
  BY DEF PipelineInv
<1> QED
  BY <1>1, PipelineInvariant, PTL

(* A record that says flashed is of a puck that has the whole image, however *)
(* many runs, swaps and failures there were, unless a direct flash of it     *)
(* began since and did not end well.                                         *)
THEOREM InventoryIsTrueInvariant == PipelineSpec => []InventoryIsTrue
<1>1. PipelineInv => InventoryIsTrue
  BY DEF PipelineInv
<1> QED
  BY <1>1, PipelineInvariant, PTL

(* A record that says boot-verified is of a puck that booted what it has,    *)
(* unless a direct flash, which looks at no record, has written it since.    *)
THEOREM VerifiedMeansBootedInvariant == PipelineSpec => []VerifiedMeansBooted
<1>1. PipelineInv => VerifiedMeansBooted
  BY DEF PipelineInv
<1> QED
  BY <1>1, PipelineInvariant, PTL

(* The sheet calls no puck flashed that is not, whoever syncs and however    *)
(* late, but one whose last flash did not end well.                          *)
THEOREM SheetIsTrueInvariant == PipelineSpec => []SheetIsTrue
<1>1. PipelineInv => SheetIsTrue
  BY DEF PipelineInv
<1> QED
  BY <1>1, PipelineInvariant, PTL

(* flash_one_puck.py and flash_gale_fleet.py write no puck but the named one.*)
THEOREM OnlyHintedPuckTheorem == PipelineSpec => OnlyHintedPuck
<1>1. PipelineInv /\ [PipelineNext]_vars =>
        [\A p \in Pucks : content'[p] # content[p] => pc = "flash" /\ p = hint]_vars
  BY OnlyTheHint DEF PipelineInv
<1> QED
  BY <1>1, PipelineInvariant, PTL DEF PipelineSpec, OnlyHintedPuck

(* flash_one_puck.py writes a puck as Google shipped it only when its        *)
(* capture is off-site.                                                      *)
THEOREM CaptureFirstTheorem == PipelineSpec => CaptureFirst
<1>1. PipelineInv /\ [PipelineNext]_vars =>
        [\A p \in Pucks : content[p] = "stock" /\ content'[p] # "stock" =>
            direct \/ archive[p] = "stock"]_vars
  <2> SUFFICES ASSUME PipelineInv, [PipelineNext]_vars, NEW p \in Pucks,
                      content[p] = "stock", content'[p] # "stock"
               PROVE  direct \/ archive[p] = "stock"
    OBVIOUS
  <2>1. pc = "flash" /\ p = hint
    BY OnlyTheHint DEF PipelineInv
  <2> QED
    BY <2>1 DEF PipelineInv, DumpIsTrue
<1> QED
  BY <1>1, PipelineInvariant, PTL DEF PipelineSpec, CaptureFirst
=============================================================================
