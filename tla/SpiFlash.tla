------------------------------ MODULE SpiFlash ------------------------------
(* flash_puck_usb.py: its read, unprotect, flash and verify-boot commands    *)
(* over the bridge of the puck that hangs on the SuzyQ cable.                *)
(*                                                                           *)
(* Sectors are numbered in FLASH_ORDER, so that a region, a piece of it and  *)
(* the work that is left are intervals. Of the content of a sector only its  *)
(* origin is kept: "old" and "new" are what Google shipped and what the      *)
(* image has, "blank" is erased, "part" erased or programmed half way.       *)
EXTENDS GaleEc

CONSTANTS Pucks,
          Rekeyed,      \* the pucks that have the image when they come
          Last,         \* the number of sectors the plan covers
          Plan,         \* the pieces flash_region starts with, <<first, last>>
          SlotA, SlotB, \* the sectors of the two RW slots; GBB has the others
          Zero,         \* the sectors of the image that hold only 0x00 bytes
          MaxFaults     \* bound: sessions spent, chargers, USB errors, kills

Sectors == 1..Last
GBB == Sectors \ (SlotA \cup SlotB)

ASSUME SpiFlashAssumption ==
    /\ Rekeyed \subseteq Pucks /\ Last \in Nat \ {0} /\ MaxFaults \in Nat
    /\ Plan \subseteq {r \in Sectors \X Sectors : r[1] <= r[2]}
    /\ Sectors = UNION {r[1]..r[2] : r \in Plan}
    /\ SlotA \subseteq Sectors /\ SlotB \subseteq Sectors /\ Zero \subseteq Sectors

(* FLASH_ORDER: the GBB comes last and in pieces of its own; an image of     *)
(* nothing but zeros is none.                                                *)
ASSUME FlashOrderAssumption ==
    /\ \A s \in SlotA \cup SlotB, g \in GBB : s < g
    /\ \A r \in Plan : r[1]..r[2] \subseteq GBB \/ r[1]..r[2] \cap GBB = {}
    /\ Zero # Sectors

VARIABLES
    attached,   \* the puck on the cable
    chip,       \* the flash of every puck
    protect,    \* the pucks whose block-protect bits are set
    cmd,        \* the command that runs
    result,     \* what the last command ended with
    got,        \* the file the last read wrote: whose flash, and what is in it
    sess,       \* the Session of the command: "closed", "parked" or "open"
    spent,      \* the session is past its transaction budget
    at, pos,    \* the loop of the command, and the sector it is at
    same,       \* the read-back has agreed so far
    first,      \* what the first pass of read returned
    pieces,     \* the pieces flash_region still has to write
    faults

jobVars  == <<cmd, result, got, pieces>>
sessVars == <<sess, spent, at, pos, same, first>>
puckVars == <<attached, chip, protect>>
spiVars  == <<ecVars, jobVars, sessVars, puckVars, faults>>

Values == {"old", "new", "blank", "part"}
Here == chip[attached]
Put(s, v) == chip' = [chip EXCEPT ![attached][s] = v]
Fault == faults < MaxFaults /\ faults' = faults + 1

Content == [p \in Pucks |->
    IF \A s \in Sectors : chip[p][s] = "old" THEN "stock" ELSE
    IF \A s \in Sectors \ Zero : chip[p][s] = "new" THEN "rekeyed" ELSE "torn"]

SpiInit ==
    /\ EcInit
    /\ attached \in Pucks
    /\ chip = [p \in Pucks |-> [s \in Sectors |-> IF p \in Rekeyed THEN "new" ELSE "old"]]
    /\ protect = Pucks \ Rekeyed
    /\ cmd = "none" /\ result = "none" /\ sess = "closed" /\ spent = FALSE
    /\ at = "start" /\ pos = 1 /\ same = TRUE /\ first = "none"
    /\ got = <<"nobody", "none">> /\ pieces = {} /\ faults = 0

(* The flash answers: everything else that a transaction can meet without an *)
(* error status reads as zeros, or as noise when the AP drives the bus.      *)
Answers == bridge /\ FlashPowered /\ ~ApRuns /\ ~spent
Seen(v) == IF Answers THEN v ELSE IF ApRuns THEN "noise" ELSE "zeros"
-----------------------------------------------------------------------------
(* The work of flash_region. Its recursion writes the first half of a piece  *)
(* to the end before the second, so what is left is done in order.           *)
Cur_GbbFirst == CHOOSE r \in pieces : \A q \in pieces : r[1] >= q[1]
Cur == CHOOSE r \in pieces : \A q \in pieces : r[1] <= q[1]

Halve_Skips(r) == LET mid == (r[1] + r[2]) \div 2
                  IN {<<r[1], mid>>, <<mid + 2, r[2]>>}
Halve_Overlaps(r) == LET mid == (r[1] + r[2]) \div 2
                     IN {<<r[1], mid + 1>>, <<mid + 1, r[2]>>}
Halve(r) == LET mid == (r[1] + r[2]) \div 2
            IN {<<r[1], mid>>, <<mid + 1, r[2]>>}

Written == {s \in Sectors : \A r \in pieces : s \notin r[1]..r[2]}

(* The session of the command is over; a new one starts from here.           *)
Closed == /\ sess' = "closed" /\ spent' = FALSE /\ at' = "start" /\ pos' = 1
          /\ same' = TRUE /\ first' = "none"

Ends(how) == cmd' = "none" /\ result' = how /\ pieces' = {} /\ Closed

(* A FatalError: flash_region splits the piece and goes on unless it has the *)
(* minimum size, all other commands end.                                     *)
FatalError_Retries ==
    /\ IF cmd = "flash"
         THEN /\ Closed /\ UNCHANGED <<cmd, result>>
              /\ pieces' = IF Cur[1] < Cur[2] THEN (pieces \ {Cur}) \cup Halve(Cur) ELSE pieces
         ELSE Ends("failed")
    /\ UNCHANGED got

FatalError ==
    /\ IF cmd = "flash" /\ Cur[1] < Cur[2]
         THEN /\ pieces' = (pieces \ {Cur}) \cup Halve(Cur) /\ Closed
              /\ UNCHANGED <<cmd, result>>
         ELSE Ends("failed")
    /\ UNCHANGED got

TearDown == SpiDisable /\ FatalError

(* A USBError of a console is no FatalError: nothing is split or retried.    *)
Escapes == Ends("failed") /\ UNCHANGED got
-----------------------------------------------------------------------------
(* Session.bring_up.                                                         *)

(* "gale power off" is acknowledged when the call has been deferred.         *)
Park ==
    /\ cmd \in {"read", "unprotect", "flash"} /\ sess = "closed"
    /\ SetApPower("off") /\ sess' = "parked"
    /\ UNCHANGED <<rails, apIsOn, bridge, offered, jobVars, spent, at, pos, same,
                   first, puckVars, faults>>

(* Two seconds of silence later the deferred call has run. A charger's call  *)
(* that is due just now is one that Charger makes due right after this step: *)
(* the rails come out the same. RDID is read at once and again after the     *)
(* settle time.                                                              *)
Enable ==
    /\ sess = "parked" /\ deferred = {}
    /\ SpiEnable
    /\ sess' = "open"
    /\ UNCHANGED <<jobVars, spent, at, pos, same, first, puckVars, faults>>

(* An AP that still talks, a locked EC, a console or a bridge that fails:    *)
(* only a bridge that this session enabled is disabled, and not always.      *)
BringUpFails ==
    /\ sess = "parked"
    /\ \/ ApRuns /\ FatalError /\ UNCHANGED <<ecVars, faults>>
       \/ /\ Fault /\ (FatalError \/ Escapes)
          /\ SpiDisable \/ UNCHANGED ecVars
    /\ UNCHANGED puckVars

(* Past the budget of a session WREN does not latch and reads return zeros.  *)
SessionSpent ==
    /\ Fault /\ sess = "open" /\ ~spent
    /\ spent' = TRUE
    /\ UNCHANGED <<ecVars, jobVars, sess, at, pos, same, first, puckVars>>

(* What an erase or a program that something interrupts may leave.           *)
Torn == {Here[pos]} \cup IF cmd = "flash" /\ at \in {"erase", "program"}
                           THEN {"blank", "part"} ELSE {}

(* _ap_abort_check finds that the AP woke up, and was on the bus meanwhile.  *)
ApAbort ==
    /\ sess = "open" /\ ApRuns
    /\ \E v \in Torn : Put(pos, v)
    /\ TearDown
    /\ UNCHANGED <<attached, protect, faults>>

(* A transfer fails, with or without a reset of the EC or loss of power; the *)
(* DISABLE of the teardown may fail too, and nobody hears of it.             *)
UsbFails ==
    /\ Fault /\ sess = "open"
    /\ \E v \in Torn : Put(pos, v)
    /\ EcReset \/ SpiDisable \/ UNCHANGED ecVars
    /\ FatalError \/ Escapes
    /\ UNCHANGED <<attached, protect>>

(* The process is killed: nothing is torn down.                              *)
Killed ==
    /\ Fault /\ cmd # "none"
    /\ \E v \in Torn : Put(pos, v)
    /\ Ends("failed")
    /\ UNCHANGED <<ecVars, got, attached, protect>>
-----------------------------------------------------------------------------
(* cmd_read: two passes in one session; the file is written if they agree.   *)

ReadFirst ==
    /\ cmd = "read" /\ sess = "open" /\ at = "start"
    /\ at' = "again"
    /\ \/ first' = Seen("true") /\ UNCHANGED <<spent, faults>>
       \/ Answers /\ Fault /\ spent' = TRUE /\ first' = "mixed"
    /\ UNCHANGED <<ecVars, jobVars, sess, pos, same, puckVars>>

Agree_Always == TRUE
Agree == first \in {"true", "zeros"} /\ Seen("true") = first

ReadAgain ==
    /\ cmd = "read" /\ sess = "open" /\ at = "again"
    /\ IF Agree
         THEN /\ got' = <<attached, IF first = "true" THEN Content[attached] ELSE first>>
              /\ SpiDisable /\ Ends("ok")
         ELSE TearDown
    /\ UNCHANGED <<puckVars, faults>>

(* cmd_unprotect: a status register that reads as zero has nothing to clear. *)
Unprotect ==
    /\ cmd = "unprotect" /\ sess = "open" /\ ~ApRuns
    /\ protect' = IF Answers THEN protect \ {attached} ELSE protect
    /\ SpiDisable /\ Ends("ok")
    /\ UNCHANGED <<got, attached, chip, faults>>
-----------------------------------------------------------------------------
(* write_region of the current piece: erase, program, verify.                *)

PieceStart ==
    /\ cmd = "flash" /\ sess = "open" /\ at = "start"
    /\ IF Answers /\ attached \in protect
         THEN TearDown
         ELSE /\ at' = "erase" /\ pos' = Cur[1]
              /\ UNCHANGED <<ecVars, jobVars, sess, spent, same, first>>
    /\ UNCHANGED <<puckVars, faults>>

(* On to the next sector of the piece, or back to its start for what follows.*)
Advance(then) ==
    /\ IF pos < Cur[2] THEN pos' = pos + 1 /\ UNCHANGED at
                       ELSE pos' = Cur[1] /\ at' = then
    /\ UNCHANGED <<ecVars, jobVars, sess, same, first>>

(* WEL is checked before each erase and the head of the sector after it.     *)
Erase ==
    /\ cmd = "flash" /\ sess = "open" /\ at = "erase"
    /\ IF Answers
         THEN Put(pos, "blank") /\ Advance("program") /\ UNCHANGED spent
         ELSE (\E v \in IF ApRuns THEN Torn ELSE {Here[pos]} : Put(pos, v)) /\ TearDown
    /\ UNCHANGED <<attached, protect, faults>>

(* A page program is not checked: in a spent session it does nothing.        *)
Program ==
    /\ cmd = "flash" /\ sess = "open" /\ at = "program"
    /\ \/ Answers /\ Put(pos, "new") /\ UNCHANGED <<spent, faults>>
       \/ Answers /\ Fault /\ spent' = TRUE /\ Put(pos, "part")
       \/ /\ ~Answers /\ UNCHANGED <<spent, faults>>
          /\ \E v \in IF ApRuns THEN Torn ELSE {Here[pos]} : Put(pos, v)
    /\ Advance("verify")
    /\ UNCHANGED <<attached, protect>>

(* The read-back of a sector against the image.                              *)
Matches_NotErased(s) == Seen(Here[s]) # "blank"
Matches(s) == \/ Seen(Here[s]) = "new"
              \/ Seen(Here[s]) = "zeros" /\ s \in Zero

VerifySector ==
    /\ cmd = "flash" /\ sess = "open" /\ at = "verify" /\ pos < Cur[2]
    /\ pos' = pos + 1 /\ same' = (same /\ Matches(pos))
    /\ UNCHANGED <<ecVars, jobVars, sess, spent, at, first, puckVars, faults>>

VerifyEnds ==
    /\ cmd = "flash" /\ sess = "open" /\ at = "verify" /\ pos = Cur[2]
    /\ IF ~(same /\ Matches(pos)) THEN TearDown
       ELSE /\ SpiDisable /\ UNCHANGED got
            /\ IF pieces = {Cur} THEN Ends("ok")
               ELSE /\ pieces' = pieces \ {Cur} /\ Closed
                    /\ UNCHANGED <<cmd, result>>
    /\ UNCHANGED <<puckVars, faults>>
-----------------------------------------------------------------------------
(* verify_boot: the EC is reset, the AP switched off and on, its console     *)
(* classified. A mute console is UNDECIDED on a good boot too.               *)

IsSlotOf(o, slot, p) == \A s \in slot : chip[p][s] = o \/ (o = "new" /\ s \in Zero)

(* Verstage finds a slot that the root key in the GBB vouches for.           *)
Bootable(p) == \E o \in {"old", "new"} :
    /\ \A s \in GBB : chip[p][s] = o
    /\ IsSlotOf(o, SlotA, p) \/ IsSlotOf(o, SlotB, p)

RebootEc ==
    /\ cmd = "boot" /\ at = "start"
    /\ EcReset /\ at' = "off"
    /\ UNCHANGED <<jobVars, sess, spent, pos, same, first, puckVars, faults>>

CycleAp ==
    /\ cmd = "boot"
    /\ \/ at = "off" /\ at' = "on" /\ SetApPower("off")
       \/ at = "on" /\ deferred = {} /\ at' = "again" /\ SetApPower("on")
    /\ UNCHANGED <<rails, apIsOn, bridge, offered, jobVars, sess, spent, pos, same,
                   first, puckVars, faults>>

CaptureBoot ==
    /\ cmd = "boot" /\ at = "again"
    /\ \/ ApRuns /\ Bootable(attached) /\ Ends("ok")
       \/ Ends("failed")
    /\ UNCHANGED <<ecVars, got, puckVars, faults>>
-----------------------------------------------------------------------------
EcStep == /\ SetApPowerOn \/ SetApPowerOff
          /\ UNCHANGED <<jobVars, sessVars, puckVars, faults>>

Charger == Fault /\ PdInputCurrent /\ UNCHANGED <<jobVars, sessVars, puckVars>>

ToolStep ==
    \/ Park \/ Enable \/ BringUpFails \/ ApAbort
    \/ ReadFirst \/ ReadAgain \/ Unprotect
    \/ PieceStart \/ Erase \/ Program \/ VerifySector \/ VerifyEnds
    \/ RebootEc \/ CycleAp \/ CaptureBoot

(* The operator, or a script, starts a command or changes the puck.          *)
Launch(c) ==
    /\ cmd = "none"
    /\ cmd' = c /\ result' = "running"
    /\ pieces' = IF c = "flash" THEN Plan ELSE {}
    /\ UNCHANGED <<ecVars, got, sessVars, puckVars, faults>>

Swap ==
    /\ cmd = "none"
    /\ attached' \in Pucks \ {attached}
    /\ EcReset
    /\ UNCHANGED <<jobVars, sessVars, chip, protect, faults>>

SpiNext ==
    \/ EcStep \/ Charger \/ ToolStep \/ SessionSpent \/ UsbFails \/ Killed
    \/ \E c \in {"read", "unprotect", "flash", "boot"} : Launch(c)
    \/ Swap

SpiSpec == SpiInit /\ [][SpiNext]_spiVars

(* Deferred calls run, and a command that can go on does.                    *)
SpiFairness == WF_spiVars(EcStep) /\ WF_spiVars(ToolStep)
LiveSpiSpec == SpiSpec /\ SpiFairness
-----------------------------------------------------------------------------
(* Every variable holds a value of its kind.                                 *)
SpiTypeOK ==
    /\ rails \subseteq AllRails /\ deferred \subseteq {"on", "off"}
    /\ apIsOn \in BOOLEAN /\ bridge \in BOOLEAN /\ offered \in BOOLEAN
    /\ spent \in BOOLEAN /\ same \in BOOLEAN
    /\ attached \in Pucks /\ protect \subseteq Pucks
    /\ chip \in [Pucks -> [Sectors -> Values]]
    /\ cmd \in {"none", "read", "unprotect", "flash", "boot"}
    /\ result \in {"none", "running", "ok", "failed"}
    /\ sess \in {"closed", "parked", "open"}
    /\ at \in {"start", "again", "erase", "program", "verify", "off", "on"}
    /\ pos \in Sectors /\ faults \in 0..MaxFaults
    /\ first \in {"none", "true", "zeros", "noise", "mixed"}
    /\ got \in {<<"nobody", "none">>}
               \cup (Pucks \X {"zeros", "stock", "rekeyed", "torn"})
    /\ pieces \subseteq {r \in Sectors \X Sectors : r[1] <= r[2]}
    /\ cmd = "flash" <=> pieces # {}

(* What flash_region has put behind it is on the chip, whatever became of    *)
(* the sessions it used: only a sector of zeros may be missing, because a    *)
(* spent session reads zeros too.                                            *)
VerifiedIsOnChip ==
    cmd = "flash" => \A s \in Written \ Zero : Here[s] = "new"

(* In an open session the AP is off the bus, however the deferred calls were *)
(* ordered, until a charger offers it power in the middle of the session.    *)
AwakeMeansOffered == sess = "open" /\ bridge /\ ApRuns => offered

(* The root key is touched only when both slots of that puck are written.    *)
GbbLast ==
    [][\A p \in Pucks, s \in GBB : chip'[p][s] # chip[p][s] =>
          \A t \in (SlotA \cup SlotB) \ Zero : chip[p][t] = "new"]_spiVars

(* A flash does not go back: what it has verified it leaves alone, and the   *)
(* pieces of a region that is split are smaller than it and inside it.       *)
NeverGoesBack ==
    [][cmd = "flash" /\ cmd' = "flash" =>
          /\ Written \subseteq Written'
          /\ \A s \in Written : chip'[attached][s] = Here[s]
          /\ \/ pieces' = pieces
             \/ \E q \in pieces \ pieces' : \A r \in pieces' \ pieces :
                   q[1] <= r[1] /\ r[2] <= q[2] /\ r[2] - r[1] < q[2] - q[1]]_spiVars

(* For its callers the tool is FlashTool.                                    *)
Tool == INSTANCE FlashTool WITH content <- Content
ImplementsFlashTool == Tool!ToolSpec

(* Every command ends: the splitting does too.                               *)
CommandEnds == cmd # "none" ~> cmd = "none"
=============================================================================
