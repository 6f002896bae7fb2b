----------------------------- MODULE FlashTool ------------------------------
(* What the commands of flash_puck_usb.py promise to the scripts that call   *)
(* it. Of the flash of a puck only this is told apart: as Google shipped it, *)
(* wholly written with the fleet image, or neither.                          *)
EXTENDS Naturals, FiniteSets

CONSTANTS Pucks

VARIABLES
    attached,   \* the puck on the SuzyQ cable
    content,    \* the flash of every puck
    cmd,        \* the command that runs
    result,     \* what the last command ended with
    got         \* the file the last read wrote: whose flash, and what is in it

toolSees == <<attached, content, cmd, result, got>>

Contents == {"stock", "torn", "rekeyed"}
Commands == {"read", "unprotect", "flash", "boot"}

ToolInit ==
    /\ attached \in Pucks
    /\ content \in [Pucks -> {"stock", "rekeyed"}]
    /\ cmd = "none" /\ result = "none" /\ got = <<"nobody", "none">>

Launch(c) ==
    /\ cmd = "none"
    /\ cmd' = c /\ result' = "running"
    /\ UNCHANGED <<attached, content, got>>

Ends(how) == cmd' = "none" /\ result' = how

(* The two passes agreed: on what the puck has, or on the zeros that a       *)
(* session reads that was dead all along.                                    *)
ReadEnds ==
    /\ cmd = "read" /\ Ends("ok")
    /\ \E what \in {content[attached], "zeros"} : got' = <<attached, what>>
    /\ UNCHANGED <<attached, content>>

UnprotectEnds ==
    /\ cmd = "unprotect" /\ Ends("ok")
    /\ UNCHANGED <<attached, content, got>>

(* On its way a flash spoils the puck on the cable, or completes it.         *)
Writes ==
    /\ cmd = "flash"
    /\ \E v \in {"torn", "rekeyed"} : content' = [content EXCEPT ![attached] = v]
    /\ UNCHANGED <<attached, cmd, result, got>>

FlashEnds ==
    /\ cmd = "flash" /\ content[attached] = "rekeyed" /\ Ends("ok")
    /\ UNCHANGED <<attached, content, got>>

(* A verdict of GOOD: what runs on the puck has booted.                      *)
BootEnds ==
    /\ cmd = "boot" /\ Ends("ok")
    /\ UNCHANGED <<attached, content, got>>

(* A failed command; a flash may have spoilt the sector it was at.           *)
Fails ==
    /\ cmd # "none" /\ Ends("failed")
    /\ IF cmd = "flash"
         THEN \E v \in {content[attached], "torn", "rekeyed"} :
                content' = [content EXCEPT ![attached] = v]
         ELSE UNCHANGED content
    /\ UNCHANGED <<attached, got>>

CommandStep == ReadEnds \/ UnprotectEnds \/ Writes \/ FlashEnds \/ BootEnds \/ Fails

(* The operator hangs another puck on the cable.                             *)
Swap ==
    /\ cmd = "none"
    /\ attached' \in Pucks \ {attached}
    /\ UNCHANGED <<content, cmd, result, got>>

ToolNext == (\E c \in Commands : Launch(c)) \/ CommandStep \/ Swap
ToolSpec == ToolInit /\ [][ToolNext]_toolSees
=============================================================================
