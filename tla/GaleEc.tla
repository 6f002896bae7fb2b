------------------------------- MODULE GaleEc -------------------------------
(* The gale board code of the EC of one puck: the AP's power rails, the two  *)
(* deferred calls that switch them and the USB-SPI bridge to its flash.      *)
EXTENDS Naturals, FiniteSets

VARIABLES
    rails,      \* the power rails that are up
    apIsOn,     \* ap_is_on, what "gale power" prints
    deferred,   \* the deferred calls that are due: "on", "off"
    bridge,     \* the USB-SPI bridge is enabled
    offered     \* history: a charger offered 2.5 A since the bridge came up

ecVars == <<rails, apIsOn, deferred, bridge, offered>>

AllRails == {"SYS_PWR", "VDD_3P3", "VDD_3P3_2G", "VDD_1P8", "VDD_1P35", "VDD_1P1_CPU"}
ApRuns == rails = AllRails
FlashPowered == {"SYS_PWR", "VDD_3P3"} \subseteq rails

(* gpio.inc: what the pins drive when the EC comes out of reset.             *)
EcInit ==
    /\ rails = {"SYS_PWR"} /\ apIsOn = FALSE /\ deferred = {}
    /\ bridge = FALSE /\ offered = FALSE

EcReset ==
    /\ rails' = {"SYS_PWR"} /\ apIsOn' = FALSE /\ deferred' = {}
    /\ bridge' = FALSE /\ offered' = FALSE

SetApPowerOn ==
    /\ "on" \in deferred
    /\ deferred' = deferred \ {"on"}
    /\ rails' = AllRails /\ apIsOn' = TRUE
    /\ UNCHANGED <<bridge, offered>>

SetApPowerOff ==
    /\ "off" \in deferred
    /\ deferred' = deferred \ {"off"}
    /\ rails' = {} /\ apIsOn' = FALSE
    /\ UNCHANGED <<bridge, offered>>

(* set_ap_power: both calls are deferred without delay, and the hook task    *)
(* runs those that are due in the order of its table, not of the requests.   *)
SetApPower(call) == deferred' = deferred \cup {call}

(* A charger that offers 5 V at more than 2499 mA.                           *)
PdInputCurrent ==
    /\ SetApPower("on")
    /\ offered' = TRUE
    /\ UNCHANGED <<rails, apIsOn, bridge>>

SpiEnable_CoreUp ==
    /\ rails' = rails \cup {"SYS_PWR", "VDD_3P3"}
    /\ bridge' = TRUE /\ offered' = FALSE
    /\ UNCHANGED <<apIsOn, deferred>>

(* usb_spi_board_enable: the flash rails up, the core rails down.            *)
SpiEnable ==
    /\ rails' = (rails \ {"VDD_1P35", "VDD_1P8"}) \cup {"SYS_PWR", "VDD_3P3"}
    /\ bridge' = TRUE /\ offered' = FALSE
    /\ UNCHANGED <<apIsOn, deferred>>

(* usb_spi_board_disable: the pins are released, the rails stay up.          *)
SpiDisable ==
    /\ bridge' = FALSE
    /\ UNCHANGED <<rails, apIsOn, deferred, offered>>
=============================================================================
