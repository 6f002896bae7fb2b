----------------------------- MODULE MCPresence -----------------------------
(* One access point with two wifi interfaces and one station.                *)
EXTENDS Presence
CONSTANTS wlan0, wlan1, phone, main, mqtt
MCInterfaces == {wlan0, wlan1}
MCDevices == {phone}
=============================================================================
