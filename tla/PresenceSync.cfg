CONSTANTS
    wlan0 = wlan0
    wlan1 = wlan1
    phone = phone
    Main = main
    Mqtt = mqtt
    main = main
    mqtt = mqtt
    Interfaces <- MCInterfaces
    Devices <- MCDevices
    MaxEvents = 2
SPECIFICATION LivePresenceSpec
INVARIANTS PresenceTypeOK QuietHome
PROPERTIES HomeShown EntityKnown AwaySettles
\* The system may stop: procd has given up and nothing more happens.
CHECK_DEADLOCK FALSE
