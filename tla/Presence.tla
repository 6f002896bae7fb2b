------------------------------ MODULE Presence ------------------------------
(* presence-detector on one access point: a watcher thread per wifi          *)
(* interface, the main thread that empties the queue and the MQTT callback   *)
(* thread, between hostapd on one side and Home Assistant on the other.      *)
EXTENDS Naturals, Sequences, FiniteSets

CONSTANTS Interfaces,   \* the hostapd.* objects, one watcher thread each
          Devices,      \* the MAC addresses of the stations
          Main, Mqtt,   \* the main thread and paho's callback thread
          MaxEvents     \* bound: stations that come or go, and faults

ASSUME PresenceAssumption ==
    /\ IsFiniteSet(Interfaces)
    /\ MaxEvents \in Nat
    /\ Main # Mqtt /\ Main \notin Interfaces /\ Mqtt \notin Interfaces

VARIABLES
    assoc,       \* the stations hostapd lists, <<interface, device>>
    events,      \* what ubus wrote to each watcher and it has not read
    watch,       \* what each watcher's ubus subscribe is doing
    queue,       \* _queue, the items the main thread works through
    online,      \* _online_clients
    lastSeen,    \* _last_seen_clients
    registered,  \* _registered_clients
    offline,     \* mq_is_offline
    th,          \* where each thread is
    linked,      \* paho is connected to the broker
    subscribed,  \* the broker delivers homeassistant/status to the detector
    birth,       \* an "online" of Home Assistant waits for the callback
    haUp,        \* Home Assistant runs
    entity,      \* the devices Home Assistant made an entity for
    retained,    \* the state of each device the broker retains
    happened,    \* how many stations came or went and faults occurred
    lapse        \* history: something happened that may hide a departure

haVars  == <<linked, subscribed, birth, haUp, entity, retained>>
vars == <<assoc, events, watch, queue, online, lastSeen, registered, offline,
          th, linked, subscribed, birth, haUp, entity, retained,
          happened, lapse>>

Threads == Interfaces \cup {Main, Mqtt}
Pairs   == Interfaces \X Devices
Items   == {"ADD", "DELETE"} \X Devices
Idle    == [at |-> "idle", unread |-> {}, home |-> {}, away |-> {},
            cur |-> <<>>, ok |-> TRUE]
Dead    == [Idle EXCEPT !.at = "dead"]

Syncing(t) ==
    /\ t \in {Main, Mqtt}
    /\ th[t].at \notin {"idle", "dead", "config", "register", "state"}
Happens == happened < MaxEvents /\ happened' = happened + 1
Go(t, s) == th' = [th EXCEPT ![t] = s]

(* The next call of the loops a thread is in; none left, it is done.         *)
NextCall(t, s) ==
    Go(t, IF s.home = {} /\ s.away = {}
            THEN Idle ELSE [s EXCEPT !.at = "home", !.cur = <<>>])
-----------------------------------------------------------------------------
(* A process that starts is in its first full sync. connect() and            *)
(* subscribe() only send: the broker may not have answered yet, or refuse    *)
(* the login, and then the subscription is lost.                             *)
Connections == {c \in [up : BOOLEAN, sub : BOOLEAN] : c.up => c.sub}
FullSync == [Idle EXCEPT !.at = "read", !.unread = Interfaces]
Booting == [t \in Threads |-> IF t = Main THEN FullSync ELSE Idle]
GivenUp == [t \in Threads |-> Dead]

PresenceInit ==
    /\ assoc \in SUBSET Pairs
    /\ events = [i \in Interfaces |-> <<>>]
    /\ watch = [i \in Interfaces |-> "off"]
    /\ queue = <<>> /\ online = {} /\ lastSeen = {} /\ registered = {}
    /\ offline = FALSE /\ th = Booting
    /\ \E c \in Connections : linked = c.up /\ subscribed = c.sub
    /\ birth = FALSE
    /\ haUp = TRUE /\ entity = {}
    /\ retained = [d \in Devices |-> "none"]
    /\ happened = 0 /\ lapse = FALSE
-----------------------------------------------------------------------------
(* hostapd, the broker and Home Assistant.                                   *)

Tell(i, what, d) ==
    events' = IF watch[i] = "listening"
                THEN [events EXCEPT ![i] = Append(@, <<what, d>>)] ELSE events

Assoc(i, d) ==
    /\ Happens /\ <<i, d>> \notin assoc
    /\ assoc' = assoc \cup {<<i, d>>}
    /\ Tell(i, "assoc", d)
    /\ UNCHANGED <<watch, queue, online, lastSeen, registered, offline, th,
                   haVars, lapse>>

Disassoc(i, d) ==
    /\ Happens /\ <<i, d>> \in assoc
    /\ assoc' = assoc \ {<<i, d>>}
    /\ Tell(i, "disassoc", d)
    /\ UNCHANGED <<watch, queue, online, lastSeen, registered, offline, th,
                   haVars, lapse>>

(* A lost connection ends the clean session: paho's thread reconnects by     *)
(* itself, but the one subscribe of _connect_to_mqtt is not repeated.        *)
LinkDown ==
    /\ Happens /\ linked /\ th[Mqtt].at # "dead"
    /\ linked' = FALSE /\ subscribed' = FALSE
    /\ UNCHANGED <<assoc, events, watch, queue, online, lastSeen, registered,
                   offline, th, birth, haUp, entity, retained, lapse>>

LinkUp ==
    /\ ~linked /\ th[Mqtt].at # "dead"
    /\ linked' = TRUE
    /\ UNCHANGED <<assoc, events, watch, queue, online, lastSeen, registered,
                   offline, th, subscribed, birth, haUp, entity, retained,
                   happened, lapse>>

(* Discovery messages are not retained: entities do not survive a restart.   *)
HaDown ==
    /\ Happens /\ haUp
    /\ haUp' = FALSE /\ entity' = {}
    /\ UNCHANGED <<assoc, events, watch, queue, online, lastSeen, registered,
                   offline, th, linked, subscribed, birth, retained, lapse>>

HaUp ==
    /\ ~haUp /\ haUp' = TRUE
    /\ birth' = (birth \/ subscribed)
    /\ UNCHANGED <<assoc, events, watch, queue, online, lastSeen, registered,
                   offline, th, linked, subscribed, entity, retained,
                   happened, lapse>>

(* The process ends and procd starts it again; with the broker out of reach  *)
(* connect() raises every time, until procd's respawn gives up for good.     *)
Restart ==
    /\ Happens
    /\ events' = [i \in Interfaces |-> <<>>]
    /\ watch' = [i \in Interfaces |-> "off"]
    /\ queue' = <<>> /\ online' = {} /\ lastSeen' = {} /\ registered' = {}
    /\ offline' = FALSE /\ birth' = FALSE
    /\ \/ /\ th' = Booting
          /\ \E c \in Connections : linked' = c.up /\ subscribed' = c.sub
       \/ th' = GivenUp /\ linked' = FALSE /\ subscribed' = FALSE
    /\ lapse' = TRUE
    /\ UNCHANGED <<assoc, haUp, entity, retained>>

(* An exception that nothing catches ends its thread and not the process: a  *)
(* get_clients that is no JSON, a device another thread removed first, a     *)
(* publish that raises anything but RuntimeError.                            *)
ThreadDies(t) ==
    /\ Happens /\ th[t].at \notin {"idle", "dead"}
    /\ Go(t, Dead)
    /\ lapse' = TRUE
    /\ UNCHANGED <<assoc, events, watch, queue, online, lastSeen, registered,
                   offline, haVars>>
-----------------------------------------------------------------------------
(* _do_full_sync, on the main thread or on the callback thread.              *)

SyncStart_KeepsRegistered(t) == Go(t, FullSync) /\ UNCHANGED registered
SyncStart(t) == Go(t, FullSync) /\ registered' = {}

Overlaps(t) == \E u \in Threads \ {t} : Syncing(u)

(* ubus call <interface> get_clients: a call that fails lists nobody.        *)
SyncRead(t) ==
    /\ th[t].at = "read"
    /\ \E i \in th[t].unread :
         LET here == {p \in assoc : p[1] = i}
             next(seen) == [th[t] EXCEPT !.unread = @ \ {i},
                                         !.home = @ \cup seen,
                                         !.at = IF th[t].unread = {i}
                                                  THEN "diff" ELSE "read"]
         IN \/ Go(t, next(here)) /\ UNCHANGED happened
            \/ here # {} /\ Happens /\ Go(t, next({}))
    /\ UNCHANGED <<assoc, events, watch, queue, online, lastSeen, registered,
                   offline, haVars, lapse>>

Gone_Nobody(seen) == {}
Gone(seen) == lastSeen \ seen

SyncStore(t) ==
    /\ th[t].at = "diff"
    /\ lastSeen' = th[t].home
    /\ NextCall(t, [th[t] EXCEPT !.away = Gone(th[t].home)])
    /\ UNCHANGED <<assoc, events, watch, queue, online, registered, offline,
                   haVars, happened, lapse>>
-----------------------------------------------------------------------------
(* set_device_home: the item is queued, then the device is marked online.    *)

Item_Swapped(what, p) == <<what, p[1]>>
Item(what, p) == <<what, p[2]>>

HomePut(t) ==
    /\ th[t].at = "home"
    /\ \E p \in th[t].home :
         /\ queue' = Append(queue, Item("ADD", p))
         /\ Go(t, [th[t] EXCEPT !.at = "add", !.home = @ \ {p}, !.cur = p])
    /\ UNCHANGED <<assoc, events, watch, online, lastSeen, registered,
                   offline, haVars, happened, lapse>>

HomeAdd(t) ==
    /\ th[t].at = "add"
    /\ online' = online \cup {th[t].cur}
    /\ NextCall(t, th[t])
    /\ UNCHANGED <<assoc, events, watch, queue, lastSeen, registered,
                   offline, haVars, happened, lapse>>

(* set_device_away: the device is unmarked, looked for on the other          *)
(* interfaces, and reported only if it is on none of them.                   *)
AwayRemove(t) ==
    /\ th[t].at = "home" /\ th[t].home = {}
    /\ \E p \in th[t].away :
         /\ online' = online \ {p}
         /\ Go(t, [th[t] EXCEPT !.at = "check", !.away = @ \ {p}, !.cur = p])
    /\ UNCHANGED <<assoc, events, watch, queue, lastSeen, registered,
                   offline, haVars, happened, lapse>>

Elsewhere(p) == \E i \in Interfaces \ {p[1]} : <<i, p[2]>> \in online

AwayCheck(t) ==
    /\ th[t].at = "check"
    /\ IF Elsewhere(th[t].cur)
         THEN NextCall(t, th[t]) ELSE Go(t, [th[t] EXCEPT !.at = "put"])
    /\ UNCHANGED <<assoc, events, watch, queue, online, lastSeen, registered,
                   offline, haVars, happened, lapse>>

AwayPut_Jumps(t) ==
    /\ th[t].at = "put"
    /\ queue' = <<Item("DELETE", th[t].cur)>> \o queue
    /\ NextCall(t, th[t])
    /\ UNCHANGED <<assoc, events, watch, online, lastSeen, registered,
                   offline, haVars, happened, lapse>>

AwayPut(t) ==
    /\ th[t].at = "put"
    /\ queue' = Append(queue, Item("DELETE", th[t].cur))
    /\ NextCall(t, th[t])
    /\ UNCHANGED <<assoc, events, watch, online, lastSeen, registered,
                   offline, haVars, happened, lapse>>

Calls(t) ==
    \/ SyncRead(t) \/ SyncStore(t)
    \/ HomePut(t) \/ HomeAdd(t)
    \/ AwayRemove(t) \/ AwayCheck(t) \/ AwayPut(t)
-----------------------------------------------------------------------------
(* The watcher thread of an interface.                                       *)

(* ubus subscribe is started, and started again as long as it fails.         *)
WatchStart(i) ==
    /\ watch[i] = "starting"
    /\ watch' = [watch EXCEPT ![i] = "listening"]
    /\ UNCHANGED <<assoc, events, queue, online, lastSeen, registered,
                   offline, th, haVars, happened, lapse>>

(* ubus subscribe ends: readline answers "" for ever.                        *)
WatchDeaf(i) ==
    /\ Happens /\ watch[i] = "listening"
    /\ watch' = [watch EXCEPT ![i] = "deaf"]
    /\ lapse' = TRUE
    /\ UNCHANGED <<assoc, events, queue, online, lastSeen, registered,
                   offline, th, haVars>>

WatchEvent(i) ==
    /\ th[i].at = "idle" /\ events[i] # <<>>
    /\ LET p == <<i, Head(events[i])[2]>>
       IN Go(i, IF Head(events[i])[1] = "assoc"
                  THEN [Idle EXCEPT !.at = "home", !.home = {p}]
                  ELSE [Idle EXCEPT !.at = "home", !.away = {p}])
    /\ events' = [events EXCEPT ![i] = Tail(@)]
    /\ UNCHANGED <<assoc, watch, queue, online, lastSeen, registered,
                   offline, haVars, happened, lapse>>
-----------------------------------------------------------------------------
(* The callback thread: Home Assistant is back online.                       *)
OnHaStatus ==
    /\ birth /\ th[Mqtt].at = "idle"
    /\ birth' = FALSE
    /\ SyncStart(Mqtt) /\ lapse' = (lapse \/ Overlaps(Mqtt))
    /\ UNCHANGED <<assoc, events, watch, queue, online, lastSeen, offline,
                   linked, subscribed, haUp, entity, retained, happened>>
-----------------------------------------------------------------------------
(* The main thread.                                                          *)

StartWatchers ==
    /\ th[Main].at = "idle" /\ \A i \in Interfaces : watch[i] = "off"
    /\ watch' = [i \in Interfaces |-> "starting"]
    /\ UNCHANGED <<assoc, events, queue, online, lastSeen, registered,
                   offline, th, haVars, happened, lapse>>

Loop == th[Main].at = "idle" /\ \A i \in Interfaces : watch[i] # "off"

Take ==
    /\ Loop /\ queue # <<>>
    /\ queue' = Tail(queue)
    /\ Go(Main, [Idle EXCEPT !.at = "config", !.cur = Head(queue)])
    /\ UNCHANGED <<assoc, events, watch, online, lastSeen, registered,
                   offline, haVars, happened, lapse>>

(* queue.Empty after fallback_sync_interval.                                 *)
Fallback_Never == Loop /\ queue = <<>> /\ UNCHANGED vars
Fallback ==
    /\ Loop /\ queue = <<>>
    /\ SyncStart(Main) /\ lapse' = (lapse \/ Overlaps(Main))
    /\ UNCHANGED <<assoc, events, watch, queue, online, lastSeen, offline,
                   haVars, happened>>

(* _publish: FALSE at once without a connection. On a connection a publish   *)
(* that raises may be delivered all the same, because paho has queued it,    *)
(* and one that times out is taken for done; it always times out once paho's *)
(* thread, which reads the acknowledgement, is dead.                         *)
Publish(done, sent) ==
    \/ ~linked /\ ~done /\ ~sent /\ UNCHANGED happened
    \/ linked /\ done /\ (sent \/ th[Mqtt].at = "dead") /\ UNCHANGED happened
    \/ linked /\ ~(done /\ sent) /\ Happens

(* _ha_seen, first half: the discovery message, unless already registered.   *)
Config ==
    /\ th[Main].at = "config"
    /\ LET d == th[Main].cur[2] IN
       \/ /\ d \in registered
          /\ Go(Main, [th[Main] EXCEPT !.at = "state"])
          /\ UNCHANGED <<entity, happened>>
       \/ /\ d \notin registered
          /\ \E done, sent \in BOOLEAN :
               /\ Publish(done, sent)
               /\ entity' = IF sent /\ haUp THEN entity \cup {d} ELSE entity
               /\ Go(Main, [th[Main] EXCEPT
                              !.at = IF done THEN "register" ELSE "state",
                              !.ok = done])
    /\ UNCHANGED <<assoc, events, watch, queue, online, lastSeen, registered,
                   offline, linked, subscribed, birth, haUp, retained, lapse>>

Register ==
    /\ th[Main].at = "register"
    /\ registered' = registered \cup {th[Main].cur[2]}
    /\ Go(Main, [th[Main] EXCEPT !.at = "state"])
    /\ UNCHANGED <<assoc, events, watch, queue, online, lastSeen, offline,
                   haVars, happened, lapse>>

(* _ha_seen, second half, and what the loop makes of its answer: an item     *)
(* that failed goes back to the end of the queue, the first success after    *)
(* that runs a full sync.                                                    *)
Requeue(item) == Append(queue, item)

(* A departure whose publish timed out is believed to be shown.              *)
Missed(item, done, sent) == item[1] = "DELETE" /\ done /\ ~sent

State ==
    /\ th[Main].at = "state"
    /\ LET item == th[Main].cur
           now  == IF item[1] = "ADD" THEN "home" ELSE "away"
       IN \E done, sent \in BOOLEAN :
            /\ Publish(done, sent)
            /\ retained' = IF sent THEN [retained EXCEPT ![item[2]] = now] ELSE retained
            /\ \/ /\ done /\ th[Main].ok /\ offline
                  /\ offline' = FALSE /\ SyncStart(Main) /\ UNCHANGED queue
                  /\ lapse' = (lapse \/ Missed(item, done, sent) \/ Overlaps(Main))
               \/ /\ done /\ th[Main].ok /\ ~offline
                  /\ Go(Main, Idle) /\ UNCHANGED <<offline, queue, registered>>
                  /\ lapse' = (lapse \/ Missed(item, done, sent))
               \/ /\ ~(done /\ th[Main].ok)
                  /\ queue' = Requeue(item) /\ offline' = TRUE
                  /\ Go(Main, Idle) /\ lapse' = TRUE /\ UNCHANGED registered
    /\ UNCHANGED <<assoc, events, watch, online, lastSeen,
                   linked, subscribed, birth, haUp, entity>>
-----------------------------------------------------------------------------
MainStep == Calls(Main) \/ StartWatchers \/ Take \/ Fallback
            \/ Config \/ Register \/ State
WatcherStep(i) == Calls(i) \/ WatchStart(i) \/ WatchEvent(i)
MqttStep == Calls(Mqtt) \/ OnHaStatus

PresenceNext ==
    \/ MainStep \/ MqttStep
    \/ \E i \in Interfaces : WatcherStep(i) \/ WatchDeaf(i)
    \/ \E i \in Interfaces, d \in Devices : Assoc(i, d) \/ Disassoc(i, d)
    \/ LinkDown \/ LinkUp \/ HaDown \/ HaUp
    \/ Restart \/ \E t \in Threads : ThreadDies(t)

PresenceSpec == PresenceInit /\ [][PresenceNext]_vars

PresenceFairness ==
    /\ WF_vars(MainStep) /\ WF_vars(MqttStep)
    /\ \A i \in Interfaces : WF_vars(WatcherStep(i))
    /\ WF_vars(LinkUp) /\ WF_vars(HaUp)

LivePresenceSpec == PresenceSpec /\ PresenceFairness
-----------------------------------------------------------------------------
(* Every variable holds a value of its kind.                                 *)
ThreadState ==
    [at : {"idle", "dead", "read", "diff", "home", "add", "check", "put",
           "config", "register", "state"},
     unread : SUBSET Interfaces, home : SUBSET Pairs, away : SUBSET Pairs,
     cur : {<<>>} \cup Pairs \cup Items, ok : BOOLEAN]

PresenceTypeOK ==
    /\ assoc \subseteq Pairs /\ online \subseteq Pairs /\ lastSeen \subseteq Pairs
    /\ events \in [Interfaces -> Seq({"assoc", "disassoc"} \X Devices)]
    /\ watch \in [Interfaces -> {"off", "starting", "listening", "deaf"}]
    /\ queue \in Seq(Items)
    /\ registered \subseteq Devices /\ entity \subseteq Devices
    /\ th \in [Threads -> ThreadState]
    /\ retained \in [Devices -> {"none", "home", "away"}]
    /\ {offline, linked, subscribed, birth, haUp, lapse} \subseteq BOOLEAN
    /\ happened \in 0..MaxEvents

Connected(d) == \E i \in Interfaces : <<i, d>> \in assoc

(* The detector's thread and paho's are there: neither died of an exception, *)
(* and procd has not given up.                                               *)
Alive == th[Main].at # "dead" /\ th[Mqtt].at # "dead"

Quiet == /\ queue = <<>> /\ \A t \in Threads : th[t].at = "idle"
         /\ \A i \in Interfaces : events[i] = <<>>

(* A device that is shown at home although it has gone is in the list the    *)
(* next full sync compares with, so that this sync reports it: whenever all  *)
(* events are worked off, unless a publish failed, the publish of a          *)
(* departure timed out, a watcher went deaf, a thread died, the process was  *)
(* restarted or two full syncs overlapped.                                   *)
QuietHome ==
    Quiet /\ ~lapse =>
      \A d \in Devices : retained[d] = "home" /\ ~Connected(d)
        => \E i \in Interfaces : <<i, d>> \in lastSeen

(* A device that stays connected is shown at home in the end, through lost   *)
(* connections, failed and timed out publishes, deaf and dead watchers,      *)
(* failing ubus calls, roaming between interfaces and restarts, as long as   *)
(* the process comes up again and its two other threads live on.             *)
HomeShown ==
    \A d \in Devices : <>[](Connected(d) /\ Alive) => <>[](retained[d] = "home")

(* Home Assistant has an entity for a device that stays connected, however   *)
(* often Home Assistant restarted and whatever became of its birth message   *)
(* and of the discovery messages, under the same condition on the detector.  *)
EntityKnown ==
    \A d \in Devices : <>[](Connected(d) /\ Alive) => <>[](d \in entity)

(* A device that has gone for good is not shown at home for ever, unless     *)
(* one of the events that can hide its departure happened.                   *)
AwaySettles ==
    \A d \in Devices :
      <>[]~Connected(d) => <>(lapse \/ [](retained[d] # "home"))
=============================================================================
