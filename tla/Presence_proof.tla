-------------------------- MODULE Presence_proof ---------------------------
(* Proofs about the presence detector, for any number of interfaces and      *)
(* devices and any bound on what happens to them.                            *)
EXTENDS Presence, TLAPS

-----------------------------------------------------------------------------
(* The inductive invariant.                                                  *)

(* A thread holds what the step it is at needs, and nothing of other steps.  *)
ThreadOK(t) ==
    /\ th[t].at \in {"idle", "dead", "config", "register", "state"} =>
          th[t].home = {} /\ th[t].away = {}
    /\ th[t].at \in {"config", "register", "state"} => t = Main /\ th[t].cur \in Items
    /\ th[t].at \in {"read", "diff"} => t \notin Interfaces /\ th[t].away = {}
    /\ th[t].at \in {"add", "check", "put"} => th[t].cur \in Pairs
    /\ th[t].at \in {"check", "put"} => th[t].home = {}
    /\ t \in Interfaces =>
          /\ \A p \in th[t].home \cup th[t].away : p[1] = t
          /\ th[t].at \in {"add", "check", "put"} => th[t].cur[1] = t

ThreadsOK == \A t \in Threads : ThreadOK(t)

(* The full sync is done by one thread at a time.                            *)
NoOverlap == ~(Syncing(Main) /\ Syncing(Mqtt))

(* A departure the watcher has still to read, one a thread has still to work *)
(* off, and one whose device has been unmarked but not reported yet.         *)
Leaving(p) == \E k \in 1..Len(events[p[1]]) : events[p[1]][k] = <<"disassoc", p[2]>>
Removing(p) == \E t \in Threads : p \in th[t].away
Reporting(p) == \E t \in Threads : th[t].at \in {"check", "put"} /\ th[t].cur = p

(* An arrival that a watcher has read, or will read, is no older than what   *)
(* hostapd says, or its departure comes after it.                            *)
EventsInOrder ==
    \A i \in Interfaces : \A k \in 1..Len(events[i]) : \A d \in Devices :
        events[i][k] = <<"assoc", d>> =>
            \/ <<i, d>> \in assoc
            \/ \E l \in (k + 1)..Len(events[i]) : events[i][l] = <<"disassoc", d>>

(* What a thread is about to mark as online can be unmarked again.           *)
Marking(t, p) ==
    \/ th[t].at \notin {"read", "diff"} /\ p \in th[t].home
    \/ th[t].at = "add" /\ p = th[t].cur

HomeIsKnown ==
    \A t \in Threads, p \in Pairs : Marking(t, p) =>
        IF t \in Interfaces THEN p \in assoc \/ Leaving(p) ELSE p \in lastSeen

(* A watcher that does not listen yet has nothing to do.                     *)
BeforeListening ==
    \A i \in Interfaces :
        /\ watch[i] # "deaf"
        /\ watch[i] # "listening" => events[i] = <<>> /\ th[i].at = "idle"

(* The ways in which the detector will learn that a device has gone: from    *)
(* the watcher, or from the full sync, or it is about to act on it.          *)
Known(p) ==
    \/ p \in assoc /\ watch[p[1]] = "listening"
    \/ p \in lastSeen \/ Leaving(p) \/ Removing(p)

(* Whatever is marked as online will be unmarked when it has gone.           *)
OnlineIsKnown == \A p \in online : Known(p)

(* The last word on a device is, or is going to be, that it is at home.      *)
Busy(what, d) == th[Main].at \in {"config", "register", "state"} /\ th[Main].cur = <<what, d>>
Shown(d) ==
    \/ \E k \in 1..Len(queue) :
          /\ queue[k] = <<"ADD", d>>
          /\ \A l \in (k + 1)..Len(queue) : queue[l] # <<"DELETE", d>>
    \/ /\ \A k \in 1..Len(queue) : queue[k] # <<"DELETE", d>>
       /\ Busy("ADD", d) \/ (retained[d] = "home" /\ ~Busy("DELETE", d))

ShownIsKnown ==
    \A d \in Devices : Shown(d) =>
        \E i \in Interfaces : Known(<<i, d>>) \/ Reporting(<<i, d>>)

DepartureSound ==
    /\ NoOverlap /\ EventsInOrder /\ HomeIsKnown /\ BeforeListening
    /\ OnlineIsKnown /\ ShownIsKnown

PresenceInv == PresenceTypeOK /\ ThreadsOK /\ (~lapse => DepartureSound)

-----------------------------------------------------------------------------
(* The threads *)

(* A step of a thread leaves the others where they are.                      *)
LEMMA GoFacts ==
    ASSUME PresenceTypeOK, NEW t \in Threads, NEW s \in ThreadState, Go(t, s)
    PROVE  /\ th' \in [Threads -> ThreadState] /\ th'[t] = s
           /\ \A u \in Threads \ {t} : th'[u] = th[u]
  BY DEF PresenceTypeOK, Go

(* The steps of a thread, as its fields see them.                            *)
LEMMA IdleFacts ==
    /\ Idle \in ThreadState /\ FullSync \in ThreadState
    /\ Idle.at = "idle" /\ Idle.home = {} /\ Idle.away = {} /\ Idle.cur = <<>>
    /\ FullSync.at = "read" /\ FullSync.home = {} /\ FullSync.away = {}
    /\ Dead \in ThreadState /\ Dead.at = "dead" /\ Dead.home = {} /\ Dead.away = {}
  BY DEF Idle, FullSync, Dead, ThreadState

LEMMA NextCallFacts ==
    ASSUME PresenceTypeOK, NEW t \in Threads, NEW s \in ThreadState, NextCall(t, s)
    PROVE  /\ th' \in [Threads -> ThreadState]
           /\ \A u \in Threads \ {t} : th'[u] = th[u]
           /\ th'[t].home = s.home /\ th'[t].away = s.away
           /\ \/ th'[t].at = "home"
              \/ th'[t].at = "idle" /\ s.home = {} /\ s.away = {}
<1>1. CASE s.home = {} /\ s.away = {}
  <2>1. Go(t, Idle)
    BY <1>1 DEF NextCall
  <2> QED
    BY <1>1, <2>1, IdleFacts, GoFacts
<1>2. CASE ~(s.home = {} /\ s.away = {})
  <2>1. Go(t, [s EXCEPT !.at = "home", !.cur = <<>>])
    BY <1>2 DEF NextCall
  <2>2. [s EXCEPT !.at = "home", !.cur = <<>>] \in ThreadState
    BY DEF ThreadState
  <2>3. /\ [s EXCEPT !.at = "home", !.cur = <<>>].at = "home"
        /\ [s EXCEPT !.at = "home", !.cur = <<>>].home = s.home
        /\ [s EXCEPT !.at = "home", !.cur = <<>>].away = s.away
    BY DEF ThreadState
  <2> QED
    BY <2>1, <2>2, <2>3, GoFacts
<1> QED
  BY <1>1, <1>2

(* The others hold what they held.                                           *)
LEMMA OthersOK ==
    ASSUME ThreadsOK, NEW t \in Threads, \A u \in Threads \ {t} : th'[u] = th[u], ThreadOK(t)'
    PROVE  ThreadsOK'
<1>1. ASSUME NEW u \in Threads \ {t} PROVE ThreadOK(u)'
  BY <1>1 DEF ThreadsOK, ThreadOK
<1> QED
  BY <1>1 DEF ThreadsOK

(* What happens is counted up to the bound.                                  *)
LEMMA HappenedType ==
    ASSUME PresenceTypeOK, Happens \/ UNCHANGED happened
    PROVE  happened' \in 0..MaxEvents
<1>1. happened \in 0..MaxEvents /\ MaxEvents \in Nat
  BY PresenceAssumption DEF PresenceTypeOK
<1> QED
  BY <1>1 DEF Happens

(* A thread that only steps from the state th[t].                            *)
Steps(t) == /\ th' \in [Threads -> ThreadState]
            /\ \A u \in Threads \ {t} : th'[u] = th[u]

(* The full sync: reading an interface.                                      *)
LEMMA SyncReadFacts ==
    ASSUME PresenceTypeOK, ThreadsOK, NEW t \in Threads, SyncRead(t)
    PROVE  /\ Steps(t) /\ t \notin Interfaces /\ happened' \in 0..MaxEvents
           /\ th'[t].at \in {"read", "diff"} /\ th'[t].away = {} /\ th[t].away = {}
<1>1. t \notin Interfaces /\ th[t] \in ThreadState /\ th[t].away = {}
  BY DEF SyncRead, ThreadsOK, ThreadOK, PresenceTypeOK
<1>2. PICK i \in th[t].unread :
        \/ /\ Go(t, [th[t] EXCEPT !.unread = @ \ {i}, !.home = @ \cup {p \in assoc : p[1] = i},
                                  !.at = IF th[t].unread = {i} THEN "diff" ELSE "read"])
           /\ UNCHANGED happened
        \/ /\ Go(t, [th[t] EXCEPT !.unread = @ \ {i}, !.home = @ \cup {},
                                  !.at = IF th[t].unread = {i} THEN "diff" ELSE "read"])
           /\ Happens
  BY DEF SyncRead
<1>3. PICK seen \in SUBSET assoc :
        /\ Go(t, [th[t] EXCEPT !.unread = @ \ {i}, !.home = @ \cup seen,
                               !.at = IF th[t].unread = {i} THEN "diff" ELSE "read"])
        /\ Happens \/ UNCHANGED happened
  <2>1. {p \in assoc : p[1] = i} \in SUBSET assoc /\ {} \in SUBSET assoc
    OBVIOUS
  <2> QED
    BY <1>2, <2>1
<1> DEFINE new == [th[t] EXCEPT !.unread = @ \ {i}, !.home = @ \cup seen,
                                !.at = IF th[t].unread = {i} THEN "diff" ELSE "read"]
<1>4. assoc \subseteq Pairs
  BY DEF PresenceTypeOK
<1>5. new \in ThreadState /\ new.at \in {"read", "diff"} /\ new.away = {}
  BY <1>1, <1>4 DEF ThreadState
<1>6. Steps(t) /\ th'[t] = new
  BY <1>3, <1>5, GoFacts DEF Steps
<1> QED
  BY <1>1, <1>3, <1>5, <1>6, HappenedType

(* The full sync: comparing.                                                 *)
LEMMA SyncStoreFacts ==
    ASSUME PresenceTypeOK, ThreadsOK, NEW t \in Threads, SyncStore(t)
    PROVE  /\ Steps(t) /\ t \notin Interfaces /\ th[t].at = "diff" /\ th[t].away = {}
           /\ lastSeen' = th[t].home /\ lastSeen' \subseteq Pairs
           /\ th'[t].home = th[t].home /\ th'[t].away = lastSeen \ th[t].home
           /\ \/ th'[t].at = "home"
              \/ th'[t].at = "idle" /\ th'[t].home = {} /\ th'[t].away = {}
<1> DEFINE s == [th[t] EXCEPT !.away = Gone(th[t].home)]
<1>1. /\ t \notin Interfaces /\ th[t] \in ThreadState
      /\ th[t].at = "diff" /\ th[t].away = {} /\ lastSeen' = th[t].home
  BY DEF SyncStore, ThreadsOK, ThreadOK, PresenceTypeOK
<1>2. s \in ThreadState /\ s.home = th[t].home /\ s.away = lastSeen \ th[t].home
  BY <1>1 DEF ThreadState, Gone, PresenceTypeOK
<1>3. NextCall(t, s)
  BY DEF SyncStore
<1> HIDE DEF s
<1>4. /\ Steps(t) /\ th'[t].home = s.home /\ th'[t].away = s.away
      /\ th'[t].at = "home" \/ (th'[t].at = "idle" /\ s.home = {} /\ s.away = {})
  BY <1>2, <1>3, NextCallFacts DEF Steps
<1>5. th[t].home \subseteq Pairs
  BY <1>1 DEF ThreadState
<1> QED
  BY <1>1, <1>2, <1>4, <1>5

LEMMA SyncType ==
    ASSUME PresenceTypeOK, ThreadsOK, NEW t \in Threads, SyncRead(t) \/ SyncStore(t)
    PROVE  PresenceTypeOK' /\ ThreadsOK'
<1>1. CASE SyncRead(t)
  <2>1. ThreadOK(t)'
    BY <1>1, SyncReadFacts DEF ThreadOK
  <2> QED
    BY <1>1, <2>1, SyncReadFacts, OthersOK DEF Steps, SyncRead, PresenceTypeOK, haVars
<1>2. CASE SyncStore(t)
  <2>1. ThreadOK(t)'
    BY <1>2, SyncStoreFacts DEF ThreadOK
  <2> QED
    BY <1>2, <2>1, SyncStoreFacts, OthersOK DEF Steps, SyncStore, PresenceTypeOK, haVars
<1> QED
  BY <1>1, <1>2

(* set_device_home.                                                          *)
LEMMA HomePutFacts ==
    ASSUME PresenceTypeOK, ThreadsOK, NEW t \in Threads, HomePut(t)
    PROVE  \E p \in th[t].home :
             /\ Steps(t) /\ p \in Pairs
             /\ queue' = Append(queue, <<"ADD", p[2]>>) /\ queue' \in Seq(Items)
             /\ th'[t].at = "add" /\ th'[t].cur = p
             /\ th'[t].home = th[t].home \ {p} /\ th'[t].away = th[t].away
<1>1. PICK p \in th[t].home :
        /\ queue' = Append(queue, Item("ADD", p))
        /\ Go(t, [th[t] EXCEPT !.at = "add", !.home = @ \ {p}, !.cur = p])
  BY DEF HomePut
<1> DEFINE new == [th[t] EXCEPT !.at = "add", !.home = @ \ {p}, !.cur = p]
<1>2. th[t] \in ThreadState /\ p \in Pairs
  BY DEF ThreadState, PresenceTypeOK
<1>3. new \in ThreadState /\ new.at = "add" /\ new.cur = p
      /\ new.home = th[t].home \ {p} /\ new.away = th[t].away
  BY <1>2 DEF ThreadState
<1>4. Steps(t) /\ th'[t] = new
  BY <1>1, <1>3, GoFacts DEF Steps
<1>5. <<"ADD", p[2]>> \in Items /\ Item("ADD", p) = <<"ADD", p[2]>> /\ queue \in Seq(Items)
  BY <1>2 DEF Pairs, Items, Item, PresenceTypeOK
<1>6. queue' \in Seq(Items)
  BY <1>1, <1>5
<1> QED
  BY <1>1, <1>2, <1>3, <1>4, <1>5, <1>6

LEMMA HomeAddFacts ==
    ASSUME PresenceTypeOK, ThreadsOK, NEW t \in Threads, HomeAdd(t)
    PROVE  /\ Steps(t) /\ th[t].at = "add" /\ th[t].cur \in Pairs
           /\ online' = online \cup {th[t].cur}
           /\ th'[t].home = th[t].home /\ th'[t].away = th[t].away
           /\ \/ th'[t].at = "home"
              \/ th'[t].at = "idle" /\ th[t].home = {} /\ th[t].away = {}
<1>1. th[t] \in ThreadState /\ NextCall(t, th[t])
  BY DEF HomeAdd, PresenceTypeOK
<1> QED
  BY <1>1, NextCallFacts DEF HomeAdd, ThreadsOK, ThreadOK, Steps

LEMMA HomeType ==
    ASSUME PresenceTypeOK, ThreadsOK, NEW t \in Threads, HomePut(t) \/ HomeAdd(t)
    PROVE  PresenceTypeOK' /\ ThreadsOK'
<1>0. ThreadOK(t)
  BY DEF ThreadsOK
<1>1. CASE HomePut(t)
  <2>1. ThreadOK(t)'
    BY <1>0, <1>1, HomePutFacts DEF ThreadOK, HomePut
  <2> QED
    BY <1>1, <2>1, HomePutFacts, OthersOK DEF Steps, HomePut, PresenceTypeOK, haVars
<1>2. CASE HomeAdd(t)
  <2>1. ThreadOK(t)'
    BY <1>0, <1>2, HomeAddFacts DEF ThreadOK
  <2>2. online' \subseteq Pairs
    BY <1>2, HomeAddFacts DEF PresenceTypeOK
  <2> QED
    BY <1>2, <2>1, <2>2, HomeAddFacts, OthersOK DEF Steps, HomeAdd, PresenceTypeOK, haVars
<1> QED
  BY <1>1, <1>2

(* set_device_away.                                                          *)
LEMMA AwayRemoveFacts ==
    ASSUME PresenceTypeOK, ThreadsOK, NEW t \in Threads, AwayRemove(t)
    PROVE  \E p \in th[t].away :
             /\ Steps(t) /\ p \in Pairs /\ online' = online \ {p}
             /\ th[t].at = "home" /\ th[t].home = {}
             /\ th'[t].at = "check" /\ th'[t].cur = p
             /\ th'[t].home = {} /\ th'[t].away = th[t].away \ {p}
<1>1. PICK p \in th[t].away :
        /\ online' = online \ {p}
        /\ Go(t, [th[t] EXCEPT !.at = "check", !.away = @ \ {p}, !.cur = p])
  BY DEF AwayRemove
<1> DEFINE new == [th[t] EXCEPT !.at = "check", !.away = @ \ {p}, !.cur = p]
<1>2. th[t] \in ThreadState /\ p \in Pairs
  BY DEF ThreadState, PresenceTypeOK
<1>3. new \in ThreadState /\ new.at = "check" /\ new.cur = p
      /\ new.home = th[t].home /\ new.away = th[t].away \ {p}
  BY <1>2 DEF ThreadState
<1>4. Steps(t) /\ th'[t] = new
  BY <1>1, <1>3, GoFacts DEF Steps
<1> QED
  BY <1>1, <1>2, <1>3, <1>4 DEF AwayRemove

LEMMA AwayCheckFacts ==
    ASSUME PresenceTypeOK, ThreadsOK, NEW t \in Threads, AwayCheck(t)
    PROVE  /\ Steps(t) /\ th[t].at = "check" /\ th[t].cur \in Pairs /\ th[t].home = {}
           /\ th'[t].home = {} /\ th'[t].away = th[t].away
           /\ \/ Elsewhere(th[t].cur) /\ th'[t].at = "home"
              \/ Elsewhere(th[t].cur) /\ th'[t].at = "idle" /\ th[t].away = {}
              \/ th'[t].at = "put" /\ th'[t].cur = th[t].cur
<1>1. th[t] \in ThreadState /\ th[t].at = "check" /\ th[t].cur \in Pairs /\ th[t].home = {}
  BY DEF AwayCheck, ThreadsOK, ThreadOK, PresenceTypeOK
<1>2. CASE Elsewhere(th[t].cur)
  BY <1>1, <1>2, NextCallFacts DEF AwayCheck, Steps
<1>3. CASE ~Elsewhere(th[t].cur)
  <2> DEFINE new == [th[t] EXCEPT !.at = "put"]
  <2>1. new \in ThreadState /\ new.at = "put" /\ new.cur = th[t].cur
        /\ new.home = th[t].home /\ new.away = th[t].away
    BY <1>1 DEF ThreadState
  <2>2. Steps(t) /\ th'[t] = new
    BY <1>3, <2>1, GoFacts DEF AwayCheck, Steps
  <2> QED
    BY <1>1, <2>1, <2>2
<1> QED
  BY <1>2, <1>3

LEMMA AwayPutFacts ==
    ASSUME PresenceTypeOK, ThreadsOK, NEW t \in Threads, AwayPut(t)
    PROVE  /\ Steps(t) /\ th[t].at = "put" /\ th[t].cur \in Pairs /\ th[t].home = {}
           /\ queue' = Append(queue, <<"DELETE", th[t].cur[2]>>) /\ queue' \in Seq(Items)
           /\ th'[t].home = {} /\ th'[t].away = th[t].away
           /\ th'[t].at = "home" \/ (th'[t].at = "idle" /\ th[t].away = {})
<1>1. th[t] \in ThreadState /\ th[t].at = "put" /\ th[t].cur \in Pairs /\ th[t].home = {}
  BY DEF AwayPut, ThreadsOK, ThreadOK, PresenceTypeOK
<1>2. <<"DELETE", th[t].cur[2]>> \in Items /\ queue \in Seq(Items)
      /\ Item("DELETE", th[t].cur) = <<"DELETE", th[t].cur[2]>>
  BY <1>1 DEF Pairs, Items, Item, PresenceTypeOK
<1>3. queue' = Append(queue, <<"DELETE", th[t].cur[2]>>) /\ queue' \in Seq(Items)
  BY <1>2 DEF AwayPut
<1> QED
  BY <1>1, <1>3, NextCallFacts DEF AwayPut, Steps

LEMMA AwayType ==
    ASSUME PresenceTypeOK, ThreadsOK, NEW t \in Threads,
           AwayRemove(t) \/ AwayCheck(t) \/ AwayPut(t)
    PROVE  PresenceTypeOK' /\ ThreadsOK'
<1>0. ThreadOK(t)
  BY DEF ThreadsOK
<1>1. CASE AwayRemove(t)
  <2>1. ThreadOK(t)'
    BY <1>0, <1>1, AwayRemoveFacts DEF ThreadOK
  <2>2. online' \subseteq Pairs
    BY <1>1, AwayRemoveFacts DEF PresenceTypeOK
  <2> QED
    BY <1>1, <2>1, <2>2, AwayRemoveFacts, OthersOK
    DEF Steps, AwayRemove, PresenceTypeOK, haVars
<1>2. CASE AwayCheck(t)
  <2>1. ThreadOK(t)'
    BY <1>0, <1>2, AwayCheckFacts DEF ThreadOK
  <2> QED
    BY <1>2, <2>1, AwayCheckFacts, OthersOK DEF Steps, AwayCheck, PresenceTypeOK, haVars
<1>3. CASE AwayPut(t)
  <2>1. ThreadOK(t)'
    BY <1>0, <1>3, AwayPutFacts DEF ThreadOK
  <2> QED
    BY <1>3, <2>1, AwayPutFacts, OthersOK DEF Steps, AwayPut, PresenceTypeOK, haVars
<1> QED
  BY <1>1, <1>2, <1>3

(* The watchers.                                                             *)
LEMMA WatchEventFacts ==
    ASSUME PresenceTypeOK, ThreadsOK, NEW i \in Interfaces, WatchEvent(i)
    PROVE  /\ i \in Threads /\ Steps(i) /\ th[i].at = "idle" /\ th'[i].at = "home"
           /\ events[i] \in Seq({"assoc", "disassoc"} \X Devices) /\ events[i] # <<>>
           /\ events' = [events EXCEPT ![i] = Tail(@)]
           /\ \E d \in Devices :
                \/ /\ Head(events[i]) = <<"assoc", d>>
                   /\ th'[i].home = {<<i, d>>} /\ th'[i].away = {}
                \/ /\ Head(events[i]) = <<"disassoc", d>>
                   /\ th'[i].home = {} /\ th'[i].away = {<<i, d>>}
<1> DEFINE e == Head(events[i])
           come == [Idle EXCEPT !.at = "home", !.home = {<<i, e[2]>>}]
           gone == [Idle EXCEPT !.at = "home", !.away = {<<i, e[2]>>}]
<1>1. /\ events[i] \in Seq({"assoc", "disassoc"} \X Devices) /\ events[i] # <<>>
      /\ i \in Threads /\ th[i].at = "idle"
  BY DEF WatchEvent, PresenceTypeOK, Threads
<1>2. e \in {"assoc", "disassoc"} \X Devices
  BY <1>1
<1>3. e[2] \in Devices /\ <<i, e[2]>> \in Pairs
      /\ (e = <<"assoc", e[2]>> \/ (e[1] # "assoc" /\ e = <<"disassoc", e[2]>>))
  BY <1>2 DEF Pairs
<1>4. /\ come \in ThreadState /\ come.at = "home"
      /\ come.home = {<<i, e[2]>>} /\ come.away = {}
      /\ gone \in ThreadState /\ gone.at = "home"
      /\ gone.home = {} /\ gone.away = {<<i, e[2]>>}
  BY <1>3 DEF Idle, ThreadState
<1>5. CASE e[1] = "assoc"
  <2>1. Go(i, come)
    BY <1>5 DEF WatchEvent
  <2> HIDE DEF come, gone
  <2>2. Steps(i) /\ th'[i] = come
    BY <1>1, <1>4, <2>1, GoFacts DEF Steps
  <2>3. events' = [events EXCEPT ![i] = Tail(@)]
    BY DEF WatchEvent
  <2> QED
    BY <1>1, <1>3, <1>4, <1>5, <2>2, <2>3
<1>6. CASE e[1] # "assoc"
  <2>1. Go(i, gone)
    BY <1>6 DEF WatchEvent
  <2> HIDE DEF come, gone
  <2>2. Steps(i) /\ th'[i] = gone
    BY <1>1, <1>4, <2>1, GoFacts DEF Steps
  <2>3. events' = [events EXCEPT ![i] = Tail(@)]
    BY DEF WatchEvent
  <2> QED
    BY <1>1, <1>3, <1>4, <1>6, <2>2, <2>3
<1> QED
  BY <1>5, <1>6

LEMMA WatcherType ==
    ASSUME PresenceTypeOK, ThreadsOK, NEW i \in Interfaces,
           WatchStart(i) \/ WatchDeaf(i) \/ WatchEvent(i)
    PROVE  PresenceTypeOK' /\ ThreadsOK'
<1>1. CASE WatchStart(i) \/ WatchDeaf(i)
  <2>1. watch' \in [Interfaces -> {"off", "starting", "listening", "deaf"}]
        /\ th' = th /\ happened' \in 0..MaxEvents
    BY <1>1, HappenedType DEF WatchStart, WatchDeaf, PresenceTypeOK
  <2> QED
    BY <1>1, <2>1 DEF WatchStart, WatchDeaf, PresenceTypeOK, ThreadsOK, ThreadOK, haVars
<1>2. CASE WatchEvent(i)
  <2>1. ThreadOK(i)'
    <3>1. /\ i \in Threads /\ th'[i].at = "home"
          /\ \E d \in Devices : th'[i].home \cup th'[i].away = {<<i, d>>}
      BY <1>2, WatchEventFacts
    <3> QED
      BY <3>1 DEF ThreadOK
  <2>2. Tail(events[i]) \in Seq({"assoc", "disassoc"} \X Devices)
    BY <1>2, WatchEventFacts
  <2>3. events' \in [Interfaces -> Seq({"assoc", "disassoc"} \X Devices)]
    <3>1. events' = [events EXCEPT ![i] = Tail(@)]
      BY <1>2, WatchEventFacts
    <3> QED
      BY <2>2, <3>1 DEF PresenceTypeOK
  <2> QED
    BY <1>2, <2>1, <2>3, WatchEventFacts, OthersOK
    DEF Steps, WatchEvent, PresenceTypeOK, haVars
<1> QED
  BY <1>1, <1>2

(* A thread that starts a full sync.                                         *)
LEMMA StartSyncType ==
    ASSUME PresenceTypeOK, ThreadsOK, NEW t \in {Main, Mqtt}, SyncStart(t)
    PROVE  /\ th' \in [Threads -> ThreadState] /\ ThreadsOK'
           /\ registered' = {}
           /\ th'[t] = FullSync /\ \A u \in Threads \ {t} : th'[u] = th[u]
<1>1. t \in Threads /\ t \notin Interfaces
  BY PresenceAssumption DEF Threads
<1>2. /\ th' \in [Threads -> ThreadState] /\ th'[t] = FullSync
      /\ \A u \in Threads \ {t} : th'[u] = th[u]
  BY <1>1, IdleFacts, GoFacts DEF SyncStart
<1>3. ThreadOK(t)'
  BY <1>1, <1>2, IdleFacts DEF ThreadOK
<1>4. ThreadsOK'
  BY <1>1, <1>2, <1>3, OthersOK
<1> QED
  BY <1>1, <1>2, <1>4 DEF SyncStart

(* The main thread and an item of the queue.                                 *)
LEMMA MainFacts == Main \in Threads /\ Main \notin Interfaces
  BY PresenceAssumption DEF Threads

LEMMA TakeType ==
    ASSUME PresenceTypeOK, ThreadsOK, Take
    PROVE  PresenceTypeOK' /\ ThreadsOK'
<1> DEFINE new == [Idle EXCEPT !.at = "config", !.cur = Head(queue)]
<1>1. Head(queue) \in Items /\ Tail(queue) \in Seq(Items)
  BY DEF Take, PresenceTypeOK
<1>2. new \in ThreadState /\ new.at = "config" /\ new.home = {} /\ new.away = {}
      /\ new.cur = Head(queue)
  BY <1>1 DEF Idle, ThreadState
<1>3. th' \in [Threads -> ThreadState] /\ th'[Main] = new
      /\ \A u \in Threads \ {Main} : th'[u] = th[u]
  BY <1>2, GoFacts, MainFacts DEF Take
<1>4. ThreadOK(Main)'
  BY <1>1, <1>2, <1>3, MainFacts DEF ThreadOK
<1> QED
  BY <1>1, <1>3, <1>4, OthersOK, MainFacts DEF Take, PresenceTypeOK, haVars

LEMMA PublishType ==
    ASSUME PresenceTypeOK, NEW done, NEW sent, Publish(done, sent)
    PROVE  happened' \in 0..MaxEvents
  BY HappenedType DEF Publish

LEMMA DiscoveryType ==
    ASSUME PresenceTypeOK, ThreadsOK, Config \/ Register
    PROVE  PresenceTypeOK' /\ ThreadsOK'
<1>0. th[Main] \in ThreadState /\ ThreadOK(Main) /\ th[Main].cur \in Items
  BY MainFacts DEF Config, Register, ThreadsOK, ThreadOK, PresenceTypeOK
<1>1. th[Main].cur[2] \in Devices
  BY <1>0 DEF Items
<1>2. PICK at \in {"register", "state"}, ok \in BOOLEAN :
        Go(Main, [th[Main] EXCEPT !.at = at, !.ok = ok])
  <2>1. CASE Register \/ (Config /\ th[Main].cur[2] \in registered)
    <3>1. Go(Main, [th[Main] EXCEPT !.at = "state"])
      BY <2>1 DEF Config, Register
    <3>2. th[Main].ok \in BOOLEAN
          /\ [th[Main] EXCEPT !.at = "state"] = [th[Main] EXCEPT !.at = "state", !.ok = th[Main].ok]
      BY <1>0 DEF ThreadState
    <3> QED
      BY <3>1, <3>2
  <2>2. CASE Config /\ th[Main].cur[2] \notin registered
    BY <2>2 DEF Config
  <2> QED
    BY <2>1, <2>2
<1> DEFINE new == [th[Main] EXCEPT !.at = at, !.ok = ok]
<1>3. new \in ThreadState /\ new.at = at /\ new.cur = th[Main].cur
      /\ new.home = th[Main].home /\ new.away = th[Main].away
  BY <1>0 DEF ThreadState
<1>4. th' \in [Threads -> ThreadState] /\ th'[Main] = new
      /\ \A u \in Threads \ {Main} : th'[u] = th[u]
  BY <1>2, <1>3, GoFacts, MainFacts
<1>5. ThreadOK(Main)'
  BY <1>0, <1>3, <1>4, MainFacts DEF ThreadOK, Config, Register
<1>6. happened' \in 0..MaxEvents
  BY PublishType DEF Config, Register, PresenceTypeOK
<1>7. entity' \subseteq Devices /\ registered' \subseteq Devices
  BY <1>1 DEF Config, Register, PresenceTypeOK, haVars
<1> QED
  BY <1>4, <1>5, <1>6, <1>7, OthersOK, MainFacts DEF Config, Register, PresenceTypeOK, haVars

LEMMA StateType ==
    ASSUME PresenceTypeOK, ThreadsOK, State
    PROVE  PresenceTypeOK' /\ ThreadsOK'
<1>0. th[Main].cur \in Items
  BY MainFacts DEF State, ThreadsOK, ThreadOK
<1>1. PICK done \in BOOLEAN, sent \in BOOLEAN :
        /\ Publish(done, sent)
        /\ retained' = IF sent
                         THEN [retained EXCEPT ![th[Main].cur[2]] =
                                 IF th[Main].cur[1] = "ADD" THEN "home" ELSE "away"]
                         ELSE retained
        /\ \/ offline' = FALSE /\ SyncStart(Main) /\ UNCHANGED queue
           \/ Go(Main, Idle) /\ UNCHANGED <<offline, queue, registered>>
           \/ /\ queue' = Requeue(th[Main].cur) /\ offline' = TRUE
              /\ Go(Main, Idle) /\ UNCHANGED registered
  BY DEF State
<1>2. happened' \in 0..MaxEvents
  BY <1>1, PublishType
<1>3. retained' \in [Devices -> {"none", "home", "away"}]
  BY <1>0, <1>1 DEF PresenceTypeOK, Items
<1>4. queue' \in Seq(Items)
  <2>1. queue \in Seq(Items)
    BY DEF PresenceTypeOK
  <2>2. Append(queue, th[Main].cur) \in Seq(Items)
    BY <1>0, <2>1
  <2> QED
    BY <1>1, <2>1, <2>2 DEF Requeue
<1>5. offline' \in BOOLEAN
  BY <1>1 DEF PresenceTypeOK
<1>6. th' \in [Threads -> ThreadState] /\ ThreadsOK' /\ registered' \subseteq Devices
  <2>1. CASE SyncStart(Main)
    BY <2>1, StartSyncType
  <2>2. CASE Go(Main, Idle) /\ UNCHANGED registered
    <3>1. /\ th' \in [Threads -> ThreadState] /\ th'[Main] = Idle
          /\ \A u \in Threads \ {Main} : th'[u] = th[u]
      BY <2>2, IdleFacts, GoFacts, MainFacts
    <3>2. ThreadOK(Main)'
      BY <3>1, IdleFacts, MainFacts DEF ThreadOK
    <3> QED
      BY <2>2, <3>1, <3>2, OthersOK, MainFacts DEF PresenceTypeOK
  <2> QED
    BY <1>1, <2>1, <2>2
<1>7. lapse' \in BOOLEAN
  BY DEF State, PresenceTypeOK
<1> QED
  BY <1>2, <1>3, <1>4, <1>5, <1>6, <1>7 DEF State, PresenceTypeOK

(* What a broker may have answered to a process that has just started.       *)
LEMMA ConnectionFacts == \A c \in Connections : c.up \in BOOLEAN /\ c.sub \in BOOLEAN
  BY DEF Connections

(* hostapd, the broker, Home Assistant, and the service manager.             *)
LEMMA EnvironmentType ==
    ASSUME PresenceTypeOK, ThreadsOK,
           \/ \E i \in Interfaces, d \in Devices : Assoc(i, d) \/ Disassoc(i, d)
           \/ LinkDown \/ LinkUp \/ HaDown \/ HaUp \/ Restart
           \/ \E t \in Threads : ThreadDies(t)
    PROVE  PresenceTypeOK' /\ ThreadsOK'
<1>1. ASSUME NEW i \in Interfaces, NEW d \in Devices, NEW what \in {"assoc", "disassoc"},
             Tell(i, what, d)
      PROVE  events' \in [Interfaces -> Seq({"assoc", "disassoc"} \X Devices)]
  <2>1. Append(events[i], <<what, d>>) \in Seq({"assoc", "disassoc"} \X Devices)
    BY DEF PresenceTypeOK
  <2> QED
    BY <1>1, <2>1 DEF Tell, PresenceTypeOK
<1>2. ASSUME NEW i \in Interfaces, NEW d \in Devices, Assoc(i, d) \/ Disassoc(i, d)
      PROVE  PresenceTypeOK' /\ ThreadsOK'
  <2>1. happened' \in 0..MaxEvents /\ assoc' \subseteq Pairs
    BY <1>2, HappenedType DEF Assoc, Disassoc, PresenceTypeOK, Pairs
  <2>2. events' \in [Interfaces -> Seq({"assoc", "disassoc"} \X Devices)]
    BY <1>1, <1>2 DEF Assoc, Disassoc
  <2> QED
    BY <1>2, <2>1, <2>2 DEF Assoc, Disassoc, PresenceTypeOK, ThreadsOK, ThreadOK, haVars
<1>3. CASE LinkDown \/ LinkUp \/ HaDown \/ HaUp
  <2>1. happened' \in 0..MaxEvents
    BY <1>3, HappenedType DEF LinkDown, LinkUp, HaDown, HaUp
  <2>2. birth' \in BOOLEAN
    BY <1>3 DEF LinkDown, LinkUp, HaDown, HaUp, PresenceTypeOK
  <2> QED
    BY <1>3, <2>1, <2>2
    DEF LinkDown, LinkUp, HaDown, HaUp, PresenceTypeOK, ThreadsOK, ThreadOK
<1>4. CASE Restart
  <2>1. happened' \in 0..MaxEvents
    BY <1>4, HappenedType DEF Restart
  <2>2. \/ th' = [t \in Threads |-> IF t = Main THEN FullSync ELSE Idle]
        \/ th' = [t \in Threads |-> Dead]
    BY <1>4 DEF Restart, Booting, GivenUp
  <2>3. /\ th' \in [Threads -> ThreadState]
        /\ \A t \in Threads : ThreadOK(t)'
    <3>1. CASE th' = [t \in Threads |-> Dead]
      BY <3>1, IdleFacts DEF ThreadOK
    <3>2. CASE th' = [t \in Threads |-> IF t = Main THEN FullSync ELSE Idle]
      <4>1. ASSUME NEW t \in Threads PROVE ThreadOK(t)'
        <5>1. th'[t] = IF t = Main THEN FullSync ELSE Idle
          BY <3>2
        <5>2. CASE t = Main
          BY <5>1, <5>2, IdleFacts, MainFacts DEF ThreadOK
        <5>3. CASE t # Main
          BY <5>1, <5>3, IdleFacts DEF ThreadOK
        <5> QED
          BY <5>2, <5>3
      <4> QED
        BY <3>2, <4>1, IdleFacts
    <3> QED
      BY <2>2, <3>1, <3>2
  <2>4. events' \in [Interfaces -> Seq({"assoc", "disassoc"} \X Devices)]
        /\ queue' \in Seq(Items)
    BY <1>4 DEF Restart
  <2>5. ThreadsOK'
    BY <2>3 DEF ThreadsOK
  <2>6. linked' \in BOOLEAN /\ subscribed' \in BOOLEAN
    BY <1>4, ConnectionFacts DEF Restart
  <2>7. PresenceTypeOK'
    BY <1>4, <2>1, <2>3, <2>4, <2>6 DEF Restart, PresenceTypeOK
  <2> QED
    BY <2>5, <2>7
<1>5. ASSUME NEW t \in Threads, ThreadDies(t) PROVE PresenceTypeOK' /\ ThreadsOK'
  <2>1. /\ th' \in [Threads -> ThreadState] /\ th'[t] = Dead
        /\ \A u \in Threads \ {t} : th'[u] = th[u]
    BY <1>5, IdleFacts, GoFacts DEF ThreadDies
  <2>2. ThreadOK(t)'
    BY <2>1, IdleFacts DEF ThreadOK
  <2>3. happened' \in 0..MaxEvents
    BY <1>5, HappenedType DEF ThreadDies
  <2> QED
    BY <1>5, <2>1, <2>2, <2>3, OthersOK DEF ThreadDies, PresenceTypeOK, haVars
<1> QED
  BY <1>2, <1>3, <1>4, <1>5

(* Every step keeps the types and the threads consistent.                    *)
LEMMA TypeStep ==
    ASSUME PresenceTypeOK, ThreadsOK, [PresenceNext]_vars
    PROVE  PresenceTypeOK' /\ ThreadsOK'
<1>1. ASSUME NEW t \in Threads, Calls(t) PROVE PresenceTypeOK' /\ ThreadsOK'
  BY <1>1, SyncType, HomeType, AwayType DEF Calls
<1>2. CASE MainStep
  <2>1. CASE StartWatchers
    BY <2>1 DEF StartWatchers, PresenceTypeOK, ThreadsOK, ThreadOK, haVars
  <2>2. CASE Fallback
    BY <2>2, StartSyncType DEF Fallback, PresenceTypeOK, haVars
  <2> QED
    BY <1>1, <1>2, <2>1, <2>2, MainFacts, TakeType, DiscoveryType, StateType DEF MainStep
<1>3. CASE MqttStep
  <2>1. CASE OnHaStatus
    BY <2>1, StartSyncType DEF OnHaStatus, PresenceTypeOK
  <2> QED
    BY <1>1, <1>3, <2>1 DEF MqttStep, Threads
<1>4. ASSUME NEW i \in Interfaces, WatcherStep(i) \/ WatchDeaf(i)
      PROVE  PresenceTypeOK' /\ ThreadsOK'
  BY <1>1, <1>4, WatcherType DEF WatcherStep, Threads
<1>5. CASE UNCHANGED vars
  BY <1>5 DEF vars, PresenceTypeOK, ThreadsOK, ThreadOK
<1> QED
  BY <1>2, <1>3, <1>4, <1>5, EnvironmentType DEF PresenceNext

-----------------------------------------------------------------------------
(* Departures: the full sync                                                 *)

(* A thread that was in a full sync may go on with it.                       *)
LEMMA OneSync ==
    ASSUME PresenceTypeOK, ThreadsOK, NoOverlap, NEW t \in Threads, Calls(t),
           \A u \in Threads \ {t} : th'[u] = th[u]
    PROVE  NoOverlap'
<1>1. t \in {Main, Mqtt} => Syncing(t)
  BY DEF Calls, SyncRead, SyncStore, HomePut, HomeAdd, AwayRemove, AwayCheck, AwayPut, Syncing
<1>2. \A u \in {Main, Mqtt} \ {t} : Syncing(u)' = Syncing(u)
  BY DEF Syncing, Threads
<1> QED
  BY <1>1, <1>2, PresenceAssumption DEF NoOverlap

(* Only the main thread's item, the queue and what the broker retains say    *)
(* what is shown.                                                            *)
LEMMA ShownKept ==
    ASSUME UNCHANGED <<queue, retained>>,
           \A what, d : Busy(what, d)' = Busy(what, d), NEW d
    PROVE  Shown(d)' = Shown(d)
  BY DEF Shown

LEMMA NotBusy ==
    ASSUME PresenceTypeOK, ThreadsOK, NEW t \in Threads, Calls(t),
           \A u \in Threads \ {t} : th'[u] = th[u],
           th'[t].at \notin {"config", "register", "state"}
    PROVE  \A what, d : Busy(what, d)' = Busy(what, d)
<1>1. th[t].at \notin {"config", "register", "state"}
  BY DEF Calls, SyncRead, SyncStore, HomePut, HomeAdd, AwayRemove, AwayCheck, AwayPut
<1> QED
  BY <1>1, MainFacts DEF Busy

LEMMA SyncReadSound ==
    ASSUME PresenceTypeOK, ThreadsOK, DepartureSound, NEW t \in Threads, SyncRead(t)
    PROVE  DepartureSound'
<1>1. /\ \A u \in Threads \ {t} : th'[u] = th[u]
      /\ t \notin Interfaces /\ th'[t].at \in {"read", "diff"} /\ th[t].at = "read"
      /\ th'[t].away = {} /\ th[t].away = {}
      /\ UNCHANGED <<assoc, events, watch, queue, online, lastSeen, retained>>
  BY SyncReadFacts DEF SyncRead, Steps, haVars
<1>2. \A p : Removing(p)' = Removing(p) /\ Leaving(p)' = Leaving(p) /\ Reporting(p)' = Reporting(p)
  BY <1>1 DEF Removing, Leaving, Reporting
<1>3. \A p : Known(p)' = Known(p)
  BY <1>1, <1>2 DEF Known
<1>4. NoOverlap'
  BY <1>1, OneSync DEF DepartureSound, Calls
<1>5. EventsInOrder'
  BY <1>1 DEF DepartureSound, EventsInOrder
<1>6. HomeIsKnown'
  <2>1. \A u \in Threads, p \in Pairs : Marking(u, p)' => Marking(u, p)
    BY <1>1 DEF Marking
  <2> QED
    BY <1>1, <1>2, <2>1 DEF DepartureSound, HomeIsKnown
<1>7. BeforeListening'
  BY <1>1 DEF DepartureSound, BeforeListening, Threads
<1>8. OnlineIsKnown'
  BY <1>1, <1>3 DEF DepartureSound, OnlineIsKnown
<1>9. ShownIsKnown'
  <2>1. \A d : Shown(d)' = Shown(d)
    BY <1>1, NotBusy, ShownKept DEF Calls
  <2> QED
    BY <1>2, <1>3, <2>1 DEF DepartureSound, ShownIsKnown
<1> QED
  BY <1>4, <1>5, <1>6, <1>7, <1>8, <1>9 DEF DepartureSound

LEMMA SyncStoreSound ==
    ASSUME PresenceTypeOK, ThreadsOK, DepartureSound, NEW t \in Threads, SyncStore(t)
    PROVE  DepartureSound'
<1>1. /\ \A u \in Threads \ {t} : th'[u] = th[u]
      /\ t \notin Interfaces /\ th[t].at = "diff" /\ th[t].away = {}
      /\ lastSeen' = th[t].home /\ th'[t].home = th[t].home
      /\ th'[t].away = lastSeen \ th[t].home /\ th'[t].at \in {"home", "idle"}
      /\ UNCHANGED <<assoc, events, watch, queue, online, retained>>
  BY SyncStoreFacts DEF SyncStore, Steps, haVars
<1>2. \A p : Leaving(p)' = Leaving(p) /\ Reporting(p)' = Reporting(p)
  BY <1>1 DEF Leaving, Reporting
<1>3. \A p : Removing(p) \/ p \in lastSeen => Removing(p)' \/ p \in lastSeen'
  BY <1>1 DEF Removing
<1>4. \A p : Known(p) => Known(p)'
  BY <1>1, <1>2, <1>3 DEF Known
<1>5. NoOverlap'
  BY <1>1, OneSync DEF DepartureSound, Calls
<1>6. EventsInOrder'
  BY <1>1 DEF DepartureSound, EventsInOrder
<1>7. HomeIsKnown'
  <2>1. ASSUME NEW u \in Threads \ Interfaces, NEW p \in Pairs, Marking(u, p)'
        PROVE  p \in lastSeen'
    <3>1. CASE u = t
      BY <1>1, <2>1, <3>1 DEF Marking
    <3>2. CASE u # t
      <4>1. ~Syncing(u)
        BY <1>1, <3>2 DEF DepartureSound, NoOverlap, Syncing, Threads
      <4>2. th[u].home = {} /\ th[u].at # "add"
        BY <4>1 DEF Syncing, Threads, ThreadsOK, ThreadOK
      <4> QED
        BY <1>1, <2>1, <3>2, <4>2 DEF Marking
    <3> QED
      BY <3>1, <3>2
  <2>2. ASSUME NEW u \in Interfaces, NEW p \in Pairs, Marking(u, p)'
        PROVE  p \in assoc' \/ Leaving(p)'
    <3>1. u \in Threads /\ Marking(u, p)
      BY <1>1, <2>2 DEF Marking, Threads
    <3> QED
      BY <1>1, <1>2, <3>1 DEF DepartureSound, HomeIsKnown
  <2> QED
    BY <2>1, <2>2 DEF HomeIsKnown
<1>8. BeforeListening'
  BY <1>1 DEF DepartureSound, BeforeListening, Threads
<1>9. OnlineIsKnown'
  BY <1>1, <1>4 DEF DepartureSound, OnlineIsKnown
<1>10. ShownIsKnown'
  <2>1. \A d : Shown(d)' = Shown(d)
    BY <1>1, NotBusy, ShownKept DEF Calls
  <2> QED
    BY <1>2, <1>4, <2>1 DEF DepartureSound, ShownIsKnown
<1> QED
  BY <1>5, <1>6, <1>7, <1>8, <1>9, <1>10 DEF DepartureSound

-----------------------------------------------------------------------------
(* Departures: set_device_home and set_device_away                           *)

(* What a thread is about to mark will be unmarked when it has gone: a       *)
(* watcher that works is one that listens.                                   *)
LEMMA MarkedIsKnown ==
    ASSUME PresenceTypeOK, ThreadsOK, DepartureSound,
           NEW t \in Threads, NEW p \in Pairs, Marking(t, p)
    PROVE  Known(p)
<1>1. CASE t \in Interfaces
  <2>1. p[1] = t /\ th[t].at # "idle"
    BY <1>1 DEF Marking, ThreadsOK, ThreadOK
  <2>2. watch[t] = "listening"
    BY <1>1, <2>1 DEF DepartureSound, BeforeListening
  <2>3. p \in assoc \/ Leaving(p)
    BY <1>1 DEF DepartureSound, HomeIsKnown
  <2> QED
    BY <2>1, <2>2, <2>3 DEF Known
<1>2. CASE t \notin Interfaces
  BY <1>2 DEF DepartureSound, HomeIsKnown, Known
<1> QED
  BY <1>1, <1>2

(* An item at the end of the queue concerns its own device, and a "DELETE"   *)
(* there is the last word on it.                                             *)
LEMMA LastWord ==
    ASSUME queue \in Seq(Items), NEW x, queue' = Append(queue, x), UNCHANGED retained,
           \A what, d : Busy(what, d)' = Busy(what, d), NEW d
    PROVE  /\ x = <<"DELETE", d>> => ~Shown(d)'
           /\ x # <<"ADD", d>> => (Shown(d)' => Shown(d))
<1>1. /\ Len(queue') = Len(queue) + 1 /\ Len(queue) \in Nat /\ queue'[Len(queue) + 1] = x
      /\ \A k \in 1..Len(queue) : queue'[k] = queue[k]
  OBVIOUS
<1>2. ASSUME x = <<"DELETE", d>> PROVE ~Shown(d)'
  <2>1. Len(queue) + 1 \in 1..Len(queue') /\ queue'[Len(queue) + 1] = <<"DELETE", d>>
    BY <1>1, <1>2
  <2>2. ASSUME NEW k \in 1..Len(queue'), queue'[k] = <<"ADD", d>>,
               \A l \in (k + 1)..Len(queue') : queue'[l] # <<"DELETE", d>>
        PROVE  FALSE
    <3>1. k # Len(queue) + 1
      BY <2>1, <2>2
    <3>2. Len(queue) + 1 \in (k + 1)..Len(queue')
      BY <1>1, <2>2, <3>1
    <3> QED
      BY <2>1, <2>2, <3>2
  <2> QED
    BY <2>1, <2>2 DEF Shown
<1>3. ASSUME x # <<"ADD", d>>, Shown(d)' PROVE Shown(d)
  <2>1. CASE \E k \in 1..Len(queue') : queue'[k] = <<"ADD", d>>
               /\ \A l \in (k + 1)..Len(queue') : queue'[l] # <<"DELETE", d>>
    <3>1. PICK k \in 1..Len(queue') : queue'[k] = <<"ADD", d>>
            /\ \A l \in (k + 1)..Len(queue') : queue'[l] # <<"DELETE", d>>
      BY <2>1
    <3>2. k \in 1..Len(queue) /\ queue[k] = <<"ADD", d>>
      <4>1. k # Len(queue) + 1
        BY <1>1, <1>3, <3>1
      <4>2. k \in 1..Len(queue)
        BY <1>1, <3>1, <4>1
      <4> QED
        BY <1>1, <3>1, <4>2
    <3>3. \A l \in (k + 1)..Len(queue) : l \in 1..Len(queue) /\ l \in (k + 1)..Len(queue')
      BY <1>1, <3>2
    <3>4. \A l \in (k + 1)..Len(queue) : queue[l] # <<"DELETE", d>>
      BY <1>1, <3>1, <3>3
    <3> QED
      BY <3>2, <3>4 DEF Shown
  <2>2. CASE /\ \A k \in 1..Len(queue') : queue'[k] # <<"DELETE", d>>
             /\ Busy("ADD", d)' \/ (retained'[d] = "home" /\ ~Busy("DELETE", d)')
    <3>1. \A k \in 1..Len(queue) : k \in 1..Len(queue')
      BY <1>1
    <3> QED
      BY <1>1, <2>2, <3>1 DEF Shown
  <2> QED
    BY <1>3, <2>1, <2>2 DEF Shown
<1> QED
  BY <1>2, <1>3

(* The steps of these two calls concern neither hostapd nor the watchers.    *)
LEMMA CallKeeps ==
    ASSUME PresenceTypeOK, ThreadsOK, DepartureSound, NEW t \in Threads, Calls(t),
           \A u \in Threads \ {t} : th'[u] = th[u], th[t].at # "idle",
           UNCHANGED <<assoc, events, watch>>
    PROVE  NoOverlap' /\ EventsInOrder' /\ BeforeListening'
<1>1. NoOverlap'
  BY OneSync DEF DepartureSound
<1>2. EventsInOrder'
  BY DEF DepartureSound, EventsInOrder
<1>3. BeforeListening'
  BY DEF DepartureSound, BeforeListening, Threads
<1> QED
  BY <1>1, <1>2, <1>3

(* A thread that does not mark more than before, with the same snapshot.     *)
LEMMA HomeKept ==
    ASSUME HomeIsKnown, NEW t \in Threads, \A u \in Threads \ {t} : th'[u] = th[u],
           \A p \in Pairs : Marking(t, p)' => Marking(t, p),
           UNCHANGED <<assoc, events, lastSeen>>
    PROVE  HomeIsKnown'
<1>1. \A u \in Threads, p \in Pairs : Marking(u, p)' => Marking(u, p)
  BY DEF Marking
<1> QED
  BY <1>1 DEF HomeIsKnown, Leaving

LEMMA HomePutSound ==
    ASSUME PresenceTypeOK, ThreadsOK, DepartureSound, NEW t \in Threads, HomePut(t)
    PROVE  DepartureSound'
<1>1. PICK p \in th[t].home :
        /\ \A u \in Threads \ {t} : th'[u] = th[u]
        /\ p \in Pairs /\ queue' = Append(queue, <<"ADD", p[2]>>)
        /\ th'[t].at = "add" /\ th'[t].cur = p
        /\ th'[t].home = th[t].home \ {p} /\ th'[t].away = th[t].away
  BY HomePutFacts DEF Steps
<1>2. th[t].at = "home" /\ UNCHANGED <<assoc, events, watch, online, lastSeen, retained>>
  BY DEF HomePut, haVars
<1>3. \A q : Leaving(q)' = Leaving(q) /\ Reporting(q)' = Reporting(q) /\ Removing(q)' = Removing(q)
  BY <1>1, <1>2 DEF Leaving, Reporting, Removing
<1>4. \A q : Known(q)' = Known(q)
  BY <1>2, <1>3 DEF Known
<1>5. Known(<<p[1], p[2]>>)' /\ p[1] \in Interfaces
  <2>1. Marking(t, p)
    BY <1>2 DEF Marking
  <2>2. p = <<p[1], p[2]>> /\ p[1] \in Interfaces
    BY <1>1 DEF Pairs
  <2> QED
    BY <1>1, <1>4, <2>1, <2>2, MarkedIsKnown
<1>6. HomeIsKnown'
  <2>1. \A q \in Pairs : Marking(t, q)' => Marking(t, q)
    BY <1>1, <1>2 DEF Marking
  <2> QED
    BY <1>1, <1>2, <2>1, HomeKept DEF DepartureSound
<1>7. OnlineIsKnown'
  BY <1>2, <1>4 DEF DepartureSound, OnlineIsKnown
<1>8. ASSUME NEW d \in Devices, Shown(d)'
      PROVE  \E i \in Interfaces : Known(<<i, d>>)' \/ Reporting(<<i, d>>)'
  <2>1. CASE d = p[2]
    BY <1>5, <2>1
  <2>2. CASE d # p[2]
    <3>1. \A what, e : Busy(what, e)' = Busy(what, e)
      BY <1>1, NotBusy DEF Calls
    <3>2. queue \in Seq(Items)
      BY DEF PresenceTypeOK
    <3>3. <<"ADD", p[2]>> # <<"ADD", d>>
      BY <2>2
    <3>4. Shown(d)
      BY <1>1, <1>2, <1>8, <3>1, <3>2, <3>3, LastWord
    <3> QED
      BY <1>3, <1>4, <3>4 DEF DepartureSound, ShownIsKnown
  <2> QED
    BY <2>1, <2>2
<1>9. ShownIsKnown'
  BY <1>8 DEF ShownIsKnown
<1> QED
  BY <1>1, <1>2, <1>6, <1>7, <1>9, CallKeeps DEF DepartureSound, Calls

LEMMA HomeAddSound ==
    ASSUME PresenceTypeOK, ThreadsOK, DepartureSound, NEW t \in Threads, HomeAdd(t)
    PROVE  DepartureSound'
<1>1. /\ \A u \in Threads \ {t} : th'[u] = th[u]
      /\ th[t].at = "add" /\ th[t].cur \in Pairs /\ online' = online \cup {th[t].cur}
      /\ th'[t].home = th[t].home /\ th'[t].away = th[t].away /\ th'[t].at \in {"home", "idle"}
      /\ UNCHANGED <<assoc, events, watch, queue, lastSeen, retained>>
  BY HomeAddFacts DEF HomeAdd, Steps, haVars
<1>2. \A q : Leaving(q)' = Leaving(q) /\ Reporting(q)' = Reporting(q) /\ Removing(q)' = Removing(q)
  BY <1>1 DEF Leaving, Reporting, Removing
<1>3. \A q : Known(q)' = Known(q)
  BY <1>1, <1>2 DEF Known
<1>4. HomeIsKnown'
  <2>1. \A q \in Pairs : Marking(t, q)' => Marking(t, q)
    BY <1>1 DEF Marking
  <2> QED
    BY <1>1, <2>1, HomeKept DEF DepartureSound
<1>5. OnlineIsKnown'
  <2>1. Known(th[t].cur)
    <3>1. Marking(t, th[t].cur)
      BY <1>1 DEF Marking
    <3> QED
      BY <1>1, <3>1, MarkedIsKnown
  <2> QED
    BY <1>1, <1>3, <2>1 DEF DepartureSound, OnlineIsKnown
<1>6. ShownIsKnown'
  <2>1. \A d : Shown(d)' = Shown(d)
    BY <1>1, NotBusy, ShownKept DEF Calls
  <2> QED
    BY <1>2, <1>3, <2>1 DEF DepartureSound, ShownIsKnown
<1> QED
  BY <1>1, <1>4, <1>5, <1>6, CallKeeps DEF DepartureSound, Calls

LEMMA AwayRemoveSound ==
    ASSUME PresenceTypeOK, ThreadsOK, DepartureSound, NEW t \in Threads, AwayRemove(t)
    PROVE  DepartureSound'
<1>1. PICK p \in th[t].away :
        /\ \A u \in Threads \ {t} : th'[u] = th[u]
        /\ p \in Pairs /\ online' = online \ {p}
        /\ th[t].at = "home" /\ th[t].home = {} /\ th'[t].home = {}
        /\ th'[t].at = "check" /\ th'[t].cur = p /\ th'[t].away = th[t].away \ {p}
  BY AwayRemoveFacts DEF Steps
<1>2. UNCHANGED <<assoc, events, watch, queue, lastSeen, retained>>
  BY DEF AwayRemove, haVars
<1>3. /\ \A q : Leaving(q)' = Leaving(q) /\ (Reporting(q) => Reporting(q)')
      /\ \A q : q # p => (Removing(q) => Removing(q)')
      /\ Reporting(p)'
  BY <1>1, <1>2 DEF Leaving, Reporting, Removing
<1>4. \A q : q # p => (Known(q) => Known(q)')
  BY <1>2, <1>3 DEF Known
<1>5. HomeIsKnown'
  <2>1. \A q \in Pairs : Marking(t, q)' => Marking(t, q)
    BY <1>1 DEF Marking
  <2> QED
    BY <1>1, <1>2, <2>1, HomeKept DEF DepartureSound
<1>6. OnlineIsKnown'
  BY <1>1, <1>4 DEF DepartureSound, OnlineIsKnown
<1>7. ShownIsKnown'
  <2>1. \A d : Shown(d)' = Shown(d)
    BY <1>1, <1>2, NotBusy, ShownKept DEF Calls
  <2>2. \A q : Known(q) \/ Reporting(q) => Known(q)' \/ Reporting(q)'
    BY <1>3, <1>4
  <2> QED
    BY <2>1, <2>2 DEF DepartureSound, ShownIsKnown
<1> QED
  BY <1>1, <1>2, <1>5, <1>6, <1>7, CallKeeps DEF DepartureSound, Calls

(* A device that is still marked on another interface is one of which the    *)
(* detector will learn there that it has gone.                               *)
LEMMA AwayCheckSound ==
    ASSUME PresenceTypeOK, ThreadsOK, DepartureSound, NEW t \in Threads, AwayCheck(t)
    PROVE  DepartureSound'
<1>1. /\ \A u \in Threads \ {t} : th'[u] = th[u]
      /\ th[t].at = "check" /\ th[t].cur \in Pairs /\ th[t].home = {} /\ th'[t].home = {}
      /\ th'[t].away = th[t].away /\ th'[t].at \in {"home", "idle", "put"}
      /\ Elsewhere(th[t].cur) \/ (th'[t].at = "put" /\ th'[t].cur = th[t].cur)
      /\ UNCHANGED <<assoc, events, watch, queue, online, lastSeen, retained>>
  BY AwayCheckFacts DEF AwayCheck, Steps, haVars
<1>2. /\ \A q : Leaving(q)' = Leaving(q) /\ Removing(q)' = Removing(q)
      /\ \A q : q # th[t].cur \/ ~Elsewhere(th[t].cur) => (Reporting(q) => Reporting(q)')
  BY <1>1 DEF Leaving, Reporting, Removing
<1>3. \A q : Known(q)' = Known(q)
  BY <1>1, <1>2 DEF Known
<1>4. HomeIsKnown'
  <2>1. \A q \in Pairs : Marking(t, q)' => Marking(t, q)
    BY <1>1 DEF Marking
  <2> QED
    BY <1>1, <2>1, HomeKept DEF DepartureSound
<1>5. OnlineIsKnown'
  BY <1>1, <1>3 DEF DepartureSound, OnlineIsKnown
<1>6. ASSUME NEW d \in Devices, Shown(d)'
      PROVE  \E i \in Interfaces : Known(<<i, d>>)' \/ Reporting(<<i, d>>)'
  <2>1. Shown(d)
    BY <1>1, <1>6, NotBusy, ShownKept DEF Calls
  <2>2. PICK i \in Interfaces : Known(<<i, d>>) \/ Reporting(<<i, d>>)
    BY <2>1 DEF DepartureSound, ShownIsKnown
  <2>3. CASE <<i, d>> = th[t].cur /\ Elsewhere(th[t].cur)
    <3>1. PICK j \in Interfaces : <<j, d>> \in online
      BY <2>3 DEF Elsewhere
    <3>2. Known(<<j, d>>)'
      BY <1>3, <3>1 DEF DepartureSound, OnlineIsKnown
    <3> QED
      BY <3>2
  <2>4. CASE ~(<<i, d>> = th[t].cur /\ Elsewhere(th[t].cur))
    <3>1. Reporting(<<i, d>>) => Reporting(<<i, d>>)'
      BY <1>2, <2>4
    <3> QED
      BY <1>3, <2>2, <3>1
  <2> QED
    BY <2>3, <2>4
<1>7. ShownIsKnown'
  BY <1>6 DEF ShownIsKnown
<1> QED
  BY <1>1, <1>4, <1>5, <1>7, CallKeeps DEF DepartureSound, Calls

LEMMA AwayPutSound ==
    ASSUME PresenceTypeOK, ThreadsOK, DepartureSound, NEW t \in Threads, AwayPut(t)
    PROVE  DepartureSound'
<1>1. /\ \A u \in Threads \ {t} : th'[u] = th[u]
      /\ th[t].at = "put" /\ th[t].cur \in Pairs /\ th[t].home = {} /\ th'[t].home = {}
      /\ queue' = Append(queue, <<"DELETE", th[t].cur[2]>>)
      /\ th'[t].away = th[t].away /\ th'[t].at \in {"home", "idle"}
      /\ UNCHANGED <<assoc, events, watch, online, lastSeen, retained>>
  BY AwayPutFacts DEF AwayPut, Steps, haVars
<1>2. /\ \A q : Leaving(q)' = Leaving(q) /\ Removing(q)' = Removing(q)
      /\ \A q : q # th[t].cur => (Reporting(q) => Reporting(q)')
  BY <1>1 DEF Leaving, Reporting, Removing
<1>3. \A q : Known(q)' = Known(q)
  BY <1>1, <1>2 DEF Known
<1>4. HomeIsKnown'
  <2>1. \A q \in Pairs : Marking(t, q)' => Marking(t, q)
    BY <1>1 DEF Marking
  <2> QED
    BY <1>1, <2>1, HomeKept DEF DepartureSound
<1>5. OnlineIsKnown'
  BY <1>1, <1>3 DEF DepartureSound, OnlineIsKnown
<1>6. ASSUME NEW d \in Devices, Shown(d)'
      PROVE  \E i \in Interfaces : Known(<<i, d>>)' \/ Reporting(<<i, d>>)'
  <2>0. queue \in Seq(Items)
    BY DEF PresenceTypeOK
  <2>1. \A what, e : Busy(what, e)' = Busy(what, e)
    BY <1>1, NotBusy DEF Calls
  <2>2. d # th[t].cur[2] /\ Shown(d)
    <3>1. PICK x : x = <<"DELETE", th[t].cur[2]>>
      OBVIOUS
    <3>2. queue' = Append(queue, x) /\ x # <<"ADD", d>>
      BY <1>1, <3>1
    <3>3. x # <<"DELETE", d>> /\ Shown(d)
      BY <1>1, <1>6, <2>0, <2>1, <3>2, LastWord
    <3> QED
      BY <3>1, <3>3
  <2>3. PICK i \in Interfaces : Known(<<i, d>>) \/ Reporting(<<i, d>>)
    BY <2>2 DEF DepartureSound, ShownIsKnown
  <2>4. <<i, d>> # th[t].cur
    BY <2>2
  <2> QED
    BY <1>2, <1>3, <2>3, <2>4
<1>7. ShownIsKnown'
  BY <1>6 DEF ShownIsKnown
<1> QED
  BY <1>1, <1>4, <1>5, <1>7, CallKeeps DEF DepartureSound, Calls

-----------------------------------------------------------------------------
(* Departures: the watchers                                                  *)

LEMMA TailFacts ==
    ASSUME NEW S, NEW s \in Seq(S), s # <<>>
    PROVE  /\ Len(Tail(s)) = Len(s) - 1 /\ Len(s) \in Nat \ {0} /\ Head(s) = s[1]
           /\ \A k \in 1..Len(Tail(s)) : Tail(s)[k] = s[k + 1]
  OBVIOUS

(* An event that is read: an arrival is still true or will be taken back, a  *)
(* departure goes from the pipe to the thread.                               *)
LEMMA WatchEventSound ==
    ASSUME PresenceTypeOK, ThreadsOK, DepartureSound, NEW i \in Interfaces, WatchEvent(i)
    PROVE  DepartureSound'
<1>1. /\ i \in Threads /\ \A u \in Threads \ {i} : th'[u] = th[u]
      /\ th[i].at = "idle" /\ th'[i].at = "home" /\ events[i] # <<>>
      /\ events' = [events EXCEPT ![i] = Tail(@)]
      /\ UNCHANGED <<assoc, watch, queue, online, lastSeen, retained>>
  BY WatchEventFacts DEF WatchEvent, Steps, haVars
<1>2. PICK d \in Devices :
        \/ /\ Head(events[i]) = <<"assoc", d>>
           /\ th'[i].home = {<<i, d>>} /\ th'[i].away = {}
        \/ /\ Head(events[i]) = <<"disassoc", d>>
           /\ th'[i].home = {} /\ th'[i].away = {<<i, d>>}
  BY WatchEventFacts
<1>3. /\ events'[i] = Tail(events[i]) /\ \A j \in Interfaces \ {i} : events'[j] = events[j]
      /\ Len(events'[i]) = Len(events[i]) - 1 /\ Len(events[i]) \in Nat \ {0}
      /\ Head(events[i]) = events[i][1]
      /\ \A k \in 1..Len(events'[i]) : events'[i][k] = events[i][k + 1]
  <2>1. events'[i] = Tail(events[i]) /\ \A j \in Interfaces \ {i} : events'[j] = events[j]
    BY <1>1 DEF PresenceTypeOK
  <2>2. PICK s \in Seq({"assoc", "disassoc"} \X Devices) : s = events[i]
    BY DEF PresenceTypeOK
  <2>3. /\ Len(Tail(s)) = Len(s) - 1 /\ Len(s) \in Nat \ {0} /\ Head(s) = s[1]
        /\ \A k \in 1..Len(Tail(s)) : Tail(s)[k] = s[k + 1]
    BY <1>1, <2>2, TailFacts
  <2> QED
    BY <2>1, <2>2, <2>3
<1>4. th[i].home = {} /\ th[i].away = {}
  BY <1>1 DEF ThreadsOK, ThreadOK
<1>5. \A q : (Removing(q) => Removing(q)') /\ (Reporting(q) => Reporting(q)')
  BY <1>1, <1>4 DEF Removing, Reporting
<1>6. ASSUME NEW e, NEW k \in 2..Len(events[i]), events[i][k] = <<"disassoc", e>>
      PROVE  Leaving(<<i, e>>)'
  <2>1. k - 1 \in 1..Len(events'[i]) /\ events'[i][k - 1] = <<"disassoc", e>>
    <3>1. k - 1 \in 1..Len(events'[i]) /\ (k - 1) + 1 = k
      BY <1>3, <1>6
    <3> QED
      BY <1>3, <1>6, <3>1
  <2> QED
    BY <2>1 DEF Leaving
<1>7. ASSUME NEW q \in Pairs, Leaving(q) PROVE Leaving(q)' \/ Removing(q)'
  <2>0. q = <<q[1], q[2]>> /\ q[1] \in Interfaces
    BY <1>7 DEF Pairs
  <2>1. PICK k \in 1..Len(events[q[1]]) : events[q[1]][k] = <<"disassoc", q[2]>>
    BY <1>7 DEF Leaving
  <2>2. CASE q[1] # i
    BY <1>3, <2>0, <2>1, <2>2 DEF Leaving
  <2>3. CASE q[1] = i /\ k = 1
    <3>1. d = q[2] /\ th'[i].away = {<<i, d>>}
      BY <1>2, <1>3, <2>1, <2>3
    <3> QED
      BY <1>1, <2>0, <2>3, <3>1 DEF Removing
  <2>4. CASE q[1] = i /\ k # 1
    <3>1. k \in 2..Len(events[i]) /\ events[i][k] = <<"disassoc", q[2]>>
      BY <1>3, <2>1, <2>4
    <3> QED
      BY <1>6, <2>0, <2>4, <3>1
  <2> QED
    BY <2>2, <2>3, <2>4
<1>8. \A q \in Pairs : Known(q) => Known(q)'
  BY <1>1, <1>5, <1>7 DEF Known
<1>9. NoOverlap'
  BY <1>1, PresenceAssumption DEF DepartureSound, NoOverlap, Syncing, Threads
<1>10. EventsInOrder'
  <2>1. ASSUME NEW j \in Interfaces, NEW k \in 1..Len(events'[j]), NEW e \in Devices,
               events'[j][k] = <<"assoc", e>>
        PROVE  \/ <<j, e>> \in assoc'
               \/ \E l \in (k + 1)..Len(events'[j]) : events'[j][l] = <<"disassoc", e>>
    <3>1. CASE j # i
      <4>1. events'[j] = events[j]
        BY <1>3, <3>1
      <4>2. k \in 1..Len(events[j]) /\ events[j][k] = <<"assoc", e>>
        BY <2>1, <4>1
      <4>3. \/ <<j, e>> \in assoc
            \/ \E l \in (k + 1)..Len(events[j]) : events[j][l] = <<"disassoc", e>>
        BY <4>2 DEF DepartureSound, EventsInOrder
      <4> QED
        BY <1>1, <4>1, <4>3
    <3>2. CASE j = i
      <4>0. k \in 1..Len(events'[i]) /\ events'[i][k] = <<"assoc", e>>
        BY <2>1, <3>2
      <4>1. k + 1 \in 1..Len(events[i]) /\ events[i][k + 1] = <<"assoc", e>>
        BY <1>3, <4>0
      <4>2. CASE <<i, e>> \in assoc
        BY <1>1, <3>2, <4>2
      <4>3. CASE \E l \in ((k + 1) + 1)..Len(events[i]) : events[i][l] = <<"disassoc", e>>
        <5>1. PICK l \in ((k + 1) + 1)..Len(events[i]) : events[i][l] = <<"disassoc", e>>
          BY <4>3
        <5>2. l - 1 \in (k + 1)..Len(events'[i]) /\ l - 1 \in 1..Len(events'[i]) /\ (l - 1) + 1 = l
          BY <1>3, <2>1, <3>2, <5>1
        <5>3. events'[i][l - 1] = <<"disassoc", e>>
          BY <1>3, <5>1, <5>2
        <5> QED
          BY <3>2, <5>2, <5>3
      <4> QED
        BY <4>1, <4>2, <4>3 DEF DepartureSound, EventsInOrder
    <3> QED
      BY <3>1, <3>2
  <2> QED
    BY <2>1 DEF EventsInOrder
<1>11. HomeIsKnown'
  <2>1. ASSUME NEW u \in Threads \ {i}, NEW p \in Pairs, Marking(u, p)'
        PROVE  IF u \in Interfaces THEN p \in assoc' \/ Leaving(p)' ELSE p \in lastSeen'
    <3>1. Marking(u, p)
      BY <1>1, <2>1 DEF Marking
    <3>2. CASE u \in Interfaces
      <4>1. p[1] = u
        BY <3>1, <3>2 DEF Marking, ThreadsOK, ThreadOK
      <4>2. Leaving(p)' = Leaving(p)
        BY <1>3, <3>2, <4>1 DEF Leaving
      <4> QED
        BY <1>1, <3>1, <3>2, <4>2 DEF DepartureSound, HomeIsKnown
    <3>3. CASE u \notin Interfaces
      BY <1>1, <3>1, <3>3 DEF DepartureSound, HomeIsKnown
    <3> QED
      BY <3>2, <3>3
  <2>2. ASSUME NEW p \in Pairs, Marking(i, p)' PROVE p \in assoc' \/ Leaving(p)'
    <3>1. p = <<i, d>> /\ events[i][1] = <<"assoc", d>>
      BY <1>1, <1>2, <1>3, <2>2 DEF Marking
    <3>2. 1 \in 1..Len(events[i]) /\ 1 + 1 = 2
      BY <1>3
    <3>3. p \in assoc \/ \E l \in 2..Len(events[i]) : events[i][l] = <<"disassoc", d>>
      BY <3>1, <3>2 DEF DepartureSound, EventsInOrder
    <3> QED
      BY <1>1, <1>6, <3>1, <3>3
  <2> QED
    BY <2>1, <2>2 DEF HomeIsKnown
<1>12. BeforeListening'
  BY <1>1, <1>3 DEF DepartureSound, BeforeListening, Threads
<1>13. OnlineIsKnown'
  BY <1>1, <1>8 DEF DepartureSound, OnlineIsKnown, PresenceTypeOK
<1>14. ShownIsKnown'
  <2>1. \A what, e : Busy(what, e)' = Busy(what, e)
    BY <1>1, MainFacts DEF Busy
  <2>2. \A e : Shown(e)' = Shown(e)
    BY <1>1, <2>1, ShownKept
  <2>3. \A j \in Interfaces, e \in Devices : <<j, e>> \in Pairs
    BY DEF Pairs
  <2> QED
    BY <1>5, <1>8, <2>2, <2>3 DEF DepartureSound, ShownIsKnown
<1> QED
  BY <1>9, <1>10, <1>11, <1>12, <1>13, <1>14 DEF DepartureSound

(* A watcher that starts to listen.                                          *)
LEMMA WatchersUpSound ==
    ASSUME PresenceTypeOK, ThreadsOK, DepartureSound,
           StartWatchers \/ \E i \in Interfaces : WatchStart(i)
    PROVE  DepartureSound'
<1>1. /\ UNCHANGED <<assoc, events, queue, online, lastSeen, th, retained>>
      /\ \A i \in Interfaces : watch[i] = "listening" => watch'[i] = "listening"
      /\ \A i \in Interfaces : watch'[i] # "deaf"
      /\ \A i \in Interfaces : watch'[i] # "listening" => watch[i] # "listening"
  BY DEF StartWatchers, WatchStart, PresenceTypeOK, haVars, DepartureSound, BeforeListening
<1>2. \A q : Leaving(q)' = Leaving(q) /\ Removing(q)' = Removing(q) /\ Reporting(q)' = Reporting(q)
  BY <1>1 DEF Leaving, Removing, Reporting
<1>3. \A q \in Pairs : Known(q) => Known(q)'
  BY <1>1, <1>2 DEF Known, Pairs
<1>4. NoOverlap' /\ EventsInOrder' /\ HomeIsKnown'
  BY <1>1, <1>2
  DEF DepartureSound, NoOverlap, Syncing, EventsInOrder, HomeIsKnown, Marking
<1>5. BeforeListening'
  BY <1>1 DEF DepartureSound, BeforeListening
<1>6. OnlineIsKnown'
  BY <1>1, <1>3 DEF DepartureSound, OnlineIsKnown, PresenceTypeOK
<1>7. ShownIsKnown'
  <2>1. \A what, e : Busy(what, e)' = Busy(what, e)
    BY <1>1 DEF Busy
  <2>2. \A e : Shown(e)' = Shown(e)
    BY <1>1, <2>1, ShownKept
  <2>3. \A j \in Interfaces, e \in Devices : <<j, e>> \in Pairs
    BY DEF Pairs
  <2> QED
    BY <1>2, <1>3, <2>2, <2>3 DEF DepartureSound, ShownIsKnown
<1> QED
  BY <1>4, <1>5, <1>6, <1>7 DEF DepartureSound

-----------------------------------------------------------------------------
(* Departures: hostapd, the broker and Home Assistant                        *)

LEMMA TellFacts ==
    ASSUME PresenceTypeOK, NEW i \in Interfaces, NEW what, NEW d, Tell(i, what, d)
    PROVE  /\ \A j \in Interfaces :
                /\ Len(events[j]) \in Nat /\ Len(events'[j]) \in Nat
                /\ Len(events[j]) <= Len(events'[j])
                /\ \A k \in 1..Len(events[j]) : events'[j][k] = events[j][k]
           /\ watch[i] # "listening" => events' = events
           /\ \A j \in Interfaces : j # i => events'[j] = events[j]
           /\ watch[i] = "listening" =>
                /\ Len(events'[i]) = Len(events[i]) + 1
                /\ events'[i][Len(events[i]) + 1] = <<what, d>>
<1>1. \A j \in Interfaces : events[j] \in Seq({"assoc", "disassoc"} \X Devices)
  BY DEF PresenceTypeOK
<1>2. CASE watch[i] # "listening"
  <2>1. events' = events
    BY <1>2 DEF Tell
  <2>2. \A j \in Interfaces : Len(events[j]) \in Nat
    BY <1>1
  <2> QED
    BY <1>2, <2>1, <2>2
<1>3. CASE watch[i] = "listening"
  <2>1. PICK s \in Seq({"assoc", "disassoc"} \X Devices) : s = events[i]
    BY <1>1
  <2>2. events'[i] = Append(s, <<what, d>>) /\ \A j \in Interfaces : j # i => events'[j] = events[j]
    BY <1>3, <2>1 DEF Tell, PresenceTypeOK
  <2>3. /\ Len(Append(s, <<what, d>>)) = Len(s) + 1 /\ Len(s) \in Nat
        /\ Append(s, <<what, d>>)[Len(s) + 1] = <<what, d>>
        /\ \A k \in 1..Len(s) : Append(s, <<what, d>>)[k] = s[k]
    OBVIOUS
  <2>4. /\ Len(events[i]) \in Nat /\ Len(events'[i]) \in Nat
        /\ Len(events[i]) <= Len(events'[i])
        /\ \A k \in 1..Len(events[i]) : events'[i][k] = events[i][k]
    BY <2>1, <2>2, <2>3
  <2>5. ASSUME NEW j \in Interfaces, j # i
        PROVE  /\ Len(events[j]) \in Nat /\ Len(events'[j]) \in Nat
               /\ Len(events[j]) <= Len(events'[j])
               /\ \A k \in 1..Len(events[j]) : events'[j][k] = events[j][k]
    <3>1. Len(events[j]) \in Nat
      BY <1>1
    <3> QED
      BY <2>2, <2>5, <3>1
  <2> QED
    BY <1>3, <2>1, <2>2, <2>3, <2>4, <2>5
<1> QED
  BY <1>2, <1>3

(* A departure the watcher can read is not forgotten when more is written.   *)
LEMMA TellKeepsLeaving ==
    ASSUME PresenceTypeOK, NEW i \in Interfaces, NEW what, NEW d, Tell(i, what, d),
           NEW p \in Pairs, Leaving(p)
    PROVE  Leaving(p)'
<1>1. p[1] \in Interfaces
  BY DEF Pairs
<1>2. PICK k \in 1..Len(events[p[1]]) : events[p[1]][k] = <<"disassoc", p[2]>>
  BY DEF Leaving
<1>3. k \in 1..Len(events'[p[1]]) /\ events'[p[1]][k] = <<"disassoc", p[2]>>
  BY <1>1, <1>2, TellFacts
<1> QED
  BY <1>3 DEF Leaving

(* What a station that comes or goes leaves as it is.                        *)
LEMMA StationKeeps ==
    ASSUME DepartureSound, UNCHANGED <<queue, th, retained, online, lastSeen, watch>>,
           \A p \in Pairs : Known(p) => Known(p)', online \subseteq Pairs
    PROVE  NoOverlap' /\ OnlineIsKnown' /\ ShownIsKnown'
<1>1. NoOverlap'
  BY DEF DepartureSound, NoOverlap, Syncing
<1>2. OnlineIsKnown'
  BY DEF DepartureSound, OnlineIsKnown
<1>3. ShownIsKnown'
  <2>1. \A d : Shown(d)' = Shown(d)
    BY DEF Shown, Busy
  <2>2. \A p : Reporting(p)' = Reporting(p)
    BY DEF Reporting
  <2>3. \A j \in Interfaces, e \in Devices : <<j, e>> \in Pairs
    BY DEF Pairs
  <2> QED
    BY <2>1, <2>2, <2>3 DEF DepartureSound, ShownIsKnown
<1> QED
  BY <1>1, <1>2, <1>3

LEMMA AssocSound ==
    ASSUME PresenceTypeOK, ThreadsOK, DepartureSound,
           NEW i \in Interfaces, NEW d \in Devices, Assoc(i, d)
    PROVE  DepartureSound'
<1>1. /\ assoc' = assoc \cup {<<i, d>>} /\ Tell(i, "assoc", d)
      /\ UNCHANGED <<watch, queue, online, lastSeen, th, retained>>
  BY DEF Assoc, haVars
<1>2. \A p \in Pairs : Leaving(p) => Leaving(p)'
  BY <1>1, TellKeepsLeaving
<1>3. \A p \in Pairs : Known(p) => Known(p)'
  BY <1>1, <1>2 DEF Known, Removing
<1>4. HomeIsKnown'
  BY <1>1, <1>2 DEF DepartureSound, HomeIsKnown, Marking
<1>5. BeforeListening'
  BY <1>1, TellFacts DEF DepartureSound, BeforeListening
<1>6. EventsInOrder'
  <2>1. ASSUME NEW j \in Interfaces, NEW k \in 1..Len(events'[j]), NEW e \in Devices,
               events'[j][k] = <<"assoc", e>>
        PROVE  \/ <<j, e>> \in assoc'
               \/ \E l \in (k + 1)..Len(events'[j]) : events'[j][l] = <<"disassoc", e>>
    <3>0. /\ Len(events[j]) \in Nat /\ Len(events'[j]) \in Nat
          /\ Len(events[j]) <= Len(events'[j])
          /\ \A m \in 1..Len(events[j]) : events'[j][m] = events[j][m]
      BY <1>1, TellFacts
    <3>1. CASE k \in 1..Len(events[j])
      <4>1. events[j][k] = <<"assoc", e>>
        BY <2>1, <3>0, <3>1
      <4>2. CASE <<j, e>> \in assoc
        BY <1>1, <4>2
      <4>3. ASSUME NEW l \in (k + 1)..Len(events[j]), events[j][l] = <<"disassoc", e>>
            PROVE  l \in (k + 1)..Len(events'[j]) /\ events'[j][l] = <<"disassoc", e>>
        <5>1. l \in 1..Len(events[j]) /\ l \in (k + 1)..Len(events'[j])
          BY <3>0, <3>1
        <5> QED
          BY <3>0, <4>3, <5>1
      <4> QED
        BY <3>1, <4>1, <4>2, <4>3 DEF DepartureSound, EventsInOrder
    <3>2. CASE k \notin 1..Len(events[j])
      <4>1. j = i /\ watch[i] = "listening" /\ k = Len(events[i]) + 1
        <5>1. Len(events'[j]) # Len(events[j])
          BY <3>0, <3>2
        <5>2. j = i /\ watch[i] = "listening"
          BY <1>1, <5>1, TellFacts
        <5>3. Len(events'[i]) = Len(events[i]) + 1
          BY <1>1, <5>2, TellFacts
        <5>4. k \in 1..Len(events'[j]) /\ Len(events[i]) \in Nat
          BY <3>0, <5>2
        <5> QED
          BY <3>2, <5>2, <5>3, <5>4
      <4>2. events'[i][k] = <<"assoc", d>>
        BY <1>1, <4>1, TellFacts
      <4> QED
        BY <1>1, <2>1, <4>1, <4>2
    <3> QED
      BY <3>1, <3>2
  <2> QED
    BY <2>1 DEF EventsInOrder
<1> QED
  BY <1>1, <1>3, <1>4, <1>5, <1>6, StationKeeps DEF DepartureSound, PresenceTypeOK

LEMMA DisassocSound ==
    ASSUME PresenceTypeOK, ThreadsOK, DepartureSound,
           NEW i \in Interfaces, NEW d \in Devices, Disassoc(i, d)
    PROVE  DepartureSound'
<1>1. /\ assoc' = assoc \ {<<i, d>>} /\ Tell(i, "disassoc", d)
      /\ UNCHANGED <<watch, queue, online, lastSeen, th, retained>>
  BY DEF Disassoc, haVars
<1>2. \A p \in Pairs : Leaving(p) => Leaving(p)'
  BY <1>1, TellKeepsLeaving
<1>3. watch[i] = "listening" =>
        /\ Len(events[i]) + 1 \in 1..Len(events'[i])
        /\ events'[i][Len(events[i]) + 1] = <<"disassoc", d>>
        /\ Leaving(<<i, d>>)'
  <2>1. ASSUME watch[i] = "listening"
        PROVE  /\ Len(events[i]) + 1 \in 1..Len(events'[i])
               /\ events'[i][Len(events[i]) + 1] = <<"disassoc", d>>
    BY <1>1, <2>1, TellFacts
  <2> QED
    BY <2>1 DEF Leaving
<1>4. \A p \in Pairs : Known(p) => Known(p)'
  <2>1. \A p \in Pairs : p \in assoc /\ watch[p[1]] = "listening" => p \in assoc' \/ Leaving(p)'
    BY <1>1, <1>3
  <2> QED
    BY <1>1, <1>2, <2>1 DEF Known, Removing
<1>5. HomeIsKnown'
  <2>1. ASSUME NEW t \in Threads, NEW p \in Pairs, Marking(t, p)'
        PROVE  IF t \in Interfaces THEN p \in assoc' \/ Leaving(p)' ELSE p \in lastSeen'
    <3>1. Marking(t, p)
      BY <1>1, <2>1 DEF Marking
    <3>2. CASE t \in Interfaces
      <4>1. p[1] = t /\ th[t].at # "idle"
        BY <3>1, <3>2 DEF Marking, ThreadsOK, ThreadOK
      <4>2. watch[t] = "listening"
        BY <3>2, <4>1 DEF DepartureSound, BeforeListening
      <4>3. p \in assoc \/ Leaving(p)
        BY <3>1, <3>2 DEF DepartureSound, HomeIsKnown
      <4> QED
        BY <1>1, <1>2, <1>3, <3>2, <4>1, <4>2, <4>3
    <3>3. CASE t \notin Interfaces
      BY <1>1, <3>1, <3>3 DEF DepartureSound, HomeIsKnown
    <3> QED
      BY <3>2, <3>3
  <2> QED
    BY <2>1 DEF HomeIsKnown
<1>6. BeforeListening'
  BY <1>1, TellFacts DEF DepartureSound, BeforeListening
<1>7. EventsInOrder'
  <2>1. ASSUME NEW j \in Interfaces, NEW k \in 1..Len(events'[j]), NEW e \in Devices,
               events'[j][k] = <<"assoc", e>>
        PROVE  \/ <<j, e>> \in assoc'
               \/ \E l \in (k + 1)..Len(events'[j]) : events'[j][l] = <<"disassoc", e>>
    <3>0. /\ Len(events[j]) \in Nat /\ Len(events'[j]) \in Nat
          /\ Len(events[j]) <= Len(events'[j])
          /\ \A m \in 1..Len(events[j]) : events'[j][m] = events[j][m]
      BY <1>1, TellFacts
    <3>1. k \in 1..Len(events[j]) /\ events[j][k] = <<"assoc", e>>
      <4>1. CASE j # i \/ watch[i] # "listening"
        <5>1. events'[j] = events[j]
          BY <1>1, <4>1, TellFacts
        <5> QED
          BY <2>1, <5>1
      <4>2. CASE j = i /\ watch[i] = "listening"
        <5>1. k # Len(events[i]) + 1
          BY <1>3, <2>1, <4>2
        <5>2. Len(events'[i]) = Len(events[i]) + 1
          BY <1>1, <4>2, TellFacts
        <5>3. k \in 1..Len(events'[j])
          BY <2>1
        <5>4. k \in 1..Len(events[j])
          BY <3>0, <4>2, <5>1, <5>2, <5>3
        <5> QED
          BY <2>1, <3>0, <5>4
      <4> QED
        BY <4>1, <4>2
    <3>2. ASSUME NEW l \in (k + 1)..Len(events[j]), events[j][l] = <<"disassoc", e>>
          PROVE  l \in (k + 1)..Len(events'[j]) /\ events'[j][l] = <<"disassoc", e>>
      <4>1. l \in 1..Len(events[j]) /\ l \in (k + 1)..Len(events'[j])
        BY <3>0, <3>1
      <4> QED
        BY <3>0, <3>2, <4>1
    <3>3. CASE <<j, e>> = <<i, d>>
      <4>1. watch[i] = "listening"
        <5>1. events[i] # <<>>
          BY <3>0, <3>1, <3>3
        <5> QED
          BY <5>1 DEF DepartureSound, BeforeListening
      <4>2. Len(events[i]) + 1 \in (k + 1)..Len(events'[i])
        BY <1>3, <3>0, <3>1, <3>3, <4>1
      <4> QED
        BY <1>3, <3>3, <4>1, <4>2
    <3>4. CASE <<j, e>> # <<i, d>>
      <4>1. \/ <<j, e>> \in assoc
            \/ \E l \in (k + 1)..Len(events[j]) : events[j][l] = <<"disassoc", e>>
        BY <3>1 DEF DepartureSound, EventsInOrder
      <4> QED
        BY <1>1, <3>2, <3>4, <4>1
    <3> QED
      BY <3>3, <3>4
  <2> QED
    BY <2>1 DEF EventsInOrder
<1> QED
  BY <1>1, <1>4, <1>5, <1>6, <1>7, StationKeeps DEF DepartureSound, PresenceTypeOK

(* Neither the broker's connection nor Home Assistant changes what the       *)
(* detector knows.                                                           *)
LEMMA LinkSound ==
    ASSUME PresenceTypeOK, DepartureSound,
           LinkDown \/ LinkUp \/ HaDown \/ HaUp \/ UNCHANGED vars
    PROVE  DepartureSound'
<1>1. UNCHANGED <<assoc, events, watch, queue, online, lastSeen, th, retained>>
  BY DEF LinkDown, LinkUp, HaDown, HaUp, vars
<1>2. \A p : Known(p)' = Known(p)
  BY <1>1 DEF Known, Leaving, Removing
<1>3. EventsInOrder' /\ HomeIsKnown' /\ BeforeListening'
  <2>1. EventsInOrder'
    BY <1>1 DEF DepartureSound, EventsInOrder
  <2>2. HomeIsKnown'
    BY <1>1 DEF DepartureSound, HomeIsKnown, Marking, Leaving
  <2>3. BeforeListening'
    BY <1>1 DEF DepartureSound, BeforeListening
  <2> QED
    BY <2>1, <2>2, <2>3
<1>4. online \subseteq Pairs
  BY DEF PresenceTypeOK
<1>5. NoOverlap' /\ OnlineIsKnown' /\ ShownIsKnown'
  BY <1>1, <1>2, <1>4, StationKeeps
<1> QED
  BY <1>3, <1>5 DEF DepartureSound

-----------------------------------------------------------------------------
(* Departures: the main thread and the callback thread between two calls     *)

(* A thread that neither marks nor unmarks a device.                         *)
Plain(t) == /\ th[t].home = {} /\ th[t].away = {}
            /\ th[t].at \notin {"add", "check", "put"}

LEMMA PlainStep ==
    ASSUME PresenceTypeOK, DepartureSound, NEW t \in {Main, Mqtt}, Plain(t), Plain(t)',
           \A u \in Threads \ {t} : th'[u] = th[u],
           UNCHANGED <<assoc, events, watch, online, lastSeen>>
    PROVE  /\ EventsInOrder' /\ HomeIsKnown' /\ BeforeListening' /\ OnlineIsKnown'
           /\ \A d \in Devices : (Shown(d)' => Shown(d)) =>
                (Shown(d)' => \E i \in Interfaces : Known(<<i, d>>)' \/ Reporting(<<i, d>>)')
<1>1. t \in Threads /\ t \notin Interfaces
  BY PresenceAssumption DEF Threads
<1>2. \A q : Leaving(q)' = Leaving(q) /\ Removing(q)' = Removing(q) /\ Reporting(q)' = Reporting(q)
  BY <1>1 DEF Plain, Leaving, Removing, Reporting
<1>3. \A q : Known(q)' = Known(q)
  BY <1>2 DEF Known
<1>4. EventsInOrder'
  BY DEF DepartureSound, EventsInOrder
<1>5. HomeIsKnown'
  <2>1. \A u \in Threads, p \in Pairs : Marking(u, p)' => Marking(u, p)
    BY <1>1 DEF Plain, Marking
  <2> QED
    BY <1>2, <2>1 DEF DepartureSound, HomeIsKnown
<1>6. BeforeListening'
  BY <1>1 DEF DepartureSound, BeforeListening, Threads
<1>7. OnlineIsKnown'
  BY <1>3 DEF DepartureSound, OnlineIsKnown
<1> QED
  BY <1>2, <1>3, <1>4, <1>5, <1>6, <1>7 DEF DepartureSound, ShownIsKnown

(* A full sync that no other one runs beside.                                *)
LEMMA StartAlone ==
    ASSUME PresenceTypeOK, NEW t \in {Main, Mqtt}, SyncStart(t), ~Overlaps(t)
    PROVE  Plain(t)' /\ NoOverlap' /\ \A u \in Threads \ {t} : th'[u] = th[u]
<1>1. t \in Threads
  BY DEF Threads
<1>2. th'[t] = FullSync /\ \A u \in Threads \ {t} : th'[u] = th[u]
  BY <1>1, IdleFacts, GoFacts DEF SyncStart
<1>3. Plain(t)'
  BY <1>2, IdleFacts DEF Plain
<1>4. \A u \in Threads \ {t} : ~Syncing(u)
  BY DEF Overlaps
<1>5. NoOverlap'
  BY <1>1, <1>2, <1>4, PresenceAssumption DEF NoOverlap, Syncing, Threads
<1> QED
  BY <1>2, <1>3, <1>4, <1>5

LEMMA IdleIsPlain ==
    ASSUME ThreadsOK, NEW t \in Threads, th[t].at \in {"idle", "config", "register", "state"}
    PROVE  Plain(t)
  BY DEF ThreadsOK, ThreadOK, Plain

LEMMA SyncStartSound ==
    ASSUME PresenceTypeOK, ThreadsOK, DepartureSound, ~lapse', Fallback \/ OnHaStatus
    PROVE  DepartureSound'
<1>1. PICK t \in {Main, Mqtt} : SyncStart(t) /\ ~Overlaps(t) /\ th[t].at = "idle"
  BY DEF Fallback, OnHaStatus, Loop
<1>2. UNCHANGED <<assoc, events, watch, queue, online, lastSeen, retained>>
  BY DEF Fallback, OnHaStatus, haVars
<1>3. t \in Threads /\ Plain(t)
  BY <1>1, IdleIsPlain DEF Threads
<1>4. Plain(t)' /\ NoOverlap' /\ \A u \in Threads \ {t} : th'[u] = th[u]
  BY <1>1, StartAlone
<1>5. th'[t] = FullSync
  BY <1>1, <1>3, IdleFacts, GoFacts DEF SyncStart
<1>6. \A what, d : Busy(what, d)' = Busy(what, d)
  BY <1>1, <1>4, <1>5, IdleFacts, MainFacts DEF Busy
<1>7. \A d : Shown(d)' = Shown(d)
  BY <1>2, <1>6, ShownKept
<1>8. /\ EventsInOrder' /\ HomeIsKnown' /\ BeforeListening' /\ OnlineIsKnown'
      /\ \A d \in Devices : (Shown(d)' => Shown(d)) =>
            (Shown(d)' => \E i \in Interfaces : Known(<<i, d>>)' \/ Reporting(<<i, d>>)')
  BY <1>2, <1>3, <1>4, PlainStep
<1>9. ShownIsKnown'
  BY <1>7, <1>8 DEF ShownIsKnown
<1> QED
  BY <1>4, <1>8, <1>9 DEF DepartureSound

(* What the main thread does with an item: it is between syncs.              *)
LEMMA ItemKeeps ==
    ASSUME PresenceTypeOK, ThreadsOK, DepartureSound,
           th[Main].at \in {"idle", "config", "register", "state"},
           Plain(Main)', NoOverlap', \A u \in Threads \ {Main} : th'[u] = th[u],
           UNCHANGED <<assoc, events, watch, online, lastSeen>>,
           \A d \in Devices : Shown(d)' => Shown(d)
    PROVE  DepartureSound'
<1>1. Plain(Main)
  BY IdleIsPlain, MainFacts
<1>2. /\ EventsInOrder' /\ HomeIsKnown' /\ BeforeListening' /\ OnlineIsKnown'
      /\ \A d \in Devices : (Shown(d)' => Shown(d)) =>
            (Shown(d)' => \E i \in Interfaces : Known(<<i, d>>)' \/ Reporting(<<i, d>>)')
  BY <1>1, PlainStep
<1>3. ShownIsKnown'
  BY <1>2 DEF ShownIsKnown
<1> QED
  BY <1>2, <1>3 DEF DepartureSound

(* The item that is taken is as good as in the queue.                        *)
LEMMA TakeSound ==
    ASSUME PresenceTypeOK, ThreadsOK, DepartureSound, Take
    PROVE  DepartureSound'
<1>1. /\ th[Main].at = "idle" /\ queue # <<>> /\ queue' = Tail(queue)
      /\ UNCHANGED <<assoc, events, watch, online, lastSeen, retained>>
  BY DEF Take, Loop, haVars
<1>2. PICK q \in Seq(Items) : q = queue
  BY DEF PresenceTypeOK
<1>3. /\ Len(queue') = Len(queue) - 1 /\ Len(queue) \in Nat \ {0} /\ Head(queue) = queue[1]
      /\ \A k \in 1..Len(queue') : queue'[k] = queue[k + 1]
  <2>1. /\ Len(Tail(q)) = Len(q) - 1 /\ Len(q) \in Nat \ {0} /\ Head(q) = q[1]
        /\ \A k \in 1..Len(Tail(q)) : Tail(q)[k] = q[k + 1]
    BY <1>1, <1>2, TailFacts
  <2> QED
    BY <1>1, <1>2, <2>1
<1>4. /\ th'[Main].at = "config" /\ th'[Main].cur = queue[1]
      /\ th'[Main].home = {} /\ th'[Main].away = {}
      /\ \A u \in Threads \ {Main} : th'[u] = th[u]
  <2> DEFINE new == [Idle EXCEPT !.at = "config", !.cur = Head(queue)]
  <2>1. Head(queue) \in Items
    BY <1>1 DEF PresenceTypeOK
  <2>2. new \in ThreadState /\ new.at = "config" /\ new.home = {} /\ new.away = {}
        /\ new.cur = Head(queue)
    BY <2>1 DEF Idle, ThreadState
  <2>3. th'[Main] = new /\ \A u \in Threads \ {Main} : th'[u] = th[u]
    BY <2>2, GoFacts, MainFacts DEF Take
  <2> QED
    BY <1>3, <2>2, <2>3
<1>5. Plain(Main)' /\ NoOverlap'
  BY <1>4 DEF Plain, NoOverlap, Syncing
<1>6. ASSUME NEW d \in Devices, Shown(d)' PROVE Shown(d)
  <2>1. \A k \in 1..Len(queue) : k # 1 => k - 1 \in 1..Len(queue') /\ queue'[k - 1] = queue[k]
    <3>1. ASSUME NEW k \in 1..Len(queue), k # 1
          PROVE  k - 1 \in 1..Len(queue') /\ queue'[k - 1] = queue[k]
      <4>1. k - 1 \in 1..Len(queue') /\ (k - 1) + 1 = k
        BY <1>3, <3>1
      <4> QED
        BY <1>3, <4>1
    <3> QED
      BY <3>1
  <2>2. CASE \E k \in 1..Len(queue') : queue'[k] = <<"ADD", d>>
               /\ \A l \in (k + 1)..Len(queue') : queue'[l] # <<"DELETE", d>>
    <3>1. PICK k \in 1..Len(queue') : queue'[k] = <<"ADD", d>>
            /\ \A l \in (k + 1)..Len(queue') : queue'[l] # <<"DELETE", d>>
      BY <2>2
    <3>2. k + 1 \in 1..Len(queue) /\ queue[k + 1] = <<"ADD", d>>
      BY <1>3, <3>1
    <3>3. ASSUME NEW l \in ((k + 1) + 1)..Len(queue) PROVE queue[l] # <<"DELETE", d>>
      <4>1. l \in 1..Len(queue) /\ l # 1 /\ l - 1 \in (k + 1)..Len(queue')
        BY <1>3, <3>1
      <4> QED
        BY <2>1, <3>1, <4>1
    <3> QED
      BY <3>2, <3>3 DEF Shown
  <2>3. CASE /\ \A k \in 1..Len(queue') : queue'[k] # <<"DELETE", d>>
             /\ Busy("ADD", d)' \/ (retained'[d] = "home" /\ ~Busy("DELETE", d)')
    <3>1. \A k \in 1..Len(queue) : k # 1 => queue[k] # <<"DELETE", d>>
      BY <2>1, <2>3
    <3>2. CASE Busy("ADD", d)'
      <4>1. queue[1] = <<"ADD", d>> /\ 1 \in 1..Len(queue)
        BY <1>3, <1>4, <3>2 DEF Busy
      <4>2. \A l \in (1 + 1)..Len(queue) : l \in 1..Len(queue) /\ l # 1
        BY <1>3
      <4> QED
        BY <3>1, <4>1, <4>2 DEF Shown
    <3>3. CASE retained'[d] = "home" /\ ~Busy("DELETE", d)'
      <4>1. queue[1] # <<"DELETE", d>>
        BY <1>4, <3>3 DEF Busy
      <4>2. ~Busy("DELETE", d) /\ retained[d] = "home"
        BY <1>1, <3>3 DEF Busy
      <4> QED
        BY <3>1, <4>1, <4>2 DEF Shown
    <3> QED
      BY <2>3, <3>2, <3>3
  <2> QED
    BY <1>6, <2>2, <2>3 DEF Shown
<1> QED
  BY <1>1, <1>4, <1>5, <1>6, ItemKeeps

LEMMA DiscoverySound ==
    ASSUME PresenceTypeOK, ThreadsOK, DepartureSound, Config \/ Register
    PROVE  DepartureSound'
<1>1. /\ th[Main].at \in {"config", "register"}
      /\ UNCHANGED <<assoc, events, watch, queue, online, lastSeen, retained>>
  BY DEF Config, Register, haVars
<1>2. /\ th'[Main].at \in {"register", "state"} /\ th'[Main].cur = th[Main].cur
      /\ th'[Main].home = th[Main].home /\ th'[Main].away = th[Main].away
      /\ \A u \in Threads \ {Main} : th'[u] = th[u]
  <2>0. th[Main] \in ThreadState
    BY MainFacts DEF PresenceTypeOK
  <2>1. PICK at \in {"register", "state"}, ok \in BOOLEAN :
          \/ Go(Main, [th[Main] EXCEPT !.at = at, !.ok = ok])
          \/ Go(Main, [th[Main] EXCEPT !.at = at])
    BY DEF Config, Register
  <2> DEFINE one == [th[Main] EXCEPT !.at = at, !.ok = ok]
             two == [th[Main] EXCEPT !.at = at]
  <2>2. /\ one \in ThreadState /\ one.at = at /\ one.cur = th[Main].cur
        /\ one.home = th[Main].home /\ one.away = th[Main].away
        /\ two \in ThreadState /\ two.at = at /\ two.cur = th[Main].cur
        /\ two.home = th[Main].home /\ two.away = th[Main].away
    BY <2>0 DEF ThreadState
  <2>3. th'[Main] \in {one, two} /\ \A u \in Threads \ {Main} : th'[u] = th[u]
    BY <2>1, <2>2, GoFacts, MainFacts
  <2> QED
    BY <2>2, <2>3
<1>3. Plain(Main)
  BY <1>1, IdleIsPlain, MainFacts
<1>4. Plain(Main)' /\ NoOverlap'
  BY <1>2, <1>3 DEF Plain, NoOverlap, Syncing
<1>5. \A what, d : Busy(what, d)' = Busy(what, d)
  BY <1>1, <1>2 DEF Busy
<1>6. \A d : Shown(d)' = Shown(d)
  BY <1>1, <1>5, ShownKept
<1> QED
  BY <1>1, <1>2, <1>4, <1>6, ItemKeeps

(* An item that is published says what the broker retains from now on.       *)
LEMMA StateSound ==
    ASSUME PresenceTypeOK, ThreadsOK, DepartureSound, ~lapse', State
    PROVE  DepartureSound'
<1>1. /\ th[Main].at = "state" /\ th[Main].cur \in Items
      /\ UNCHANGED <<assoc, events, watch, online, lastSeen>>
  BY MainFacts DEF State, ThreadsOK, ThreadOK
<1>2. /\ UNCHANGED queue
      /\ (SyncStart(Main) /\ ~Overlaps(Main)) \/ Go(Main, Idle)
      /\ \/ retained' = [retained EXCEPT ![th[Main].cur[2]] =
                            IF th[Main].cur[1] = "ADD" THEN "home" ELSE "away"]
         \/ retained' = retained /\ th[Main].cur[1] = "ADD"
  <2>1. PICK done \in BOOLEAN, sent \in BOOLEAN :
          /\ retained' = IF sent
                           THEN [retained EXCEPT ![th[Main].cur[2]] =
                                   IF th[Main].cur[1] = "ADD" THEN "home" ELSE "away"]
                           ELSE retained
          /\ \/ /\ done /\ UNCHANGED queue /\ SyncStart(Main)
                /\ lapse' = (lapse \/ Missed(th[Main].cur, done, sent) \/ Overlaps(Main))
             \/ /\ done /\ UNCHANGED queue /\ Go(Main, Idle)
                /\ lapse' = (lapse \/ Missed(th[Main].cur, done, sent))
             \/ lapse' = TRUE
    BY DEF State
  <2>2. sent \/ th[Main].cur[1] = "ADD"
    BY <1>1, <2>1 DEF Missed, Items
  <2> QED
    BY <2>1, <2>2
<1>3. Plain(Main)' /\ NoOverlap' /\ th'[Main].at \notin {"config", "register", "state"}
      /\ \A u \in Threads \ {Main} : th'[u] = th[u]
  <2>1. CASE SyncStart(Main) /\ ~Overlaps(Main)
    <3>1. th'[Main] = FullSync
      BY <2>1, MainFacts, IdleFacts, GoFacts DEF SyncStart
    <3> QED
      BY <2>1, <3>1, IdleFacts, StartAlone
  <2>2. CASE Go(Main, Idle)
    <3>1. th'[Main] = Idle /\ \A u \in Threads \ {Main} : th'[u] = th[u]
      BY <2>2, MainFacts, IdleFacts, GoFacts
    <3> QED
      BY <3>1, IdleFacts DEF Plain, NoOverlap, Syncing
  <2> QED
    BY <1>2, <2>1, <2>2
<1>4. ASSUME NEW d \in Devices, Shown(d)' PROVE Shown(d)
  <2>1. ~Busy("ADD", d)'
    BY <1>3 DEF Busy
  <2>2. CASE \E k \in 1..Len(queue) : queue[k] = <<"ADD", d>>
               /\ \A l \in (k + 1)..Len(queue) : queue[l] # <<"DELETE", d>>
    BY <2>2 DEF Shown
  <2>3. CASE (\A k \in 1..Len(queue) : queue[k] # <<"DELETE", d>>) /\ retained'[d] = "home"
    <3>1. PICK e \in Devices : th[Main].cur[2] = e
      BY <1>1 DEF Items
    <3>2. CASE d = e /\ th[Main].cur[1] = "ADD"
      <4>1. th[Main].cur = <<"ADD", d>>
        BY <1>1, <3>1, <3>2 DEF Items
      <4> QED
        BY <1>1, <2>3, <4>1 DEF Shown, Busy
    <3>3. CASE d = e /\ th[Main].cur[1] # "ADD"
      <4>1. retained'[e] = "away"
        BY <1>2, <3>1, <3>3 DEF PresenceTypeOK
      <4> QED
        BY <2>3, <3>3, <4>1
    <3>4. CASE d # e
      <4>1. retained[d] = "home" /\ ~Busy("DELETE", d)
        BY <1>2, <2>3, <3>1, <3>4 DEF Busy, PresenceTypeOK
      <4> QED
        BY <2>3, <4>1 DEF Shown
    <3> QED
      BY <3>2, <3>3, <3>4
  <2>4. queue' = queue
    BY <1>2
  <2> QED
    BY <1>4, <2>1, <2>2, <2>3, <2>4 DEF Shown
<1> QED
  BY <1>1, <1>3, <1>4, ItemKeeps

-----------------------------------------------------------------------------
(* The theorems                                                              *)

LEMMA PresenceInvInit ==
    ASSUME PresenceInit
    PROVE  PresenceInv
<1>1. /\ th = [t \in Threads |-> IF t = Main THEN FullSync ELSE Idle]
      /\ events = [i \in Interfaces |-> <<>>] /\ watch = [i \in Interfaces |-> "off"]
      /\ queue = <<>> /\ online = {} /\ retained = [d \in Devices |-> "none"]
  BY DEF PresenceInit, Booting
<1>2. \A t \in Threads : /\ th[t].home = {} /\ th[t].away = {}
                         /\ th[t].at = IF t = Main THEN "read" ELSE "idle"
  BY <1>1, IdleFacts
<1>3. PresenceTypeOK
  <2>1. th \in [Threads -> ThreadState]
    BY <1>1, IdleFacts
  <2>2. /\ events \in [Interfaces -> Seq({"assoc", "disassoc"} \X Devices)]
        /\ queue \in Seq(Items)
    BY <1>1
  <2>3. happened \in 0..MaxEvents
    BY PresenceAssumption DEF PresenceInit
  <2>4. linked \in BOOLEAN /\ subscribed \in BOOLEAN
    BY ConnectionFacts DEF PresenceInit
  <2> QED
    BY <1>1, <2>1, <2>2, <2>3, <2>4 DEF PresenceInit, PresenceTypeOK
<1>4. ThreadsOK
  BY <1>2, MainFacts DEF ThreadsOK, ThreadOK
<1>5. DepartureSound
  <2>1. NoOverlap
    BY <1>2, PresenceAssumption DEF NoOverlap, Syncing, Threads
  <2>2. EventsInOrder
    BY <1>1 DEF EventsInOrder
  <2>3. HomeIsKnown
    BY <1>2 DEF HomeIsKnown, Marking
  <2>4. BeforeListening
    BY <1>1, <1>2, PresenceAssumption DEF BeforeListening, Threads
  <2>5. OnlineIsKnown
    BY <1>1 DEF OnlineIsKnown
  <2>6. \A d \in Devices : ~Shown(d)
    <3>1. \A d : ~Busy("ADD", d)
      BY <1>2, MainFacts DEF Busy
    <3>2. \A k \in 1..Len(queue) : FALSE
      BY <1>1
    <3> QED
      BY <1>1, <3>1, <3>2 DEF Shown
  <2> QED
    BY <2>1, <2>2, <2>3, <2>4, <2>5, <2>6 DEF DepartureSound, ShownIsKnown
<1> QED
  BY <1>3, <1>4, <1>5 DEF PresenceInv

(* A lapse is never forgotten.                                               *)
LEMMA LapseStays ==
    ASSUME [PresenceNext]_vars, lapse
    PROVE  lapse'
<1>1. ASSUME NEW t, Calls(t) PROVE lapse'
  BY <1>1 DEF Calls, SyncRead, SyncStore, HomePut, HomeAdd, AwayRemove, AwayCheck, AwayPut
<1>2. CASE MainStep
  BY <1>1, <1>2 DEF MainStep, StartWatchers, Take, Fallback, Config, Register, State
<1>3. CASE MqttStep
  BY <1>1, <1>3 DEF MqttStep, OnHaStatus
<1>4. ASSUME NEW i \in Interfaces, WatcherStep(i) \/ WatchDeaf(i) PROVE lapse'
  BY <1>1, <1>4 DEF WatcherStep, WatchStart, WatchEvent, WatchDeaf
<1>5. ASSUME NEW i \in Interfaces, NEW d \in Devices, Assoc(i, d) \/ Disassoc(i, d)
      PROVE  lapse'
  BY <1>5 DEF Assoc, Disassoc
<1>6. CASE LinkDown \/ LinkUp \/ HaDown \/ HaUp \/ Restart \/ UNCHANGED vars
  BY <1>6 DEF LinkDown, LinkUp, HaDown, HaUp, Restart, vars
<1>7. ASSUME NEW t \in Threads, ThreadDies(t) PROVE lapse'
  BY <1>7 DEF ThreadDies
<1> QED
  BY <1>2, <1>3, <1>4, <1>5, <1>6, <1>7 DEF PresenceNext

LEMMA PresenceInvStep ==
    ASSUME PresenceInv, [PresenceNext]_vars
    PROVE  PresenceInv'
<1>1. PresenceTypeOK /\ ThreadsOK
  BY DEF PresenceInv
<1>2. ASSUME ~lapse' PROVE DepartureSound'
  <2>1. DepartureSound
    BY <1>2, LapseStays DEF PresenceInv
  <2>2. ASSUME NEW t \in Threads, Calls(t) PROVE DepartureSound'
    BY <1>1, <2>1, <2>2, SyncReadSound, SyncStoreSound, HomePutSound, HomeAddSound,
       AwayRemoveSound, AwayCheckSound, AwayPutSound DEF Calls
  <2>3. CASE MainStep
    BY <1>1, <1>2, <2>1, <2>2, <2>3, MainFacts, WatchersUpSound, TakeSound,
       SyncStartSound, DiscoverySound, StateSound DEF MainStep
  <2>4. CASE MqttStep
    BY <1>1, <1>2, <2>1, <2>2, <2>4, SyncStartSound DEF MqttStep, Threads
  <2>5. ASSUME NEW i \in Interfaces, WatcherStep(i) PROVE DepartureSound'
    BY <1>1, <2>1, <2>2, <2>5, WatchersUpSound, WatchEventSound DEF WatcherStep, Threads
  <2>6. ASSUME NEW i \in Interfaces, NEW d \in Devices, Assoc(i, d) \/ Disassoc(i, d)
        PROVE  DepartureSound'
    BY <1>1, <2>1, <2>6, AssocSound, DisassocSound
  <2>7. CASE LinkDown \/ LinkUp \/ HaDown \/ HaUp \/ UNCHANGED vars
    BY <1>1, <2>1, <2>7, LinkSound
  <2>8. /\ ~Restart /\ \A i \in Interfaces : ~WatchDeaf(i)
        /\ \A t \in Threads : ~ThreadDies(t)
    BY <1>2 DEF Restart, WatchDeaf, ThreadDies
  <2> QED
    BY <2>3, <2>4, <2>5, <2>6, <2>7, <2>8 DEF PresenceNext
<1> QED
  BY <1>1, <1>2, TypeStep DEF PresenceInv

(* When everything is worked off, what is left of the ways to learn that a   *)
(* device has gone is the snapshot the next full sync compares with.         *)
LEMMA QuietHomeFollows ==
    ASSUME PresenceInv
    PROVE  QuietHome
<1> SUFFICES ASSUME Quiet, ~lapse, NEW d \in Devices, retained[d] = "home", ~Connected(d)
             PROVE  \E i \in Interfaces : <<i, d>> \in lastSeen
  BY DEF QuietHome
<1>1. PresenceTypeOK /\ ThreadsOK /\ DepartureSound
  BY DEF PresenceInv
<1>2. \A t \in Threads : th[t].at = "idle" /\ th[t].home = {} /\ th[t].away = {}
  BY <1>1 DEF Quiet, ThreadsOK, ThreadOK
<1>3. Shown(d)
  <2>1. ~Busy("DELETE", d)
    BY <1>2, MainFacts DEF Busy
  <2>2. \A k \in 1..Len(queue) : FALSE
    BY DEF Quiet
  <2> QED
    BY <2>1, <2>2 DEF Shown
<1>4. PICK i \in Interfaces : Known(<<i, d>>) \/ Reporting(<<i, d>>)
  BY <1>1, <1>3 DEF DepartureSound, ShownIsKnown
<1>5. ~Leaving(<<i, d>>) /\ ~Removing(<<i, d>>) /\ ~Reporting(<<i, d>>)
  <2>1. ~Leaving(<<i, d>>)
    <3>1. \A k \in 1..Len(events[i]) : FALSE
      BY DEF Quiet
    <3> QED
      BY <3>1 DEF Leaving
  <2> QED
    BY <1>2, <2>1 DEF Removing, Reporting
<1>6. <<i, d>> \notin assoc
  BY DEF Connected
<1> QED
  BY <1>4, <1>5, <1>6 DEF Known

(* The inductive invariant holds in every state.                             *)
THEOREM PresenceInvariant == PresenceSpec => []PresenceInv
<1>1. PresenceInit => PresenceInv
  BY PresenceInvInit
<1>2. PresenceInv /\ [PresenceNext]_vars => PresenceInv'
  BY PresenceInvStep
<1> QED
  BY <1>1, <1>2, PTL DEF PresenceSpec

(* Every variable of the detector holds a value of its kind.                 *)
THEOREM PresenceTypeCorrect == PresenceSpec => []PresenceTypeOK
<1>1. PresenceInv => PresenceTypeOK
  BY DEF PresenceInv
<1> QED
  BY <1>1, PresenceInvariant, PTL

(* Once the queue, the threads and the pipes of the watchers are empty, a    *)
(* device that is shown at home and is gone is still in the snapshot the     *)
(* next full sync compares with, unless one of the named lapses happened.    *)
THEOREM QuietHomeInvariant == PresenceSpec => []QuietHome
<1>1. PresenceInv => QuietHome
  BY QuietHomeFollows
<1> QED
  BY <1>1, PresenceInvariant, PTL
=============================================================================
