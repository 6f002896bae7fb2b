# Verification of gwifi-openwrt

TLA+ models of the programs that run the gwifi fleet, checked with TLC and proved
with TLAPS. Paths below are relative to the repository root (`src/` in
`PROJECT.json`). "wisp" is the host that installs and manages the access points,
a "puck" is a Google WiFi access point.

## 1. Inventory

| Component | State it keeps | Operations | What is hard | What makes it correct |
|---|---|---|---|---|
| **Netboot control plane** `tools/gwifi-netboot/gwifi_netboot/{state,httpd,cli,dnsmasqctl,render,identity}.py` | `state.json` (armed MACs, history); a copy of it in the serve process and in every CLI run; the dnsmasq fragment; what dnsmasq has loaded | phone-home (`POST`), `arm`, `disarm`, `render`, `serve`, `status` | no lock: handler threads share one dictionary, the CLI has another; save, render, install, restart are separate steps that can fail or be cut | no owed install is lost; a confirmed disarm stays; only armed pucks are offered the installer, which erases the eMMC; a 200 means dnsmasq is up to date |
| **Installer and publishing** `gale-installer/files/usr/sbin/gale-autoinstall`, `gwifi_netboot/publish.py` | eMMC (image, marker), overlay, manifest; nothing survives in the installer itself | fetch manifest, compare, fetch image, `dd`, verify, wipe overlay, report, reboot; publish | power cuts in the middle of `dd`; lost or late answers; a manifest that changes under way | a reported success is true; a half-written puck gets the installer again; every armed puck is installed in the end; the new image starts on a clean overlay |
| **Backhaul gate** `fleet-files/usr/sbin/gwifi-backhaul-gate`, hotplug hook, crontab line | `$STATE` (verdict, miss count); batman-adv role; BSSes enabled in hostapd | one evaluation: probe, decide, set role, enable or disable BSSes, write `$STATE` | cron and hotplug runs overlap; gateway lists are late; reloads change BSSes behind it | off only after K misses in a row, but then surely; islands fall silent, nodes with an exit serve |
| **Presence detector** `openwisp/presence/presence-detector.py` | clients online per interface, last full snapshot, registered devices, queue of publishes | watcher events, full sync, publish, re-queue | four kinds of threads on shared sets; failed publishes reorder the queue, timed-out ones pass for done; a thread may die and the process live on | what Home Assistant shows becomes what hostapd says, as long as the process and its threads live; a departure is never forgotten unless one of six known events hides it |
| **SPI flash tool** `tools/flash_puck_usb.py` | the flash chip; a bridge session with an unknown budget | erase, program, read back; pieces that halve on failure; regions in RO-last order | a session dies silently; the AP wakes on the bus; an abort between regions | what is reported flashed is on the chip; the root key is touched last |
| **EC board code** `gale-ec/board/gale/{board.c,usb_pd_policy.c}` | power rails, `ap_is_on`, SPI bridge | `gale power on/off`, charger negotiation, bridge enable/disable | deferred calls without order; two owners of the flash bus | rails follow the last request; AP and bridge share the bus only when a charger asks for it |
| **Network profiles** `tools/fleet/puck_profile.py` | uci configuration and snapshot on a puck | status, simple, finalize, mesh | interrupted ssh between two commands | mesh can always be restored |
| **Fleet flashing** `tools/fleet/{flash_one_puck,flash_gale_fleet,collect_puck_live}.py`, `galeflash/` | off-site archive, inventory record, image, puck | backup, identity gate, refuse gate, build, unprotect, guard, flash, record, boot check, collect | the wrong puck attached; a step that fails half-way; a second run over an old record | no write before the serial agrees and, in `flash_one_puck.py`, the backup is archived; no record claims more than is on the puck, unless it was flashed past the records since |
| **Inventory sheet** `tools/fleet/sync_sheet.py`, `galeflash/sheetmap.py` | a shared sheet | read, compute updates, write | read and write are apart; two syncs at once | a row is of the puck it names and claims no more than is true |
| Fleet maintenance, rig power cycle, fabric scripts | none of their own | one remote command after the other | a script that dies between off and on | idempotent repetition |
| wisp deployment, netconsole receiver | files | copy, append | – | – |
| OpenWISP provisioning, device images, installer image, OpenWrt patches, renode test bench | built artefacts, controller records | build, upsert | – | – |

How they interact. `gwifi-netboot arm` changes `state.json` and the dnsmasq fragment;
dnsmasq offers the bootfile to a puck's MAC; the puck runs the installer from RAM,
asks the serve process for the manifest and the image, and reports; the serve process
records the report, disarms and regenerates the fragment; the operator sees the result
with `status`. The installed image carries the backhaul gate, which talks to batman-adv
and hostapd on its node and, through gateway announcements, to the gates of all other
nodes. OpenWISP pushes wireless configuration, which restarts BSSes behind the gate. The
flash tool prepares a puck for netboot once, over a bridge that the EC's firmware provides;
`flash_one_puck.py` runs it four times per puck (read, unprotect, flash through
`flash_gale_fleet.py`, boot check) and keeps the records that `sync_sheet.py` carries to the
sheet. The presence detector of an access point hears hostapd over ubus and Home Assistant
over the broker.

Every hazard found in this survey is listed in `PROJECT.json` with its line and the
properties aimed at it.

## 2. Plan

Done:

1. `NetbootControl` – the control plane, with `Arming` as its abstract specification.
2. `NetbootInstall` – the pucks and the installer composed with it.
3. `BackhaulGate` – the gate on every node of a fleet.
4. `Presence` – the detector's threads, the queue, the broker and Home Assistant.
5. `GaleEc` and `SpiFlash` – the flash tool against the EC, with `FlashTool` as the
   abstract specification that `SpiFlash` implements.
6. `FlashPipeline` – the fleet scripts, their records and the sheet, on top of `FlashTool`.
7. `NetbootControl_proof`, `NetbootInstall_proof`, `BackhaulGate_proof`, `SpiFlash_proof`,
   `FlashPipeline_proof`, `Presence_proof` – the theorems.

Next, in this order:

8. `PuckProfile` – the four scripts of `tools/fleet/puck_profile.py`, two of them at once on a
   puck whose ssh timed out, and an interruption at any command. Two hazards wait for it:
   a snapshot cut between its exports is taken for complete, and `mesh` deletes the live
   configuration before it imports. Property: mesh can be restored unless the snapshot was cut.
9. Rows of the sheet that people move while a sync computes.
10. `rig_power_cycle.py` with a switch that answers late.

## 3. Modules and the code

### NetbootControl, Arming

| State | Code |
|---|---|
| `disk` | `state.json`, as the armed flag of each MAC |
| `mem[Main]`, `mem[c]` | `StateStore._data` of the serve process, of a CLI run |
| `saved[w]` | the temporary file of `_save` between `json.dump` and `os.replace` |
| `content[w]`, `fragment` | the rendered text, the installed fragment: the set of pucks tagged `install` |
| `offered` | what the running dnsmasq loaded; empty while it is down |
| `pc[w]`, `job[w]` | where a handler thread, the main thread or a CLI run is, and its request |
| `daemon` | the serve process: down, starting (its own regenerate), serving |
| `owed`, `cleared`, `ever` | history: what is owed an install, what was confirmed disarmed, what was ever armed |

A phone-home is `Receive, Mutate (or Reject), Dump, Replace, RenderFragment,
InstallFragment, Restart, Answer`; a command is the same after `StartCli`. Each arrow is a
point where another worker runs, and each has its failing form (`SaveFails`,
`TestFails`, `RestartFails`, `Crash`, `KillCli`, `Reboot`). `Arming` is the promise: an
armed set, a configuration that only ever moves to what that set calls for, and a DHCP
server that only loads the configuration or is out.

`Spec` is the code. The other specifications restrict it to ways of operating it under which
more is true; the code enforces none of them, and section 6 says which one is enough for what.
`StoppedSpec`: the operator stops the serve process for each command and gives one at a time
(`CliAlone`). `SequentialSpec`: no two workers at once, as a lock around each request and each
command would have it (`OneAtATime`). `SerialSpec`: both. `CleanSpec`, `CleanSerialSpec`: nothing
fails. `LockedSpec` of the gate and `UncutSpec` of the installer are of the same kind.

Abstractions. A change of the in-memory dictionary is one step (the GIL makes each assignment
atomic and the handler changes one key). `json.dump` sees one snapshot, or raises when another
thread adds a key (`SaveFails`): with `indent=2` (`state.py:87`) it walks the dictionary in Python
while other threads may change values, so that it could mix two of them; each MAC has one value,
and a file of mixed ones is that of another order of the same changes. The history, the installed
image id and the time of the last phone-home are recorded and only read by `status`. `pucks.json`
is a constant. Durability of the rename across a power failure of wisp is not modelled (the code
syncs the file, not the directory): `Reboot` is an orderly one.

### NetbootInstall

Every action of the control plane is joined with what happens at the other end of the
connection (`Serve, Finish, ServeFails, Launch, Die`). A puck's `place` is the step of
`gale-autoinstall` or of its firmware. `marker` is what `/etc/gwifi-image-id` reads on the
eMMC, `whole` is FALSE from the first block of `dd` to the last; while `dd` runs, the
old marker may or may not still be readable. `overlay` is the image whose first boot
made the overlay. `conn` is the handler at the other end of a report; a puck that loses
power leaves its handler running. `Publish` is one step: the image is copied under a name
that contains its digest before the manifest names it.

Abstractions. The first MAC of a puck (eth0) is the one it reports. The installer's
reports are well-formed. A half-written eMMC does not boot, and its
marker reads as the old one or not at all, never as the new one: the marker is a file of the
squashfs on it, whose tables come last in the image, and `dd` goes from first block to last. (An
idealisation: the kernel may write blocks back in another order.) The image fetched has the digest
that the manifest states (the script checks it; a mismatch is `StepFails`). Faults and
publishes are counted in the guards (`MaxFaults`, `MaxPublishes`).

### BackhaulGate

One run of the script is `Start` (read `$STATE`), `WiredReaches` or `WiredFails` and
`ProbeMesh` (with `Decide`, the script's `decide` and clamp), `ApplyRole`, `ApplyServe` for
each BSS, `Truncate`, `Persist`. The redirection of line 103 empties the file before
`printf` fills it; an empty file and an absent one read alike. `wired` is the answer
`wired_reaches_gw` would give, however it finds it. `gwl` follows the roles of the nodes of
the same island when `Propagate` happens. `verdict`, `misses`, `alone`, `calm` are history.
The environment (uplink changes, mesh splits, wifi reloads, failing ubus calls, hotplug
events, power cycles) is bounded by `MaxEvents`. A power cycle loses `$STATE` (tmpfs) and
starts every configured BSS.

Abstractions. A mesh without hostapd objects is not in `Bss`. `batctl gw` in the mode that is
already set changes nothing, so setting it again is the same step.

### Presence

| State | Code |
|---|---|
| `assoc`, `events[i]`, `watch[i]` | hostapd's stations, the pipe of each `ubus subscribe`, and what the subscription is doing |
| `queue`, `online`, `lastSeen`, `registered`, `offline` | `_queue`, `_online_clients`, `_last_seen_clients`, `_registered_clients`, `mq_is_offline` |
| `th[t]` | the call thread `t` is in: the pairs left in its two loops and the one it is at |
| `linked`, `subscribed`, `birth` | paho's connection, the subscription to `homeassistant/status`, a message for the callback |
| `haUp`, `entity`, `retained` | Home Assistant, the entities it made, the states the broker retains |
| `lapse` | history: one of the events below happened |

A thread that has died is at `dead`.

A full sync is `SyncStart`, one `SyncRead` per interface, `SyncStore`, then the two loops of
`set_device_home` (`HomePut, HomeAdd`) and `set_device_away` (`AwayRemove, AwayCheck,
AwayPut`): each arrow is a point where another thread runs. It is the same code on the main
thread (start-up, `Fallback`, the first success after a failure) and on paho's thread
(`OnHaStatus`). The main thread works an item off in `Take, Config, Register, State`.

`lapse` names the six events that can hide a departure from the detector:

- a publish that fails: its "home" goes behind the "away" that followed it;
- the publish of a departure that times out: `wait_for_publish(timeout=5)` returns as if the
  broker had acknowledged it, and `_publish` answers True (`Publish`, `Missed`);
- a watcher whose `ubus subscribe` ended;
- a thread that died of an exception (`ThreadDies`): `json.loads` of what is no JSON, `remove`
  of a device that another thread removed after the `in`, a publish that raises anything but
  `RuntimeError`. The main loop (lines 444-445) goes on sleeping, so procd sees a live process
  and restarts nothing;
- a restart of the process: the snapshot is lost;
- two full syncs at once (`Overlaps`).

The design document promises a "periodic full sync to self-heal missed events"
(`docs/superpowers/specs/2026-07-29-wifi-presence-design.md:65`): that is so for arrivals
(`HomeShown`, with every fault), and for departures as long as the device is in the
snapshot the sync compares with, which is what `QuietHome` states. Both liveness properties of
arrivals ask that the device stay connected and the detector be `Alive`: its own thread and
paho's have not died for good. Nothing in the code brings either back.

A process that starts (`PresenceInit`, `Restart`) is in any state `connect()` may have left:
connected or not yet, its one `subscribe` in force or lost with a login that was refused or a
connection that was reset (`Connections`). `connect()` raises when the broker cannot be reached
at all; procd starts the process again a few times and then gives up (`GivenUp`), which is the
other outcome of `Restart`. The system may then stop for good, and `PresenceSync` does not look
for deadlocks.

Abstractions. Payloads, topics, names and settings are left out; a message is its device and
its kind. A connection is taken for lost with its clean session. A publish that raises may be
delivered all the same. One that times out reaches the broker before the next publish does, or
never: paho sends what it has queued in order. With paho's thread dead every publish on a
connection that was up times out, at no further cost of `MaxEvents`. Faults and movements are
counted by `MaxEvents`.

### GaleEc, SpiFlash, FlashTool

`GaleEc` is the EC: the power rails, the two deferred calls of `board.c`, the charger
negotiation of `usb_pd_policy.c` and the enabling of the USB-SPI bridge. `SpiFlash` EXTENDS it
with `flash_puck_usb.py`: `sess` is its `Session` (`Park` until the rails have settled,
`Enable`, `Closed` after a teardown), `spent` says that the session is past its transaction
budget (it then latches no write and reads zeros), `pieces` is what `flash_region` has still
to write, `at` and `pos` are the loop it is in. A piece is erased, programmed and read back
sector by sector; one that fails is halved until it is a single sector (`TearDown`, `Halve`).
`chip[p][s]` is "old", "new", "blank" or "part". `read` compares two passes; `boot` resets the
EC, cycles the AP and reads its console. `Charger`, `SessionSpent`, `UsbFails` and `Killed`
are the faults, counted by `MaxFaults`.

`FlashTool` is what a caller may rely on: a puck's flash is stock, torn or re-keyed; a read
returns what is there, or zeros; a flash that ends well leaves the image, one that fails
may leave anything. `ImplementsFlashTool` maps `chip` to `content`.

Abstractions. The image's sectors are one value, except those of nothing but zeros (`Zero`), which
a dead session cannot be told from. The order of regions is a constant with an assumption
(`FlashOrderAssumption`), taken from `FLASH_ORDER`. `spent` may become TRUE at any step: nobody
knows the budget. `Enable` waits until no deferred call is due: two seconds of silence say only
that the "off" has run, and a charger's "on" that is due at that moment is one that `Charger`
defers right after the step, with the same rails. A `USBError` of a console is no `FatalError` and
ends a flash at once (`Escapes`); the `DISABLE` of a teardown may fail unheard, and there is none
before the session has a bridge (`BringUpFails`, `UsbFails`). Not modelled: `shakedown`,
`budgetprobe`, `ec`.

### FlashPipeline

The steps of `flash_one_puck.py` in their order (`pc`), each with its failing form
(`StepFails`, `CommandFailed`), and `flash_gale_fleet.py` on its own: `FlashDirect` starts at the
serial guard, of any puck, whether it was captured, recorded, flashed or verified before, because
that script looks at the image file and the serial only. The commands are those of `FlashTool`.
`got` is the dump or the guard's read, `archive` what is off-site, `inventory` and `sheet` two
columns of a record: what is said of the flash, and a field another script collects (`Collect`,
`collect_puck_live.py`). A sync reads (`SyncRead`) and writes (`SyncWrite`) apart; the pipeline's
own overwrites the flash columns only, an operator's any he allows; a conflict in another
column ends it. `unfinished` (pucks whose last flash did not end well), `aside` (pucks whose last
flash was a direct one) and `booted` (pucks that booted what they have) are history.

A direct flash touches no record, so three properties name it: after one that did not end
well the record may say "flashed" of a torn puck (`InventoryIsTrue`), after any one it may say
"verified" of an image that never booted (`VerifiedMeansBooted`), and it may be the first write
to a puck nobody captured (`CaptureFirst`). They hold of everything else: of each run of
`flash_one_puck.py`, however it is interrupted and whatever it finds, and of the records once it
has been through. `SheetIsTrue` and `OnlyHintedPuck` hold of direct flashes as they stand.

Abstractions. Identity extraction, CBFS, VPD and signing are steps that succeed or fail. A
torn dump does not pass `plan`. What is flashed is a fleet image, as the scripts' docstrings
say; `flash_puck_usb.py flash` by hand (`tools/FLASH-RUNBOOK.md`), which has no serial guard, is
not in the model. The operator leaves the cable alone once the guard has read the serial: nothing later would notice a
swap (`SwapPuck`). Rows of the sheet do not move. `SyncRead` reads sheet and inventory at once,
where the script reads the sheet first (lines 306 and 331); a variant of the model with two steps has
been checked on the same instance and keeps every property, at 1.7 times the states. `Collect`
reads, merges and writes a record in one step, where `merge_live_fields` (lines 183-205) reads and
writes the file with nothing but the merge between: the puck it collects from is in the mesh, and
a run that writes the same record has it on the cable.

## 4. Runs

| Run | Instance | Shows |
|---|---|---|
| `NetbootSerial` | one handler, two pucks, nobody at the CLI | `TypeOK`, `OfferedOnlyIfArmed`, `NoLostArm`, `NoZombieArm`, `AnswerMeansOffered` and the refinement `ImplementsUnattended`, with every failure and crash between the steps |
| `NetbootStopped` | one handler and one CLI run, two pucks, the serve process stopped for each command (`StoppedSpec`) | `NoLostArm`, `NoZombieArm`, refinement of `Arming` with what the daemon and the command line leave to each other in `state.json` |
| `InstallOperator` | one puck, two images, a handler, a CLI run, one fault, one publish | type; `WriteOnlyIfArmed`; `ReportIsTrue` |
| `InstallLive` | one puck, two handlers (so that a retry overlaps its predecessor), two faults | `NoLostArm`, `TornIsArmed`, `CurrentIsWhole`, and `InstallCompletes` under fairness |
| `GateFleet` | two nodes, a cron job each, a hotplug run on one, K = 2, two events | `GateTypeOK`, `GatedInTime`, `AloneGatesOffAfterK`, and `IslandedGoesSilent`, `ReachableServes` under fairness |
| `PresenceSync` | two interfaces, one station, two events | `PresenceTypeOK`, `QuietHome`, and `HomeShown`, `EntityKnown`, `AwaySettles` under fairness |
| `FlashPuck` | a stock and a re-keyed puck, four sectors in three pieces, one sector of zeros, two faults | `SpiTypeOK`, `VerifiedIsOnChip`, `AwakeMeansOffered`, `GbbLast`, `NeverGoesBack`, the refinement `ImplementsFlashTool`, and `CommandEnds` under fairness |
| `FlashFleet` | two pucks, two upstreams, three runs of scripts, any of them a direct flash | `PipelineTypeOK`, `InventoryIsTrue`, `VerifiedMeansBooted`, `SheetIsTrue`, `CaptureFirst`, `OnlyHintedPuck`, and `RunEnds` under fairness |
| `NetbootLostArm` | daemon and CLI, never at the same time | violated: `NoLostArm` |
| `NetbootStaleFragment` | two handlers, nothing fails | violated: `QuietMeansOffered` |
| `InstallStaleOverlay` | one puck, one fault | violated: `NoStaleOverlay` |
| `GateOverlap` | one node, cron and hotplug | violated: `GateOffAfterK` |

Bounds. Pucks only meet in `state.json`, the fragment and dnsmasq, so two show every way one
puck's report can disturb another's; two handlers show every race of threads, as each race
found takes two. In the installer one puck suffices, because what the other pucks do
reaches it through the same file; two faults are enough for a retry to fail too. In
the gate, two nodes can keep each other serving, which takes both to lose the uplink
(two events); K = 2 is the smallest count with a grace period, and the first, last
and repeated misses all occur. Initially every uplink may be up or down. In the detector, two
interfaces are what roaming and `Elsewhere` take, stations meet only in the order of the
queue, and two events let a movement meet a fault, a roam, or two faults each other; which outcome a
start of the process has is not counted. In the
flash tool, a slot of two sectors is halved, the sector of zeros is there because the padding
of a VBLOCK is, and the second fault strikes the retry after the first. In the fleet run, two
pucks can be swapped, two upstreams make a conflict in the sheet, and three runs are a
flash, a second one that fails over its record, or a direct one, and a collector.

Fairness. `InstallLive`: the processes of wisp and the installer script keep running;
systemd restarts the serve process (`Restart=on-failure`, `sites.py:164`); an operator
starts a dnsmasq that is down and power-cycles a puck that stays armed (the script
stays up on failure "for a retry cycle", so nobody else can). Faults are finite.
`GateFleet`: cron starts a run each minute; a run that started ends; gateway lists follow the
roles (measured at 2 s in the design document). Nothing makes a hotplug event happen.
`PresenceSync`: each thread that lives goes on, paho reconnects (`LinkUp`, while its thread lives)
and Home Assistant is started again (`HaUp`); a dead thread has no step, and nothing is assumed
to revive it; `queue.Empty` makes the main thread's full sync recur. `FlashPuck`: the EC
runs its deferred calls and the tool goes on, unless it is killed. `FlashFleet`: the scripts
go on and a command ends (`CommandOver`), which is what `CommandEnds` shows of the tool.

## 5. What the code does that its documents do not say

Four runs end in a counterexample:

- **Lost arm.** The daemon reads `state.json` once; its next save writes the old copy back, so a
  report of puck A undoes an `arm` of puck B (`NetbootLostArm`). It takes a daemon that runs while
  the command does: with the serve process stopped for each command, no arm is lost
  (`StoppedNoLostArm`).
- **Stale fragment.** Two reports at once: the older rendering is installed last and a disarmed
  puck keeps being offered the installer (`NetbootStaleFragment`). A lock around the handler is
  enough (`SerialQuietMeansOffered`).
- **Stale overlay.** Interrupted after the image and before the overlay is wiped, the retry finds
  the marker current, skips both, and boots the new image on the old overlay
  (`InstallStaleOverlay`). Those two steps are the whole window: `UncutNoStaleOverlay` shows that
  nothing else brings it about.
- **Early gate.** Two runs of the gate overlap and the second verdict rests on a `$STATE` from
  before the first (`GateOverlap`). Overlaps are the only cause: `LockedGatesOffAfterK`, and
  `CronGatesOffAfterK` for a node without the hotplug hook.

Seen while setting the bounds of the passing runs, and the reason for them:

- `NoZombieArm` fails too once the CLI and the daemon alternate (`disarm` at the CLI is undone by
  the daemon's next save), and with two handlers (the older dump is renamed last).
- `TornIsArmed` fails with a publish during an install: a report of the previous install that is
  handled late disarms the puck in the middle of the next `dd`. `CurrentIsWhole` fails when a
  publish rolls back to the image whose marker is still readable after an interrupted `dd`.
  Both hold in `InstallLive`, where the manifest does not change.
- The hotplug hook of the gate exits unless the action is add, ifup or ifupdate; the design
  (section 7.7) expects it to fire on carrier changes. No property depends on it: the models
  assume nothing about when a hotplug run starts.

Seen while modelling the flashing of pucks; no property of the models is about them, because
each follows from a line or two (the direct flash excepted):

- A second run on the same date reads the puck, by then re-keyed, into the file name of the first
  capture (`flash_one_puck.py:270`) and archives it over that one (line 303) before the refusal
  (line 307). `CaptureFirst` states what still holds: its first write to a puck comes after the
  capture was off-site.
- `unprotect` runs before the serial guard (line 319): the block-protect bits of a puck that was
  swapped in are cleared, though its content is not written.
- Every piece of a flash, and the boot check, open whatever puck is on the cable
  (`flash_puck_usb.py:1050`); neither looks at the serial again.
- `flash_gale_fleet.py:19` says that "writing RO last means the puck stays stock-bootable until
  the very last region". It does until slot B is begun: slot A is by then signed with the new
  key. A puck that is flashed again after an aborted run starts with slot A, which may be the
  only slot that boots.
- `flash_gale_fleet.py` run on its own (a "serial-guarded single-image flash",
  `tools/fleet/README.md:52`) reads no record, writes none and asks for no capture: the inventory
  goes on saying "flashed" or "verified" of a puck that this flash tore, or that has not booted
  since (`InventoryIsTrue` and `VerifiedMeansBooted` except exactly these pucks), and a puck
  nobody captured may be written (`CaptureFirst` is about `flash_one_puck.py`).
- The sheet keeps "flashed" when a later run over the same puck fails; `SheetIsTrue` excepts
  the pucks whose last flash did not end well.
- `_write_inventory` replaces the record by identity fields only, so a run drops what a
  collector had merged.

## 6. Proofs

All theorems hold for any value of the constants (pucks, MACs, handlers, CLI runs, images,
nodes, runs, BSSes, K, interfaces, stations, layouts of the flash, and every bound), from the
named assumptions: `IdentityAssumption` (no MAC belongs to two pucks), `ProcessAssumption` (the
workers are distinct), `BoundsAssumption`, `MarkerAssumption`, `GateAssumption`,
`PresenceAssumption`, `SpiFlashAssumption` and `FlashOrderAssumption` (the pieces cover the
image, the GBB last and in pieces of its own), `PipelineAssumption`.

Netboot control plane and installer:

- `TypeCorrect`: step by step from `TypeOK`, which contains `JobOK` (a worker that
  changes state has a job to do), without which the successor of `Mutate` has no type.
- `OfferedOnlyIfArmedInvariant`: `NothingInvented` says that no copy, no temporary file and
  no rendering holds a MAC never armed; `offered` alone is not inductive because it is loaded
  from the fragment, which comes from a rendering, which comes from a copy. Holds under `Spec`, with
  any number of handlers and CLI runs.
- `StoppedNoLostArm`, `NoLostArmInvariant`: with any number of handlers racing and failing, an
  owed install is not lost as long as the serve process is down while a command runs.
  `OwedEverywhere` extends the claim to the daemon's copy, to the copy of a command and what it is
  about to arm, and to files about to be renamed; `Phases` says when handlers and the main thread
  are at work, so that a copy is the one read at the last start-up. An instance without commands, or
  with one worker in all, needs no discipline (`NoCommandsIsStopped`, `AloneIsSerial`).
- `SequentialAnswers`, `AnswerMeansOfferedInvariant`: for one worker at a time, commands and
  daemon together. `InStep` states, for every step of the worker, which of copy, file, fragment and
  dnsmasq already agree.
- `SerialNoZombieArm`, `NoZombieArmInvariant`: for one worker at a time with the serve process
  stopped for commands. `ClearedEverywhere` says that no copy that may still be saved holds a MAC
  that was confirmed disarmed; it rests on `InStep` for the confirmation.
- `SerialImplementsArming`, `ImplementsArmingTheorem`: the refinement of `Arming`, with commands and
  reports. `OneJobAway` says that the daemon's copy is never larger than `state.json` and that a
  command's is exactly its own job away from it, so that each rename is one step of the promise.
  `SerialImplementsUnattended`, `ImplementsUnattendedTheorem`: without commands, each step is even
  one of `Arming!UnattendedSpec`, which never arms.
- `SerialQuietMeansOffered`: under the same discipline and without failures, an idle daemon offers
  what it holds as armed (`InLine`).
- `InstallTypeCorrect`, `InstallRefinesControl`: every step of the composition is a step of
  `NetbootControl` or a stutter, which carries the theorems above over to the pucks.
- `ReportIsTrueInvariant`, `WriteOnlyIfArmedTheorem`: by `InstallerSound`, together with
  `NothingInvented` through the refinement: a puck gets into the installer only when offered.
- `TornIsArmedInvariant`, `CurrentIsWholeInvariant`: for `Clis = {}` and one manifest
  (`MaxPublishes = 0`; section 5 says why not more). `RetrySound` says what the marker of a puck
  means for each place of the installer, and that no report that is under way, nor a
  handler still at work on one, can disarm a puck in the middle of its `dd`.
- `UncutNoStaleOverlay`: for `UncutSpec`, any faults but a cut between `dd` and wipe, any publishes
  and commands. `OverlayFits` says that the overlay is of the image on the eMMC, or none, whenever
  the eMMC is whole and the puck is not between these two steps.

Backhaul gate: `GateTypeCorrect`, `GatedInTimeInvariant`, `AloneGatesOffAfterKTheorem`. While
no runs of a node have overlapped, `Sequential` says that the count in `$STATE`, and the one a
run has read, is the number of misses in a row, and `Actuated` that the BSSes the run has
been through obey the verdict. `LockedGatesOffAfterK` and `CronGatesOffAfterK` carry the second over
to `GateOffAfterK` itself where runs of a node cannot overlap.

Presence detector: `PresenceTypeCorrect` and `QuietHomeInvariant`. The invariant is
`DepartureSound`, as long as there is no lapse (none of the six events of section 3): whatever is
marked online is `Known`, that is, a listening watcher will hear of its departure, or the
departure is in the pipe or in a thread's hands, or the device is in the snapshot; and a device
whose last word, in the queue, at the main thread or at the broker, is "home" (`Shown`) is `Known`
on some interface or about to be reported away. `EventsInOrder` and `HomeIsKnown` carry the first
through the watchers and the full sync, the first carries the second through `AwayCheck`, where an
"away" is dropped because the device is marked elsewhere.

Flash tool: `SpiTypeCorrect`, `AwakeMeansOfferedInvariant`, `VerifiedIsOnChipInvariant`,
`GbbLastTheorem`, `NeverGoesBackTheorem`, `ImplementsFlashToolTheorem`. `SpiInv` joins the
session's state to the EC's (`SessionOK`, `WakeOK`), the loop to the piece it is in (`PieceOK`),
and the pieces to their order (`OrderOK`). The piece at work is the one with the least first
sector, whose existence is proved from the well-ordering of the naturals. `NeverGoesBack` is the
safety core of `CommandEnds`: what is verified is left alone, and what is split is replaced by
smaller pieces inside it (`WrittenIsLeft`, `HalveShrinks`).

Fleet flashing: `PipelineTypeCorrect`, `InventoryIsTrueInvariant`, `VerifiedMeansBootedInvariant`,
`SheetIsTrueInvariant`, `OnlyHintedPuckTheorem`, `CaptureFirstTheorem`, each with the exception
for direct flashes that its property names (section 3). `DumpIsTrue` says what a dump is worth at
each later step, `CableIsHint` that the puck on the cable is the one asked for once the guard has
passed, `StatusWithheld` that no record speaks of a puck in the middle of a flash by
`flash_one_puck.py`, `SyncIsTrue` the same of a sync that has computed its cells and not yet
written them.

Only model-checked: the liveness properties (`InstallCompletes`, `IslandedGoesSilent`,
`ReachableServes`, `HomeShown`, `EntityKnown`, `AwaySettles`, `CommandEnds`, `RunEnds`): fairness and
ENABLED are beyond the prover. Every invariant, action property and refinement of a passing run is
proved.

## 7. Not modelled

- `puck_profile.py`: the next module of the plan (section 2).
- `shakedown`, `budgetprobe` and `ec` of the flash tool, `clear_rw_nvram.py`, `fmap_dump.py`:
  bench experiments, and utilities that print or edit a file. The console commands of the EC that
  only print, its LED, ADC and CCD tables.
- Of the sheet: rows that move, unmatched serials, header renames, MAC formatting.
- What is inside a firmware image, VPD and CBFS (data, tested against fixtures).
- Fleet maintenance, rig power cycle and fabric scripts: one sequential script by one operator,
  whose state is another device's. They keep nothing that a second actor reads.
- Ansible and OpenWISP provisioning, image build scripts and verifiers, first-boot scripts:
  convergent, straight-line configuration by one process.
- Bench scripts, the renode test bench and its coverage reports, which are tests themselves,
  and patches to third-party code. `status` commands print and change nothing.

The models cover the programs that share state between actors. Most lines of the repository
are in the parts listed here.
