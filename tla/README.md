# A TLA+ development of usbip-ssh

usbip-ssh attaches USB devices of one machine (the *exporter*) to another (the
*importer*) with the kernel's usbip drivers, through an ssh connection that it
sets up itself. This directory holds TLA+ modules translated from the Go source,
TLC configurations that check them on small instances, and theorems about them
that TLAPS checks for every instance. Source lines are written `file.go:line`
and refer to `src/`.

    tlc -config ExporterSafety.cfg MCExporter     one run; all are listed below
    tlapm ExporterProofs.tla                      proofs; so for each *Proofs module

Contents: [the system](#the-system) · [modules](#modules) · [runs](#runs) ·
[bounds](#bounds) · [fairness](#fairness) · [proofs](#proofs) ·
[disagreements found](#where-the-code-and-its-documentation-disagree) ·
[not modelled](#what-is-not-modelled) · [plan](#plan)

## The system

### Components

| component | code | state it keeps | operations |
|---|---|---|---|
| exporter | `usbip.go` | none of its own: the kernel's driver bindings, `match_busid` rows and stub sockets | `exporterAttach`, `exporterDetach`, `settleDriver`, `unbindMatching`, `doUnmounts` |
| importer | `usbip.go` | none of its own: vhci's ports | `findVhciAndPort`, `importerAttach`, `importerDetach` |
| forward session, local end | `sshside.go` | the ssh child, a control socket and a forwarded socket in a temporary directory | `runAttach`, `attachFromLine`, `waitExit` |
| forward session, payload | `remoteside.go` | a listener in a temporary directory, the held sockets (`lingerSock`), a uevent socket | `remoteScript`, `newDev`, `vhubLoop`, `spawnLingerAndExit` |
| linger child | `remoteside.go` | the held sockets it inherited | `lingerMain`, `lingerLoop` |
| reverse session, local end | `reverseside.go` | listener, held sockets, uevent socket, the signal flag and pipe | `runReverseAttach`, `exportOne`, `waitSocket`, `reverseLinger`, `rebindAll`, `watchSignals` |
| reverse session, payload | `remoteside.go` | the connection in hand | `remoteImport` |
| handshake | `sshside.go` | the sudo password, the try count, a read deadline | `startRemote`, `dialRemote`, the bootstrap line |
| keep and daemon | `daemon.go` | the backoff | `persistent`, `sleepAfter`, `nextWait`, `daemonCmd` |
| device selection | `spec.go`, `pattern.go`, `sysfs.go` | none | `findDev`, `devPattern.match` |
| list, reset | `list.go`, `reset.go` | none | `listDevices`, `nsort`, `resetMatching`, `resetDevice` |
| commands on HOST | `sshside.go`, `remoteside.go` | the ssh child | `remoteSimple`, `waitExit`, `remoteMain` |
| command line | `main.go`, `util.go` | none | flags and dispatch |

### How they interact

* The local process starts ssh with a bootstrap line; the bootstrap reports its
  architecture, reads arguments and a payload (this same program) from the
  channel and execs it (module Handshake).
* *Forward*: the payload finds the devices and, for each, writes `-Dev` to the
  channel and waits two seconds for a connection on its listener. The local
  process reads the line, connects to a unix socket that ssh forwards to that
  listener, and hands the connection to vhci; the payload hands its end to
  usbip-host. Nothing in a connection names the device: the order of lines,
  dials and accepts pairs the two ends (ForwardSession).
* *Reverse*: the same with the roles of the two machines exchanged; the local
  process announces and accepts, the payload dials (ReverseSession).
* Whoever accepted a connection keeps its own descriptor of it and polls it: a
  hangup means that the importer has let go and the device must be returned to
  its own driver (`exporterDetach`). In a forward session the payload does this
  and, at its end, passes the descriptors to a linger child; in a reverse session
  the local process does it.
* Attaches, detaches and unbind commands of any number of sessions meet in the
  exporter's kernel and nowhere else: there are no locks (Exporter).
* `list`, `unbind`, `reset` and `detach -r` run as the payload's only operation; their
  output and exit status come back through ssh (RemoteCommand). On the machine they
  run on they read sysfs, one file after the other, while devices come and go and
  other commands write (Commands).
* `keep` and `daemon` run sessions in a loop with a backoff; in reverse mode a
  signal is caught, wakes the poll loop of the session and ends the loop (Keep).

### What is hard about it

* `exporterAttach` and `exporterDetach` are sequences of sysfs reads and writes
  that several processes interleave on one device: two attaches, an unbind command
  and the linger that its own hangup wakes, a takeover of a device in use.
* A device can vanish between any two steps.
* Hangups, channel death, signals and uevents arrive in any order, in the middle
  of an attach too, and each must be seen by somebody who still exists.
* The local process waits for ssh, ssh for its forwarded connections, those for
  the kernels on both sides: one leaked descriptor leaves everybody waiting.
* Two-second timeouts race answers that are late.
* `attach`, `detach`, `reset` and `list` decide on what they read some time ago: a
  free port, a used port, a device's number, its interfaces.

### What makes each component correct

* *Exporter*: no interleaving leaves a device without a driver, or on usbip-host
  with no connection responsible for it; a watcher never sleeps on a device it has
  lost; a hangup brings the device home; an unbind command releases what it saw bound.
* *Sessions*: both ends of a connection mean the same device; a device that is
  exported is watched; each way out of a session returns the devices or
  passes them on; the local process returns when there is nothing left to wait
  for; a signal is obeyed wherever in the session proper it arrives.
* *Handshake*: it ends, asks the user or is stuck in its one unbounded write, it never leaves an ssh behind, it counts its tries, and
  the two readers of the one stream read their own lines.
* *Keep*: retries spread out, a good run resets them, a signal ends the loop.
* *Importer*: an attach fails only when it was beaten to a port; "detach all" reaches
  what was up when it began, or says that it did not.
* *reset, list*: reset acts on what the pattern selects and on all of it; list prints a
  tree with nothing missing.
* *Commands on HOST*: an exit status of 0 means that the operation ended well there
  and that its output is complete.

## Modules

| module | models | extends |
|---|---|---|
| `UsbipHost` | the exporting kernel as the code uses it (external): driver bindings, `match_busid`, stub sockets | |
| `Exporter` | `exporterAttach`, `exporterDetach`, `settleDriver`, `unbindMatching` and the held `lingerSock`, one action per sysfs access, for any number of processes and devices | `UsbipHost` |
| `MCExporter`, `ExporterProofs` | its instances; its theorems, and that it implements Custody | `Exporter` |
| `Custody` | what the exporter promises: devices at home or away, agents that answer for them, loans that end with notice; abstract | |
| `CustodyProofs` | what Custody implies | `Custody` |
| `SshLink` | what both kinds of session run on: ssh's channel and forwarded connections, the exporter's devices, uevents, the environment | |
| `ForwardSession`, `MCForwardSession` | `runAttach`, `attachFromLine`, `remoteScript`, `newDev`, `vhubLoop`, `spawnLingerAndExit`, `lingerLoop` | `SshLink` |
| `ReverseSession`, `MCReverseSession` | `watchSignals`, `runReverseAttach`, `exportOne`, `waitSocket`, `reverseLinger`, `rebindAll`, `remoteImport` | `SshLink` |
| `SshLinkProofs`, `ForwardProofs`, `ReverseProofs` | lemmas on what the sessions run on; the theorems about each | `SshLink`; these and its session |
| `Handshake` | `startRemote`, `dialRemote`, the bootstrap line under sudo | |
| `RemoteCommand` | `remoteSimple`, `waitExit`, `remoteMain` and ssh's exit status; holds the specification that Handshake's properties are checked of | `Handshake` |
| `RemoteCommandProofs` | theorems about both | `RemoteCommand` |
| `VhciPorts` | `findVhciAndPort`, `importerAttach`, `importerDetach` and the vhci_hcd driver (external) | |
| `Commands`, `MCCommands` | these together with `findDev`, `resetMatching`, `resetDevice`, `listDevices`, `nsort` over one machine's device tree | `VhciPorts` |
| `CommandsProofs` | theorems about both | `Commands` |
| `Keep` | `persistent`, `sleepAfter`, `nextWait`, `watchSignals` | |
| `KeepProofs` | its theorems | `Keep` |

### Exporter

A *holder* is a connection that was accepted and handed to `exporterAttach`
together with a device; `pc[h]` names the sysfs access it does next: `status`
(usbip.go:146), `reset` (147), `prepare` (152-162), `unbind` (163), `add` (167),
`bind` (170), `sockfd` (174), then `held` (the poll loop waits for its hangup) or
`left` (`--no-linger`), and `detach` (189), `del` (193), `rebind` (194), `settle`
(233-247). An *unbinder* is a run of `unbindMatching`: `scan` (207-212), `next`
(216), then the same detach steps. `prepare` joins the test for the module,
modprobe, the test for a driver and `doUnmounts`: they change nothing of the state
and each may fail. The polling of `settleDriver` is one step, which either finds a
driver or, at its deadline, writes `drivers_probe`; when that write fails the process
ends at `unprobed`, the device without a driver.

The kernel's side is what the code and its comments say of it. Four points
matter: `unbind` may or may not be followed at once by a reprobe (the comment at
usbip.go:181-188 says "can occasionally leave the device transiently
driverless"), so both are possible; `match_busid add` may find the table full for a device that has
no row yet, which leaves the attach at `full`; `usbip_sockfd -1` only starts a teardown, which
the stub completes later, so a status of 2 covers both; `match_busid del` and
`rebind` fail with ENODEV when the row is gone, which the code ignores.

`Custody` says the same without drivers, rows and steps. Each device that is not in
`Hotplug` is `home` (its own driver has it) or `away`, is lent to at most one connection
(`user`), and each agent has at most one device to answer for (`duty`). An agent may lay
a device down only if it is home or another agent answers for it; a loan ends only in a
step that tells its user. The refinement mapping takes `place` from `driver`, `user` from
`conn`, `told` from `hungup`, and gives a duty to every process from `add` on through its
detach. A process that met a full `match_busid` table or whose reprobe failed (`Abandoned`)
keeps its duty forever: it is the one to blame for a device that nobody brings home.

### Importer, reset and list

In `VhciPorts` one status file is read at once, as the driver prints it under its lock,
and the next one later. A port goes `null`, `notassigned` (taken by the write to
`attach`), `used` (its device has an address) and back: the write to `detach` and a lost
connection put it in `down`, and the driver frees it some time later. The busid in a
status line is fixed by its port, so an argument of `detach` is a set of ports. Of the file
that it has read a detach keeps the numbers of the lines that it has yet to act on (`lines`).
Three history variables carry the properties: `began`, the ports that were free (for an
attach) or up and wanted (for a detach) when the command began; `gone`, those taken since,
or freed or about to be; and `freed`, those that the driver has freed since a detach read the
status file that it works on.

In `Commands` a busid is the tuple of its numbers and `devnum` the device that has it;
a device that leaves and one that comes back at the same place have different
numbers. `Glob` yields busids in the order in which they are spelt (`Name`), which is not the
order of the tree; `nsort` sorts by `dvKey`, a string of bytes in which each number of the busid
takes four. `ready` holds the devices whose interfaces are in sysfs. Devices behind vhci ports
come and go with those ports. A spec is read in one step if the device was settled when
the command began and still is; any other device, one that has gone, is leaving or is
still coming up, yields what is there of it, so the pattern may match it or not and the
word may be missing. A pattern is the set of busids whose settled devices it matches. The hub
test is what the code does (spec.go:13, 69): `HubIf` holds the places whose device has the word
090000 anywhere in its spec, which is not the set `Hubs` of the places that have others behind
them. A hub with multiple transaction translators (090001, 090002) lacks the word and
is selected and reset like a device; a device with the word in a string is passed over.

### Sessions

`opts` holds `--vhub` and `--no-linger`; every run takes all four combinations.
`lpc` is the local process, `ppc` the payload. A connection has two ends: `cut` says
that the importer's end is closed, `hup` that the exporter's end reports a hangup;
`HangupArrives` is the delay between them. `imp` is the device vhci was told to
expect on a connection, `using` the connection usbip-host uses for a device. The
descriptors that keep a connection open are not counted one by one: `cut` and
`hup` change where the code closes the last of them.

The session modules take an `exporterAttach` or `exporterDetach` as one step: the
attach succeeds, or fails and leaves the device alone. Their insides, and what
happens when they fail halfway or meet another process, are module Exporter's
subject. What they leave in `match_busid` is kept: `row` is `match` from the attach on and
`left` once a detach has found the device unplugged and returned before `del`
(usbip.go:190). A device that is replugged while it has a row may come back on usbip-host
instead of on its own driver, and sends no event then.

A system call that may fail in more ways than the code distinguishes is a
choice between its success and the code's error path. The steps in which poll or
recv fail (`PollFails`, `LingerFails`) and the one in which the local process cannot read its
lines (`ReadFails`) are actions of their own, so that no process is ever obliged to fail.
A uevent whose device has gone by the time its spec is read is skipped or, when
the spec still matched, fatal (`Recv`).

In ForwardSession `orphaned` holds the devices whose sockets went down with a linger child that
did not start or poll, `lost` those whose sockets a `remoteFatalf` closed. In ReverseSession
the local process is at `dial` during `startRemote` (reverseside.go:76): signals are taken
from reverseside.go:52 on, but nobody looks at them until it has returned, and `StartRemote`
need not.

`findDev` is its outcome, the devices present that match; `Devices` are only those
that match the pattern, so uevents of others are left out.

### Handshake, RemoteCommand and Keep

In Handshake the remote side is a small machine: sudo asks for a password or does
not, rejects a wrong one in words that `sudoFailRe` knows or does not, and reads
again; the bootstrap prints `-Arch` and reads whatever comes next. The deadline may
pass at any moment of the scan, but not after it: it is a deadline of reads, so the write of
the payload (`Ship`, sshside.go:275-277) is never obliged to end while its ssh runs, and fails
once ssh is gone (`ShipFails`). RemoteCommand adds the payload, whose operation prints
and ends, and the end of ssh: of a signal, with 255 when the link fails, or with the
status of the remote command. In Keep time is an integer number of ticks;
`sleepAfter` is scaled so that its division loses no more than a tick. A session is
its length, and in reverse mode that it calls `os.Exit` once a signal has reached
its poll loop.

## Runs

Every property of a passing run has been seen to fail on a mutated definition: the
mutants stand in the modules, above what they mutate, each a bug someone might
write. A type invariant is checked for each specification.

| run | checks | result |
|---|---|---|
| ExporterSafety | `DriverlessOwned`, `ExportOwned`, `HeldIsLive`, `DetachedIsDropped`, and `Kept` (Exporter implements Custody): three connections, one of them `--no-linger`, and an unbind command race over two devices | holds |
| ExporterLive | under fairness `DriverSettles`, `HangupComesHome`, `UnbindReleases`: two connections and an unbind command over two devices, one of them unplugged and replugged at will | holds |
| ExporterUnplugged | `DetachedIsDropped` with hot-plugging | **violated** |
| Forward | `Paired`, `Watched`, and `NoHungSession`, `DeviceReturns`, `UeventServed` | holds |
| ForwardStranded | `DeadChannelHandsOver` | **violated** |
| ForwardMissed | `AppearsAttached` | **violated** |
| Reverse | `LingerLeavesNone`, and `SignalStops`, `DropEndsSession`, `HangupReturns` | holds |
| ReverseMispaired | `Paired` | **violated** |
| ReverseStranded | `EndRebinds` | **violated** |
| Handshake | `Framed`, `OneSsh`, `TriesCapped`, `Returns`, `ExitStatus`, of RemoteCommand | holds |
| Commands | `AttachFailsBeaten`, `DetachReaches`, `DetachFailsStale`, `OnlySelected`, `ResetComplete`, `ListsTree`: attaches and detaches, or an attach with a reset or a list, over three ports and three other devices | holds |
| Keep | `Spreads`, `Forgives`, `OneMoreSession`, `StopsOnSignal`, `NeverGivesUp` | holds |

What the less obvious ones say:

* `DriverlessOwned`: whenever a device has no driver, a process is between the two
  writes that took it away and give it back. The two-second fallback of
  `settleDriver` is what makes this enough (`DriverSettles`): the mutant without it
  leaves a device driverless when an unbind command and a linger race.
* `HeldIsLive`: the poll loops wait for hangups alone, so a held socket must be the
  one the stub uses or have hung up already.
* `HangupComesHome` allows that another connection uses the device by then, but only one
  whose own peer has not hung up: once it has, the same property asks for the homecoming
  of the new holder. Otherwise it allows only a `--no-linger` session that has the device, and
  a device that was abandoned without a driver.
* `DeviceReturns` and `Watched` follow a socket from the payload to the linger
  child. They except, device by device (`Excused`): `--no-linger`; a device whose
  socket was held by a child that could not start or poll (`orphaned`), or by a
  `--vhub` payload that ended by an error (`lost`, see below), so a `--vhub` payload that hands
  over is not excused; and a device that came back to a row which a detach had left
  (see ExporterUnplugged). A device that came back while its row was still `match` is not
  excepted: its socket is still held, and the detach that is due brings it home.
* `NoHungSession` is the deadlock question: once the payload has gone, the local
  process returns unless vhci still runs a device over a live connection.
* `LingerLeavesNone`: once a session has reached `reverseLinger` and is on its way
  out, for whatever reason, no device is left on usbip-host, leftover rows apart:
  `rebindAll` detaches what is in `socks`, and a device that was replugged onto a row
  `left` is no longer there. `HangupReturns` has the same exception.
* `SignalStops`: a signal that finds the session anywhere but in `startRemote` ends it. One
  that arrives there waits, possibly for somebody to type a password (sshside.go:191) or for the
  write of the payload, and takes effect in the poll loop afterwards.
* `Returns`: `startRemote` does not go on for ever, except at the terminal or, with its ssh up,
  in the write of the payload, which no deadline bounds.
* `DropEndsSession`: in one-device mode nobody tells the local process that its last
  connection has dropped; it depends on the payload having ended at `-Eof`, so that
  ssh exits with its last forwarded connection.
* `Framed`: password and payload share one stream.
* `Kept` is an action property: it says of every step which device changes hands.
  `DriverlessOwned`, `DriverSettles` and `Kept` except the attach that met a full table
  after it had unbound its device (usbip.go:163-169) and the detach whose reprobe
  failed (usbip.go:243): nothing gives such a device its driver back, which is what the code
  does. A failed reprobe also ends `unbindMatching` with the rest of its list bound, which
  `UnbindReleases` excepts.
* `ExitStatus` excepts an output that could not be read, which is logged: ssh may have
  ended with 0 before it is killed for that (sshside.go:402-406).
* `AttachFailsBeaten`: nothing holds a port between the read and the write. The write
  fails, and "no suitable vhci port" is reported, only if others took those ports
  meanwhile. `DetachFailsStale` is its counterpart for `detach`: its write fails only on a
  port that the driver has freed after the command read the file that lists it as used. The
  first failed write leaves the remaining ports alone; unless that happens, `DetachReaches` says that
  each wanted device that was up at the start is gone or going.
* `OnlySelected` and `ResetComplete` are about the devices that were there, with their
  interfaces, when the command began, and about the word by which the code tells a hub, not
  about hubs: a multi-TT hub that the pattern matches is reset. Of other devices "reset" may
  reset one that the pattern does not match: it keeps busids from one read to the next, and a device may have
  taken a busid over.

## Bounds

* *Exporter*: a race needs two attaches and an unbind of one device; the third
  connection and the second device of ExporterSafety let a takeover meet a third
  party and an unbind command walk a list. Symmetry over devices and over the
  holders that linger is used in the safety run only; all properties there are
  symmetric in both. The liveness run has two devices and two connections, so that
  an unbind command can lose the race for one device and must still reach the other;
  one of them is hot-plugged.
* *Sessions*: two devices are the least at which connections can be mispaired and one
  device's failure can hurt another. `Conns = 3` connections are reused once closed
  at both ends and referred to by nobody; `ConnsSuffice` (in the MC modules) says
  that the model never blocks for lack of one, and holds in these instances.
  `MaxLines = 3` is more than the announcements that can be under way at once;
  `UeventCap = 2` is small so that a full uevent buffer does drop events;
  `MaxEvents` bounds what the environment does of its own (unplug, plug, detach a
  port, break the network): two events in the passing runs, which is an unplug and
  a replug, or an event and the network's failure; signals are not counted.
* *Handshake*: `maxSudoTries` has its real value; a rejection behind a line of chatter
  needs two lines of output under way.
* *RemoteCommand*: three lines that the payload prints (`MaxLines`) and three lines under
  way (`MaxOutput`) let reading, printing and the ends of ssh and the operation overlap.
* *Commands*: two status files with three ports, two of them on one hub, so that two
  attaches can want one port and a detach can find what it wants in either file. `Crews`
  bounds which commands meet: two attaches and a detach, an attach and two
  detaches, an attach and a reset, an attach and a list. Reset and list only read what
  others change, so their races are with the device tree, which changes only when one of
  them is in the crew; it has a hub with a device behind it, a port with two digits
  whose device is a hub without the word 090000, and the devices of the ports, one of which
  has that word in a string. `MaxDevnum` allows two devices to come: one that comes
  back and is mistaken for another, or one that appears while a second is imported.
  `Patterns` picks everything or two devices, one of them imported.
* *Keep*: a quarter of a second per tick; durations on both sides of each boundary
  of the arithmetic (zero, half a second, a second, each value of the backoff, a
  minute). The history counters saturate at 5, where the backoff has reached its
  cap.

Runs do not check deadlock (`CHECK_DEADLOCK FALSE`) because in all of these systems
every process may have finished; that nothing gets stuck before is what the
liveness properties say.

## Fairness

Weak fairness of each process: a goroutine or process with something to do gets to
do it. In Exporter that is each attach, detach and unbind step, and the
stub's own event handler (a kernel thread); no fairness is assumed of peers
hanging up, of commands being typed or of plugs. In the sessions the processes,
ssh's relaying of connections, of closes and of the end of the channel, and ssh's
exit when nothing is left; none of the network failing, of port detaches, of
unplugging, or of system calls failing. Weak fairness of a process with several
enabled steps may starve one of them: a poll loop may choose to see a hangup late,
but a hangup stays visible, and each round removes one. In Handshake the deadline
has its own fairness since chatter does not postpone it; the remote side, the user at the
terminal and the write of the payload have none. Nor has `startRemote` in ReverseSession,
for those two. Commands
has safety properties only: its commands are loops over what they have read, with no
waiting.
In Keep a session need not end by itself, except after a signal. That is
`SignalStops` of ReverseSession, with its condition: `StopsOnSignal` holds as far as
`startRemote` returns.

## Proofs

Every safety property that a passing run checks is a theorem here: it holds for all
constants that the modules' assumptions admit, for instance for any number of devices,
connections and commands, and for all interleavings. All are proved from an inductive
invariant that TLC had checked first.

### Exporter (`ExporterProofs`, `CustodyProofs`)

| theorem | statement |
|---|---|
| `TypeCorrect` | `Spec => []TypeOK` |
| `DriverlessIsOwned` | `Spec => []DriverlessOwned`, hot-plugging included |
| `HeldStaysLive` | `Spec => []HeldIsLive`, hot-plugging included |
| `ExportIsOwned` | `Spec => []ExportOwned`, for the devices that are not in `Hotplug` |
| `DetachDrops` | `Spec => []DetachedIsDropped` if `Hotplug = {}` |
| `ExporterKeepsCustody` | `Spec => Kept`: Exporter implements Custody |
| `CustodyHolds` (CustodyProofs) | `CustodySpec => []CustodyInv` |

The assumptions are those of the modules on their constants: the connections are
the holders, holders and unbinders differ, `NoConn` and `NoDevice` are no members. The sets
need not be finite.

`DriverlessOwned` is not inductive: an attach at `bind` whose row another process
has deleted fails, and would leave the device with nobody. `DriverlessInv` says that
a driverless device has a process at `add`, `del`, `rebind` or `settle`, or one at
`bind` whose row is still there, unless it is `Abandoned`: whoever deletes the row is then at
`rebind`, and so still ahead of its own reprobe.

`HeldIsLive` rests on `SocketInv`: a stub is idle exactly when it
has no connection, and otherwise its device is on usbip-host and the connection
belongs to a holder at `held`, `detach` or `left` for that very device. The lemma
`SocketsAccounted` gives it for every reachable state; `HeldIsLive` is inductive with
it, since `conn[cur[h]] = h` is undone only by steps that also put `h` among those
that hung up.

`ExportOwned` is inductive with `TypeOK` and `SocketInv`. It needs that a
device gets on usbip-host only by a holder's `bind`, and that a holder leaves `sockfd`,
`held` or `detach` for good only when the device is off
usbip-host or another is responsible: a device in `Hotplug` is excepted, since it may
come back, be caught by a leftover row and have nobody responsible.

`DetachDrops` rests on `DroppedInv`: while a connection is the only one to deal with its
device, the device's row stays only as long as the device is on usbip-host and the
detach is still to come, or until an unbind command that came first has deleted it. With
hot-plugging it is false, which is the run ExporterUnplugged.

`ExporterKeepsCustody` is the refinement. Its
invariant `IndInv` joins `TypeOK`, `SocketInv`, `DriverlessInv` and `ExportOwned` with
`PresentInv` (a device that is not in `Hotplug` is always there). The lemmas before it
name the ways in which a step of Exporter may look from outside (a duty taken, laid
down or kept, a device fetched, returned, lent, recalled, dropped), and there is a lemma
for each step of an attach, of a detach and of the kernel. `DriverlessInv` is what lets a
process lay down a device: when it leaves `settle` or fails at `bind`, either the
device is home or the process that it names answers for it.
`CustodyHolds` says what follows for every implementation of Custody: no
device is away with nobody to answer for it, and a loan is to somebody who does. Its
assumption is `CustodyConstants`, which Exporter's own assumptions imply under the mapping.

### Sessions (`SshLinkProofs`, `ForwardProofs`, `ReverseProofs`)

| theorem | statement |
|---|---|
| `TypeCorrect` (ForwardProofs) | `Spec => []TypeOK` of ForwardSession |
| `DevicesAreWatched` | `Spec => []Watched` |
| `EndsArePaired` | `Spec => []Paired` of ForwardSession |
| `TypeCorrect` (ReverseProofs) | `Spec => []TypeOK` of ReverseSession |
| `NoneLeftBehind` | `Spec => []LingerLeavesNone` |
| `OneDeviceIsPaired` | `Spec => [](~opts.vhub => Paired)` of ReverseSession |

The assumption is `LinkAssumption`: `Devices` is finite (a payload makes a list of it), the
bounds are numbers, `NoConn` and `NoDevice` are no members, and no device is one of the other
lines (`"socket"`, `"eof"`). `SshLinkProofs` takes `LinkTypeOK`
apart and says of each operator that the two sessions share what it keeps.

* `Watched` is proved from an invariant about rows (`WatchInv`), since a device may come
  and go while its row stays: a device on usbip-host has a row (`Rowed`), and a device with the
  row `match`, present or not, has a socket that is held or is excused (`RowWatched`). In
  one-device mode nothing is attached until the one device is, so a failure before has
  nothing to lose, and after it the payload only hands over (`OneDevice`). There are no
  linger's sockets before the payload's end (`ChildLast`), so that handing over loses none.
* `Paired` is, in ForwardSession, a matter of the channel: between payload and local process
  at most one device is under way, as a line, as a connection to be relayed or as one to be
  accepted, and it is the one for whose connection the payload waits (`OneUnderWay`). A late
  connection would break that, but a timeout ends the payload. `UsingMeans` adds
  that a connection in use stands for its device on the local side too, from the dial on.
* In ReverseSession a timeout under `--vhub` is a warning only, and `Paired` is violated
  (ReverseMispaired). `OneDeviceIsPaired` shows that this takes `--vhub`: otherwise all the places
  that can mention a device, taken together, mention at most one (`OneNamed`).
* `LingerLeavesNone` follows from `KeptInv`: a device on usbip-host has a row; until the process
  fails it holds a socket of each device whose row is `match`, that is, which it has attached and
  not tried to detach; and once `reverseLinger` is over it holds none.

### Handshake and RemoteCommand (`RemoteCommandProofs`)

| theorem | statement |
|---|---|
| `CommandTypeCorrect` | `CommandSpec => []CommandTypeOK` |
| `AttemptsTakeTurns` | `CommandSpec => []OneSsh` |
| `TriesAreCapped` | `CommandSpec => []TriesCapped` |
| `StreamIsFramed` | `CommandSpec => []Framed` |
| `ExitStatusIsTrue` | `CommandSpec => []ExitStatus` |

The assumptions are that `maxSudoTries`, `MaxOutput` and `MaxLines` are numbers, the first two
not 0. `Typed` says more than the types: there is room for the two writes of
`dialRemote`, and the password is the first of them. `TriesInv` separates the modes: only
`--sudo-prompt` comes back to `dial`, and never with its tries used up. `FramedInv` says where the
password may be: in front of the stream, while sudo has yet to read; in every other state the
stream holds the blob alone. `ExitStatus` rests on three facts that hold whatever ends first, the
operation, ssh or the link: the operation runs only after an attempt that
succeeded (`JobInv`); each line that it has said has been shown or waits in the output (`CountInv`,
a cardinality, with lemmas on what appending and reading do to it); ssh ends with 0 only
if the operation did, and `waitExit` maps no other end to 0 (`StatusInv`).

### Importer, reset and list (`CommandsProofs`)

| theorem | statement |
|---|---|
| `TypeCorrect` | `Spec => []TypeOK`, of VhciPorts and Commands |
| `AttachFailsOnlyBeaten` | `Spec => []AttachFailsBeaten` |
| `DetachReachesAll` | `Spec => []DetachReaches` |
| `DetachFailsOnlyStale` | `Spec => []DetachFailsStale` |
| `ResetsOnlySelected` | `Spec => []OnlySelected` |
| `ResetIsComplete` | `Spec => []ResetComplete` |
| `ListsInTreeOrder` | `Spec => []ListsTree` |

Any number of status files, ports, attaches, detaches, resets and lists, and any finite device
tree with busids of any length. The assumptions on it are what `dvKey` and `Glob` need: each
number fits four bytes, and no two busids are spelt alike; `MaxDevnum`, the bound on device numbers,
allows one for each place.

* *Ports*: a command decides on what it read in another state, so the invariant relates
  the ports now to those at its beginning. `AttachRaced`: a port that was free then
  is free, has been taken since, or is in a file that is still to be read. `DetachRaced`: a wanted
  device that was up then is gone, or is up and in a file or on a line that is still
  ahead; a line that has been read shows a port that is in use, or one that was freed
  since the read. One lemma (`ChangesNoted`) covers
  whatever others do to a port meanwhile.
* *reset and list*: `settled` holds the devices that were there at the beginning. `ResetRight`
  and `ListRight` say that what has been found, reset and printed of those is right and in order;
  `ResetDue` and `ListDue` that each of them which stayed is in the part still to do or in the part
  done. Both parts change at once when a busid is read, which is why they are one invariant.
* *Order*: `ListsTree` needs that sorting by `dvKey` is the order of the tree. The lemmas prove it
  without induction over busids: `Sorting` (`Sorted` lists a finite set in the order of an
  injective key), `BytesOrder` (the order of four bytes is that of their number) and `KeyOrder`
  (the first byte in which two keys differ lies in the first number in which
  the busids do, or where one of them ends).

### Keep (`KeepProofs`)

| theorem | statement |
|---|---|
| `TypeCorrect` | `Spec => []TypeOK` |
| `AtMostOneMoreSession` | `Spec => []OneMoreSession` |
| `BackoffSpreads` | `Spec => []Spreads` |
| `BackoffForgives` | `Spec => []Forgives` |

For any even number of ticks in a second and any set of session lengths. `BackoffInv` puts `wait`
between what the quick sessions in a row require at least and what all sessions since a long one
allow at most: the pauses are bounded on both sides although only `wait` is kept.
`OneMoreSession` needs where the loop is as well (`LateInv`): the one session was let in before
the signal.

### What stays with TLC

* The liveness properties of all modules. Fairness is defined by ENABLED, which the prover
  does not handle.
* `ConnsSuffice`, which is about the number of connections of an instance.
* The runs that expect a violation: their properties are false.

## Where the code and its documentation disagree

* *ExporterUnplugged*: a device unplugged while exported keeps its `match_busid`
  row, since `exporterDetach` returns when `unbind` fails (usbip.go:190); its comment
  says that it drops the device from future auto-matching.
* *ForwardStranded*: `vhubLoop` ends by `remoteFatalf` when one device fails
  (remoteside.go:297-299), also because the channel has died while it waits for the
  connection; the sockets it holds are closed and their devices stay on usbip-host.
  Its comment promises a linger child.
* *ForwardMissed*: uevents count from the moment the socket is opened
  (remoteside.go:236), after the scan and the first attaches; a device that appears in
  between is never attached, against README.md:89-90.
* *ReverseMispaired*: in `--vhub` an accept timeout is only a warning
  (reverseside.go:290-292); the late connection stays in the backlog and is taken for
  the next device's.
* *ReverseStranded*: an error between the first attach and `reverseLinger` returns
  without `rebindAll` (reverseside.go:145, 156), against reverseside.go:49-50.

## What is not modelled

* A partial failure of `exporterAttach` inside a session, which Exporter has.
* Pattern matching and sysfs parsing, what list prints of a device, flags, syslog, the
  embedding of payloads, daemonizing: sequential code over strings, or I/O, covered by
  the repository's unit tests.
* The uevent socket of `reverseLinger`, which is never closed (reverseside.go:211): `keep
  -r --vhub` keeps one descriptor per session.
* The reuse of device numbers, which wrap at 127 on a bus: a reset whose device is replaced
  between reset.go:36 and 45 could then open another device's node.
* The descriptor count of a connection, as said above; the uid of sockets
  (`chownForSSH`); the temporary directories, which in the payload every exit of a
  forward session removes by one of two functions (remoteside.go:51-64). The local
  one stays behind when a reverse session exits on a signal (reverseside.go:246),
  since `os.Exit` runs no deferred call.
* What a stopped process would have to do about a signal during `startRemote`, and any bound on
  the write of the payload: the code has neither.
* `--sudo-prompt` on a host that would not ask: the bootstrap reads the password
  as the size and fails. `Framed` excepts it.

Two comments are at odds with the code in ways that no run is spent on. `dvKey` swaps ':' and '.' so that '.' "sorts before '-'" (list.go:35-36), but ':' sorts
after '-'; the two never meet at one position of two busids, and the order is that of
the tree (`ListsTree`). "Hubs never match" (spec.go:56-57) holds of hubs whose interface is
090000; one with multiple transaction translators (090001, 090002) passes `findDev`, as
`<<1, 10>>` does in MCCommands. `exporterAttach` has a test of its own for it (usbip.go:143),
but `resetMatching` has none, so such a hub is reset with all that is behind it.

## Plan

Done: Exporter first, since everything else relies on it; the sessions, forward before
reverse; Handshake and Keep; Custody and its refinement; VhciPorts with reset and list
(Commands); RemoteCommand. Theorems for every safety property of the passing runs. Left, in
this order:

1. The converse of the violated runs, as `OneDeviceIsPaired` is for ReverseMispaired:
   which conditions make `EndRebinds` and `DeadChannelHandsOver` hold.
2. The safety half of the liveness properties: what holds whenever a process waits,
   for instance that a payload which waits for a connection has a local process that still has
   the line, the dial or the connection.
3. A refinement of Custody by the sessions, so that what Exporter promises of
   one connection carries over to a session's sockets.
