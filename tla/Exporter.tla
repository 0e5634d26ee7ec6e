------------------------------- MODULE Exporter -------------------------------
(***************************************************************************)
(* src/usbip.go's exporter side under concurrency: any number of accepted  *)
(* connections being attached, held and detached (exporterAttach, the      *)
(* lingerSock that holds the result, exporterDetach), and any number of    *)
(* "unbind" commands (unbindMatching), all on one host.  Each step is one  *)
(* sysfs access, which is where the processes interleave.                  *)
(***************************************************************************)
EXTENDS UsbipHost, FiniteSets

CONSTANTS Holders,    \* accepted connections, each attached to one device
          NoLinger,   \* those of --no-linger sessions, never held
          Unbinders,  \* runs of unbindMatching
          NoDevice,
          Hotplug     \* the devices that may be unplugged and replugged

ASSUME HoldersAssumption == Conns = Holders /\ NoLinger \subseteq Holders
ASSUME UnbindersAssumption == Holders \cap Unbinders = {} /\ NoConn \notin Unbinders
ASSUME NoDeviceAssumption == NoDevice \notin Devices
ASSUME HotplugAssumption == Hotplug \subseteq Devices

Procs == Holders \cup Unbinders

VARIABLES
  pc,      \* the sysfs access each process does next
  cur,     \* the device it does it to
  unread,  \* unbindMatching: devices of findDev whose status is not read yet
  bound    \* unbindMatching: the list of devices found bound

vars == <<hostVars, pc, cur, unread, bound>>

AttachSteps == {"status", "reset", "prepare", "unbind", "add", "bind", "sockfd"}
DetachSteps == {"detach", "del", "rebind", "settle"}
HolderPC == {"idle", "held", "left", "full", "unprobed", "failed", "done"} \cup AttachSteps \cup DetachSteps
UnbinderPC == {"idle", "scan", "next", "unprobed", "failed", "done"} \cup DetachSteps

TypeOK ==
  /\ HostTypeOK
  /\ pc \in [Procs -> HolderPC \cup UnbinderPC]
  /\ \A h \in Holders : pc[h] \in HolderPC
  /\ \A u \in Unbinders : pc[u] \in UnbinderPC
  /\ cur \in [Procs -> Devices \cup {NoDevice}]
  /\ \A p \in Procs : pc[p] \notin {"idle", "scan", "next", "failed", "done"} => cur[p] \in Devices
  /\ unread \in [Unbinders -> SUBSET Devices]
  /\ bound \in [Unbinders -> SUBSET Devices]

Init ==
  /\ HostInit
  /\ pc = [p \in Procs |-> "idle"]
  /\ cur = [p \in Procs |-> NoDevice]
  /\ unread = [u \in Unbinders |-> {}]
  /\ bound = [u \in Unbinders |-> {}]

Goto(p, label) == pc' = [pc EXCEPT ![p] = label]
At(p, label) == pc[p] = label
keepLists == UNCHANGED <<unread, bound>>

-----------------------------------------------------------------------------
(* exporterAttach(sockfd, busid, unmount), by the process that accepted h *)

AttachStart(h, d) ==
  /\ At(h, "idle") /\ Goto(h, "status")
  /\ cur' = [cur EXCEPT ![h] = d]
  /\ UNCHANGED hostVars /\ keepLists

\* The usbip_status it reads decides what the attach does next.
ReadStatus(h) ==
  /\ At(h, "status")
  /\ \/ UsbipStatus(cur[h]) = sdevStUsed /\ Goto(h, "reset")
     \/ UsbipStatus(cur[h]) = sdevStAvailable /\ Goto(h, "sockfd")
     \/ UsbipStatus(cur[h]) \notin {sdevStUsed, sdevStAvailable} /\ Goto(h, "prepare")
  /\ UNCHANGED <<hostVars, cur>> /\ keepLists

\* The device is exported already: have the stub drop that connection first.
ResetStub(h) ==
  /\ At(h, "reset")
  /\ \/ TearDown(cur[h]) /\ Goto(h, "sockfd")
     \/ ~CanTearDown(cur[h]) /\ Goto(h, "failed") /\ UNCHANGED hostVars
  /\ UNCHANGED cur /\ keepLists

\* Load usbip-host, then look for a driver and unmount its filesystems: either
\* can fail, and nothing has changed yet when it does.
Prepare(h) ==
  /\ At(h, "prepare")
  /\ \/ Goto(h, IF HasDriver(cur[h]) THEN "unbind" ELSE "add")
     \/ Goto(h, "failed")
  /\ UNCHANGED <<hostVars, cur>> /\ keepLists

\* driver/unbind is resolved now: it unbinds whichever driver is bound by now.
AttachUnbind(h) ==
  /\ At(h, "unbind")
  /\ \/ (UnbindUsb(cur[h]) \/ UnbindStub(cur[h])) /\ Goto(h, "add")
     \/ ~HasDriver(cur[h]) /\ Goto(h, "failed") /\ UNCHANGED hostVars
  /\ UNCHANGED cur /\ keepLists

\* Without a row of its own the device may find the table full of others' rows.
AttachAdd(h) ==
  /\ At(h, "add")
  /\ \/ MatchAdd(cur[h]) /\ Goto(h, "bind")
     \/ entry[cur[h]] = "none" /\ Goto(h, "full") /\ UNCHANGED hostVars
  /\ UNCHANGED cur /\ keepLists

AttachBind(h) ==
  /\ At(h, "bind")
  /\ \/ BindStub(cur[h]) /\ Goto(h, "sockfd")
     \/ ~CanBind(cur[h]) /\ Goto(h, "failed") /\ UNCHANGED hostVars
  /\ UNCHANGED cur /\ keepLists

\* Mutant: the result of the write to usbip_sockfd is ignored.
AttachSockfdUnchecked(h) ==
  /\ At(h, "sockfd")
  /\ Goto(h, IF h \in NoLinger THEN "left" ELSE "held")
  /\ Export(cur[h], h) \/ (~CanExport(cur[h]) /\ UNCHANGED hostVars)
  /\ UNCHANGED cur /\ keepLists

\* The hand-over; --no-linger closes our end at once, otherwise it is held.
AttachSockfd(h) ==
  /\ At(h, "sockfd")
  /\ \/ Export(cur[h], h) /\ Goto(h, IF h \in NoLinger THEN "left" ELSE "held")
     \/ ~CanExport(cur[h]) /\ Goto(h, "failed") /\ UNCHANGED hostVars
  /\ UNCHANGED cur /\ keepLists

AttachStep(h) ==
  \/ ReadStatus(h) \/ ResetStub(h) \/ Prepare(h) \/ AttachUnbind(h)
  \/ AttachAdd(h) \/ AttachBind(h) \/ AttachSockfd(h)

-----------------------------------------------------------------------------
(* exporterDetach(busid), by the poll loop holding h or by an unbind command *)

\* Mutant: a hung-up socket is closed and forgotten.
HangupForgets(h) ==
  /\ At(h, "held") /\ h \in hungup /\ Goto(h, "done")
  /\ UNCHANGED <<hostVars, cur>> /\ keepLists

\* The poll loop sees the held socket hang up.
Hangup(h) ==
  /\ At(h, "held") /\ h \in hungup /\ Goto(h, "detach")
  /\ UNCHANGED <<hostVars, cur>> /\ keepLists

\* Mutant: unbindMatching's loop shared with the poll loops.
ReturnNext(p) == Goto(p, "next")

\* Where exporterDetach returns to: it has no more to do for the device.
Return(p) == Goto(p, IF p \in Unbinders THEN "next" ELSE "done")

\* Mutant: the driver core is trusted to reprobe, so unbind is all there is.
DetachUnbindOnly(p) ==
  /\ At(p, "detach") /\ Return(p)
  /\ UnbindStub(cur[p]) \/ (driver[cur[p]] # "usbip-host" /\ UNCHANGED hostVars)
  /\ UNCHANGED cur /\ keepLists

\* Mutant: match_busid del and rebind are skipped, a reprobe being enough.
DetachUnbindSettles(p) ==
  /\ At(p, "detach")
  /\ \/ UnbindStub(cur[p]) /\ Goto(p, "settle")
     \/ driver[cur[p]] # "usbip-host" /\ Return(p) /\ UNCHANGED hostVars
  /\ UNCHANGED cur /\ keepLists

\* Mutant: ENODEV ends the whole unbind command.
DetachUnbindStrict(p) ==
  /\ At(p, "detach")
  /\ \/ UnbindStub(cur[p]) /\ Goto(p, "del")
     \/ driver[cur[p]] # "usbip-host" /\ Goto(p, "failed") /\ UNCHANGED hostVars
  /\ UNCHANGED cur /\ keepLists

\* The one step that may fail for good; ENODEV ends an unbind of this device.
DetachUnbind(p) ==
  /\ At(p, "detach")
  /\ \/ UnbindStub(cur[p]) /\ Goto(p, "del")
     \/ driver[cur[p]] # "usbip-host" /\ Return(p) /\ UNCHANGED hostVars
  /\ UNCHANGED cur /\ keepLists

DetachDel(p) ==
  /\ At(p, "del") /\ Goto(p, "rebind")
  /\ MatchDel(cur[p])
  /\ UNCHANGED cur /\ keepLists

DetachRebind(p) ==
  /\ At(p, "rebind") /\ Goto(p, "settle")
  /\ Rebind(cur[p])
  /\ UNCHANGED cur /\ keepLists

\* Mutant: no generic reprobe once the two seconds are over.
SettleDriverGivesUp(p) ==
  /\ At(p, "settle") /\ Return(p)
  /\ UNCHANGED <<hostVars, cur>> /\ keepLists

\* Polling for a driver; once the two seconds are over, reprobe.  A reprobe that
\* fails is the last of the device, and of an unbind command; that of a device
\* which is gone gives ENODEV.
SettleDriver(p) ==
  /\ At(p, "settle")
  /\ \/ HasDriver(cur[p]) /\ Return(p) /\ UNCHANGED hostVars
     \/ ~HasDriver(cur[p]) /\ Return(p) /\ Probe(cur[p])
     \/ driver[cur[p]] = "none" /\ Goto(p, "unprobed") /\ UNCHANGED hostVars
  /\ UNCHANGED cur /\ keepLists

DetachStep(p) ==
  DetachUnbind(p) \/ DetachDel(p) \/ DetachRebind(p) \/ SettleDriver(p)

-----------------------------------------------------------------------------
(* unbindMatching(pat) *)

UnbindStart(u, matching) ==
  /\ At(u, "idle") /\ Goto(u, "scan")
  /\ unread' = [unread EXCEPT ![u] = matching]
  /\ UNCHANGED <<hostVars, cur, bound>>

ScanStatus(u, d) ==
  /\ At(u, "scan") /\ d \in unread[u]
  /\ unread' = [unread EXCEPT ![u] = @ \ {d}]
  /\ bound' = [bound EXCEPT ![u] = IF UsbipStatus(d) # 0 THEN @ \cup {d} ELSE @]
  /\ UNCHANGED <<hostVars, pc, cur>>

ScanEnd(u) ==
  /\ At(u, "scan") /\ unread[u] = {}
  /\ Goto(u, IF bound[u] = {} THEN "failed" ELSE "next")
  /\ UNCHANGED <<hostVars, cur>> /\ keepLists

UnbindNext(u, d) ==
  /\ At(u, "next") /\ d \in bound[u] /\ Goto(u, "detach")
  /\ cur' = [cur EXCEPT ![u] = d]
  /\ bound' = [bound EXCEPT ![u] = @ \ {d}]
  /\ UNCHANGED <<hostVars, unread>>

UnbindEnd(u) ==
  /\ At(u, "next") /\ bound[u] = {} /\ Goto(u, "done")
  /\ cur' = [cur EXCEPT ![u] = NoDevice]
  /\ UNCHANGED hostVars /\ keepLists

UnbindStep(u) ==
  \/ ScanEnd(u) \/ UnbindEnd(u)
  \/ \E d \in Devices : ScanStatus(u, d) \/ UnbindNext(u, d)

-----------------------------------------------------------------------------
\* The importer, or the ssh forwarding in between, closes the connection.
PeerHangup(h) ==
  /\ ~At(h, "idle") /\ h \notin hungup
  /\ hungup' = hungup \cup {h}
  /\ UNCHANGED <<driver, entry, stub, conn, pc, cur>> /\ keepLists

Plugging(d) ==
  /\ d \in Hotplug
  /\ Unplug(d) \/ Replug(d)
  /\ UNCHANGED <<pc, cur>> /\ keepLists

StubWorks(d) == StubEvent(d) /\ UNCHANGED <<pc, cur>> /\ keepLists

Next ==
  \/ \E h \in Holders : \/ AttachStep(h) \/ Hangup(h) \/ PeerHangup(h)
                        \/ \E d \in Devices : AttachStart(h, d)
  \/ \E u \in Unbinders : \/ UnbindStep(u)
                          \/ \E m \in SUBSET Devices \ {{}} : UnbindStart(u, m)
  \/ \E p \in Procs : DetachStep(p)
  \/ \E d \in Devices : StubWorks(d) \/ Plugging(d)

\* A started process runs on, and so does the kernel; nobody has to connect,
\* hang up, type a command or touch a plug.
Fairness ==
  /\ \A h \in Holders : WF_vars(AttachStep(h)) /\ WF_vars(Hangup(h))
  /\ \A u \in Unbinders : WF_vars(UnbindStep(u))
  /\ \A p \in Procs : WF_vars(DetachStep(p))
  /\ \A d \in Devices : WF_vars(StubWorks(d))

Spec == Init /\ [][Next]_vars
FairSpec == Spec /\ Fairness

-----------------------------------------------------------------------------
(* What every interleaving must keep *)

Mid(p, d, steps) == cur[p] = d /\ pc[p] \in steps
Abandoned(d) == \E p \in Procs : Mid(p, d, {"full", "unprobed"})

\* A device without a driver is useless to both machines, so somebody must be
\* about to give it one: an attach between unbind and bind (usbip.go:163-170)
\* or a detach that has not settled it yet (usbip.go:189-195).  Only an attach
\* that met a full match_busid table, and a detach whose reprobe failed, leave
\* their device without.
DriverlessOwned ==
  \A d \in Devices : driver[d] = "none" =>
     Abandoned(d) \/ \E p \in Procs : Mid(p, d, {"add", "bind", "del", "rebind", "settle"})

\* A device on usbip-host is kept from its own machine, so unless it may have
\* been replugged into a row that was left, some connection is responsible for
\* it: one about to hand its socket over, one whose socket is being watched, or
\* one of a --no-linger session, which never returns it.
ExportOwned ==
  \A d \in Devices \ Hotplug : driver[d] = "usbip-host" =>
     \E h \in Holders : Mid(h, d, {"sockfd", "held", "detach", "left"})

\* The poll loops wait for a hangup and nothing else, so a socket that is held
\* is the one the stub uses, or poll already reports it: no interleaving of
\* takeovers, unbinds and unplugs leaves a watcher asleep on a dead device.
HeldIsLive ==
  \A h \in Holders : At(h, "held") => conn[cur[h]] = h \/ h \in hungup

\* exporterDetach "drop[s] it from future auto-matching" (usbip.go:177-178): a
\* connection that was detached, on a device nothing else has touched, leaves
\* no match_busid row behind.
DetachedIsDropped ==
  \A h \in Holders :
     /\ pc[h] \in {"done", "unprobed"}
     /\ \A p \in Procs \ {h} : cur[p] # cur[h]
     => entry[cur[h]] # "match"

\* No device stays without a driver: the two-second fallback of settleDriver
\* covers the races in which usbip-host's own rebind does nothing.  Only a full
\* table and a failed reprobe leave a device that way.
DriverSettles ==
  \A d \in Devices : driver[d] = "none" ~> driver[d] # "none" \/ Abandoned(d)

\* Once the importer is gone the device comes back to its own machine, unless
\* it is unplugged, or another connection that has not hung up is using it then,
\* or one of a --no-linger session has taken it, or it is without a driver for
\* good.  After a takeover the same holds of the new holder.
HangupComesHome ==
  \A h \in Holders, d \in Devices :
     (At(h, "held") /\ cur[h] = d /\ h \in hungup) ~>
        \/ driver[d] \in {"usb", "absent"}
        \/ \E g \in Holders \ {h} : conn[d] = g /\ g \notin hungup
        \/ \E g \in Holders : Mid(g, d, {"left"})
        \/ driver[d] = "none" /\ Abandoned(d)

\* Whatever the unbind command saw bound it takes off usbip-host, even when it
\* loses the race for one device to that device's own linger; only a failed
\* reprobe of a device before it keeps it from that.
UnbindReleases ==
  \A u \in Unbinders, d \in Devices :
     d \in bound[u] ~> driver[d] # "usbip-host" \/ At(u, "unprobed")

-----------------------------------------------------------------------------
(* Custody: the steps at which a process answers for its device *)

Answering == {"add", "bind", "sockfd", "full", "unprobed", "held", "left"} \cup DetachSteps

Own == Devices \ Hotplug
Place == [d \in Own |-> IF driver[d] = "usb" THEN "home" ELSE "away"]
User == [d \in Own |-> conn[d]]
DutyOf(label, d) == IF label \in Answering /\ d \notin Hotplug THEN d ELSE NoDevice
Duty == [p \in Procs |-> DutyOf(pc[p], cur[p])]

C == INSTANCE Custody WITH
  Devices <- Own, Agents <- Procs, place <- Place, user <- User, told <- hungup, duty <- Duty

\* Attaches, lingers and unbind commands, for all their interleavings, amount
\* to passing custody of devices on without a gap and without a silent loss.
Kept == C!CustodySpec
=============================================================================
