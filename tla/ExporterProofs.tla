--------------------------- MODULE ExporterProofs ---------------------------
(***************************************************************************)
(* The safety invariants of Exporter, and that it implements Custody,      *)
(* proved for any number of devices, connections and unbind commands.      *)
(***************************************************************************)
EXTENDS Exporter, TLAPS

USE HoldersAssumption, UnbindersAssumption, NoDeviceAssumption, NoConnAssumption

\* Every action of a process leaves the process in a state of its own kind,
\* and every kernel effect leaves the host well-typed.
THEOREM TypeCorrect == Spec => []TypeOK
<1> USE DEF TypeOK, HostTypeOK, Procs, HolderPC, UnbinderPC, AttachSteps, DetachSteps,
            Goto, At, keepLists, hostVars
<1>1. Init => TypeOK
  BY DEF Init, HostInit
<1>2. TypeOK /\ [Next]_vars => TypeOK'
  <2> SUFFICES ASSUME TypeOK, [Next]_vars PROVE TypeOK'
    OBVIOUS
  <2>1. ASSUME NEW h \in Holders, AttachStep(h) PROVE TypeOK'
    <3>1. CASE ReadStatus(h)
      BY <3>1 DEF ReadStatus
    <3>2. CASE ResetStub(h)
      BY <3>2 DEF ResetStub, TearDown
    <3>3. CASE Prepare(h)
      BY <3>3 DEF Prepare
    <3>4. CASE AttachUnbind(h)
      BY <3>4 DEF AttachUnbind, UnbindUsb, UnbindStub, CutConn
    <3>5. CASE AttachAdd(h)
      BY <3>5 DEF AttachAdd, MatchAdd
    <3>6. CASE AttachBind(h)
      BY <3>6 DEF AttachBind, BindStub
    <3>7. CASE AttachSockfd(h)
      BY <3>7 DEF AttachSockfd, Export
    <3>q. QED
      BY <2>1, <3>1, <3>2, <3>3, <3>4, <3>5, <3>6, <3>7 DEF AttachStep
  <2>2. ASSUME NEW p \in Procs, DetachStep(p) PROVE TypeOK'
    <3>1. CASE DetachUnbind(p)
      BY <3>1 DEF DetachUnbind, Return, UnbindStub, CutConn
    <3>2. CASE DetachDel(p)
      BY <3>2 DEF DetachDel, MatchDel
    <3>3. CASE DetachRebind(p)
      BY <3>3 DEF DetachRebind, Rebind
    <3>4. CASE SettleDriver(p)
      BY <3>4 DEF SettleDriver, Return, Probe
    <3>q. QED
      BY <2>2, <3>1, <3>2, <3>3, <3>4 DEF DetachStep
  <2>3. ASSUME NEW u \in Unbinders, UnbindStep(u) PROVE TypeOK'
    BY <2>3 DEF UnbindStep, ScanStatus, ScanEnd, UnbindNext, UnbindEnd
  <2>4. ASSUME NEW u \in Unbinders, NEW m \in SUBSET Devices, UnbindStart(u, m) PROVE TypeOK'
    BY <2>4 DEF UnbindStart
  <2>5. ASSUME NEW h \in Holders, NEW d \in Devices, AttachStart(h, d) PROVE TypeOK'
    BY <2>5 DEF AttachStart
  <2>6. ASSUME NEW h \in Holders, Hangup(h) \/ PeerHangup(h) PROVE TypeOK'
    BY <2>6 DEF Hangup, PeerHangup
  <2>7. ASSUME NEW d \in Devices, StubWorks(d) \/ Plugging(d) PROVE TypeOK'
    BY <2>7 DEF StubWorks, StubEvent, Plugging, Unplug, Replug, CutConn
  <2>8. CASE UNCHANGED vars
    BY <2>8 DEF vars
  <2>q. QED
    BY <2>1, <2>2, <2>3, <2>4, <2>5, <2>6, <2>7, <2>8 DEF Next
<1>q. QED
  BY <1>1, <1>2, PTL DEF Spec

-----------------------------------------------------------------------------
\* DriverlessOwned says who is about to give a driverless device a driver; the
\* invariant that keeps it true also says that an attach about to bind still has
\* its match_busid row, unless a detach that will settle the device is on.
DriverlessInv ==
  \A d \in Devices : driver[d] = "none" =>
     \/ \E p \in Procs : Mid(p, d, {"add", "del", "rebind", "settle"})
     \/ entry[d] = "match" /\ \E p \in Procs : Mid(p, d, {"bind"})
     \/ Abandoned(d)

LEMMA DriverlessStep == TypeOK /\ DriverlessInv /\ [Next]_vars => DriverlessInv'
<1> SUFFICES ASSUME TypeOK, DriverlessInv, [Next]_vars,
                    NEW d \in Devices, driver'[d] = "none"
             PROVE  \/ \E p \in Procs : Mid(p, d, {"add", "del", "rebind", "settle"})'
                    \/ entry'[d] = "match" /\ \E p \in Procs : Mid(p, d, {"bind"})'
                    \/ Abandoned(d)'
  BY DEF DriverlessInv
<1> DEFINE Goal == \/ \E p \in Procs : Mid(p, d, {"add", "del", "rebind", "settle"})'
                   \/ entry'[d] = "match" /\ \E p \in Procs : Mid(p, d, {"bind"})'
                   \/ Abandoned(d)'
<1> USE DEF TypeOK, HostTypeOK, Procs, DriverlessInv, Mid, Abandoned, Goto, At, keepLists, hostVars
<1>1. ASSUME NEW h \in Holders, AttachStep(h) PROVE Goal
  <2>1. CASE ReadStatus(h)
    BY <2>1 DEF ReadStatus
  <2>2. CASE ResetStub(h)
    BY <2>2 DEF ResetStub, TearDown
  <2>3. CASE Prepare(h)
    BY <2>3 DEF Prepare
  <2>4. CASE AttachUnbind(h)
    BY <2>4 DEF AttachUnbind, UnbindUsb, UnbindStub, CutConn
  <2>5. CASE AttachAdd(h)
    BY <2>5 DEF AttachAdd, MatchAdd
  <2>6. CASE AttachBind(h)
    BY <2>6 DEF AttachBind, BindStub, CanBind
  <2>7. CASE AttachSockfd(h)
    BY <2>7 DEF AttachSockfd, Export
  <2>q. QED
    BY <1>1, <2>1, <2>2, <2>3, <2>4, <2>5, <2>6, <2>7 DEF AttachStep
<1>2. ASSUME NEW p \in Procs, DetachStep(p) PROVE Goal
  <2>1. CASE DetachUnbind(p)
    BY <2>1 DEF DetachUnbind, Return, UnbindStub, CutConn
  <2>2. CASE DetachDel(p)
    BY <2>2 DEF DetachDel, MatchDel
  <2>3. CASE DetachRebind(p)
    BY <2>3 DEF DetachRebind, Rebind
  <2>4. CASE SettleDriver(p)
    BY <2>4 DEF SettleDriver, Return, Probe, HasDriver
  <2>q. QED
    BY <1>2, <2>1, <2>2, <2>3, <2>4 DEF DetachStep
<1>3. ASSUME NEW u \in Unbinders, UnbindStep(u) PROVE Goal
  BY <1>3 DEF UnbindStep, ScanStatus, ScanEnd, UnbindNext, UnbindEnd
<1>4. ASSUME NEW u \in Unbinders, NEW m \in SUBSET Devices, UnbindStart(u, m) PROVE Goal
  BY <1>4 DEF UnbindStart
<1>5. ASSUME NEW h \in Holders, NEW e \in Devices, AttachStart(h, e) PROVE Goal
  BY <1>5 DEF AttachStart
<1>6. ASSUME NEW h \in Holders, Hangup(h) \/ PeerHangup(h) PROVE Goal
  BY <1>6 DEF Hangup, PeerHangup
<1>7. ASSUME NEW e \in Devices, StubWorks(e) \/ Plugging(e) PROVE Goal
  BY <1>7 DEF StubWorks, StubEvent, Plugging, Unplug, Replug, CutConn
<1>8. CASE UNCHANGED vars
  BY <1>8 DEF vars
<1>q. QED
  BY <1>1, <1>2, <1>3, <1>4, <1>5, <1>6, <1>7, <1>8 DEF Next

\* However attaches, detaches, unbind commands and plugs interleave, a device
\* without a driver has a process that is about to give it one, or met a full
\* match_busid table or a failing reprobe (usbip.go:163-170, 189-195, 243).
THEOREM DriverlessIsOwned == Spec => []DriverlessOwned
<1>1. Init => DriverlessInv
  BY DEF Init, HostInit, DriverlessInv
<1>2. DriverlessInv => DriverlessOwned
  BY DEF DriverlessInv, DriverlessOwned, Mid, Abandoned
<1>q. QED
  BY <1>1, <1>2, TypeCorrect, DriverlessStep, PTL DEF Spec

-----------------------------------------------------------------------------
\* The stub uses a socket exactly when it is not idle, and then the connection
\* behind it is one that has handed its socket over and not finished detaching.
SocketInv ==
  \A d \in Devices :
     /\ stub[d] = "idle" <=> conn[d] = NoConn
     /\ stub[d] # "idle" =>
          /\ driver[d] = "usbip-host"
          /\ Mid(conn[d], d, {"held", "detach", "left"})

LEMMA SocketStep == TypeOK /\ SocketInv /\ [Next]_vars => SocketInv'
<1> SUFFICES ASSUME TypeOK, SocketInv, [Next]_vars PROVE SocketInv'
  OBVIOUS
<1> USE DEF TypeOK, HostTypeOK, Procs, Mid, Goto, At, keepLists, hostVars, SocketInv
<1>1. ASSUME NEW h \in Holders, AttachStep(h) PROVE SocketInv'
  <2>1. CASE ReadStatus(h) \/ Prepare(h) \/ ResetStub(h)
    BY <2>1 DEF ReadStatus, UsbipStatus, sdevStUsed, sdevStAvailable, Prepare, ResetStub,
                TearDown, CanTearDown
  <2>2. CASE AttachUnbind(h)
    BY <2>2 DEF AttachUnbind, UnbindUsb, UnbindStub, CutConn
  <2>3. CASE AttachAdd(h)
    BY <2>3 DEF AttachAdd, MatchAdd
  <2>4. CASE AttachBind(h)
    BY <2>4 DEF AttachBind, BindStub, CanBind
  <2>5. CASE AttachSockfd(h)
    BY <2>5 DEF AttachSockfd, Export, CanExport
  <2>q. QED
    BY <1>1, <2>1, <2>2, <2>3, <2>4, <2>5 DEF AttachStep
<1>2. ASSUME NEW p \in Procs, DetachStep(p) PROVE SocketInv'
  <2>1. CASE DetachUnbind(p)
    BY <2>1 DEF DetachUnbind, Return, UnbindStub, CutConn
  <2>2. CASE DetachDel(p)
    BY <2>2 DEF DetachDel, MatchDel
  <2>3. CASE DetachRebind(p)
    BY <2>3 DEF DetachRebind, Rebind
  <2>4. CASE SettleDriver(p)
    BY <2>4 DEF SettleDriver, Return, Probe
  <2>q. QED
    BY <1>2, <2>1, <2>2, <2>3, <2>4 DEF DetachStep
<1>3. ASSUME NEW u \in Unbinders, UnbindStep(u) PROVE SocketInv'
  BY <1>3 DEF UnbindStep, ScanStatus, ScanEnd, UnbindNext, UnbindEnd
<1>4. ASSUME NEW u \in Unbinders, NEW m \in SUBSET Devices, UnbindStart(u, m) PROVE SocketInv'
  BY <1>4 DEF UnbindStart
<1>5. ASSUME NEW h \in Holders, NEW d \in Devices, AttachStart(h, d) PROVE SocketInv'
  BY <1>5 DEF AttachStart
<1>6. ASSUME NEW h \in Holders, Hangup(h) \/ PeerHangup(h) PROVE SocketInv'
  BY <1>6 DEF Hangup, PeerHangup
<1>7. ASSUME NEW d \in Devices, StubWorks(d) \/ Plugging(d) PROVE SocketInv'
  BY <1>7 DEF StubWorks, StubEvent, Plugging, Unplug, Replug, CutConn
<1>8. CASE UNCHANGED vars
  BY <1>8 DEF vars
<1>q. QED
  BY <1>1, <1>2, <1>3, <1>4, <1>5, <1>6, <1>7, <1>8 DEF Next

LEMMA SocketsAccounted == Spec => []SocketInv
<1>1. Init => SocketInv
  BY DEF Init, HostInit, SocketInv
<1>q. QED
  BY <1>1, TypeCorrect, SocketStep, PTL DEF Spec

LEMMA HeldStep == TypeOK /\ SocketInv /\ HeldIsLive /\ [Next]_vars => HeldIsLive'
<1> SUFFICES ASSUME TypeOK, SocketInv, HeldIsLive, [Next]_vars PROVE HeldIsLive'
  OBVIOUS
<1> USE DEF TypeOK, HostTypeOK, Procs, Mid, Goto, At, keepLists, hostVars, SocketInv, HeldIsLive
<1>1. ASSUME NEW h \in Holders, AttachStep(h) PROVE HeldIsLive'
  <2>1. CASE ReadStatus(h) \/ Prepare(h) \/ ResetStub(h)
    BY <2>1 DEF ReadStatus, UsbipStatus, sdevStUsed, sdevStAvailable, Prepare, ResetStub,
                TearDown, CanTearDown
  <2>2. CASE AttachUnbind(h)
    BY <2>2 DEF AttachUnbind, UnbindUsb, UnbindStub, CutConn
  <2>3. CASE AttachAdd(h)
    BY <2>3 DEF AttachAdd, MatchAdd
  <2>4. CASE AttachBind(h)
    BY <2>4 DEF AttachBind, BindStub, CanBind
  <2>5. CASE AttachSockfd(h)
    BY <2>5 DEF AttachSockfd, Export, CanExport
  <2>q. QED
    BY <1>1, <2>1, <2>2, <2>3, <2>4, <2>5 DEF AttachStep
<1>2. ASSUME NEW p \in Procs, DetachStep(p) PROVE HeldIsLive'
  <2>1. CASE DetachUnbind(p)
    BY <2>1 DEF DetachUnbind, Return, UnbindStub, CutConn
  <2>2. CASE DetachDel(p)
    BY <2>2 DEF DetachDel, MatchDel
  <2>3. CASE DetachRebind(p)
    BY <2>3 DEF DetachRebind, Rebind
  <2>4. CASE SettleDriver(p)
    BY <2>4 DEF SettleDriver, Return, Probe
  <2>q. QED
    BY <1>2, <2>1, <2>2, <2>3, <2>4 DEF DetachStep
<1>3. ASSUME NEW u \in Unbinders, UnbindStep(u) PROVE HeldIsLive'
  BY <1>3 DEF UnbindStep, ScanStatus, ScanEnd, UnbindNext, UnbindEnd
<1>4. ASSUME NEW u \in Unbinders, NEW m \in SUBSET Devices, UnbindStart(u, m) PROVE HeldIsLive'
  BY <1>4 DEF UnbindStart
<1>5. ASSUME NEW h \in Holders, NEW d \in Devices, AttachStart(h, d) PROVE HeldIsLive'
  BY <1>5 DEF AttachStart
<1>6. ASSUME NEW h \in Holders, Hangup(h) \/ PeerHangup(h) PROVE HeldIsLive'
  BY <1>6 DEF Hangup, PeerHangup
<1>7. ASSUME NEW d \in Devices, StubWorks(d) \/ Plugging(d) PROVE HeldIsLive'
  BY <1>7 DEF StubWorks, StubEvent, Plugging, Unplug, Replug, CutConn
<1>8. CASE UNCHANGED vars
  BY <1>8 DEF vars
<1>q. QED
  BY <1>1, <1>2, <1>3, <1>4, <1>5, <1>6, <1>7, <1>8 DEF Next

\* A socket that is watched is the socket of the stub, or its watcher is about
\* to wake: no interleaving leaves a linger asleep on a device it has lost.
THEOREM HeldStaysLive == Spec => []HeldIsLive
<1>1. Init => HeldIsLive
  BY DEF Init, HeldIsLive, At, Procs
<1>q. QED
  BY <1>1, TypeCorrect, SocketsAccounted, HeldStep, PTL DEF Spec

LEMMA ExportStep == TypeOK /\ SocketInv /\ ExportOwned /\ [Next]_vars => ExportOwned'
<1> SUFFICES ASSUME TypeOK, SocketInv, ExportOwned, [Next]_vars PROVE ExportOwned'
  OBVIOUS
<1> USE DEF TypeOK, HostTypeOK, Procs, Mid, Goto, At, keepLists, hostVars, SocketInv, ExportOwned
<1>1. ASSUME NEW h \in Holders, AttachStep(h) PROVE ExportOwned'
  <2>1. CASE ReadStatus(h) \/ Prepare(h) \/ ResetStub(h)
    BY <2>1 DEF ReadStatus, UsbipStatus, sdevStUsed, sdevStAvailable, Prepare, ResetStub,
                TearDown, CanTearDown
  <2>2. CASE AttachUnbind(h)
    BY <2>2 DEF AttachUnbind, UnbindUsb, UnbindStub, CutConn
  <2>3. CASE AttachAdd(h)
    BY <2>3 DEF AttachAdd, MatchAdd
  <2>4. CASE AttachBind(h)
    BY <2>4 DEF AttachBind, BindStub, CanBind
  <2>5. CASE AttachSockfd(h)
    BY <2>5 DEF AttachSockfd, Export, CanExport
  <2>q. QED
    BY <1>1, <2>1, <2>2, <2>3, <2>4, <2>5 DEF AttachStep
<1>2. ASSUME NEW p \in Procs, DetachStep(p) PROVE ExportOwned'
  <2>1. CASE DetachUnbind(p)
    BY <2>1 DEF DetachUnbind, Return, UnbindStub, CutConn
  <2>2. CASE DetachDel(p)
    BY <2>2 DEF DetachDel, MatchDel
  <2>3. CASE DetachRebind(p)
    BY <2>3 DEF DetachRebind, Rebind
  <2>4. CASE SettleDriver(p)
    BY <2>4 DEF SettleDriver, Return, Probe
  <2>q. QED
    BY <1>2, <2>1, <2>2, <2>3, <2>4 DEF DetachStep
<1>3. ASSUME NEW u \in Unbinders, UnbindStep(u) PROVE ExportOwned'
  BY <1>3 DEF UnbindStep, ScanStatus, ScanEnd, UnbindNext, UnbindEnd
<1>4. ASSUME NEW u \in Unbinders, NEW m \in SUBSET Devices, UnbindStart(u, m) PROVE ExportOwned'
  BY <1>4 DEF UnbindStart
<1>5. ASSUME NEW h \in Holders, NEW d \in Devices, AttachStart(h, d) PROVE ExportOwned'
  BY <1>5 DEF AttachStart
<1>6. ASSUME NEW h \in Holders, Hangup(h) \/ PeerHangup(h) PROVE ExportOwned'
  BY <1>6 DEF Hangup, PeerHangup
<1>7. ASSUME NEW d \in Devices, StubWorks(d) \/ Plugging(d) PROVE ExportOwned'
  BY <1>7 DEF StubWorks, StubEvent, Plugging, Unplug, Replug, CutConn
<1>8. CASE UNCHANGED vars
  BY <1>8 DEF vars
<1>q. QED
  BY <1>1, <1>2, <1>3, <1>4, <1>5, <1>6, <1>7, <1>8 DEF Next

\* A device that nobody unplugs has, while on usbip-host, a connection that will
\* take it home or that was told not to.
THEOREM ExportIsOwned == Spec => []ExportOwned
<1>1. Init => ExportOwned
  BY DEF Init, HostInit, ExportOwned
<1>2. TypeOK /\ SocketInv /\ ExportOwned /\ [Next]_vars => ExportOwned'
  BY ExportStep
<1>q. QED
  BY <1>1, <1>2, TypeCorrect, SocketsAccounted, PTL DEF Spec

-----------------------------------------------------------------------------
\* A connection that has its device to itself: among connections only, since an
\* unbind command may be at work on any device.
Sole(h) == \A g \in Holders \ {h} : cur[g] # cur[h]

\* What DetachedIsDropped rests on, for a device that is never unplugged: its row
\* stays only while it is on usbip-host and its detach has yet to come, or until
\* an unbind command that got there first has deleted the row.
DroppedInv ==
  \A h \in Holders :
     /\ IF At(h, "idle") THEN cur[h] = NoDevice ELSE cur[h] \in Devices
     /\ (/\ Sole(h) /\ cur[h] \notin Hotplug
         /\ pc[h] \in {"held", "detach", "rebind", "settle", "done", "unprobed"}) =>
          \/ entry[cur[h]] # "match"
          \/ \E u \in Unbinders : Mid(u, cur[h], {"del"})
          \/ pc[h] \in {"held", "detach"} /\ driver[cur[h]] = "usbip-host"

LEMMA DroppedStep == TypeOK /\ DroppedInv /\ [Next]_vars => DroppedInv'
<1> SUFFICES ASSUME TypeOK, DroppedInv, [Next]_vars PROVE DroppedInv'
  OBVIOUS
<1> USE DEF TypeOK, HostTypeOK, Procs, Mid, Goto, At, keepLists, hostVars, DroppedInv, Sole
<1>1. ASSUME NEW h \in Holders, AttachStep(h) PROVE DroppedInv'
  <2>1. CASE ReadStatus(h) \/ Prepare(h)
    BY <2>1 DEF ReadStatus, Prepare
  <2>2. CASE ResetStub(h)
    BY <2>2 DEF ResetStub, TearDown
  <2>3. CASE AttachUnbind(h)
    BY <2>3 DEF AttachUnbind, UnbindUsb, UnbindStub, CutConn
  <2>4. CASE AttachAdd(h)
    BY <2>4 DEF AttachAdd, MatchAdd
  <2>5. CASE AttachBind(h)
    BY <2>5 DEF AttachBind, BindStub, CanBind
  <2>6. CASE AttachSockfd(h)
    BY <2>6 DEF AttachSockfd, Export, CanExport
  <2>q. QED
    BY <1>1, <2>1, <2>2, <2>3, <2>4, <2>5, <2>6 DEF AttachStep
<1>2. ASSUME NEW p \in Procs, DetachStep(p) PROVE DroppedInv'
  <2>1. CASE DetachUnbind(p)
    BY <2>1 DEF DetachUnbind, Return, UnbindStub, CutConn
  <2>2. CASE DetachDel(p)
    BY <2>2 DEF DetachDel, MatchDel
  <2>3. CASE DetachRebind(p)
    BY <2>3 DEF DetachRebind, Rebind
  <2>4. CASE SettleDriver(p)
    BY <2>4 DEF SettleDriver, Return, Probe
  <2>q. QED
    BY <1>2, <2>1, <2>2, <2>3, <2>4 DEF DetachStep
<1>3. ASSUME NEW u \in Unbinders, UnbindStep(u) PROVE DroppedInv'
  BY <1>3 DEF UnbindStep, ScanStatus, ScanEnd, UnbindNext, UnbindEnd
<1>4. ASSUME NEW u \in Unbinders, NEW m \in SUBSET Devices, UnbindStart(u, m) PROVE DroppedInv'
  BY <1>4 DEF UnbindStart
<1>5. ASSUME NEW h \in Holders, NEW d \in Devices, AttachStart(h, d) PROVE DroppedInv'
  BY <1>5 DEF AttachStart
<1>6. ASSUME NEW h \in Holders, Hangup(h) \/ PeerHangup(h) PROVE DroppedInv'
  BY <1>6 DEF Hangup, PeerHangup
<1>7. ASSUME NEW d \in Devices, StubWorks(d) \/ Plugging(d) PROVE DroppedInv'
  BY <1>7 DEF StubWorks, StubEvent, Plugging, Unplug, Replug, CutConn
<1>8. CASE UNCHANGED vars
  BY <1>8 DEF vars
<1>q. QED
  BY <1>1, <1>2, <1>3, <1>4, <1>5, <1>6, <1>7, <1>8 DEF Next

\* Where nothing is unplugged (a pulled device does keep its row), a detached
\* connection whose device nothing else has touched leaves no match_busid row,
\* also when an unbind command has detached the device before it: then that
\* command has deleted the row (usbip.go:177-247).
THEOREM DetachDrops ==
  ASSUME Hotplug = {}
  PROVE  Spec => []DetachedIsDropped
<1>1. Init => DroppedInv
  BY DEF Init, HostInit, DroppedInv, At, Procs
<1>2. DroppedInv => DetachedIsDropped
  <2> SUFFICES ASSUME DroppedInv, NEW h \in Holders, pc[h] \in {"done", "unprobed"},
                      \A p \in Procs \ {h} : cur[p] # cur[h]
               PROVE  entry[cur[h]] # "match"
    BY DEF DetachedIsDropped
  <2> QED
    BY DEF DroppedInv, Sole, Mid, At, Procs
<1>q. QED
  BY <1>1, <1>2, TypeCorrect, DroppedStep, PTL DEF Spec

-----------------------------------------------------------------------------
(* Exporter implements Custody *)

\* A device that is never unplugged is always there.
PresentInv == \A d \in Own : driver[d] # "absent"

IndInv == TypeOK /\ SocketInv /\ DriverlessInv /\ ExportOwned /\ PresentInv

Step == [C!CustodyNext]_(C!cvars)

\* A process that moves on changes its own duty and nobody else's.
LEMMA DutyMoves ==
  ASSUME TypeOK, NEW p \in Procs, NEW l, NEW d,
         pc' = [pc EXCEPT ![p] = l], cur' = [cur EXCEPT ![p] = d]
  PROVE  Duty' = [Duty EXCEPT ![p] = DutyOf(l, d)]
BY DEF Duty, TypeOK

LEMMA DutyStays == ASSUME TypeOK, UNCHANGED <<pc, cur>> PROVE Duty' = Duty
BY DEF Duty

\* The ways in which a step may change the abstract state.
LEMMA Takes ==
  ASSUME NEW p \in Procs, NEW d \in Own, Duty[p] = NoDevice,
         Duty' = [Duty EXCEPT ![p] = d], UNCHANGED <<Place, User, hungup>>
  PROVE  C!CustodyNext
BY DEF C!CustodyNext, C!Bear, C!Answers

LEMMA LaysDown ==
  ASSUME NEW p \in Procs, NEW d \in Own, Duty[p] = d, User[d] # p,
         Place[d] = "home" \/ \E q \in Procs \ {p} : Duty[q] = d,
         Duty' = [Duty EXCEPT ![p] = NoDevice], UNCHANGED <<Place, User, hungup>>
  PROVE  C!CustodyNext
BY DEF C!CustodyNext, C!LayDown, C!Answers

LEMMA Fetches ==
  ASSUME NEW p \in Procs, NEW d \in Own, Duty[p] \in {NoDevice, d}, Place[d] = "home",
         Duty' = [Duty EXCEPT ![p] = d], Place' = [Place EXCEPT ![d] = "away"],
         UNCHANGED <<User, hungup>>
  PROVE  C!CustodyNext
BY DEF C!CustodyNext, C!Fetch, C!Answers, C!MayAnswer

LEMMA Returns ==
  ASSUME NEW p \in Procs, NEW d \in Own, Duty[p] = d, Place[d] = "away", User[d] = NoConn,
         Duty' = [Duty EXCEPT ![p] = d] \/ Duty' = [Duty EXCEPT ![p] = NoDevice],
         Place' = [Place EXCEPT ![d] = "home"], UNCHANGED <<User, hungup>>
  PROVE  C!CustodyNext
BY DEF C!CustodyNext, C!Return, C!Answers

LEMMA Lends ==
  ASSUME NEW c \in Conns, NEW d \in Own, Duty[c] = d, Place[d] = "away", User[d] = NoConn,
         User' = [User EXCEPT ![d] = c], UNCHANGED <<Place, hungup, Duty>>
  PROVE  C!CustodyNext
BY DEF C!CustodyNext, C!Lend

LEMMA Recalls ==
  ASSUME NEW p \in Procs, NEW d \in Own, Duty[p] \in {NoDevice, d}, Place[d] = "away",
         Duty' = [Duty EXCEPT ![p] = d],
         \E there \in {"home", "away"} : Place' = [Place EXCEPT ![d] = there],
         User' = [User EXCEPT ![d] = NoConn], hungup' = hungup \cup ({User[d]} \ {NoConn})
  PROVE  C!CustodyNext
BY DEF C!CustodyNext, C!Recall, C!Answers, C!MayAnswer, C!Ends

LEMMA Drops ==
  ASSUME NEW d \in Own, Place[d] = "away",
         User' = [User EXCEPT ![d] = NoConn], hungup' = hungup \cup ({User[d]} \ {NoConn}),
         UNCHANGED <<Place, Duty>>
  PROVE  C!CustodyNext
BY DEF C!CustodyNext, C!Drop, C!Ends

LEMMA HangsUp ==
  ASSUME NEW c \in Conns \cup {NoConn}, hungup' = hungup \cup ({c} \ {NoConn}),
         UNCHANGED <<Place, User, Duty>>
  PROVE  Step
BY DEF Step, C!CustodyNext, C!Hangup, C!cvars

LEMMA Stutters == UNCHANGED <<Place, User, hungup, Duty>> => Step
BY DEF Step, C!cvars

-----------------------------------------------------------------------------
\* What the kernel's effects do to it.
LEMMA HostStays == UNCHANGED hostVars => UNCHANGED <<Place, User, hungup>>
BY DEF hostVars, Place, User

LEMMA Cut ==
  ASSUME TypeOK, NEW d \in Devices, CutConn(d)
  PROVE  /\ d \in Own => /\ User' = [User EXCEPT ![d] = NoConn]
                         /\ hungup' = hungup \cup ({User[d]} \ {NoConn})
         /\ d \in Hotplug => /\ User' = User
                             /\ hungup' = hungup \cup ({conn[d]} \ {NoConn})
<1>1. conn \in [Devices -> Conns \cup {NoConn}] /\ Own \subseteq Devices
  BY DEF TypeOK, HostTypeOK, Own
<1>2. conn' = [conn EXCEPT ![d] = NoConn] /\ hungup' = hungup \cup ({conn[d]} \ {NoConn})
  BY DEF CutConn
<1>3. d \in Hotplug => d \notin Own
  BY DEF Own
<1> QED
  BY <1>1, <1>2, <1>3 DEF User

LEMMA Moved ==
  ASSUME TypeOK, NEW d \in Devices, NEW to, driver' = [driver EXCEPT ![d] = to]
  PROVE  /\ d \in Own /\ to = "usb" => Place' = [Place EXCEPT ![d] = "home"]
         /\ d \in Own /\ to # "usb" => Place' = [Place EXCEPT ![d] = "away"]
         /\ d \notin Own => Place' = Place
<1>1. driver \in [Devices -> {"absent", "none", "usb", "usbip-host"}] /\ Own \subseteq Devices
  BY DEF TypeOK, HostTypeOK, Own
<1> QED
  BY <1>1 DEF Place

-----------------------------------------------------------------------------
\* A process that goes on, or gets to work, with a device keeps or takes it.
LEMMA GoesOn ==
  ASSUME IndInv, NEW p \in Procs, NEW d \in Devices, NEW l,
         pc' = [pc EXCEPT ![p] = l], cur' = [cur EXCEPT ![p] = d],
         \/ l \in Answering /\ (pc[p] \in Answering => cur[p] = d)
         \/ l \notin Answering /\ pc[p] \notin Answering,
         UNCHANGED <<Place, User, hungup>>
  PROVE  Step
<1>1. Duty' = [Duty EXCEPT ![p] = DutyOf(l, d)] /\ Duty[p] = DutyOf(pc[p], cur[p])
  BY DutyMoves DEF IndInv, Duty
<1>2. CASE l \in Answering /\ d \in Own /\ pc[p] \notin Answering
  BY <1>1, <1>2, Takes DEF DutyOf, Own, Step
<1>3. CASE ~(l \in Answering /\ d \in Own /\ pc[p] \notin Answering)
  <2>1. Duty[p] = DutyOf(l, d)
    BY <1>1, <1>3 DEF DutyOf, Own
  <2>2. Duty' = Duty
    BY <1>1, <2>1 DEF Duty
  <2>q. QED
    BY <2>2, Stutters
<1>q. QED
  BY <1>2, <1>3

\* Where a process may leave its device: at home, or to somebody else.
LEMMA SomebodyElse ==
  ASSUME IndInv, NEW p \in Procs, NEW d \in Own,
         driver[d] = "none" =>
           \/ pc[p] \notin {"add", "bind", "del", "rebind", "settle", "full", "unprobed"}
           \/ pc[p] = "bind" /\ entry[d] # "match",
         driver[d] = "usbip-host" =>
           \/ pc[p] \notin {"sockfd", "held", "detach", "left"}
           \/ pc[p] = "sockfd" /\ stub[d] # "idle"
  PROVE  Place[d] = "home" \/ \E q \in Procs \ {p} : Duty[q] = d
<1> USE DEF IndInv, TypeOK, HostTypeOK, Procs, Own, Mid
<1>1. CASE driver[d] = "usb"
  BY <1>1 DEF Place
<1>2. CASE driver[d] = "none"
  <2>1. PICK q \in Procs : Mid(q, d, {"add", "bind", "del", "rebind", "settle", "full", "unprobed"}) /\ q # p
    BY <1>2 DEF DriverlessInv, Abandoned
  <2>q. QED
    BY <2>1 DEF Duty, DutyOf, Answering, DetachSteps
<1>3. CASE driver[d] = "usbip-host"
  <2>1. PICK q \in Procs : Mid(q, d, {"sockfd", "held", "detach", "left"}) /\ q # p
    BY <1>3, HoldersAssumption, NoConnAssumption DEF ExportOwned, SocketInv
  <2>q. QED
    BY <2>1 DEF Duty, DutyOf, Answering, DetachSteps
<1>q. QED
  BY <1>1, <1>2, <1>3 DEF PresentInv

LEMMA LeavesOff ==
  ASSUME IndInv, NEW p \in Procs, NEW d \in Devices, cur[p] = d, NEW l, l \notin Answering,
         pc[p] \in Answering, pc' = [pc EXCEPT ![p] = l], cur' = cur,
         d \in Own => /\ conn[d] # p
                      /\ Place[d] = "home" \/ \E q \in Procs \ {p} : Duty[q] = d,
         UNCHANGED <<Place, User, hungup>>
  PROVE  Step
<1>1. cur' = [cur EXCEPT ![p] = d]
  BY DEF IndInv, TypeOK
<1>2. Duty' = [Duty EXCEPT ![p] = NoDevice] /\ Duty[p] = DutyOf(pc[p], d)
  BY <1>1, DutyMoves DEF IndInv, Duty, DutyOf
<1>3. CASE d \in Own
  <2>1. Duty[p] = d /\ User[d] # p
    BY <1>2, <1>3 DEF DutyOf, Own, User
  <2>q. QED
    BY <1>2, <1>3, <2>1, LaysDown DEF Step
<1>4. CASE d \notin Own
  <2>1. Duty' = Duty
    BY <1>2, <1>4 DEF DutyOf, Own, Duty
  <2>q. QED
    BY <2>1, Stutters
<1>q. QED
  BY <1>3, <1>4

-----------------------------------------------------------------------------
LEMMA AttachKeeps ==
  ASSUME IndInv, NEW h \in Holders, AttachStep(h)
  PROVE  Step
<1> DEFINE d == cur[h]
<1>t. h \in Procs /\ h \in Conns /\ TypeOK /\ cur \in [Procs -> Devices \cup {NoDevice}]
  BY HoldersAssumption DEF IndInv, Procs, TypeOK
<1>l. ASSUME NEW label, label \notin {"idle", "scan", "next", "failed", "done"}, pc[h] = label
      PROVE  d \in Devices
  BY <1>t, <1>l DEF TypeOK
<1>c. cur' = cur => cur' = [cur EXCEPT ![h] = d]
  BY <1>t
<1> USE DEF At, Goto
<1>1. CASE ReadStatus(h)
  BY <1>1, <1>t, <1>l, <1>c, HostStays, GoesOn
     DEF ReadStatus, Answering, DetachSteps
<1>2. CASE ResetStub(h)
  <2>1. UNCHANGED <<Place, User, hungup>>
    BY <1>2, HostStays DEF ResetStub, TearDown, Place, User
  <2>q. QED
    BY <1>2, <1>t, <1>l, <1>c, <2>1, GoesOn DEF ResetStub, Answering, DetachSteps
<1>3. CASE Prepare(h)
  BY <1>3, <1>t, <1>l, <1>c, HostStays, GoesOn DEF Prepare, Answering, DetachSteps
<1>4. CASE AttachUnbind(h)
  <2>d. d \in Devices /\ pc[h] = "unbind" /\ cur' = [cur EXCEPT ![h] = d]
    BY <1>4, <1>l, <1>c DEF AttachUnbind
  <2>1. CASE Goto(h, "failed") /\ UNCHANGED hostVars
    BY <2>1, <2>d, <1>t, HostStays, GoesOn DEF Answering, DetachSteps
  <2>2. CASE (UnbindUsb(d) \/ UnbindStub(d)) /\ Goto(h, "add")
    <3>1. Duty[h] = NoDevice /\ Duty' = [Duty EXCEPT ![h] = DutyOf("add", d)]
      BY <2>2, <2>d, <1>t, DutyMoves DEF Duty, DutyOf, Answering, DetachSteps
    <3>2. CASE d \in Own /\ UnbindUsb(d)
      <4>0. Place[d] = "home" /\ driver' = [driver EXCEPT ![d] = "none"]
        BY <3>2 DEF UnbindUsb, Place
      <4>1. Place' = [Place EXCEPT ![d] = "away"]
        BY <3>2, <4>0, <1>t, <2>d DEF Place, Own, TypeOK, HostTypeOK
      <4>2. UNCHANGED <<User, hungup>> /\ DutyOf("add", d) = d
        BY <3>2 DEF UnbindUsb, User, DutyOf, Own, Answering
      <4>q. QED
        BY <3>1, <3>2, <4>0, <4>1, <4>2, <1>t, Fetches DEF Step
    <3>3. CASE d \in Own /\ UnbindStub(d)
      <4>1. Place[d] = "away" /\ \E there \in {"home", "away"} : Place' = [Place EXCEPT ![d] = there]
        BY <3>3, <1>t, <2>d, Moved DEF UnbindStub, Place
      <4>2. /\ User' = [User EXCEPT ![d] = NoConn]
            /\ hungup' = hungup \cup ({User[d]} \ {NoConn}) /\ DutyOf("add", d) = d
        BY <3>3, <1>t, <2>d, Cut DEF UnbindStub, DutyOf, Own, Answering
      <4>q. QED
        BY <3>1, <3>3, <4>1, <4>2, <1>t, Recalls DEF Step
    <3>4. CASE d \notin Own
      <4>1. Duty' = Duty /\ d \in Hotplug /\ d \notin Own
        BY <3>1, <3>4, <2>d DEF DutyOf, Own, Duty
      <4>2. CASE UnbindUsb(d)
        BY <4>1, <4>2, <1>t, <2>d, Moved, Stutters DEF UnbindUsb, User
      <4>3. CASE UnbindStub(d)
        <5>1. Place' = Place /\ User' = User /\ hungup' = hungup \cup ({conn[d]} \ {NoConn})
          BY <4>1, <4>3, <1>t, <2>d, Moved, Cut DEF UnbindStub
        <5>2. conn[d] \in Conns \cup {NoConn}
          BY <1>t, <2>d DEF TypeOK, HostTypeOK
        <5>q. QED
          BY <4>1, <5>1, <5>2, HangsUp
      <4>q. QED
        BY <2>2, <4>2, <4>3
    <3>q. QED
      BY <2>2, <3>2, <3>3, <3>4
  <2>q. QED
    BY <1>4, <2>1, <2>2 DEF AttachUnbind
<1>5. CASE AttachAdd(h)
  <2>1. UNCHANGED <<Place, User, hungup>>
    BY <1>5, HostStays DEF AttachAdd, MatchAdd, Place, User
  <2>q. QED
    BY <1>5, <1>t, <1>l, <1>c, <2>1, GoesOn DEF AttachAdd, Answering, DetachSteps
<1>6. CASE AttachBind(h)
  <2>d. d \in Devices /\ pc[h] = "bind" /\ cur' = cur /\ cur' = [cur EXCEPT ![h] = d]
    BY <1>6, <1>l, <1>c DEF AttachBind
  <2>1. CASE BindStub(d) /\ Goto(h, "sockfd")
    <3>1. UNCHANGED <<Place, User, hungup>>
      BY <2>1, <2>d, <1>t DEF BindStub, CanBind, Place, User, TypeOK, HostTypeOK
    <3>q. QED
      BY <2>1, <2>d, <3>1, <1>t, GoesOn DEF Answering, DetachSteps
  <2>2. CASE ~CanBind(d) /\ Goto(h, "failed") /\ UNCHANGED hostVars
    <3>1. d \in Own => conn[d] # h /\ (Place[d] = "home" \/ \E q \in Procs \ {h} : Duty[q] = d)
      BY <2>2, <2>d, <1>t, SomebodyElse, NoConnAssumption
         DEF CanBind, IndInv, SocketInv, Mid, TypeOK, HostTypeOK
    <3>q. QED
      BY <2>2, <2>d, <3>1, <1>t, HostStays, LeavesOff DEF Answering, DetachSteps
  <2>q. QED
    BY <1>6, <2>1, <2>2 DEF AttachBind
<1>7. CASE AttachSockfd(h)
  <2>d. d \in Devices /\ pc[h] = "sockfd" /\ cur' = cur /\ cur' = [cur EXCEPT ![h] = d]
    BY <1>7, <1>l, <1>c DEF AttachSockfd
  <2>1. CASE Export(d, h) /\ Goto(h, IF h \in NoLinger THEN "left" ELSE "held")
    <3>1. Duty' = Duty
      BY <2>1, <2>d, <1>t, DutyMoves DEF Duty, DutyOf, Answering, DetachSteps
    <3>2. UNCHANGED <<Place, hungup>> /\ conn' = [conn EXCEPT ![d] = h] /\ conn[d] = NoConn
      BY <2>1, <2>d DEF Export, CanExport, Place, IndInv, SocketInv
    <3>3. CASE d \in Own
      <4>1. Duty[h] = d /\ Place[d] = "away" /\ User[d] = NoConn
        BY <2>1, <2>d, <3>2, <3>3, <1>t DEF Export, CanExport, Duty, DutyOf, Answering, Own, Place, User
      <4>2. User' = [User EXCEPT ![d] = h]
        BY <3>2, <3>3, <1>t DEF User, Own, TypeOK, HostTypeOK
      <4>q. QED
        BY <3>1, <3>2, <3>3, <4>1, <4>2, <1>t, Lends DEF Step
    <3>4. CASE d \notin Own
      <4>1. User' = User
        BY <3>2, <3>4, <1>t DEF User, TypeOK, HostTypeOK
      <4>q. QED
        BY <3>1, <3>2, <4>1, Stutters
    <3>q. QED
      BY <3>3, <3>4
  <2>2. CASE ~CanExport(d) /\ Goto(h, "failed") /\ UNCHANGED hostVars
    <3>1. d \in Own => conn[d] # h /\ (Place[d] = "home" \/ \E q \in Procs \ {h} : Duty[q] = d)
      BY <2>2, <2>d, <1>t, SomebodyElse, NoConnAssumption
         DEF CanExport, IndInv, SocketInv, Mid, TypeOK, HostTypeOK
    <3>q. QED
      BY <2>2, <2>d, <3>1, <1>t, HostStays, LeavesOff DEF Answering, DetachSteps
  <2>q. QED
    BY <1>7, <2>1, <2>2 DEF AttachSockfd
<1>q. QED
  BY <1>1, <1>2, <1>3, <1>4, <1>5, <1>6, <1>7 DEF AttachStep

LEMMA DetachKeeps ==
  ASSUME IndInv, NEW p \in Procs, DetachStep(p)
  PROVE  Step
<1> DEFINE d == cur[p]
<1>t. TypeOK /\ d \in Devices /\ cur' = cur /\ cur' = [cur EXCEPT ![p] = d]
  BY DEF IndInv, TypeOK, DetachStep, DetachUnbind, DetachDel, DetachRebind, SettleDriver, At
<1>n. p # NoConn
  BY NoConnAssumption, HoldersAssumption, UnbindersAssumption DEF Procs
<1>r. Return(p) => \E l \in {"next", "done"} : l \notin Answering /\ pc' = [pc EXCEPT ![p] = l]
  BY DEF Return, Goto, Answering, DetachSteps
<1> USE DEF At, Goto
<1>1. CASE DetachUnbind(p)
  <2>1. CASE UnbindStub(d) /\ Goto(p, "del")
    <3>1. Duty' = Duty
      BY <1>1, <2>1, <1>t, DutyMoves DEF DetachUnbind, Duty, DutyOf, Answering, DetachSteps
    <3>2. CASE d \in Own
      <4>0. driver[d] = "usbip-host" /\ \E to \in {"none", "usb"} : driver' = [driver EXCEPT ![d] = to]
        BY <2>1 DEF UnbindStub
      <4>1. Place[d] = "away" /\ \E there \in {"home", "away"} : Place' = [Place EXCEPT ![d] = there]
        BY <3>2, <4>0, <1>t, Moved DEF Place
      <4>2. User' = [User EXCEPT ![d] = NoConn] /\ hungup' = hungup \cup ({User[d]} \ {NoConn})
        BY <2>1, <3>2, <1>t, Cut DEF UnbindStub
      <4>3. Duty[p] = d /\ Duty' = [Duty EXCEPT ![p] = d]
        BY <1>1, <3>1, <3>2 DEF DetachUnbind, Duty, DutyOf, Answering, DetachSteps, Own
      <4>q. QED
        BY <3>2, <4>1, <4>2, <4>3, Recalls DEF Step
    <3>3. CASE d \notin Own
      <4>1. Place' = Place /\ User' = User /\ hungup' = hungup \cup ({conn[d]} \ {NoConn})
        BY <2>1, <3>3, <1>t, Moved, Cut DEF UnbindStub, Own
      <4>2. conn[d] \in Conns \cup {NoConn}
        BY <1>t DEF TypeOK, HostTypeOK
      <4>q. QED
        BY <3>1, <4>1, <4>2, HangsUp
    <3>q. QED
      BY <3>2, <3>3
  <2>2. CASE driver[d] # "usbip-host" /\ Return(p) /\ UNCHANGED hostVars
    <3>1. d \in Own => conn[d] # p /\ (Place[d] = "home" \/ \E q \in Procs \ {p} : Duty[q] = d)
      <4>1. conn[d] = NoConn /\ pc[p] = "detach"
        BY <1>1, <2>2, <1>t DEF DetachUnbind, IndInv, SocketInv, TypeOK, HostTypeOK
      <4>2. ASSUME d \in Own PROVE Place[d] = "home" \/ \E q \in Procs \ {p} : Duty[q] = d
        BY <2>2, <4>1, <4>2, SomebodyElse
      <4>q. QED
        BY <4>1, <4>2, <1>n
    <3>2. pc[p] \in Answering
      BY <1>1 DEF DetachUnbind, Answering, DetachSteps
    <3>q. QED
      BY <2>2, <3>1, <3>2, <1>t, <1>r, HostStays, LeavesOff
  <2>q. QED
    BY <1>1, <2>1, <2>2 DEF DetachUnbind
<1>2. CASE DetachDel(p)
  <2>1. UNCHANGED <<Place, User, hungup>>
    BY <1>2 DEF DetachDel, MatchDel, Place, User
  <2>q. QED
    BY <1>2, <1>t, <2>1, GoesOn DEF DetachDel, Answering, DetachSteps
<1>3. CASE DetachRebind(p)
  <2>0. /\ pc[p] = "rebind" /\ pc' = [pc EXCEPT ![p] = "settle"] /\ UNCHANGED <<stub, conn, hungup>>
        /\ driver' = [driver EXCEPT ![d] = IF entry[d] # "none" /\ driver[d] = "none"
                                              THEN "usb" ELSE driver[d]]
    BY <1>3 DEF DetachRebind, Rebind
  <2>u. User' = User
    BY <2>0 DEF User
  <2>1. CASE d \in Own /\ entry[d] # "none" /\ driver[d] = "none"
    <3>1. Place[d] = "away" /\ Place' = [Place EXCEPT ![d] = "home"]
      BY <2>0, <2>1, <1>t, Moved DEF Place
    <3>2. User[d] = NoConn
      BY <2>1, <1>t DEF User, IndInv, SocketInv
    <3>3. Duty[p] = d /\ Duty' = [Duty EXCEPT ![p] = d]
      BY <2>0, <2>1, <1>t, DutyMoves DEF Duty, DutyOf, Answering, DetachSteps, Own
    <3>q. QED
      BY <2>0, <2>1, <2>u, <3>1, <3>2, <3>3, Returns DEF Step
  <2>2. CASE ~(d \in Own /\ entry[d] # "none" /\ driver[d] = "none")
    <3>1. Place' = Place
      BY <2>0, <2>2, <1>t DEF Place, Own, TypeOK, HostTypeOK
    <3>q. QED
      BY <2>0, <2>u, <3>1, <1>t, GoesOn DEF Answering, DetachSteps
  <2>q. QED
    BY <2>1, <2>2
<1>4. CASE SettleDriver(p)
  <2>0. pc[p] = "settle" /\ pc[p] \in Answering
    BY <1>4 DEF SettleDriver, Answering, DetachSteps
  <2>1. CASE HasDriver(d) /\ Return(p) /\ UNCHANGED hostVars
    <3>1. d \in Own => conn[d] # p /\ (Place[d] = "home" \/ \E q \in Procs \ {p} : Duty[q] = d)
      <4>1. conn[d] # p
        BY <2>0, <1>t, <1>n DEF IndInv, SocketInv, Mid, TypeOK, HostTypeOK
      <4>2. ASSUME d \in Own PROVE Place[d] = "home" \/ \E q \in Procs \ {p} : Duty[q] = d
        BY <2>0, <2>1, <4>2, SomebodyElse DEF HasDriver
      <4>q. QED
        BY <4>1, <4>2
    <3>q. QED
      BY <2>0, <2>1, <3>1, <1>t, <1>r, HostStays, LeavesOff
  <2>2. CASE ~HasDriver(d) /\ Return(p) /\ Probe(d)
    <3>0. /\ UNCHANGED <<User, hungup, conn>>
          /\ driver' = [driver EXCEPT ![d] = IF driver[d] = "none" THEN "usb" ELSE driver[d]]
      BY <2>2 DEF Probe, User
    <3>1. CASE d \in Own
      <4>0. driver[d] = "none"
        BY <2>2, <3>1, <1>t DEF HasDriver, IndInv, PresentInv, TypeOK, HostTypeOK
      <4>1. Place[d] = "away" /\ Place' = [Place EXCEPT ![d] = "home"]
        BY <3>0, <3>1, <4>0, <1>t, Moved DEF Place
      <4>2. User[d] = NoConn
        BY <3>1, <4>0, <1>t DEF User, IndInv, SocketInv
      <4>3. Duty[p] = d /\ Duty' = [Duty EXCEPT ![p] = NoDevice]
        BY <2>0, <2>2, <3>1, <1>t, <1>r, DutyMoves DEF Duty, DutyOf, Own
      <4>q. QED
        BY <3>0, <3>1, <4>1, <4>2, <4>3, Returns DEF Step
    <3>2. CASE d \notin Own
      <4>1. Place' = Place
        BY <3>0, <3>2, <1>t, Moved DEF Own
      <4>q. QED
        BY <2>0, <2>2, <3>0, <3>2, <4>1, <1>t, <1>r, LeavesOff
    <3>q. QED
      BY <3>1, <3>2
  <2>3. CASE pc' = [pc EXCEPT ![p] = "unprobed"] /\ UNCHANGED hostVars
    BY <1>4, <2>0, <2>3, <1>t, HostStays, GoesOn DEF SettleDriver, Answering
  <2>q. QED
    BY <1>4, <2>1, <2>2, <2>3 DEF SettleDriver
<1>q. QED
  BY <1>1, <1>2, <1>3, <1>4 DEF DetachStep

LEMMA UnbindKeeps ==
  ASSUME IndInv, NEW u \in Unbinders, UnbindStep(u)
  PROVE  Step
<1>t. u \in Procs /\ TypeOK /\ cur \in [Procs -> Devices \cup {NoDevice}]
  BY DEF IndInv, Procs, TypeOK
<1> USE DEF At, Goto
<1>1. ASSUME NEW d \in Devices, ScanStatus(u, d) PROVE Step
  BY <1>1, <1>t, HostStays, DutyStays, Stutters DEF ScanStatus
<1>2. ASSUME NEW d \in Devices, UnbindNext(u, d) PROVE Step
  BY <1>2, <1>t, HostStays, GoesOn DEF UnbindNext, Answering, DetachSteps
<1>3. CASE ScanEnd(u) \/ UnbindEnd(u)
  <2>1. UNCHANGED <<Place, User, hungup>>
    BY <1>3, HostStays DEF ScanEnd, UnbindEnd
  <2>2. Duty' = Duty
    BY <1>3, <1>t DEF ScanEnd, UnbindEnd, Duty, DutyOf, Answering, DetachSteps, TypeOK
  <2>q. QED
    BY <2>1, <2>2, Stutters
<1>q. QED
  BY <1>1, <1>2, <1>3 DEF UnbindStep

LEMMA NextKeeps == IndInv /\ [Next]_vars => Step
<1> SUFFICES ASSUME IndInv, [Next]_vars PROVE Step
  OBVIOUS
<1>t. TypeOK
  BY DEF IndInv
<1>1. ASSUME NEW h \in Holders, AttachStep(h) PROVE Step
  BY <1>1, AttachKeeps
<1>2. ASSUME NEW p \in Procs, DetachStep(p) PROVE Step
  BY <1>2, DetachKeeps
<1>3. ASSUME NEW u \in Unbinders, UnbindStep(u) PROVE Step
  BY <1>3, UnbindKeeps
<1>4. ASSUME NEW u \in Unbinders, NEW m \in SUBSET Devices, UnbindStart(u, m) PROVE Step
  <2>1. Duty' = Duty
    BY <1>4, <1>t DEF UnbindStart, Duty, DutyOf, Answering, DetachSteps, TypeOK, At, Goto, Procs
  <2>q. QED
    BY <1>4, <2>1, HostStays, Stutters DEF UnbindStart
<1>5. ASSUME NEW h \in Holders, NEW d \in Devices, AttachStart(h, d) PROVE Step
  <2>1. Duty' = Duty
    BY <1>5, <1>t DEF AttachStart, Duty, DutyOf, Answering, DetachSteps, TypeOK, At, Goto, Procs
  <2>q. QED
    BY <1>5, <2>1, HostStays, Stutters DEF AttachStart
<1>6. ASSUME NEW h \in Holders, Hangup(h) PROVE Step
  <2>1. h \in Procs /\ cur[h] \in Devices /\ cur' = [cur EXCEPT ![h] = cur[h]]
    BY <1>6, <1>t DEF Hangup, At, TypeOK, Procs
  <2>q. QED
    BY <1>6, <2>1, HostStays, GoesOn DEF Hangup, At, Goto, Answering, DetachSteps
<1>7. ASSUME NEW h \in Holders, PeerHangup(h) PROVE Step
  <2>1. h \in Conns \cup {NoConn} /\ hungup' = hungup \cup ({h} \ {NoConn})
    BY <1>7, HoldersAssumption, NoConnAssumption DEF PeerHangup
  <2>2. UNCHANGED <<Place, User, Duty>>
    BY <1>7, <1>t, DutyStays DEF PeerHangup, Place, User
  <2>q. QED
    BY <2>1, <2>2, HangsUp
<1>8. ASSUME NEW d \in Devices, StubWorks(d) PROVE Step
  <2>1. CutConn(d) /\ driver[d] = "usbip-host" /\ Place' = Place /\ Duty' = Duty
    BY <1>8, <1>t, DutyStays DEF StubWorks, StubEvent, Place
  <2>2. conn[d] \in Conns \cup {NoConn}
    BY <1>t DEF TypeOK, HostTypeOK
  <2>3. CASE d \in Own
    <3>1. Place[d] = "away"
      BY <2>1, <2>3 DEF Place
    <3>q. QED
      BY <2>1, <2>3, <3>1, <1>t, Cut, Drops DEF Step
  <2>4. CASE d \notin Own
    BY <2>1, <2>2, <2>4, <1>t, Cut, HangsUp DEF Own
  <2>q. QED
    BY <2>3, <2>4
<1>9. ASSUME NEW d \in Devices, Plugging(d) PROVE Step
  <2>1. d \in Hotplug /\ d \notin Own /\ Duty' = Duty
    BY <1>9, <1>t, DutyStays DEF Plugging, Own
  <2>2. conn[d] \in Conns \cup {NoConn}
    BY <1>t DEF TypeOK, HostTypeOK
  <2>3. CASE Unplug(d)
    BY <2>1, <2>2, <2>3, <1>t, Cut, Moved, HangsUp DEF Unplug
  <2>4. CASE Replug(d)
    BY <2>1, <2>4, <1>t, Moved, Stutters DEF Replug, User
  <2>q. QED
    BY <1>9, <2>3, <2>4 DEF Plugging
<1>s. CASE UNCHANGED vars
  BY <1>s, <1>t, HostStays, DutyStays, Stutters DEF vars
<1>q. QED
  BY <1>1, <1>2, <1>3, <1>4, <1>5, <1>6, <1>7, <1>8, <1>9, <1>s DEF Next

LEMMA PresentStep == TypeOK /\ PresentInv /\ [Next]_vars => PresentInv'
<1> SUFFICES ASSUME TypeOK, PresentInv, [Next]_vars, NEW d \in Own PROVE driver'[d] # "absent"
  BY DEF PresentInv
<1> USE DEF TypeOK, HostTypeOK, PresentInv, Own, hostVars
<1>1. ASSUME NEW h \in Holders, AttachStep(h) PROVE driver'[d] # "absent"
  BY <1>1 DEF AttachStep, ReadStatus, ResetStub, TearDown, Prepare, AttachUnbind, UnbindUsb,
              UnbindStub, AttachAdd, MatchAdd, AttachBind, BindStub, AttachSockfd, Export
<1>2. ASSUME NEW p \in Procs, DetachStep(p) PROVE driver'[d] # "absent"
  BY <1>2 DEF DetachStep, DetachUnbind, UnbindStub, DetachDel, MatchDel, DetachRebind, Rebind,
              SettleDriver, Probe
<1>3. ASSUME NEW e \in Devices, StubWorks(e) \/ Plugging(e) PROVE driver'[d] # "absent"
  BY <1>3 DEF StubWorks, StubEvent, Plugging, Unplug, Replug
<1>q. QED
  BY <1>1, <1>2, <1>3 DEF Next, vars, UnbindStep, UnbindStart, ScanStatus, ScanEnd, UnbindNext,
     UnbindEnd, AttachStart, Hangup, PeerHangup

LEMMA InitKeeps == Init => C!CustodyInit
BY DEF Init, HostInit, C!CustodyInit, Place, User, Duty, DutyOf, Own, Answering, DetachSteps

\* Every behaviour of attaches, lingers and unbind commands is one of Custody:
\* a device that leaves its machine passes from one process to the next without
\* a gap, and whoever loses the use of it is told in that very step.
THEOREM ExporterKeepsCustody == Spec => Kept
<1>1. Init => TypeOK /\ SocketInv /\ DriverlessInv /\ ExportOwned /\ PresentInv
  BY DEF Init, HostInit, TypeOK, HostTypeOK, HolderPC, UnbinderPC, Procs, SocketInv,
         DriverlessInv, ExportOwned, PresentInv, Own
<1>2. TypeOK /\ SocketInv /\ DriverlessInv /\ ExportOwned /\ PresentInv => IndInv
  BY DEF IndInv
<1>3. IndInv /\ [Next]_vars => Step
  BY NextKeeps
<1>4. Step <=> [C!CustodyNext]_(C!cvars)
  BY DEF Step
<1>q. QED
  BY <1>1, <1>2, <1>3, <1>4, TypeCorrect, SocketStep, DriverlessStep, ExportStep, PresentStep,
     InitKeeps, PTL DEF Spec, Kept, C!CustodySpec
=============================================================================
