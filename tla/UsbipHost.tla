------------------------------ MODULE UsbipHost ------------------------------
(***************************************************************************)
(* The exporting kernel as src/usbip.go uses it: which driver each device  *)
(* is bound to, usbip-host's match_busid table, and the stub's use of the  *)
(* socket it was handed.  Nothing of this is under src/: every definition  *)
(* is the effect the code expects of one sysfs write or read (the state    *)
(* before the write is the operator's guard, and a caller whose guard is   *)
(* false gets the error, usually ENODEV).                                  *)
(***************************************************************************)
EXTENDS Naturals

CONSTANTS Devices,   \* the exportable devices, by busid
          Conns,     \* the connections an attach may hand to the kernel
          NoConn     \* "the stub holds no socket"

ASSUME NoConnAssumption == NoConn \notin Conns

VARIABLES
  driver,   \* what devices/BUSID/driver points to
  entry,    \* the device's row in usbip-host's match_busid table
  stub,     \* what the usbip-host instance of the device is doing
  conn,     \* the connection that instance holds
  hungup    \* connections on which poll would report POLLRDHUP or POLLHUP

hostVars == <<driver, entry, stub, conn, hungup>>

HostTypeOK ==
  /\ driver \in [Devices -> {"absent", "none", "usb", "usbip-host"}]
  /\ entry \in [Devices -> {"none", "match", "dropped"}]
  /\ stub \in [Devices -> {"idle", "used", "down"}]
  /\ conn \in [Devices -> Conns \cup {NoConn}]
  /\ hungup \in SUBSET Conns

HostInit ==
  /\ driver = [d \in Devices |-> "usb"]
  /\ entry = [d \in Devices |-> "none"]
  /\ stub = [d \in Devices |-> "idle"]
  /\ conn = [d \in Devices |-> NoConn]
  /\ hungup = {}

sdevStAvailable == 1
sdevStUsed == 2

\* Atoi of usbip_status: a missing file reads as "" and so as 0.
UsbipStatus(d) ==
  IF driver[d] # "usbip-host" THEN 0
  ELSE IF stub[d] = "idle" THEN sdevStAvailable ELSE sdevStUsed

HasDriver(d) == driver[d] \in {"usb", "usbip-host"}

-----------------------------------------------------------------------------
\* The stub of d lets go of its socket, which shuts the connection down.
CutConn(d) ==
  /\ stub' = [stub EXCEPT ![d] = "idle"]
  /\ conn' = [conn EXCEPT ![d] = NoConn]
  /\ hungup' = hungup \cup ({conn[d]} \ {NoConn})

\* unbind: the stub goes; the driver core may or may not reprobe at once.
UnbindStub(d) ==
  /\ driver[d] = "usbip-host"
  /\ CutConn(d)
  /\ \E next \in {"none", "usb"} : driver' = [driver EXCEPT ![d] = next]
  /\ UNCHANGED entry

\* driver/unbind while the normal driver is the one bound.
UnbindUsb(d) ==
  /\ driver[d] = "usb"
  /\ driver' = [driver EXCEPT ![d] = "none"]
  /\ UNCHANGED <<entry, stub, conn, hungup>>

\* match_busid "add BUSID"
MatchAdd(d) ==
  /\ entry' = [entry EXCEPT ![d] = "match"]
  /\ UNCHANGED <<driver, stub, conn, hungup>>

\* usbip-host/bind: only a driverless device the table matches.
CanBind(d) == driver[d] = "none" /\ entry[d] = "match"
BindStub(d) ==
  /\ CanBind(d)
  /\ driver' = [driver EXCEPT ![d] = "usbip-host"]
  /\ UNCHANGED <<entry, stub, conn, hungup>>

\* match_busid "del BUSID": ENODEV without a row.
MatchDel(d) ==
  /\ entry' = [entry EXCEPT ![d] = IF @ = "none" THEN "none" ELSE "dropped"]
  /\ UNCHANGED <<driver, stub, conn, hungup>>

\* rebind: ENODEV without a row; otherwise clear it and reprobe.
Rebind(d) ==
  /\ entry' = [entry EXCEPT ![d] = "none"]
  /\ driver' = [driver EXCEPT ![d] =
                  IF entry[d] # "none" /\ @ = "none" THEN "usb" ELSE @]
  /\ UNCHANGED <<stub, conn, hungup>>

\* bus/usb/drivers_probe: the generic reprobe, whatever usbip-host's table says.
Probe(d) ==
  /\ driver' = [driver EXCEPT ![d] = IF @ = "none" THEN "usb" ELSE @]
  /\ UNCHANGED <<entry, stub, conn, hungup>>

\* usbip_sockfd FD
CanExport(d) == driver[d] = "usbip-host" /\ stub[d] = "idle"
Export(d, c) ==
  /\ CanExport(d)
  /\ stub' = [stub EXCEPT ![d] = "used"]
  /\ conn' = [conn EXCEPT ![d] = c]
  /\ UNCHANGED <<driver, entry, hungup>>

\* usbip_sockfd -1: starts a teardown that StubEvent completes.
CanTearDown(d) == driver[d] = "usbip-host" /\ stub[d] # "idle"
TearDown(d) ==
  /\ CanTearDown(d)
  /\ stub' = [stub EXCEPT ![d] = "down"]
  /\ UNCHANGED <<driver, entry, conn, hungup>>

-----------------------------------------------------------------------------
\* The stub's own work: finish a teardown, or notice that its peer is gone.
StubEvent(d) ==
  /\ driver[d] = "usbip-host"
  /\ \/ stub[d] = "down"
     \/ stub[d] = "used" /\ conn[d] \in hungup
  /\ CutConn(d)
  /\ UNCHANGED <<driver, entry>>

Unplug(d) ==
  /\ driver[d] # "absent"
  /\ driver' = [driver EXCEPT ![d] = "absent"]
  /\ CutConn(d)
  /\ UNCHANGED entry

\* A device that comes back is probed; a row still in the table may catch it.
Replug(d) ==
  /\ driver[d] = "absent"
  /\ \E next \in {"usb"} \cup (IF entry[d] = "match" THEN {"usbip-host"} ELSE {}) :
        driver' = [driver EXCEPT ![d] = next]
  /\ UNCHANGED <<entry, stub, conn, hungup>>
=============================================================================
