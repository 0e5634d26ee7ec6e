------------------------------- MODULE SshLink -------------------------------
(***************************************************************************)
(* What an attach session runs on: the ssh master with its session channel *)
(* and forwarded unix connections, the exporting host's devices with       *)
(* exporterAttach and exporterDetach as single steps (module Exporter has  *)
(* their insides), and the kernel's uevent socket.  In both directions the *)
(* importer dials, ssh relays, and the exporter accepts, so forward and    *)
(* reverse sessions share this module.                                     *)
(***************************************************************************)
EXTENDS Naturals, Sequences, FiniteSets, SequencesExt

CONSTANTS Devices,    \* devices that match the session's pattern
          Conns,      \* connections; a dead one that nobody refers to is reused
          NoConn, NoDevice,
          MaxLines,   \* lines the channel buffers before this model blocks
          UeventCap,  \* uevents the socket buffers before the kernel drops one
          MaxEvents   \* unplugs, plugs, detaches and network failures per run

ASSUME LinkAssumption ==
  /\ NoConn \notin Conns /\ NoDevice \notin Devices
  /\ IsFiniteSet(Devices) /\ Devices \cap {"socket", "eof"} = {}
  /\ MaxLines \in Nat /\ UeventCap \in Nat /\ MaxEvents \in Nat

VARIABLES
  opts,      \* the session's options (attachOpts)
  master,    \* the ssh master process on the local machine
  chan,      \* the session channel as the remote payload's poll reports it
  lines,     \* "-Dev", "-Eof" (and, forward, "-Socket") lines under way
  dialed,    \* connections dialed and not yet relayed to the listener
  backlog,   \* connections the exporter's listener has not accepted
  cut,       \* connections whose importer end is closed
  hup,       \* connections whose exporter end reports a hangup
  imp,       \* the device the importer's vhci runs over each connection
  where,     \* the driver that has each device on the exporter
  using,     \* the connection usbip-host runs each device over
  row,       \* each device's row in match_busid; "left": a detach got ENODEV
  watching,  \* whether the session has its uevent socket open
  uevents,   \* bind events with DRIVER=usb in that socket
  events     \* environment events so far

linkVars == <<opts, master, chan, lines, dialed, backlog, cut, hup, imp,
              where, using, row, watching, uevents, events>>
netVars == <<opts, master, chan, lines, dialed, backlog>>
hostVars == <<where, using, row, uevents>>

Lines == {"socket", "eof"} \cup Devices   \* a device stands for its -Dev line

LinkTypeOK ==
  /\ opts \in [vhub : BOOLEAN, noLinger : BOOLEAN]
  /\ master \in {"up", "gone"} /\ chan \in {"open", "dead"}
  /\ lines \in Seq(Lines) /\ Len(lines) <= MaxLines
  /\ dialed \subseteq Conns /\ cut \subseteq Conns /\ hup \subseteq Conns
  /\ backlog \in Seq(Conns)
  /\ imp \in [Conns -> Devices \cup {NoDevice}]
  /\ where \in [Devices -> {"absent", "usb", "usbip-host"}]
  /\ using \in [Devices -> Conns \cup {NoConn}]
  /\ row \in [Devices -> {"none", "match", "left"}]
  /\ watching \in BOOLEAN
  /\ uevents \in Seq(Devices) /\ Len(uevents) <= UeventCap
  /\ events \in 0..MaxEvents

LinkInit ==
  /\ opts \in [vhub : BOOLEAN, noLinger : BOOLEAN]
  /\ master = "up" /\ chan = "open" /\ lines = <<>>
  /\ dialed = {} /\ backlog = <<>> /\ cut = Conns /\ hup = Conns
  /\ imp = [c \in Conns |-> NoDevice]
  /\ where \in [Devices -> {"absent", "usb"}]
  /\ using = [d \in Devices |-> NoConn]
  /\ row = [d \in Devices |-> "none"]
  /\ watching = FALSE /\ uevents = <<>> /\ events = 0

-----------------------------------------------------------------------------
(* Connections.  held names those some process still has a descriptor of. *)

Unused(held) == (cut \cap hup) \ (dialed \cup held \cup Range(backlog))
Alive(c) == c \notin cut /\ c \notin hup

\* A new connection c enters the forwarding.
Dial(c, held) ==
  /\ master = "up" /\ c \in Unused(held)
  /\ dialed' = dialed \cup {c}
  /\ cut' = cut \ {c} /\ hup' = hup \ {c}
  /\ imp' = [imp EXCEPT ![c] = NoDevice]

\* ssh connects it to the exporter's listener, or drops it when there is none.
Relay(c, listening) ==
  /\ c \in dialed
  /\ dialed' = dialed \ {c}
  /\ IF listening /\ c \notin cut
       THEN backlog' = Append(backlog, c) /\ UNCHANGED <<cut, hup>>
       ELSE cut' = cut \cup {c} /\ hup' = hup \cup {c} /\ UNCHANGED backlog
  /\ UNCHANGED <<opts, master, chan, lines, imp, hostVars, watching, events>>

\* Connections C go down at both ends; the stubs using them stop.
Down(C) == cut' = cut \cup C /\ hup' = hup \cup C

\* The exporter's end learns that the importer's is closed.
HangupArrives(c) ==
  /\ c \in cut \ (hup \cup dialed)
  /\ hup' = hup \cup {c}
  /\ using' = [d \in Devices |-> IF using[d] = c THEN NoConn ELSE using[d]]
  /\ UNCHANGED <<netVars, cut, imp, where, row, watching, uevents, events>>

\* The master dies: the importer's ends close and undelivered lines are lost.
MasterGone ==
  /\ master' = "gone"
  /\ cut' = Conns
  /\ \E n \in 0..Len(lines) : lines' = SubSeq(lines, 1, n)

\* sshd tells the payload: its channel is closed.
ChannelDies ==
  /\ master = "gone" /\ chan = "open" /\ chan' = "dead"
  /\ UNCHANGED <<opts, master, lines, dialed, backlog, cut, hup, imp>>
  /\ UNCHANGED <<hostVars, watching, events>>

\* After "-O stop" the master exits once the session channel has closed (the
\* payload is gone) and no forwarded connection is left.
MasterExits(sessionOver) ==
  /\ master = "up" /\ sessionOver /\ cut = Conns /\ dialed = {}
  /\ master' = "gone"
  /\ UNCHANGED <<opts, chan, lines, dialed, backlog, cut, hup, imp>>
  /\ UNCHANGED <<hostVars, watching, events>>

\* A line written to the channel: lost when nobody will read it.
Say(line, lost) ==
  IF lost THEN UNCHANGED lines
  ELSE Len(lines) < MaxLines /\ lines' = Append(lines, line)

-----------------------------------------------------------------------------
(* Devices *)

\* Bind events for the devices of D; those that find the buffer full are lost.
Announce(D) ==
  uevents' = IF ~watching THEN uevents
             ELSE LET all == uevents \o SetToSeq(D)
                  IN SubSeq(all, 1, IF Len(all) > UeventCap THEN UeventCap ELSE Len(all))

\* exporterAttach succeeds: a connection that was in use for d is dropped.  It
\* makes the row, or finds the one that put the device on usbip-host.
AttachTo(d, c) ==
  /\ where[d] # "absent"
  /\ where' = [where EXCEPT ![d] = "usbip-host"]
  /\ row' = [row EXCEPT ![d] = "match"]
  /\ using' = [using EXCEPT ![d] = IF c \in hup THEN NoConn ELSE c]
  /\ Down({using[d]} \ {NoConn})

\* exporterDetach of every device of D: one that is not bound gives ENODEV,
\* before its row is deleted.
DetachAll(D) ==
  LET bound == {d \in D : where[d] = "usbip-host"}
  IN /\ where' = [d \in Devices |-> IF d \in bound THEN "usb" ELSE where[d]]
     /\ row' = [d \in Devices |-> IF d \in bound THEN "none"
                                  ELSE IF d \in D /\ row[d] = "match" THEN "left" ELSE row[d]]
     /\ Down({using[d] : d \in bound} \ {NoConn})
     /\ using' = [d \in Devices |-> IF d \in bound THEN NoConn ELSE using[d]]
     /\ Announce(bound)

-----------------------------------------------------------------------------
(* The environment *)

Unplug(d) ==
  /\ where[d] # "absent"
  /\ where' = [where EXCEPT ![d] = "absent"]
  /\ using' = [using EXCEPT ![d] = NoConn]
  /\ Down({using[d]} \ {NoConn})
  /\ UNCHANGED <<netVars, imp, row, watching, uevents>>

\* A device that still has a row may be caught by usbip-host, without an event.
Plug(d) ==
  /\ where[d] = "absent"
  /\ \/ where' = [where EXCEPT ![d] = "usb"] /\ Announce({d})
     \/ row[d] # "none" /\ where' = [where EXCEPT ![d] = "usbip-host"] /\ UNCHANGED uevents
  /\ UNCHANGED <<netVars, cut, hup, imp, using, row, watching>>

\* importerDetach of one port: vhci closes the connection.
PortDetached(c) ==
  /\ c \notin cut /\ imp[c] # NoDevice
  /\ cut' = cut \cup {c}
  /\ UNCHANGED <<netVars, hup, imp, hostVars, watching>>

LinkDrops ==
  /\ master = "up"
  /\ MasterGone
  /\ UNCHANGED <<opts, chan, dialed, backlog, hup, imp, hostVars, watching>>

Environment ==
  /\ events < MaxEvents /\ events' = events + 1
  /\ \/ \E d \in Devices : Unplug(d) \/ Plug(d)
     \/ \E c \in Conns : PortDetached(c)
     \/ LinkDrops
=============================================================================
