--------------------------- MODULE ForwardSession ---------------------------
(***************************************************************************)
(* One "attach HOST PATTERN" session (runAttach, src/sshside.go), where    *)
(* HOST exports: the local process reads the payload's lines and hands     *)
(* connections to vhci; the remote payload (remoteScript and vhubLoop,     *)
(* src/remoteside.go) announces devices, accepts the connections and hands *)
(* them to usbip-host; a linger child watches them after the payload.      *)
(***************************************************************************)
EXTENDS SshLink

VARIABLES
  lpc,      \* the local process
  dialing,  \* local: the connection and device of the -Dev line in hand
  ppc,      \* the payload
  todo,     \* payload: devices of findDev not announced yet
  current,  \* payload: the device announced and not attached yet
  socks,    \* payload: its lingerSocks, <<connection, device>>
  linger,   \* the lingerSocks of the linger child
  orphaned, \* devices of a linger child that did not start, or failed in its poll
  lost      \* devices whose sockets a remoteFatalf dropped

vars == <<linkVars, lpc, dialing, ppc, todo, current, socks, linger, orphaned, lost>>
local == <<lpc, dialing>>
payload == <<ppc, todo, current, socks, linger, orphaned, lost, watching>>

LingerSock == Conns \X Devices

TypeOK ==
  /\ LinkTypeOK
  /\ lpc \in {"read", "attach", "wait", "done"}
  /\ dialing \in LingerSock \cup {<<NoConn, NoDevice>>}
  /\ ppc \in {"start", "next", "accept", "poll", "recv", "gone"}
  /\ todo \subseteq Devices /\ current \in Devices \cup {NoDevice}
  /\ socks \subseteq LingerSock /\ linger \subseteq LingerSock
  /\ orphaned \subseteq Devices /\ lost \subseteq Devices

Init ==
  /\ LinkInit
  /\ lpc = "read" /\ dialing = <<NoConn, NoDevice>>
  /\ ppc = "start" /\ todo = {} /\ current = NoDevice
  /\ socks = {} /\ linger = {} /\ orphaned = {} /\ lost = {}

Held == {s[1] : s \in socks \cup linger} \cup {dialing[1]} \cup {using[d] : d \in Devices}
DevsOf(held) == {s[2] : s \in held}
Listening == ppc \notin {"start", "gone"}

-----------------------------------------------------------------------------
(* runAttach and attachFromLine *)

\* Any error: the deferred kill ends ssh, and with it every connection.
LocalFails ==
  /\ MasterGone
  /\ lpc' = "done" /\ dialing' = <<NoConn, NoDevice>>
  /\ UNCHANGED <<opts, chan, dialed, backlog, hup, imp, hostVars, events, payload>>

NextLine(line) == lpc = "read" /\ lines # <<>> /\ Head(lines) = line

\* -Socket: ssh -O forward, then -O stop.
ReadSocket ==
  /\ NextLine("socket")
  /\ \/ /\ master = "up" /\ lines' = Tail(lines)
        /\ UNCHANGED <<opts, master, chan, dialed, backlog, cut, hup, imp, hostVars, events>>
        /\ UNCHANGED <<local, payload>>
     \/ LocalFails

\* -Dev: connect through the forward.
ReadDev(d, c) ==
  /\ NextLine(d)
  /\ \/ /\ Dial(c, Held)
        /\ lines' = Tail(lines)
        /\ lpc' = "attach" /\ dialing' = <<c, d>>
        /\ UNCHANGED <<opts, master, chan, backlog, hostVars, events, payload>>
     \/ master = "gone" /\ LocalFails

\* Mutant: a failed importerAttach is skipped and its socket left open.
LocalAttachLeaks ==
  /\ lpc = "attach" /\ lpc' = "read" /\ dialing' = <<NoConn, NoDevice>>
  /\ \E d \in {dialing[2], NoDevice} : imp' = [imp EXCEPT ![dialing[1]] = d]
  /\ UNCHANGED <<netVars, cut, hup, hostVars, events, payload>>

\* importerAttach takes a vhci port and gives it the socket.
LocalAttach ==
  /\ lpc = "attach"
  /\ \/ /\ lpc' = "read" /\ dialing' = <<NoConn, NoDevice>>
        /\ imp' = [imp EXCEPT ![dialing[1]] = dialing[2]]
        /\ UNCHANGED <<netVars, cut, hup, hostVars, events, payload>>
     \/ LocalFails

ReadEof ==
  /\ \/ NextLine("eof") /\ lines' = Tail(lines)
     \/ lpc = "read" /\ lines = <<>> /\ master = "gone" /\ UNCHANGED lines
  /\ lpc' = "wait"
  /\ UNCHANGED <<opts, master, chan, dialed, backlog, cut, hup, imp, hostVars, events>>
  /\ UNCHANGED <<dialing, payload>>

\* An error of the scanner.
ReadFails == lpc = "read" /\ LocalFails

WaitExit ==
  /\ lpc = "wait" /\ master = "gone" /\ lpc' = "done"
  /\ UNCHANGED <<linkVars, dialing, ppc, todo, current, socks, linger, orphaned, lost>>

LocalStep ==
  \/ ReadSocket \/ LocalAttach \/ ReadEof \/ WaitExit
  \/ \E d \in Devices, c \in Conns : ReadDev(d, c)

-----------------------------------------------------------------------------
(* remoteScript *)

\* The payload's process ends: its listener closes, and what was queued on it.
PayloadEnds(dropped) ==
  /\ ppc' = "gone" /\ watching' = FALSE
  /\ socks' = {} /\ todo' = {} /\ current' = NoDevice
  /\ Down(dropped \cup Range(backlog)) /\ backlog' = <<>>
  /\ uevents' = <<>>

\* remoteFatalf, with the connections of dropped closed by the failing step: no
\* child takes the sockets.
Fatal(dropped) ==
  /\ PayloadEnds(dropped)
  /\ lost' = lost \cup DevsOf(socks)
  /\ UNCHANGED <<opts, master, chan, lines, dialed, imp, where, using, row, events, linger, orphaned, local>>

\* Mutant: the payload exits without starting the child.
HandoffNobody ==
  /\ PayloadEnds({}) /\ UNCHANGED <<linger, orphaned, lost>>
  /\ UNCHANGED <<opts, master, chan, dialed, imp, where, using, row, events, local>>

\* Mutant: sockets that hung up already are not worth handing over.
HandoffLive ==
  /\ linger' = {s \in socks : s[1] \notin hup} /\ UNCHANGED <<orphaned, lost>>
  /\ PayloadEnds({})
  /\ UNCHANGED <<opts, master, chan, dialed, imp, where, using, row, events, local>>

\* spawnLingerAndExit: the sockets go to the child, if it starts.
Handoff ==
  /\ \/ linger' = socks /\ UNCHANGED orphaned
     \/ socks # {} /\ orphaned' = orphaned \cup DevsOf(socks) /\ UNCHANGED linger
  /\ PayloadEnds({}) /\ UNCHANGED lost
  /\ UNCHANGED <<opts, master, chan, dialed, imp, where, using, row, events, local>>

\* SIGPIPE is ignored and so is the error: a line for a dead ssh is lost.
Tell(line) == Say(line, master = "gone")

\* findDev, the listener in its temporary directory, then -Socket.
Start(found) ==
  /\ ppc = "start"
  /\ \/ /\ found # {} /\ (opts.vhub \/ Cardinality(found) = 1)
        /\ ppc' = "next" /\ todo' = found /\ Tell("socket")
        /\ UNCHANGED <<opts, master, chan, dialed, backlog, cut, hup, imp, hostVars, events>>
        /\ UNCHANGED <<watching, current, socks, linger, orphaned, lost, local>>
     \/ Fatal({})

\* newDev's first half: the device's attributes must still be there.
AnnounceDev(d) ==
  /\ where[d] # "absent"
  /\ Tell(d) /\ ppc' = "accept" /\ current' = d
  /\ UNCHANGED <<opts, master, chan, dialed, backlog, cut, hup, imp, where, using, row, events>>
  /\ UNCHANGED <<watching, socks, linger, orphaned, lost, local>>

NextDev(d) ==
  /\ ppc = "next" /\ d \in todo
  /\ \/ AnnounceDev(d) /\ todo' = todo \ {d} /\ UNCHANGED uevents
     \/ where[d] = "absent" /\ Fatal({})

\* Mutant: the lingerSock is made without the device's busid.
AcceptAttachUnnamed ==
  /\ ppc = "accept" /\ backlog # <<>>
  /\ AttachTo(current, Head(backlog))
  /\ backlog' = Tail(backlog) /\ current' = NoDevice
  /\ socks' = socks \cup {<<Head(backlog), NoDevice>>}
  /\ ppc' = IF watching THEN "poll" ELSE "next"
  /\ UNCHANGED <<opts, master, chan, lines, dialed, imp, uevents, events>>
  /\ UNCHANGED <<watching, todo, linger, orphaned, lost, local>>

\* newDev's second half: accept within two seconds, exporterAttach, hold.
AcceptAttach ==
  /\ ppc = "accept" /\ backlog # <<>>
  /\ LET c == Head(backlog)
     IN \/ /\ AttachTo(current, c)
           /\ backlog' = Tail(backlog) /\ current' = NoDevice
           /\ socks' = IF opts.noLinger THEN socks ELSE socks \cup {<<c, current>>}
           /\ ppc' = IF watching THEN "poll" ELSE "next"
           /\ UNCHANGED <<opts, master, chan, lines, dialed, imp, uevents, events>>
           /\ UNCHANGED <<watching, todo, linger, orphaned, lost, local>>
        \/ Fatal({c})

\* Mutant: a connection that is late is given up, not the session.
AcceptTimeoutSkips ==
  /\ ppc = "accept" /\ backlog = <<>>
  /\ ppc' = (IF watching THEN "poll" ELSE "next") /\ current' = NoDevice
  /\ UNCHANGED <<linkVars, todo, socks, linger, orphaned, lost, local>>

AcceptTimeout ==
  /\ ppc = "accept" /\ backlog = <<>>
  /\ Fatal({})

\* One device only: the set is complete.
EofHandoff ==
  /\ ppc = "next" /\ todo = {} /\ ~opts.vhub
  /\ Tell("eof")
  /\ Handoff

-----------------------------------------------------------------------------
(* vhubLoop *)

OpenUevents ==
  /\ ppc = "next" /\ todo = {} /\ opts.vhub
  /\ \/ /\ ppc' = "poll" /\ watching' = TRUE
        /\ UNCHANGED <<netVars, cut, hup, imp, hostVars, events>>
        /\ UNCHANGED <<todo, current, socks, linger, orphaned, lost, local>>
     \/ Fatal({})

Hung(held) == {s \in held : s[1] \in hup}

\* A dead channel comes before everything else.
PollDead ==
  /\ ppc = "poll" /\ chan = "dead"
  /\ UNCHANGED lines
  /\ Handoff

\* Mutant: after a detach, pending events are taken for its own and discarded.
PollRoundFlushes ==
  /\ ppc = "poll" /\ chan = "open"
  /\ Hung(socks) # {} \/ uevents # <<>>
  /\ where' = [d \in Devices |-> IF \E s \in Hung(socks) : s[2] = d /\ where[d] = "usbip-host"
                                 THEN "usb" ELSE where[d]]
  /\ row' = [d \in Devices |-> IF where'[d] = where[d] THEN row[d] ELSE "none"]
  /\ socks' = socks \ Hung(socks)
  /\ uevents' = IF Hung(socks) # {} THEN <<>> ELSE uevents
  /\ ppc' = IF uevents' # <<>> THEN "recv" ELSE "poll"
  /\ UNCHANGED <<netVars, cut, hup, imp, using, events, watching>>
  /\ UNCHANGED <<todo, current, linger, orphaned, lost, local>>

\* One round: detach what hung up, then go and read an event if there was one.
PollRound ==
  /\ ppc = "poll" /\ chan = "open"
  /\ Hung(socks) # {} \/ uevents # <<>>
  /\ DetachAll(DevsOf(Hung(socks)))
  /\ socks' = socks \ Hung(socks)
  /\ ppc' = IF uevents # <<>> THEN "recv" ELSE "poll"
  /\ UNCHANGED <<netVars, imp, events, watching, todo, current, linger, orphaned, lost, local>>

\* The spec of a device that has gone again may not match, and its event is
\* skipped; when it does, the device's speed cannot be read.
Recv ==
  /\ ppc = "recv"
  /\ \/ AnnounceDev(Head(uevents)) /\ uevents' = Tail(uevents) /\ UNCHANGED todo
     \/ /\ where[Head(uevents)] = "absent"
        /\ uevents' = Tail(uevents) /\ ppc' = "poll"
        /\ UNCHANGED <<netVars, cut, hup, imp, where, using, row, events, watching>>
        /\ UNCHANGED <<todo, current, socks, linger, orphaned, lost, local>>
     \/ where[Head(uevents)] = "absent" /\ Fatal({})

\* An error of poll or recv ends the payload, whatever it holds.
PollFails == ppc \in {"poll", "recv"} /\ Fatal({})

PayloadStep ==
  \/ \E found \in SUBSET Devices :
        found = {d \in Devices : where[d] # "absent"} /\ Start(found)
  \/ \E d \in Devices : NextDev(d)
  \/ AcceptAttach \/ AcceptTimeout \/ EofHandoff
  \/ OpenUevents \/ PollDead \/ PollRound \/ Recv

-----------------------------------------------------------------------------
\* lingerLoop, in the child.
LingerDetach ==
  /\ Hung(linger) # {}
  /\ DetachAll(DevsOf(Hung(linger)))
  /\ linger' = linger \ Hung(linger)
  /\ UNCHANGED <<netVars, imp, events, watching, ppc, todo, current, socks, orphaned, lost, local>>

\* An error of the child's poll is fatal to it.
LingerFails ==
  /\ linger # {} /\ linger' = {} /\ orphaned' = orphaned \cup DevsOf(linger)
  /\ UNCHANGED <<linkVars, ppc, todo, current, socks, lost, local>>

SshStep ==
  /\ \/ \E c \in Conns : Relay(c, Listening) \/ HangupArrives(c)
     \/ ChannelDies \/ MasterExits(ppc = "gone")
  /\ UNCHANGED <<local, ppc, todo, current, socks, linger, orphaned, lost>>

EnvStep == Environment /\ UNCHANGED <<local, ppc, todo, current, socks, linger, orphaned, lost>>

Next ==
  \/ LocalStep \/ ReadFails \/ PayloadStep \/ PollFails
  \/ LingerDetach \/ LingerFails
  \/ SshStep \/ EnvStep

\* Every process runs on, ssh delivers and reports what it has; no call has to
\* fail and the environment never has to do anything.
Fairness ==
  /\ WF_vars(LocalStep) /\ WF_vars(PayloadStep) /\ WF_vars(LingerDetach)
  /\ \A c \in Conns : WF_vars(Relay(c, Listening) /\ SshStep)
  /\ \A c \in Conns : WF_vars(HangupArrives(c) /\ SshStep)
  /\ WF_vars(ChannelDies /\ SshStep)
  /\ WF_vars(MasterExits(ppc = "gone") /\ SshStep)

Spec == Init /\ [][Next]_vars
FairSpec == Spec /\ Fairness

-----------------------------------------------------------------------------
(* What a session must keep *)

\* The device the exporter runs over a connection is the one the importer was
\* told to expect on it: vhci would otherwise drive one device with another's
\* address.  Nothing in the connection names the device; only the order of
\* -Dev lines, dials and accepts pairs the two ends.
Paired ==
  \A d \in Devices :
     using[d] # NoConn => imp[using[d]] \in {d, NoDevice}

\* Nobody watches d: --no-linger, a leftover row, a linger child that failed or
\* did not start, or a --vhub payload that ended by an error (DeadChannelHandsOver).
Excused(d) ==
  opts.noLinger \/ row[d] = "left" \/ d \in orphaned \/ (opts.vhub /\ d \in lost)

\* Unless --no-linger, a device on usbip-host has a payload or a linger child
\* that holds its socket, to "rebind the device to its original driver when the
\* connection drops" (README.md:94-95).  Excepted are the devices whose sockets
\* were lost (Excused), and a device that came back to a row of match_busid which
\* a detach had left there.
Watched ==
  \A d \in Devices : where[d] = "usbip-host" =>
     Excused(d) \/ \E s \in socks \cup linger : s[2] = d

\* "When the ssh channel dies it hands the sockets to a linger child"
\* (remoteside.go:233-234): a vhubLoop that ends once the channel is dead, other
\* than by a failing poll or child, leaves none of its sockets unwatched.
DeadChannelHandsOver ==
  [][watching /\ ppc' = "gone" /\ chan = "dead" =>
        PollFails \/ \A s \in socks : s \in linger' \/ s[2] \in orphaned']_vars

\* Once the payload has gone, the local process returns (so keep can connect
\* again) unless vhci still runs a device over a live connection.
NoHungSession ==
  ppc = "gone" ~> (lpc = "done" \/ \E c \in Conns : c \notin cut /\ imp[c] # NoDevice)

\* A device whose connection is gone does not stay on usbip-host, in the session
\* or after it, unless its own socket was lost or a leftover row caught it.
DeviceReturns ==
  \A d \in Devices :
     (where[d] = "usbip-host" /\ using[d] = NoConn) ~>
        (where[d] # "usbip-host" \/ using[d] # NoConn \/ Excused(d))

\* A bind event the payload has in hand leads to that device being exported,
\* unless the device leaves or the session ends first.
UeventServed ==
  \A d \in Devices :
     (\E i \in DOMAIN uevents : uevents[i] = d) ~>
        (where[d] # "usb" \/ ppc = "gone")

\* "--vhub: keep monitoring for matching devices and hot-attach them as they
\* (re)appear" (README.md:89-90): a present device is taken while the session
\* lasts.
AppearsAttached ==
  \A d \in Devices :
     (opts.vhub /\ where[d] = "usb") ~> (where[d] # "usb" \/ ppc = "gone")
=============================================================================
