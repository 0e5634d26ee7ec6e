--------------------------- MODULE ReverseSession ---------------------------
(***************************************************************************)
(* One "attach -r HOST PATTERN" session, where the local machine exports:  *)
(* runReverseAttach, exportOne and reverseLinger (src/reverseside.go) in   *)
(* the local process, remoteImport (src/remoteside.go) in the payload.     *)
(* The local process watches the sockets itself, so its own end, by error, *)
(* by a dead channel or by a signal, decides what becomes of the devices.  *)
(***************************************************************************)
EXTENDS SshLink

VARIABLES
  lpc,      \* the local process
  todo,     \* local: devices of findDev not exported yet
  current,  \* local: the device announced and not attached yet
  socks,    \* local: its lingerSocks, <<connection, device>>
  sig,      \* local: SIGINT or SIGTERM was caught (shuttingDown, sigPipeW)
  ppc,      \* the payload
  dialing   \* payload: the connection and device of the -Dev line in hand

vars == <<linkVars, lpc, todo, current, socks, sig, ppc, dialing>>
local == <<lpc, todo, current, socks, sig, watching>>
payload == <<ppc, dialing>>

LingerSock == Conns \X Devices
NoDialing == <<NoConn, NoDevice>>

\* failed: an error returned before reverseLinger; ended: reverseLinger
\* returned; exited: os.Exit(0) after a signal.
Terminated == {"failed", "ended", "exited"}

TypeOK ==
  /\ LinkTypeOK
  /\ lpc \in {"start", "dial", "socket", "next", "accept", "poll", "recv", "return", "exit"} \cup Terminated
  /\ todo \subseteq Devices /\ current \in Devices \cup {NoDevice}
  /\ socks \subseteq LingerSock /\ sig \in BOOLEAN
  /\ ppc \in {"start", "read", "attach", "gone"}
  /\ dialing \in LingerSock \cup {NoDialing}

Init ==
  /\ LinkInit
  /\ lpc = "start" /\ todo = {} /\ current = NoDevice /\ socks = {} /\ sig = FALSE
  /\ ppc = "start" /\ dialing = NoDialing

Held == {s[1] : s \in socks} \cup {dialing[1]} \cup {using[d] : d \in Devices}
Listening == lpc \notin Terminated

-----------------------------------------------------------------------------
(* runReverseAttach *)

\* The process, or this session of it, is over: nothing is accepted any more.
LocalEnds(how) ==
  /\ lpc' = how /\ todo' = {} /\ current' = NoDevice /\ socks' = {}
  /\ watching' = FALSE /\ backlog' = <<>>
  /\ UNCHANGED sig

\* An error before reverseLinger: kill ssh and return, whatever socks holds.
ReturnError ==
  /\ LocalEnds("failed")
  /\ MasterGone
  /\ uevents' = <<>>
  /\ UNCHANGED <<opts, chan, dialed, hup, imp, where, using, row, events, payload>>

\* Signals are taken from here on (watchSignals).  findDev, the local listener.
Start(found) ==
  /\ lpc = "start"
  /\ \/ /\ found # {} /\ (opts.vhub \/ Cardinality(found) = 1)
        /\ lpc' = "dial" /\ todo' = found
        /\ UNCHANGED <<linkVars, current, socks, sig, payload>>
     \/ ReturnError

\* startRemote (RemoteCommand has its insides), which no signal interrupts and
\* no deadline bounds: it may wait at the terminal or in the payload's write.
StartRemote ==
  /\ lpc = "dial"
  /\ \/ lpc' = "socket" /\ UNCHANGED <<linkVars, todo, current, socks, sig, payload>>
     \/ ReturnError

\* waitSocket, then ssh -O forward -R and -O stop; any of them can fail.
WaitSocket ==
  /\ lpc = "socket"
  /\ \/ /\ master = "up" /\ ppc = "read" /\ lpc' = "next"
        /\ UNCHANGED <<linkVars, todo, current, socks, sig, payload>>
     \/ (ppc # "start" \/ master = "gone") /\ ReturnError

\* exportOne up to its accept: the write fails once ssh is gone.
AnnounceDev(d) ==
  /\ where[d] # "absent" /\ master = "up"
  /\ Say(d, ppc = "gone") /\ lpc' = "accept" /\ current' = d
  /\ UNCHANGED <<opts, master, chan, dialed, backlog, cut, hup, imp, where, using, row, events>>
  /\ UNCHANGED <<watching, socks, sig, payload>>

CannotAnnounce(d) == where[d] = "absent" \/ master = "gone"

NextDev(d) ==
  /\ lpc = "next" /\ d \in todo
  /\ \/ AnnounceDev(d) /\ todo' = todo \ {d} /\ UNCHANGED uevents
     \/ CannotAnnounce(d) /\ ReturnError

\* What an error of exportOne leads to: in the poll loop only a warning.
ExportFails(dropped, rest) ==
  IF ~watching THEN ReturnError
  ELSE /\ lpc' = "poll" /\ current' = NoDevice
       /\ Down(dropped) /\ backlog' = rest
       /\ UNCHANGED <<opts, master, chan, lines, dialed, imp, hostVars, events>>
       /\ UNCHANGED <<watching, todo, socks, sig, payload>>

\* Mutant: the lingerSock is made without the device's busid.
AcceptAttachUnnamed ==
  /\ lpc = "accept" /\ backlog # <<>>
  /\ AttachTo(current, Head(backlog))
  /\ backlog' = Tail(backlog) /\ current' = NoDevice
  /\ socks' = socks \cup {<<Head(backlog), NoDevice>>}
  /\ lpc' = IF watching THEN "poll" ELSE "next"
  /\ UNCHANGED <<opts, master, chan, lines, dialed, imp, uevents, events>>
  /\ UNCHANGED <<watching, todo, sig, payload>>

\* The rest of exportOne: accept, exporterAttach, hold.
AcceptAttach ==
  /\ lpc = "accept" /\ backlog # <<>>
  /\ LET c == Head(backlog)
     IN \/ /\ AttachTo(current, c)
           /\ backlog' = Tail(backlog) /\ current' = NoDevice
           /\ socks' = IF opts.noLinger THEN socks ELSE socks \cup {<<c, current>>}
           /\ lpc' = IF watching THEN "poll" ELSE "next"
           /\ UNCHANGED <<opts, master, chan, lines, dialed, imp, uevents, events>>
           /\ UNCHANGED <<watching, todo, sig, payload>>
        \/ ExportFails({c}, Tail(backlog))

AcceptTimeout ==
  /\ lpc = "accept" /\ backlog = <<>>
  /\ ExportFails({}, <<>>)

\* Mutant: the end of the devices is not announced.
EnterLingerSilent ==
  /\ lpc = "next" /\ todo = {} /\ ~opts.vhub /\ lpc' = "poll"
  /\ UNCHANGED <<linkVars, todo, current, socks, sig, payload>>

\* Without --vhub tell the payload to finish, then reverseLinger.
EnterLinger ==
  /\ lpc = "next" /\ todo = {} /\ ~opts.vhub
  /\ \/ /\ master = "up" /\ Say("eof", ppc = "gone") /\ lpc' = "poll"
        /\ UNCHANGED <<opts, master, chan, dialed, backlog, cut, hup, imp, hostVars, events>>
        /\ UNCHANGED <<watching, todo, current, socks, sig, payload>>
     \/ master = "gone" /\ ReturnError

-----------------------------------------------------------------------------
(* reverseLinger *)

OpenUevents ==
  /\ lpc = "next" /\ todo = {} /\ opts.vhub
  /\ lpc' = "poll" /\ watching' = TRUE
  /\ UNCHANGED <<netVars, cut, hup, imp, hostVars, events>>
  /\ UNCHANGED <<todo, current, socks, sig, payload>>

\* Mutant: rebindAll stops at the first error, a device that has gone already.
RebindAllStops(then) ==
  /\ LET gone == {s \in socks : where[s[2]] # "usbip-host"}
     IN DetachAll(IF gone = {} THEN {s[2] : s \in socks} ELSE {})
  /\ socks' = {} /\ lpc' = then
  /\ UNCHANGED <<netVars, imp, events, watching, todo, current, sig, payload>>

\* rebindAll; what comes after it depends on why.
RebindAll(then) ==
  /\ DetachAll({s[2] : s \in socks})
  /\ socks' = {} /\ lpc' = then
  /\ UNCHANGED <<netVars, imp, events, watching, todo, current, sig, payload>>

\* Mutant: the signal pipe is polled only along with some socket.
PollSignalWithSocks == lpc = "poll" /\ sig /\ socks # {} /\ RebindAll("exit")

\* A signal comes first, then a dead channel (the payload's output at its end).
PollSignal == lpc = "poll" /\ sig /\ RebindAll("exit")
PollDead == lpc = "poll" /\ ~sig /\ master = "gone" /\ RebindAll("return")

\* An error of the pipe, the uevent socket, poll or recv ends reverseLinger.
LingerFails ==
  /\ lpc \in {"poll", "recv"} \/ (lpc = "next" /\ todo = {} /\ opts.vhub)
  /\ RebindAll("return")

Hung(held) == {s \in held : s[1] \in hup}

\* Mutant: a hung-up socket is closed without detaching its device.
PollRoundForgets ==
  /\ lpc = "poll" /\ ~sig
  /\ Hung(socks) # {} \/ uevents # <<>>
  /\ socks' = socks \ Hung(socks)
  /\ lpc' = IF uevents # <<>> THEN "recv" ELSE "poll"
  /\ UNCHANGED <<linkVars, todo, current, sig, payload>>

\* The channel's end is relayed by a goroutine, so this round may not see it.
PollRound ==
  /\ lpc = "poll" /\ ~sig
  /\ Hung(socks) # {} \/ uevents # <<>>
  /\ DetachAll({s[2] : s \in Hung(socks)})
  /\ socks' = socks \ Hung(socks)
  /\ lpc' = IF uevents # <<>> THEN "recv" ELSE "poll"
  /\ UNCHANGED <<netVars, imp, events, watching, todo, current, sig, payload>>

Recv ==
  /\ lpc = "recv" /\ uevents' = Tail(uevents)
  /\ LET d == Head(uevents)
     IN \/ AnnounceDev(d) /\ UNCHANGED todo
        \/ /\ CannotAnnounce(d) /\ lpc' = "poll"
           /\ UNCHANGED <<netVars, cut, hup, imp, where, using, row, events>>
           /\ UNCHANGED <<watching, todo, current, socks, sig, payload>>

\* runReverseAttach returns, having made sure that ssh is gone.
Return ==
  /\ lpc = "return" /\ LocalEnds("ended")
  /\ MasterGone
  /\ uevents' = <<>>
  /\ UNCHANGED <<opts, chan, dialed, hup, imp, where, using, row, events, payload>>

\* os.Exit(0) does not kill ssh, whose standard input ends.
Exit ==
  /\ lpc = "exit" /\ LocalEnds("exited")
  /\ Down(Range(backlog)) /\ uevents' = <<>>
  /\ UNCHANGED <<opts, master, chan, lines, dialed, imp, where, using, row, events, payload>>

LocalStep ==
  \/ \E found \in SUBSET Devices :
        found = {d \in Devices : where[d] # "absent"} /\ Start(found)
  \/ WaitSocket \/ AcceptAttach \/ AcceptTimeout \/ EnterLinger \/ OpenUevents
  \/ PollSignal \/ PollDead \/ PollRound \/ Recv \/ Return \/ Exit
  \/ \E d \in Devices : NextDev(d)

Signal ==
  /\ ~sig /\ Listening /\ sig' = TRUE
  /\ UNCHANGED <<linkVars, lpc, todo, current, socks, payload>>

-----------------------------------------------------------------------------
(* remoteImport *)

PayloadEnds ==
  /\ ppc' = "gone" /\ dialing' = NoDialing
  /\ cut' = cut \cup ({dialing[1]} \ {NoConn})
  /\ lines' = <<>>
  /\ UNCHANGED <<opts, master, chan, dialed, backlog, hup, imp, hostVars, events, local>>

\* It has been shipped by startRemote.  The temporary directory, then -Socket.
PayloadStart ==
  /\ ppc = "start" /\ lpc # "start"
  /\ \/ ppc' = "read" /\ UNCHANGED <<linkVars, local, dialing>>
     \/ PayloadEnds

\* -Dev: connect back through the forward.
ReadDev(d, c) ==
  /\ ppc = "read" /\ lines # <<>> /\ Head(lines) = d
  /\ \/ /\ Dial(c, Held)
        /\ lines' = Tail(lines) /\ ppc' = "attach" /\ dialing' = <<c, d>>
        /\ UNCHANGED <<opts, master, chan, backlog, hostVars, events, local>>
     \/ PayloadEnds

\* importerAttach; vhci keeps its own reference to the socket.
ImportAttach ==
  /\ ppc = "attach"
  /\ \/ /\ ppc' = "read" /\ dialing' = NoDialing
        /\ imp' = [imp EXCEPT ![dialing[1]] = dialing[2]]
        /\ UNCHANGED <<netVars, cut, hup, hostVars, events, local>>
     \/ PayloadEnds

\* -Eof, or the end of standard input.
ReadEof ==
  /\ ppc = "read"
  /\ \/ lines # <<>> /\ Head(lines) = "eof"
     \/ lines = <<>> /\ (chan = "dead" \/ ~Listening)
  /\ PayloadEnds

PayloadStep ==
  \/ PayloadStart \/ ImportAttach \/ ReadEof
  \/ \E d \in Devices, c \in Conns : ReadDev(d, c)

-----------------------------------------------------------------------------
SshStep ==
  /\ \/ \E c \in Conns : Relay(c, Listening) \/ HangupArrives(c)
     \/ ChannelDies \/ MasterExits(ppc = "gone")
  /\ UNCHANGED <<lpc, todo, current, socks, sig, payload>>

EnvStep == Environment /\ UNCHANGED <<lpc, todo, current, socks, sig, payload>>

Next == LocalStep \/ StartRemote \/ LingerFails \/ Signal \/ PayloadStep \/ SshStep \/ EnvStep

\* As in a forward session; nothing has to fail, nobody to send a signal, and
\* startRemote need not return.
Fairness ==
  /\ WF_vars(LocalStep) /\ WF_vars(PayloadStep)
  /\ \A c \in Conns : WF_vars(Relay(c, Listening) /\ SshStep)
  /\ \A c \in Conns : WF_vars(HangupArrives(c) /\ SshStep)
  /\ WF_vars(ChannelDies /\ SshStep)
  /\ WF_vars(MasterExits(ppc = "gone") /\ SshStep)

Spec == Init /\ [][Next]_vars
FairSpec == Spec /\ Fairness

-----------------------------------------------------------------------------
(* What a session must keep *)

\* The importer's vhci and the exporter's stub mean the same device by a
\* connection: exportOne "announces the device to the payload, accepts the
\* connection the payload makes back" (reverseside.go:105-107).
Paired ==
  \A d \in Devices : using[d] # NoConn => imp[using[d]] \in {d, NoDevice}

NoneOnUsbipHost ==
  \A d \in Devices : where[d] = "usbip-host" => opts.noLinger \/ row[d] = "left"

\* However reverseLinger ends, by a dead channel or by a signal, and whatever
\* was attached, detached or replugged before, it leaves no device behind, but
\* one that came back to a row of match_busid that a detach had left there.
LingerLeavesNone ==
  lpc \in {"return", "exit", "ended", "exited"} => NoneOnUsbipHost

\* "The local process itself plays the linger role in-process, rebinding when
\* the importer or channel dies" (reverseside.go:49-50): no session ends with
\* one of its devices still on usbip-host, leftover rows apart.
EndRebinds == lpc \in Terminated => NoneOnUsbipHost

\* A signal stops the process, wherever in the session it arrives: only during
\* startRemote it can wait, for it is not looked at before that has returned.
SignalStops == sig ~> (lpc \in Terminated \/ lpc = "dial")

\* Without --vhub the session notices that its last connection has dropped: the
\* payload is gone by then, so ssh exits and its end is seen.
DropEndsSession ==
  (~opts.vhub /\ lpc = "poll" /\ cut = Conns) ~> lpc \in Terminated

\* While a session watches its sockets, a device whose connection is gone goes
\* home, also one that was replugged onto usbip-host before its detach; after a
\* detach that came too early, the leftover row can keep it there.
HangupReturns ==
  \A d \in Devices :
     (~opts.noLinger /\ where[d] = "usbip-host" /\ using[d] = NoConn) ~>
        \/ where[d] # "usbip-host" \/ using[d] # NoConn
        \/ row[d] = "left" \/ lpc = "failed"
=============================================================================
