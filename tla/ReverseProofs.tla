---------------------------- MODULE ReverseProofs ----------------------------
(***************************************************************************)
(* The safety invariants of ReverseSession, proved for any number of       *)
(* devices, connections, buffered lines and uevents, and any number of     *)
(* unplugs and failures.                                                   *)
(***************************************************************************)
EXTENDS ReverseSession, SshLinkProofs

(* The type invariant *)

SessionTyped ==
  /\ lpc \in {"start", "dial", "socket", "next", "accept", "poll", "recv", "return", "exit"} \cup Terminated
  /\ todo \subseteq Devices /\ current \in Devices \cup {NoDevice}
  /\ socks \subseteq LingerSock /\ sig \in BOOLEAN
  /\ ppc \in {"start", "read", "attach", "gone"}
  /\ dialing \in LingerSock \cup {NoDialing}

\* A process that waits for a connection has announced a device, and one that
\* reads an event has one to read.
InHand == (lpc = "accept" => current \in Devices) /\ (lpc = "recv" => uevents # <<>>)

Typed == LinkTypeOK /\ SessionTyped /\ InHand

LinkParted ==
  NetTyped /\ LinesTyped /\ ConnsTyped /\ HostTyped /\ UeventsTyped /\ RestTyped

LEMMA TypedParts ==
  /\ Typed <=> LinkParted /\ SessionTyped /\ InHand
  /\ Typed' <=> LinkParted' /\ SessionTyped' /\ InHand'
BY LinkParts DEF Typed, LinkParted

-----------------------------------------------------------------------------
(* The local process *)

\* It is over, and nothing else changes than the channel and the connections.
LEMMA EndsTyped ==
  ASSUME Typed, NEW how \in Terminated, LocalEnds(how), uevents' = <<>>,
         UNCHANGED <<opts, chan, dialed, imp, where, using, row, events, payload>>,
         master' \in {"up", "gone"}, LinesTyped', cut' \subseteq Conns, hup' \subseteq Conns
  PROVE  Typed'
<1>1. LinkParted /\ SessionTyped
  BY TypedParts
<1>2. /\ lpc' = how /\ todo' = {} /\ current' = NoDevice /\ socks' = {}
      /\ watching' = FALSE /\ backlog' = <<>> /\ UNCHANGED sig
  BY DEF LocalEnds
<1>3. NetTyped' /\ HostTyped'
  BY <1>1 DEF LinkParted, NetTyped, HostTyped
<1>4. ConnsTyped'
  BY <1>1, <1>2 DEF LinkParted, ConnsTyped
<1>5. UeventsTyped'
  <2>1. <<>> \in Seq(Devices) /\ Len(<<>>) = 0 /\ UeventCap \in Nat
    BY LinkAssumption
  <2> QED
    BY <2>1 DEF UeventsTyped
<1>6. RestTyped'
  BY <1>1, <1>2 DEF LinkParted, RestTyped
<1>7. SessionTyped' /\ InHand'
  BY <1>1, <1>2 DEF SessionTyped, InHand, Terminated, payload
<1> QED
  BY <1>3, <1>4, <1>5, <1>6, <1>7, TypedParts DEF LinkParted

LEMMA ErrorTyped == ASSUME Typed, ReturnError PROVE Typed'
<1>1. /\ LocalEnds("failed") /\ MasterGone /\ uevents' = <<>>
      /\ UNCHANGED <<opts, chan, dialed, hup, imp, where, using, row, events, payload>>
  BY DEF ReturnError
<1>2. LinesTyped' /\ master' = "gone" /\ cut' = Conns
  BY <1>1, MasterGoneTyped, TypedParts DEF LinkParted
<1>3. hup' \subseteq Conns
  BY <1>1, TypedParts DEF LinkParted, ConnsTyped
<1> QED
  BY <1>1, <1>2, <1>3, EndsTyped DEF Terminated

LEMMA ReturnTyped == ASSUME Typed, Return PROVE Typed'
<1>1. /\ LocalEnds("ended") /\ MasterGone /\ uevents' = <<>>
      /\ UNCHANGED <<opts, chan, dialed, hup, imp, where, using, row, events, payload>>
  BY DEF Return
<1>2. LinesTyped' /\ master' = "gone" /\ cut' = Conns
  BY <1>1, MasterGoneTyped, TypedParts DEF LinkParted
<1>3. hup' \subseteq Conns
  BY <1>1, TypedParts DEF LinkParted, ConnsTyped
<1> QED
  BY <1>1, <1>2, <1>3, EndsTyped DEF Terminated

LEMMA ExitTyped == ASSUME Typed, Exit PROVE Typed'
<1>1. /\ LocalEnds("exited") /\ Down(Range(backlog)) /\ uevents' = <<>>
      /\ UNCHANGED <<opts, master, chan, lines, dialed, imp, where, using, row, events, payload>>
  BY DEF Exit
<1>2. LinkParted
  BY TypedParts
<1>3. Range(backlog) \subseteq Conns /\ cut \subseteq Conns /\ hup \subseteq Conns
  BY <1>2, RangeIs DEF LinkParted, ConnsTyped
<1>4. cut' \subseteq Conns /\ hup' \subseteq Conns
  BY <1>1, <1>3 DEF Down
<1>5. LinesTyped' /\ master' \in {"up", "gone"}
  BY <1>1, <1>2 DEF LinkParted, LinesTyped, NetTyped
<1> QED
  BY <1>1, <1>4, <1>5, EndsTyped DEF Terminated

LEMMA SaysTyped ==
  ASSUME Typed, NEW line \in Lines, Say(line, ppc = "gone")
  PROVE  LinesTyped'
<1> DEFINE lost == ppc = "gone"
<1>1. Say(line, lost)
  OBVIOUS
<1> HIDE DEF lost
<1> QED
  BY <1>1, SaidTyped, TypedParts DEF LinkParted

LEMMA AnnounceDevTyped ==
  ASSUME Typed, NEW d \in Devices, AnnounceDev(d), UeventsTyped', todo' \subseteq Devices
  PROVE  Typed'
<1>1. LinkParted /\ SessionTyped
  BY TypedParts
<1>2. LinesTyped'
  <2>1. d \in Lines
    BY DEF Lines
  <2> QED
    BY <2>1, SaysTyped DEF AnnounceDev
<1>3. /\ lpc' = "accept" /\ current' = d
      /\ UNCHANGED <<opts, master, chan, dialed, backlog, cut, hup, imp, where, using, row, events>>
      /\ UNCHANGED <<watching, socks, sig, ppc, dialing>>
  BY DEF AnnounceDev, payload
<1>4. SessionTyped' /\ InHand'
  BY <1>1, <1>3 DEF SessionTyped, InHand
<1> QED
  BY <1>1, <1>2, <1>3, <1>4, TypedParts
     DEF LinkParted, NetTyped, ConnsTyped, HostTyped, RestTyped

LEMMA ExportFailsTyped ==
  ASSUME Typed, NEW dropped \in SUBSET Conns, NEW rest \in Seq(Conns),
         ExportFails(dropped, rest)
  PROVE  Typed'
<1>1. CASE ReturnError
  BY <1>1, ErrorTyped
<1>2. ASSUME ~ReturnError PROVE Typed'
  <2>1. LinkParted /\ SessionTyped
    BY TypedParts
  <2>2. /\ lpc' = "poll" /\ current' = NoDevice /\ Down(dropped) /\ backlog' = rest
        /\ UNCHANGED <<opts, master, chan, lines, dialed, imp, where, using, row, uevents, events>>
        /\ UNCHANGED <<watching, todo, socks, sig, ppc, dialing>>
    BY <1>2 DEF ExportFails, hostVars, payload
  <2>3. ConnsTyped'
    BY <2>1, <2>2 DEF LinkParted, ConnsTyped, Down
  <2>4. SessionTyped' /\ InHand'
    BY <2>1, <2>2 DEF SessionTyped, InHand
  <2> QED
    BY <2>1, <2>2, <2>3, <2>4, TypedParts
       DEF LinkParted, NetTyped, LinesTyped, HostTyped, UeventsTyped, RestTyped
<1> QED
  BY <1>1, <1>2

\* Devices are detached, of sockets the process holds, and go home.
LEMMA RebindTyped ==
  ASSUME Typed, NEW gone \in SUBSET socks, DetachAll({s[2] : s \in gone}),
         UNCHANGED <<netVars, imp, events, watching, todo, current, sig, payload>>,
         socks' \subseteq socks,
         lpc' \in {"poll", "return", "exit"} \/ (lpc' = "recv" /\ uevents # <<>>)
  PROVE  Typed'
<1> DEFINE D == {s[2] : s \in gone}
<1>1. LinkParted /\ SessionTyped
  BY TypedParts
<1>2. D \in SUBSET Devices
  BY <1>1 DEF SessionTyped, LingerSock
<1>3. DetachAll(D)
  OBVIOUS
<1> HIDE DEF D
<1>4. /\ HostTyped' /\ UeventsTyped' /\ cut' \subseteq Conns /\ hup' \subseteq Conns
      /\ uevents # <<>> => uevents' # <<>>
  BY <1>1, <1>2, <1>3, DetachTyped DEF LinkParted
<1>5. UNCHANGED <<opts, master, chan, lines, dialed, backlog, imp, events, watching>>
  BY DEF netVars
<1>6. UNCHANGED <<todo, current, sig, ppc, dialing>>
  BY DEF payload
<1>7. ConnsTyped'
  BY <1>1, <1>4, <1>5 DEF LinkParted, ConnsTyped
<1>8. SessionTyped' /\ InHand'
  BY <1>1, <1>4, <1>6 DEF SessionTyped, InHand
<1> QED
  BY <1>1, <1>4, <1>5, <1>7, <1>8, TypedParts
     DEF LinkParted, NetTyped, LinesTyped, RestTyped
LEMMA LocalTyped == Typed /\ (LocalStep \/ StartRemote \/ LingerFails \/ Signal) => Typed'
<1> SUFFICES ASSUME Typed, LocalStep \/ StartRemote \/ LingerFails \/ Signal PROVE Typed'
  OBVIOUS
<1>1. LinkParted /\ SessionTyped /\ InHand
  BY TypedParts
<1>2. CASE ReturnError
  BY <1>2, ErrorTyped
\* Steps that leave the link alone.
<1>3. ASSUME UNCHANGED <<netVars, cut, hup, imp, hostVars, events>>, watching' \in BOOLEAN,
             SessionTyped', InHand'
      PROVE  Typed'
  BY <1>1, <1>3, TypedParts
     DEF LinkParted, NetTyped, LinesTyped, ConnsTyped, HostTyped, UeventsTyped, RestTyped,
         netVars, hostVars
<1>4. ASSUME NEW found, found = {d \in Devices : where[d] # "absent"}, Start(found), ~ReturnError
      PROVE  Typed'
  <2>1. /\ lpc' = "dial" /\ todo' = found
        /\ UNCHANGED <<linkVars, current, socks, sig, payload>>
    BY <1>4 DEF Start
  <2>2. SessionTyped' /\ InHand'
    BY <1>1, <1>4, <2>1 DEF SessionTyped, InHand, payload
  <2>3. UNCHANGED <<netVars, cut, hup, imp, hostVars, events>> /\ watching' \in BOOLEAN
    BY <1>1, <2>1 DEF linkVars, netVars, hostVars, LinkParted, RestTyped
  <2> QED
    BY <1>3, <2>2, <2>3
<1>5. ASSUME StartRemote \/ WaitSocket, ~ReturnError PROVE Typed'
  <2>1. lpc' \in {"socket", "next"} /\ UNCHANGED <<linkVars, todo, current, socks, sig, payload>>
    BY <1>5 DEF StartRemote, WaitSocket
  <2>2. SessionTyped' /\ InHand'
    BY <1>1, <2>1 DEF SessionTyped, InHand, payload
  <2>3. UNCHANGED <<netVars, cut, hup, imp, hostVars, events>> /\ watching' \in BOOLEAN
    BY <1>1, <2>1 DEF linkVars, netVars, hostVars, LinkParted, RestTyped
  <2> QED
    BY <1>3, <2>2, <2>3
<1>6. ASSUME NEW d \in Devices, NextDev(d), ~ReturnError PROVE Typed'
  <2>1. AnnounceDev(d) /\ todo' = todo \ {d} /\ UNCHANGED uevents
    BY <1>6 DEF NextDev
  <2>2. UeventsTyped' /\ todo' \subseteq Devices
    BY <1>1, <2>1 DEF LinkParted, UeventsTyped, SessionTyped
  <2> QED
    BY <2>1, <2>2, AnnounceDevTyped
<1>7. ASSUME AcceptAttach PROVE Typed'
  <2> DEFINE c == Head(backlog)
  <2>1. c \in Conns /\ Tail(backlog) \in Seq(Conns) /\ current \in Devices
    BY <1>1, <1>7 DEF AcceptAttach, LinkParted, ConnsTyped, InHand
  <2>2. CASE ExportFails({c}, Tail(backlog))
    <3>1. {c} \in SUBSET Conns
      BY <2>1
    <3> HIDE DEF c
    <3> QED
      BY <2>1, <2>2, <3>1, ExportFailsTyped
  <2>3. ASSUME ~ExportFails({c}, Tail(backlog)) PROVE Typed'
    <3>1. /\ AttachTo(current, c) /\ backlog' = Tail(backlog) /\ current' = NoDevice
          /\ socks' = socks \/ socks' = socks \cup {<<c, current>>}
          /\ lpc' = "poll" \/ lpc' = "next"
          /\ UNCHANGED <<opts, master, chan, lines, dialed, imp, uevents, events>>
          /\ UNCHANGED <<watching, todo, sig, ppc, dialing>>
      BY <1>7, <2>3 DEF AcceptAttach, payload
    <3>2. HostTyped' /\ cut' \subseteq Conns /\ hup' \subseteq Conns
      BY <1>1, <2>1, <3>1, AttachTyped DEF LinkParted
    <3>3. ConnsTyped'
      BY <1>1, <2>1, <3>1, <3>2 DEF LinkParted, ConnsTyped
    <3>4. SessionTyped' /\ InHand'
      BY <1>1, <2>1, <3>1 DEF SessionTyped, InHand, LingerSock
    <3> QED
      BY <1>1, <3>1, <3>2, <3>3, <3>4, TypedParts
         DEF LinkParted, NetTyped, LinesTyped, UeventsTyped, RestTyped
  <2> QED
    BY <2>2, <2>3
<1>8. ASSUME AcceptTimeout PROVE Typed'
  <2>1. <<>> \in Seq(Conns) /\ {} \in SUBSET Conns
    OBVIOUS
  <2> QED
    BY <1>8, <2>1, ExportFailsTyped DEF AcceptTimeout
<1>9. ASSUME EnterLinger, ~ReturnError PROVE Typed'
  <2>1. /\ Say("eof", ppc = "gone") /\ lpc' = "poll"
        /\ UNCHANGED <<opts, master, chan, dialed, backlog, cut, hup, imp, where, using, row, uevents>>
        /\ UNCHANGED <<events, watching, todo, current, socks, sig, ppc, dialing>>
    BY <1>9 DEF EnterLinger, hostVars, payload
  <2>2. LinesTyped'
    BY <2>1, SaysTyped DEF Lines
  <2>3. SessionTyped' /\ InHand'
    BY <1>1, <2>1 DEF SessionTyped, InHand
  <2> QED
    BY <1>1, <2>1, <2>2, <2>3, TypedParts
       DEF LinkParted, NetTyped, ConnsTyped, HostTyped, UeventsTyped, RestTyped
<1>10. ASSUME OpenUevents PROVE Typed'
  <2>1. /\ lpc' = "poll" /\ watching' = TRUE
        /\ UNCHANGED <<netVars, cut, hup, imp, hostVars, events>>
        /\ UNCHANGED <<todo, current, socks, sig, payload>>
    BY <1>10 DEF OpenUevents
  <2>2. SessionTyped' /\ InHand'
    BY <1>1, <2>1 DEF SessionTyped, InHand, payload
  <2> QED
    BY <1>3, <2>1, <2>2
<1>11. ASSUME NEW then \in {"return", "exit"}, RebindAll(then) PROVE Typed'
  <2>1. /\ DetachAll({s[2] : s \in socks}) /\ socks' = {} /\ lpc' = then
        /\ UNCHANGED <<netVars, imp, events, watching, todo, current, sig, payload>>
    BY <1>11 DEF RebindAll
  <2> QED
    BY <2>1, RebindTyped
<1>12. ASSUME PollRound PROVE Typed'
  <2>1. /\ DetachAll({s[2] : s \in Hung(socks)}) /\ socks' = socks \ Hung(socks)
        /\ UNCHANGED <<netVars, imp, events, watching, todo, current, sig, payload>>
        /\ lpc' = "poll" \/ (lpc' = "recv" /\ uevents # <<>>)
    BY <1>12 DEF PollRound
  <2>2. Hung(socks) \in SUBSET socks
    BY DEF Hung
  <2> QED
    BY <2>1, <2>2, RebindTyped
<1>13. ASSUME Recv PROVE Typed'
  <2>1. uevents # <<>> /\ uevents' = Tail(uevents)
    BY <1>1, <1>13 DEF Recv, InHand
  <2>2. UeventsTyped' /\ Head(uevents) \in Devices
    BY <1>1, <2>1, TailTyped DEF LinkParted
  <2>3. CASE AnnounceDev(Head(uevents)) /\ UNCHANGED todo
    <3>1. todo' \subseteq Devices
      BY <1>1, <2>3 DEF SessionTyped
    <3> QED
      BY <2>2, <2>3, <3>1, AnnounceDevTyped
  <2>4. ASSUME lpc' = "poll", UNCHANGED <<netVars, cut, hup, imp, where, using, row, events>>,
               UNCHANGED <<watching, todo, current, socks, sig, payload>>
        PROVE  Typed'
    <3>1. SessionTyped' /\ InHand'
      BY <1>1, <2>4 DEF SessionTyped, InHand, payload
    <3> QED
      BY <1>1, <2>2, <2>4, <3>1, TypedParts
         DEF LinkParted, NetTyped, LinesTyped, ConnsTyped, HostTyped, RestTyped, netVars
  <2> QED
    BY <1>13, <2>3, <2>4 DEF Recv
<1>14. ASSUME Signal PROVE Typed'
  <2>1. sig' = TRUE /\ UNCHANGED <<linkVars, lpc, todo, current, socks, payload>>
    BY <1>14 DEF Signal
  <2>2. SessionTyped' /\ InHand'
    BY <1>1, <2>1 DEF SessionTyped, InHand, payload, linkVars
  <2>3. UNCHANGED <<netVars, cut, hup, imp, hostVars, events>> /\ watching' \in BOOLEAN
    BY <1>1, <2>1 DEF linkVars, netVars, hostVars, LinkParted, RestTyped
  <2> QED
    BY <1>3, <2>2, <2>3
<1>15. CASE LocalStep
  BY <1>2, <1>4, <1>5, <1>6, <1>7, <1>8, <1>9, <1>10, <1>11, <1>12, <1>13, <1>15,
     ReturnTyped, ExitTyped DEF LocalStep, PollSignal, PollDead
<1> QED
  BY <1>2, <1>5, <1>11, <1>14, <1>15 DEF LingerFails
-----------------------------------------------------------------------------
(* The payload, ssh and the environment *)

LEMMA PayloadEndsTyped == ASSUME Typed, PayloadEnds PROVE Typed'
<1>1. LinkParted /\ SessionTyped /\ InHand
  BY TypedParts
<1>2. /\ ppc' = "gone" /\ dialing' = NoDialing /\ lines' = <<>>
      /\ cut' = cut \cup ({dialing[1]} \ {NoConn})
      /\ UNCHANGED <<opts, master, chan, dialed, backlog, hup, imp, where, using, row, uevents, events>>
      /\ UNCHANGED <<lpc, todo, current, socks, sig, watching>>
  BY DEF PayloadEnds, hostVars, local
<1>3. dialing[1] \in Conns \cup {NoConn}
  BY <1>1 DEF SessionTyped, LingerSock, NoDialing
<1>4. ConnsTyped'
  BY <1>1, <1>2, <1>3 DEF LinkParted, ConnsTyped
<1>5. LinesTyped'
  <2>1. <<>> \in Seq(Lines) /\ Len(<<>>) = 0 /\ MaxLines \in Nat
    BY LinkAssumption
  <2> QED
    BY <1>2, <2>1 DEF LinesTyped
<1>6. SessionTyped' /\ InHand'
  BY <1>1, <1>2 DEF SessionTyped, InHand
<1> QED
  BY <1>1, <1>2, <1>4, <1>5, <1>6, TypedParts
     DEF LinkParted, NetTyped, HostTyped, UeventsTyped, RestTyped

LEMMA PayloadTyped == Typed /\ PayloadStep => Typed'
<1> SUFFICES ASSUME Typed, PayloadStep PROVE Typed'
  OBVIOUS
<1>1. LinkParted /\ SessionTyped /\ InHand
  BY TypedParts
<1>2. CASE PayloadEnds
  BY <1>2, PayloadEndsTyped
<1>3. ASSUME PayloadStart, ~PayloadEnds PROVE Typed'
  <2>1. /\ ppc' = "read"
        /\ UNCHANGED <<opts, master, chan, lines, dialed, backlog, cut, hup, imp, where, using, row>>
        /\ UNCHANGED <<uevents, events, lpc, todo, current, socks, sig, watching, dialing>>
    BY <1>3 DEF PayloadStart, linkVars, local
  <2>2. SessionTyped' /\ InHand'
    BY <1>1, <2>1 DEF SessionTyped, InHand
  <2> QED
    BY <1>1, <2>1, <2>2, TypedParts
       DEF LinkParted, NetTyped, LinesTyped, ConnsTyped, HostTyped, UeventsTyped, RestTyped
<1>4. ASSUME NEW d \in Devices, NEW c \in Conns, ReadDev(d, c), ~PayloadEnds PROVE Typed'
  <2>1. /\ lines # <<>> /\ lines' = Tail(lines) /\ Dial(c, Held)
        /\ ppc' = "attach" /\ dialing' = <<c, d>>
        /\ UNCHANGED <<opts, master, chan, backlog, where, using, row, uevents, events>>
        /\ UNCHANGED <<lpc, todo, current, socks, sig, watching>>
    BY <1>4 DEF ReadDev, hostVars, local
  <2>2. LinesTyped' /\ ConnsTyped'
    BY <1>1, <2>1, TakenTyped, DialTyped DEF LinkParted
  <2>3. SessionTyped' /\ InHand'
    BY <1>1, <2>1 DEF SessionTyped, InHand, LingerSock
  <2> QED
    BY <1>1, <2>1, <2>2, <2>3, TypedParts
       DEF LinkParted, NetTyped, HostTyped, UeventsTyped, RestTyped
<1>5. ASSUME ImportAttach, ~PayloadEnds PROVE Typed'
  <2>1. /\ ppc' = "read" /\ dialing' = NoDialing
        /\ imp' = [imp EXCEPT ![dialing[1]] = dialing[2]]
        /\ UNCHANGED <<opts, master, chan, lines, dialed, backlog, cut, hup, where, using, row>>
        /\ UNCHANGED <<uevents, events, lpc, todo, current, socks, sig, watching>>
    BY <1>5 DEF ImportAttach, netVars, hostVars, local
  <2>2. dialing[2] \in Devices \cup {NoDevice}
    BY <1>1 DEF SessionTyped, LingerSock, NoDialing
  <2>3. ConnsTyped'
    BY <1>1, <2>1, <2>2 DEF LinkParted, ConnsTyped
  <2>4. SessionTyped' /\ InHand'
    BY <1>1, <2>1 DEF SessionTyped, InHand
  <2> QED
    BY <1>1, <2>1, <2>3, <2>4, TypedParts
       DEF LinkParted, NetTyped, LinesTyped, HostTyped, UeventsTyped, RestTyped
<1> QED
  BY <1>2, <1>3, <1>4, <1>5 DEF PayloadStep, ReadEof

LEMMA OthersTyped == Typed /\ (SshStep \/ EnvStep) => Typed'
<1> SUFFICES ASSUME Typed, SshStep \/ EnvStep PROVE Typed'
  OBVIOUS
<1>1. LinkTypeOK /\ SessionTyped /\ InHand
  BY DEF Typed
<1>2. UNCHANGED <<lpc, todo, current, socks, sig, payload>>
  BY DEF SshStep, EnvStep
<1>3. LinkTypeOK' /\ (uevents # <<>> => uevents' # <<>>)
  <2> DEFINE over == ppc = "gone"
             listening == Listening
  <2>1. SshStep => \/ \E c \in Conns : Relay(c, listening) \/ HangupArrives(c)
                   \/ ChannelDies \/ MasterExits(over)
    BY DEF SshStep
  <2> HIDE DEF over, listening
  <2>2. CASE SshStep
    BY <1>1, <2>1, <2>2, SshTyped
  <2>3. CASE EnvStep
    BY <1>1, <2>3, EnvironmentTyped DEF EnvStep
  <2> QED
    BY <2>2, <2>3
<1> QED
  BY <1>1, <1>2, <1>3 DEF Typed, SessionTyped, InHand, payload

LEMMA AlwaysTyped == Spec => []Typed
<1>1. Init => Typed
  <2> SUFFICES ASSUME Init PROVE Typed
    OBVIOUS
  <2>1. /\ <<>> \in Seq(Lines) /\ <<>> \in Seq(Conns) /\ <<>> \in Seq(Devices) /\ Len(<<>>) = 0
        /\ MaxLines \in Nat /\ UeventCap \in Nat /\ MaxEvents \in Nat
    BY LinkAssumption
  <2>2. LinesTyped /\ UeventsTyped
    <3>1. lines = <<>> /\ uevents = <<>>
      BY DEF Init, LinkInit
    <3> QED
      BY <2>1, <3>1 DEF LinesTyped, UeventsTyped
  <2>3. RestTyped
    <3>1. watching = FALSE /\ events = 0
      BY DEF Init, LinkInit
    <3>2. 0 \in 0..MaxEvents /\ FALSE \in BOOLEAN
      BY <2>1
    <3> QED
      BY <3>1, <3>2, Zenon DEF RestTyped
  <2>4. where \in [Devices -> {"absent", "usb", "usbip-host"}]
    BY DEF Init, LinkInit
  <2>5. NetTyped /\ ConnsTyped /\ HostTyped
    BY <2>1, <2>4 DEF Init, LinkInit, NetTyped, ConnsTyped, HostTyped
  <2> QED
    BY <2>2, <2>3, <2>5, TypedParts DEF Init, LinkParted, SessionTyped, InHand
<1>2. Typed /\ [Next]_vars => Typed'
  <2>1. ASSUME Typed, UNCHANGED vars PROVE Typed'
    <3>1. LinkParted /\ SessionTyped /\ InHand
      BY <2>1, TypedParts
    <3> QED
      BY <2>1, <3>1, TypedParts
         DEF vars, linkVars, LinkParted, NetTyped, LinesTyped, ConnsTyped, HostTyped,
             UeventsTyped, RestTyped, SessionTyped, InHand
  <2> QED
    BY <2>1, LocalTyped, PayloadTyped, OthersTyped DEF Next
<1> QED
  BY <1>1, <1>2, PTL DEF Spec

\* For any devices, connections and buffers, the variables of a reverse session
\* have their types: the channel and the uevent socket keep their bounds, and
\* all that a process holds are connections and devices of the session
\* (reverseside.go:51-306, remoteside.go:182-233).
THEOREM TypeCorrect == Spec => []TypeOK
<1>1. Typed => TypeOK
  BY DEF Typed, SessionTyped, TypeOK
<1> QED
  BY <1>1, AlwaysTyped, PTL
-----------------------------------------------------------------------------
(* LingerLeavesNone *)

\* Until the process fails, it holds a socket of every device whose row it made
\* and has not tried to delete, wherever the device is now;
Kept ==
  ~opts.noLinger /\ lpc # "failed" =>
     \A d \in Devices : row[d] = "match" => \E s \in socks : s[2] = d

\* and once reverseLinger is over it holds none.
Over == lpc \in {"return", "exit", "ended", "exited"} => socks = {}

KeptInv == Rowed /\ Kept /\ Over

\* A step that takes no socket from the process, and no device without a row to
\* usbip-host.
LEMMA StillKept ==
  ASSUME KeptInv, UNCHANGED <<opts, row, socks>>,
         lpc' \in {"return", "exit", "ended", "exited"} => socks = {},
         lpc' # "failed" => lpc # "failed",
         \A d \in Devices : where'[d] = "usbip-host" => where[d] = "usbip-host" \/ row[d] # "none"
  PROVE  KeptInv'
BY DEF KeptInv, Rowed, Kept, Over

\* Devices of the sockets given up go home, and the others were not given up.
LEMMA RebindKept ==
  ASSUME Typed, KeptInv, NEW gone \in SUBSET socks, DetachAll({s[2] : s \in gone}),
         socks' = socks \ gone, UNCHANGED opts, lpc # "failed",
         lpc' \in {"poll", "recv"} \/ socks' = {}
  PROVE  KeptInv'
<1> DEFINE D == {s[2] : s \in gone}
<1>1. LinkParted /\ SessionTyped
  BY TypedParts
<1>2. D \in SUBSET Devices
  BY <1>1 DEF SessionTyped, LingerSock
<1>3. DetachAll(D) /\ \A s \in gone : s[2] \in D
  OBVIOUS
<1> HIDE DEF D
<1>4. /\ \A d \in D : where'[d] # "usbip-host" /\ row'[d] # "match"
      /\ \A d \in Devices : where'[d] = "usbip-host" => where[d] = "usbip-host"
      /\ \A d \in Devices \ D : row'[d] = row[d]
  BY <1>1, <1>2, <1>3, DetachTyped DEF LinkParted
<1>5. Kept'
  <2> SUFFICES ASSUME ~opts.noLinger, NEW d \in Devices, row'[d] = "match"
               PROVE  \E s \in socks' : s[2] = d
    BY DEF Kept
  <2>1. PICK s \in socks : s[2] = d
    BY <1>4 DEF KeptInv, Kept
  <2>2. s \notin gone
    BY <1>3, <1>4, <2>1
  <2> QED
    BY <2>1, <2>2
<1>6. Over'
  BY DEF Over
<1>7. Rowed'
  BY <1>4 DEF KeptInv, Rowed
<1> QED
  BY <1>5, <1>6, <1>7 DEF KeptInv

LEMMA FailedKept == ASSUME KeptInv, lpc' = "failed", UNCHANGED <<where, row>> PROVE KeptInv'
BY DEF KeptInv, Rowed, Kept, Over

LEMMA LocalKept ==
  Typed /\ KeptInv /\ (LocalStep \/ StartRemote \/ LingerFails \/ Signal) => KeptInv'
<1> SUFFICES ASSUME Typed, KeptInv, LocalStep \/ StartRemote \/ LingerFails \/ Signal
             PROVE  KeptInv'
  OBVIOUS
<1>1. LinkParted /\ SessionTyped /\ InHand
  BY TypedParts
<1>2. CASE ReturnError
  BY <1>2, FailedKept DEF ReturnError, LocalEnds
<1>3. ASSUME NEW found, Start(found), ~ReturnError PROVE KeptInv'
  <2>1. lpc = "start" /\ lpc' = "dial" /\ UNCHANGED <<opts, where, row, socks>>
    BY <1>3 DEF Start, linkVars
  <2> QED
    BY <2>1, StillKept
<1>4. ASSUME StartRemote \/ WaitSocket, ~ReturnError PROVE KeptInv'
  <2>1. /\ lpc \in {"dial", "socket"} /\ lpc' \in {"socket", "next"}
        /\ UNCHANGED <<opts, where, row, socks>>
    BY <1>4 DEF StartRemote, WaitSocket, linkVars
  <2> QED
    BY <2>1, StillKept
<1>5. ASSUME NEW d, AnnounceDev(d), lpc \in {"next", "recv"} PROVE KeptInv'
  <2>1. lpc' = "accept" /\ UNCHANGED <<opts, where, row, socks>>
    BY <1>5 DEF AnnounceDev
  <2> QED
    BY <1>5, <2>1, StillKept
<1>6. ASSUME NEW d \in Devices, NextDev(d) PROVE KeptInv'
  BY <1>2, <1>5, <1>6 DEF NextDev
<1>7. ASSUME NEW dropped, NEW rest, ExportFails(dropped, rest), lpc = "accept" PROVE KeptInv'
  <2>1. ASSUME ~ReturnError PROVE lpc' = "poll" /\ UNCHANGED <<opts, where, row, socks>>
    BY <1>7, <2>1 DEF ExportFails, hostVars
  <2> QED
    BY <1>2, <1>7, <2>1, StillKept
<1>8. ASSUME AcceptAttach PROVE KeptInv'
  <2> DEFINE c == Head(backlog)
             rest == Tail(backlog)
  <2>1. c \in Conns /\ current \in Devices /\ lpc = "accept"
    BY <1>1, <1>8 DEF AcceptAttach, LinkParted, ConnsTyped, InHand
  <2>2. ExportFails({c}, rest)
          \/ /\ AttachTo(current, c) /\ UNCHANGED opts
             /\ socks' = IF opts.noLinger THEN socks ELSE socks \cup {<<c, current>>}
             /\ lpc' \in {"poll", "next"}
    BY <1>8 DEF AcceptAttach
  <2> HIDE DEF c, rest
  <2>3. CASE ExportFails({c}, rest)
    BY <1>7, <2>1, <2>3
  <2>4. ASSUME AttachTo(current, c), UNCHANGED opts, lpc' \in {"poll", "next"},
               socks' = IF opts.noLinger THEN socks ELSE socks \cup {<<c, current>>}
        PROVE  KeptInv'
    <3>1. /\ \A d \in Devices \ {current} : where'[d] = where[d] /\ row'[d] = row[d]
          /\ row'[current] = "match"
      BY <1>1, <2>1, <2>4, AttachTyped DEF LinkParted
    <3>3. Rowed'
      BY <3>1 DEF KeptInv, Rowed
    <3>2. ASSUME ~opts.noLinger, NEW d \in Devices, row'[d] = "match"
          PROVE  \E s \in socks' : s[2] = d
      <4>1. CASE d = current
        <5>1. <<c, current>> \in socks' /\ <<c, current>>[2] = d
          BY <2>4, <3>2, <4>1
        <5> QED
          BY <5>1
      <4>2. CASE d # current
        <5>1. PICK s \in socks : s[2] = d
          BY <2>1, <3>1, <3>2, <4>2 DEF KeptInv, Kept
        <5> QED
          BY <2>4, <3>2, <5>1
      <4> QED
        BY <4>1, <4>2
    <3> QED
      BY <2>4, <3>2, <3>3 DEF KeptInv, Kept, Over
  <2> QED
    BY <2>2, <2>3, <2>4
<1>9. ASSUME AcceptTimeout PROVE KeptInv'
  BY <1>7, <1>9 DEF AcceptTimeout
<1>10. ASSUME EnterLinger, ~ReturnError PROVE KeptInv'
  <2>1. lpc = "next" /\ lpc' = "poll" /\ UNCHANGED <<opts, where, row, socks>>
    BY <1>10 DEF EnterLinger, hostVars
  <2> QED
    BY <2>1, StillKept
<1>11. ASSUME OpenUevents PROVE KeptInv'
  <2>1. lpc = "next" /\ lpc' = "poll" /\ UNCHANGED <<opts, where, row, socks>>
    BY <1>11 DEF OpenUevents, netVars, hostVars
  <2> QED
    BY <2>1, StillKept
<1>12. ASSUME NEW then, RebindAll(then), lpc \in {"next", "poll", "recv"} PROVE KeptInv'
  <2>1. /\ DetachAll({s[2] : s \in socks}) /\ socks' = {} /\ socks' = socks \ socks
        /\ UNCHANGED opts
    BY <1>12 DEF RebindAll, netVars
  <2> QED
    BY <1>12, <2>1, RebindKept
<1>13. ASSUME PollRound PROVE KeptInv'
  <2>1. /\ DetachAll({s[2] : s \in Hung(socks)}) /\ socks' = socks \ Hung(socks)
        /\ UNCHANGED opts /\ lpc = "poll" /\ lpc' \in {"poll", "recv"}
    BY <1>13 DEF PollRound, netVars
  <2>2. Hung(socks) \in SUBSET socks
    BY DEF Hung
  <2> QED
    BY <2>1, <2>2, RebindKept
<1>14. ASSUME Recv PROVE KeptInv'
  <2>1. CASE AnnounceDev(Head(uevents))
    BY <1>5, <1>14, <2>1 DEF Recv
  <2>2. ASSUME ~AnnounceDev(Head(uevents))
        PROVE  lpc = "recv" /\ lpc' = "poll" /\ UNCHANGED <<opts, where, row, socks>>
    BY <1>14, <2>2 DEF Recv, netVars
  <2> QED
    BY <2>1, <2>2, StillKept
<1>15. ASSUME Return \/ Exit PROVE KeptInv'
  <2>1. lpc \in {"return", "exit"} /\ socks' = {} /\ UNCHANGED <<opts, where, row>>
    BY <1>15 DEF Return, Exit, LocalEnds
  <2> QED
    BY <2>1 DEF KeptInv, Rowed, Kept, Over
<1>16. ASSUME Signal PROVE KeptInv'
  <2>1. UNCHANGED <<opts, where, row, socks, lpc>>
    BY <1>16 DEF Signal, linkVars
  <2> QED
    BY <2>1, StillKept DEF KeptInv, Over
<1>17. CASE LocalStep
  BY <1>2, <1>3, <1>4, <1>6, <1>8, <1>9, <1>10, <1>11, <1>12, <1>13, <1>14, <1>15, <1>17
     DEF LocalStep, PollSignal, PollDead
<1> QED
  BY <1>2, <1>4, <1>12, <1>16, <1>17 DEF LingerFails

LEMMA OthersKept == Typed /\ KeptInv /\ (PayloadStep \/ SshStep \/ EnvStep) => KeptInv'
<1> SUFFICES ASSUME Typed, KeptInv, PayloadStep \/ SshStep \/ EnvStep PROVE KeptInv'
  OBVIOUS
<1>1. LinkTypeOK
  BY DEF Typed
<1>2. CASE PayloadStep
  <2>1. UNCHANGED <<opts, where, row, lpc, socks>>
    BY <1>2 DEF PayloadStep, PayloadStart, PayloadEnds, ReadDev, ImportAttach, ReadEof,
                linkVars, netVars, hostVars, local
  <2> QED
    BY <2>1, StillKept DEF KeptInv, Over
<1>3. CASE SshStep
  <2>1. UNCHANGED <<opts, where, row, lpc, socks>>
    BY <1>3 DEF SshStep, Relay, HangupArrives, ChannelDies, MasterExits, netVars, hostVars
  <2> QED
    BY <2>1, StillKept DEF KeptInv, Over
<1>4. CASE EnvStep
  <2>1. UNCHANGED <<opts, row, lpc, socks>>
    BY <1>1, <1>4, EnvironmentTyped DEF EnvStep
  <2>2. \A d \in Devices : where'[d] = "usbip-host" => where[d] = "usbip-host" \/ row[d] # "none"
    BY <1>1, <1>4, EnvironmentTyped DEF EnvStep
  <2> QED
    BY <2>1, <2>2, StillKept DEF KeptInv, Over
<1> QED
  BY <1>2, <1>3, <1>4

LEMMA AlwaysKept == Spec => []KeptInv
<1>1. Init => KeptInv
  BY DEF Init, LinkInit, KeptInv, Rowed, Kept, Over
<1>2. Typed /\ KeptInv /\ [Next]_vars => KeptInv'
  <2>1. ASSUME KeptInv, UNCHANGED vars PROVE KeptInv'
    BY <2>1 DEF vars, linkVars, KeptInv, Rowed, Kept, Over
  <2> QED
    BY <2>1, LocalKept, OthersKept DEF Next
<1> QED
  BY <1>1, <1>2, AlwaysTyped, PTL DEF Spec

\* Once reverseLinger has begun to end, by a dead channel, a signal or an error
\* of its own, no device of the session stays on usbip-host, however many there
\* are and whatever was unplugged, replugged or hung up before, but one that came
\* back to a row which a detach in its absence had left (usbip.go:190-191): a
\* process that lingers holds a socket for each row it has made until it has
\* detached that device, and rebindAll detaches them all (reverseside.go:192-306).
THEOREM NoneLeftBehind == Spec => []LingerLeavesNone
<1>1. ASSUME Typed, KeptInv PROVE LingerLeavesNone
  <2>1. \A d \in Devices : row[d] \in {"none", "match", "left"}
    BY <1>1, TypedParts DEF LinkParted, HostTyped
  <2> QED
    BY <1>1, <2>1 DEF KeptInv, Rowed, Kept, Over, LingerLeavesNone, NoneOnUsbipHost
<1> QED
  BY <1>1, AlwaysTyped, AlwaysKept, PTL
-----------------------------------------------------------------------------
(* Paired, without --vhub *)

\* The devices that the session has to do with, wherever one is mentioned.
Named ==
  todo \cup (({current, dialing[2]} \cup {imp[c] : c \in Conns} \cup Range(lines)) \cap Devices)
       \cup {d \in Devices : using[d] # NoConn}

OneNamed ==
  ~opts.vhub =>
     /\ \A d, e \in Named : d = e
     /\ ~watching /\ uevents = <<>> /\ lpc # "recv"
     /\ lpc = "start" => Named = {}

\* What a step has to show.
Narrows ==
  /\ UNCHANGED opts /\ Named' \subseteq Named
  /\ lpc' = "start" => lpc = "start"
  /\ ~opts.vhub => ~watching' /\ uevents' = <<>> /\ lpc' # "recv"

LEMMA NarrowedOne == ASSUME OneNamed, Narrows PROVE OneNamed'
BY DEF OneNamed, Narrows

\* Named may lose members in each of its parts, and gain none.
LEMMA PartsNarrow ==
  ASSUME Typed, todo' \subseteq todo,
         current' \in Named \cup {current, NoDevice},
         dialing'[2] \in Named \cup {dialing[2], NoDevice},
         \A c \in Conns : imp'[c] \in Named \cup {imp[c], NoDevice},
         Range(lines') \cap Devices \subseteq Named,
         \A d \in Devices : using'[d] # NoConn => d \in Named
  PROVE  Named' \subseteq Named
<1>1. NoDevice \notin Devices
  BY LinkAssumption
<1>2. ASSUME NEW d \in {current', dialing'[2]} \cap Devices PROVE d \in Named
  BY <1>1 DEF Named
<1>3. ASSUME NEW c \in Conns, imp'[c] \in Devices PROVE imp'[c] \in Named
  BY <1>1, <1>3 DEF Named
<1>4. todo' \subseteq Named
  BY DEF Named
<1>5. Named' \subseteq todo' \cup ({current', dialing'[2]} \cap Devices)
                      \cup {imp'[c] : c \in {b \in Conns : imp'[b] \in Devices}}
                      \cup (Range(lines') \cap Devices) \cup {d \in Devices : using'[d] # NoConn}
  BY DEF Named
<1> QED
  BY <1>2, <1>3, <1>4, <1>5

\* Lines under way name devices of the session.
LEMMA LinesNamed ==
  /\ Range(lines) \cap Devices \subseteq Named
  /\ \A d \in Devices : using[d] # NoConn => d \in Named
  /\ {current, dialing[2]} \cap Devices \subseteq Named
BY DEF Named

LEMMA FewerLines ==
  ASSUME LinesTyped,
         lines' = lines \/ (lines # <<>> /\ lines' = Tail(lines))
           \/ (\E k \in 0..Len(lines) : lines' = SubSeq(lines, 1, k))
  PROVE  Range(lines') \cap Devices \subseteq Named
<1>1. Range(lines') \subseteq Range(lines)
  <2>1. CASE lines # <<>> /\ lines' = Tail(lines)
    BY <2>1 DEF Range, LinesTyped
  <2>2. ASSUME NEW k \in 0..Len(lines), lines' = SubSeq(lines, 1, k)
        PROVE  Range(lines') \subseteq Range(lines)
    <3>1. Len(lines') = k /\ \A i \in 1..k : lines'[i] = lines[i]
      BY <2>2, FirstLines DEF LinesTyped
    <3>2. lines' \in Seq(Lines)
      BY <2>2, FirstLines DEF LinesTyped
    <3> QED
      BY <3>1, <3>2 DEF Range, LinesTyped
  <2> QED
    BY <2>1, <2>2
<1> QED
  BY <1>1, LinesNamed

LEMMA SaidNamed ==
  ASSUME LinesTyped, NEW line \in Named \cup {"eof"}, line \in Lines, NEW lost, Say(line, lost)
  PROVE  Range(lines') \cap Devices \subseteq Named
<1>1. "eof" \notin Devices
  BY LinkAssumption
<1>2. CASE lines' = Append(lines, line)
  <2>1. Range(lines') \subseteq Range(lines) \cup {line}
    BY <1>2 DEF Range, LinesTyped
  <2> QED
    BY <1>1, <2>1, LinesNamed
<1>3. CASE lines' = lines
  BY <1>3, LinesNamed
<1> QED
  BY <1>2, <1>3 DEF Say
LEMMA ErrorNarrows == ASSUME Typed, OneNamed, ReturnError PROVE Narrows
<1>1. /\ lpc' = "failed" /\ todo' = {} /\ current' = NoDevice /\ watching' = FALSE /\ uevents' = <<>>
      /\ MasterGone /\ UNCHANGED <<opts, imp, using, dialing>>
  BY DEF ReturnError, LocalEnds, payload
<1>2. Range(lines') \cap Devices \subseteq Named
  BY <1>1, FewerLines, TypedParts DEF LinkParted, MasterGone
<1>3. Named' \subseteq Named
  BY <1>1, <1>2, LinesNamed, PartsNarrow
<1> QED
  BY <1>1, <1>3 DEF Narrows

\* A device that is announced was named already.
LEMMA AnnounceDevNarrows ==
  ASSUME Typed, OneNamed, NEW d \in Named \cap Devices, AnnounceDev(d), todo' \subseteq todo,
         UNCHANGED uevents
  PROVE  Narrows
<1>1. /\ lpc' = "accept" /\ current' = d /\ Say(d, ppc = "gone")
      /\ UNCHANGED <<opts, imp, using, watching, dialing>>
  BY DEF AnnounceDev, payload
<1>2. Range(lines') \cap Devices \subseteq Named
  <2> DEFINE lost == ppc = "gone"
  <2>1. Say(d, lost) /\ d \in Lines
    BY <1>1 DEF Lines
  <2> HIDE DEF lost
  <2> QED
    BY <2>1, SaidNamed, TypedParts DEF LinkParted
<1>3. Named' \subseteq Named
  BY <1>1, <1>2, LinesNamed, PartsNarrow
<1> QED
  BY <1>1, <1>3 DEF Narrows, OneNamed

\* Devices are detached: some connections go, and uevents only with --vhub.
LEMMA DetachedNarrows ==
  ASSUME Typed, OneNamed, NEW gone \in SUBSET socks, DetachAll({s[2] : s \in gone}),
         UNCHANGED <<netVars, imp, watching, todo, current, payload>>,
         lpc' \in {"poll", "return", "exit"} \/ (lpc' = "recv" /\ uevents # <<>>)
  PROVE  Narrows
<1> DEFINE D == {s[2] : s \in gone}
<1>1. LinkParted /\ SessionTyped
  BY TypedParts
<1>2. D \in SUBSET Devices
  BY <1>1 DEF SessionTyped, LingerSock
<1>3. DetachAll(D)
  OBVIOUS
<1> HIDE DEF D
<1>4. \A d \in Devices : using'[d] \in {using[d], NoConn}
  BY <1>1, <1>2, <1>3, DetachTyped DEF LinkParted
<1>5. ~watching => uevents' = uevents
  BY <1>3 DEF DetachAll, Announce
<1>6. UNCHANGED <<opts, lines, dialing>>
  BY DEF netVars, payload
<1>7. Named' \subseteq Named
  BY <1>4, <1>6, LinesNamed, PartsNarrow
<1> QED
  BY <1>5, <1>6, <1>7 DEF Narrows, OneNamed

LEMMA LocalOne ==
  Typed /\ OneNamed /\ (LocalStep \/ StartRemote \/ LingerFails \/ Signal) => OneNamed'
<1> SUFFICES ASSUME Typed, OneNamed, LocalStep \/ StartRemote \/ LingerFails \/ Signal
             PROVE  OneNamed'
  OBVIOUS
<1>1. LinkParted /\ SessionTyped /\ InHand
  BY TypedParts
<1>2. CASE ReturnError
  BY <1>2, ErrorNarrows, NarrowedOne
\* Steps after which no more is named than before.
<1>3. ASSUME UNCHANGED <<opts, lines, imp, using, dialing>>, todo' \subseteq todo,
             current' \in {current, NoDevice},
             lpc' = "start" => lpc = "start",
             ~opts.vhub => ~watching' /\ uevents' = <<>> /\ lpc' # "recv"
      PROVE  OneNamed'
  <2>1. Named' \subseteq Named
    BY <1>3, LinesNamed, PartsNarrow
  <2> QED
    BY <1>3, <2>1, NarrowedOne DEF Narrows
<1>4. ASSUME NEW found \in SUBSET Devices, Start(found), ~ReturnError PROVE OneNamed'
  <2>1. /\ lpc = "start" /\ lpc' = "dial" /\ todo' = found
        /\ opts.vhub \/ Cardinality(found) = 1
        /\ UNCHANGED <<opts, lines, imp, using, dialing, current, watching, uevents>>
    BY <1>4 DEF Start, linkVars, payload
  <2>2. Cardinality(found) = 1 => \A d, e \in found : d = e
    <3>1. IsFiniteSet(found)
      BY LinkAssumption, FS_Subset
    <3> QED
      BY <3>1, FS_Singleton
  <2>3. ~opts.vhub => Named' \subseteq found
    BY <2>1 DEF OneNamed, Named
  <2> QED
    BY <2>1, <2>2, <2>3 DEF OneNamed
<1>5. ASSUME StartRemote \/ WaitSocket, ~ReturnError PROVE OneNamed'
  <2>1. /\ lpc' \in {"socket", "next"}
        /\ UNCHANGED <<opts, lines, imp, using, dialing, todo, current, watching, uevents>>
    BY <1>5 DEF StartRemote, WaitSocket, linkVars, payload
  <2> QED
    BY <1>3, <2>1 DEF OneNamed
<1>6. ASSUME NEW d \in Devices, NextDev(d), ~ReturnError PROVE OneNamed'
  <2>1. AnnounceDev(d) /\ todo' = todo \ {d} /\ UNCHANGED uevents /\ d \in todo
    BY <1>6 DEF NextDev
  <2>2. d \in Named \cap Devices
    BY <2>1 DEF Named
  <2> QED
    BY <2>1, <2>2, AnnounceDevNarrows, NarrowedOne
<1>7. ASSUME NEW dropped, NEW rest, ExportFails(dropped, rest) PROVE OneNamed'
  <2>1. ASSUME ~ReturnError
        PROVE  /\ lpc' = "poll" /\ current' = NoDevice
               /\ UNCHANGED <<opts, lines, imp, using, dialing, todo, watching, uevents>>
    BY <1>7, <2>1 DEF ExportFails, hostVars, payload
  <2> QED
    BY <1>2, <1>3, <2>1 DEF OneNamed
<1>8. ASSUME AcceptAttach PROVE OneNamed'
  <2> DEFINE c == Head(backlog)
             rest == Tail(backlog)
  <2>1. c \in Conns /\ current \in Devices
    BY <1>1, <1>8 DEF AcceptAttach, LinkParted, ConnsTyped, InHand
  <2>2. ExportFails({c}, rest)
          \/ /\ AttachTo(current, c) /\ current' = NoDevice /\ lpc' \in {"poll", "next"}
             /\ UNCHANGED <<opts, lines, imp, uevents, watching, todo, dialing>>
    BY <1>8 DEF AcceptAttach, payload
  <2> HIDE DEF c, rest
  <2>3. CASE ExportFails({c}, rest)
    BY <1>7, <2>3
  <2>4. ASSUME AttachTo(current, c), current' = NoDevice, lpc' \in {"poll", "next"},
               UNCHANGED <<opts, lines, imp, uevents, watching, todo, dialing>>
        PROVE  OneNamed'
    <3>1. \A d \in Devices \ {current} : using'[d] = using[d]
      BY <1>1, <2>1, <2>4, AttachTyped DEF LinkParted
    <3>2. current \in Named
      BY <2>1, LinesNamed
    <3>3. \A d \in Devices : using'[d] # NoConn => d \in Named
      BY <3>1, <3>2, LinesNamed
    <3>4. Named' \subseteq Named
      BY <2>4, <3>3, LinesNamed, PartsNarrow
    <3> QED
      BY <2>4, <3>4, NarrowedOne DEF Narrows, OneNamed
  <2> QED
    BY <2>2, <2>3, <2>4
<1>9. ASSUME AcceptTimeout PROVE OneNamed'
  BY <1>7, <1>9 DEF AcceptTimeout
<1>10. ASSUME EnterLinger, ~ReturnError PROVE OneNamed'
  <2> DEFINE lost == ppc = "gone"
  <2>1. /\ Say("eof", lost) /\ lpc' = "poll"
        /\ UNCHANGED <<opts, imp, using, dialing, uevents, watching, todo, current>>
    BY <1>10 DEF EnterLinger, hostVars, payload
  <2> HIDE DEF lost
  <2>2. Range(lines') \cap Devices \subseteq Named
    <3>1. "eof" \in Lines
      BY DEF Lines
    <3> QED
      BY <1>1, <2>1, <3>1, SaidNamed DEF LinkParted
  <2>3. Named' \subseteq Named
    BY <2>1, <2>2, LinesNamed, PartsNarrow
  <2> QED
    BY <2>1, <2>3, NarrowedOne DEF Narrows, OneNamed
<1>11. ASSUME OpenUevents PROVE OneNamed'
  <2>1. /\ lpc' = "poll" /\ opts.vhub
        /\ UNCHANGED <<opts, lines, imp, using, dialing, todo, current>>
    BY <1>11 DEF OpenUevents, netVars, hostVars, payload
  <2> QED
    BY <1>3, <2>1
<1>12. ASSUME NEW then \in {"return", "exit"}, RebindAll(then) PROVE OneNamed'
  <2>1. /\ DetachAll({s[2] : s \in socks}) /\ lpc' = then
        /\ UNCHANGED <<netVars, imp, watching, todo, current, payload>>
    BY <1>12 DEF RebindAll
  <2> QED
    BY <2>1, DetachedNarrows, NarrowedOne
<1>13. ASSUME PollRound PROVE OneNamed'
  <2>1. /\ DetachAll({s[2] : s \in Hung(socks)})
        /\ UNCHANGED <<netVars, imp, watching, todo, current, payload>>
        /\ lpc' = "poll" \/ (lpc' = "recv" /\ uevents # <<>>)
    BY <1>13 DEF PollRound
  <2>2. Hung(socks) \in SUBSET socks
    BY DEF Hung
  <2> QED
    BY <2>1, <2>2, DetachedNarrows, NarrowedOne
<1>14. ASSUME Recv PROVE OneNamed'
  <2>1. opts.vhub /\ UNCHANGED opts
    BY <1>14 DEF Recv, OneNamed, AnnounceDev, netVars
  <2> QED
    BY <2>1 DEF OneNamed
<1>15. ASSUME Return PROVE OneNamed'
  <2>1. /\ lpc' = "ended" /\ todo' = {} /\ current' = NoDevice /\ watching' = FALSE
        /\ uevents' = <<>> /\ MasterGone /\ UNCHANGED <<opts, imp, using, dialing>>
    BY <1>15 DEF Return, LocalEnds, payload
  <2>2. Range(lines') \cap Devices \subseteq Named
    BY <1>1, <2>1, FewerLines DEF LinkParted, MasterGone
  <2>3. Named' \subseteq Named
    BY <2>1, <2>2, LinesNamed, PartsNarrow
  <2> QED
    BY <2>1, <2>3, NarrowedOne DEF Narrows
<1>16. ASSUME Exit PROVE OneNamed'
  <2>1. /\ lpc' = "exited" /\ todo' = {} /\ current' = NoDevice /\ watching' = FALSE
        /\ uevents' = <<>> /\ UNCHANGED <<opts, lines, imp, using, dialing>>
    BY <1>16 DEF Exit, LocalEnds, payload
  <2> QED
    BY <1>3, <2>1
<1>17. ASSUME Signal PROVE OneNamed'
  <2>1. UNCHANGED <<lpc, opts, lines, imp, using, dialing, todo, current, watching, uevents>>
    BY <1>17 DEF Signal, linkVars, payload
  <2> QED
    BY <1>3, <2>1 DEF OneNamed
<1>18. CASE LocalStep
  BY <1>2, <1>4, <1>5, <1>6, <1>8, <1>9, <1>10, <1>11, <1>12, <1>13, <1>14, <1>15, <1>16, <1>18
     DEF LocalStep, PollSignal, PollDead
<1> QED
  BY <1>2, <1>5, <1>12, <1>17, <1>18 DEF LingerFails
LEMMA PayloadOne == Typed /\ OneNamed /\ PayloadStep => OneNamed'
<1> SUFFICES ASSUME Typed, OneNamed, PayloadStep PROVE OneNamed'
  OBVIOUS
<1>1. LinkParted /\ SessionTyped
  BY TypedParts
<1>2. UNCHANGED <<opts, using, uevents, lpc, todo, current, watching>>
  BY DEF PayloadStep, PayloadStart, PayloadEnds, ReadDev, ImportAttach, ReadEof,
         linkVars, netVars, hostVars, local
<1>3. ASSUME Named' \subseteq Named PROVE OneNamed'
  BY <1>2, <1>3, NarrowedOne DEF Narrows, OneNamed
<1>4. CASE PayloadEnds
  <2>1. UNCHANGED imp /\ dialing' = NoDialing /\ lines' = <<>>
    BY <1>4 DEF PayloadEnds
  <2>2. Range(lines') \cap Devices \subseteq Named
    BY <2>1 DEF Range
  <2>3. dialing'[2] = NoDevice
    BY <2>1 DEF NoDialing
  <2> QED
    BY <1>2, <1>3, <2>1, <2>2, <2>3, LinesNamed, PartsNarrow
<1>5. ASSUME PayloadStart, ~PayloadEnds PROVE OneNamed'
  <2>1. UNCHANGED <<imp, dialing, lines>>
    BY <1>5 DEF PayloadStart, linkVars
  <2> QED
    BY <1>2, <1>3, <2>1, LinesNamed, PartsNarrow
<1>6. ASSUME NEW d \in Devices, NEW c \in Conns, ReadDev(d, c), ~PayloadEnds PROVE OneNamed'
  <2>1. /\ lines # <<>> /\ Head(lines) = d /\ lines' = Tail(lines) /\ dialing' = <<c, d>>
        /\ imp' = [imp EXCEPT ![c] = NoDevice]
    BY <1>6 DEF ReadDev, Dial
  <2>2. d \in Named
    <3>1. d \in Range(lines)
      BY <1>1, <2>1 DEF LinkParted, LinesTyped, Range
    <3> QED
      BY <3>1, LinesNamed
  <2>3. Range(lines') \cap Devices \subseteq Named
    BY <1>1, <2>1, FewerLines DEF LinkParted
  <2>4. \A b \in Conns : imp'[b] \in {imp[b], NoDevice}
    BY <1>1, <2>1 DEF LinkParted, ConnsTyped
  <2>5. dialing'[2] = d
    BY <2>1
  <2> QED
    BY <1>2, <1>3, <2>2, <2>3, <2>4, <2>5, LinesNamed, PartsNarrow
<1>7. ASSUME ImportAttach, ~PayloadEnds PROVE OneNamed'
  <2>1. /\ dialing' = NoDialing /\ imp' = [imp EXCEPT ![dialing[1]] = dialing[2]]
        /\ UNCHANGED lines
    BY <1>7 DEF ImportAttach, netVars
  <2>2. dialing[2] \in Named \cup {NoDevice}
    <3>1. dialing[2] \in Devices \cup {NoDevice}
      BY <1>1 DEF SessionTyped, LingerSock, NoDialing
    <3> QED
      BY <3>1, LinesNamed
  <2>3. \A b \in Conns : imp'[b] \in Named \cup {imp[b], NoDevice}
    BY <1>1, <2>1, <2>2 DEF LinkParted, ConnsTyped
  <2>4. dialing'[2] = NoDevice
    BY <2>1 DEF NoDialing
  <2>5. Range(lines') \cap Devices \subseteq Named
    BY <2>1, LinesNamed
  <2> QED
    BY <1>2, <1>3, <2>3, <2>4, <2>5, LinesNamed, PartsNarrow
<1> QED
  BY <1>4, <1>5, <1>6, <1>7 DEF PayloadStep, ReadEof

LEMMA OthersOne == Typed /\ OneNamed /\ (SshStep \/ EnvStep) => OneNamed'
<1> SUFFICES ASSUME Typed, OneNamed, SshStep \/ EnvStep PROVE OneNamed'
  OBVIOUS
<1>1. LinkTypeOK /\ LinkParted
  BY TypedParts DEF Typed
<1>2. UNCHANGED <<lpc, todo, current, dialing>>
  BY DEF SshStep, EnvStep, payload
<1>3. ASSUME UNCHANGED <<opts, imp, watching>>, ~watching => uevents' = uevents,
             lines' = lines \/ \E k \in 0..Len(lines) : lines' = SubSeq(lines, 1, k),
             \A d \in Devices : using'[d] \in {using[d], NoConn}
      PROVE  OneNamed'
  <2>1. Range(lines') \cap Devices \subseteq Named
    BY <1>1, <1>3, FewerLines DEF LinkParted
  <2>2. Named' \subseteq Named
    BY <1>2, <1>3, <2>1, LinesNamed, PartsNarrow
  <2> QED
    BY <1>2, <1>3, <2>2, NarrowedOne DEF Narrows, OneNamed
<1>4. CASE SshStep
  <2> DEFINE over == ppc = "gone"
             listening == Listening
  <2>1. \/ \E c \in Conns : Relay(c, listening) \/ HangupArrives(c)
        \/ ChannelDies \/ MasterExits(over)
    BY <1>4 DEF SshStep
  <2> HIDE DEF over, listening
  <2>2. /\ UNCHANGED <<opts, imp, watching, uevents>> /\ lines' = lines
        /\ \A d \in Devices : using'[d] \in {using[d], NoConn}
    BY <1>1, <2>1, SshTyped
  <2> QED
    BY <1>3, <2>2
<1>5. CASE EnvStep
  <2>1. ~watching => uevents' = uevents
    BY <1>5 DEF EnvStep, Environment, Unplug, Plug, PortDetached, LinkDrops, Announce, hostVars
  <2>2. /\ UNCHANGED <<opts, imp, watching>>
        /\ \E k \in 0..Len(lines) : lines' = SubSeq(lines, 1, k)
        /\ \A d \in Devices : using'[d] \in {using[d], NoConn}
    BY <1>1, <1>5, EnvironmentTyped DEF EnvStep
  <2> QED
    BY <1>3, <2>1, <2>2
<1> QED
  BY <1>4, <1>5

\* With --vhub a connection that comes late is taken for the next device's: that
\* is the disagreement ReverseMispaired shows.  A session without --vhub cannot
\* have it, whatever fails or drops: it names one device only, from findDev to
\* the two kernels (reverseside.go:51-155, remoteside.go:182-233).
THEOREM OneDeviceIsPaired == Spec => [](~opts.vhub => Paired)
<1>1. Init => OneNamed
  <2>1. NoDevice \notin Devices
    BY LinkAssumption
  <2>2. Init => Named = {}
    BY <2>1 DEF Init, LinkInit, Named, NoDialing, Range
  <2> QED
    BY <2>2 DEF Init, LinkInit, OneNamed
<1>2. Typed /\ OneNamed /\ [Next]_vars => OneNamed'
  <2>1. ASSUME OneNamed, UNCHANGED vars PROVE OneNamed'
    BY <2>1 DEF vars, linkVars, OneNamed, Named
  <2> QED
    BY <2>1, LocalOne, PayloadOne, OthersOne DEF Next
<1>3. Typed /\ OneNamed => (~opts.vhub => Paired)
  <2> SUFFICES ASSUME Typed, OneNamed, ~opts.vhub, NEW d \in Devices, using[d] # NoConn
               PROVE  imp[using[d]] \in {d, NoDevice}
    BY DEF Paired
  <2>1. using[d] \in Conns /\ imp[using[d]] \in Devices \cup {NoDevice}
    BY TypedParts DEF LinkParted, HostTyped, ConnsTyped
  <2>2. CASE imp[using[d]] \in Devices
    BY <2>1, <2>2 DEF OneNamed, Named
  <2> QED
    BY <2>1, <2>2
<1> QED
  BY <1>1, <1>2, <1>3, AlwaysTyped, PTL DEF Spec

=============================================================================
