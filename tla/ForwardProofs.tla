---------------------------- MODULE ForwardProofs ----------------------------
(***************************************************************************)
(* The safety invariants of ForwardSession, proved for any number of       *)
(* devices, connections, buffered lines and uevents, and any number of     *)
(* unplugs and failures.                                                   *)
(***************************************************************************)
EXTENDS ForwardSession, SshLinkProofs

(* The type invariant *)

SessionTyped ==
  /\ lpc \in {"read", "attach", "wait", "done"}
  /\ dialing \in LingerSock \cup {<<NoConn, NoDevice>>}
  /\ ppc \in {"start", "next", "accept", "poll", "recv", "gone"}
  /\ todo \subseteq Devices /\ current \in Devices \cup {NoDevice}
  /\ socks \subseteq LingerSock /\ linger \subseteq LingerSock
  /\ orphaned \subseteq Devices /\ lost \subseteq Devices

\* A payload that waits for a connection has announced a device, and one that
\* reads an event has one to read.
InHand == (ppc = "accept" => current \in Devices) /\ (ppc = "recv" => uevents # <<>>)

Typed == LinkTypeOK /\ SessionTyped /\ InHand

LinkParted ==
  NetTyped /\ LinesTyped /\ ConnsTyped /\ HostTyped /\ UeventsTyped /\ RestTyped

LEMMA TypedParts ==
  /\ Typed <=> LinkParted /\ SessionTyped /\ InHand
  /\ Typed' <=> LinkParted' /\ SessionTyped' /\ InHand'
BY LinkParts DEF Typed, LinkParted

LEMMA LocalFailsTyped ==
  ASSUME Typed, LocalFails
  PROVE  /\ Typed' /\ cut' = Conns /\ dialing' = <<NoConn, NoDevice>>
         /\ \E k \in 0..Len(lines) : lines' = SubSeq(lines, 1, k)
         /\ UNCHANGED <<opts, chan, dialed, backlog, hup, imp, hostVars, events, payload>>
<1>1. LinkParted /\ SessionTyped /\ InHand
  BY TypedParts
<1>2. /\ MasterGone /\ lpc' = "done" /\ dialing' = <<NoConn, NoDevice>>
      /\ UNCHANGED <<opts, chan, dialed, backlog, hup, imp, where, using, row, uevents, events>>
      /\ UNCHANGED <<ppc, todo, current, socks, linger, orphaned, lost, watching>>
  BY DEF LocalFails, hostVars, payload
<1>3. LinesTyped' /\ master' = "gone" /\ cut' = Conns
  BY <1>1, <1>2, MasterGoneTyped DEF LinkParted
<1>4. ConnsTyped' /\ NetTyped'
  BY <1>1, <1>2, <1>3 DEF LinkParted, ConnsTyped, NetTyped
<1>5. HostTyped' /\ UeventsTyped' /\ RestTyped'
  BY <1>1, <1>2 DEF LinkParted, HostTyped, UeventsTyped, RestTyped
<1>6. SessionTyped' /\ InHand'
  BY <1>1, <1>2 DEF SessionTyped, InHand
<1>7. \E k \in 0..Len(lines) : lines' = SubSeq(lines, 1, k)
  BY <1>2 DEF MasterGone
<1> QED
  BY <1>2, <1>3, <1>4, <1>5, <1>6, <1>7, TypedParts DEF LinkParted, hostVars, payload

LEMMA LocalTyped == Typed /\ LocalStep => Typed'
<1> SUFFICES ASSUME Typed, LocalStep PROVE Typed'
  OBVIOUS
<1>1. LinkParted /\ SessionTyped /\ InHand
  BY TypedParts
<1>2. CASE LocalFails
  BY <1>2, LocalFailsTyped
<1>3. ASSUME ReadSocket, ~LocalFails PROVE Typed'
  <2>1. /\ lines # <<>> /\ lines' = Tail(lines)
        /\ UNCHANGED <<opts, master, chan, dialed, backlog, cut, hup, imp, where, using, row, uevents>>
        /\ UNCHANGED <<events, lpc, dialing, ppc, todo, current, socks, linger, orphaned, lost, watching>>
    BY <1>3 DEF ReadSocket, NextLine, hostVars, local, payload
  <2>2. LinesTyped'
    BY <1>1, <2>1, TakenTyped DEF LinkParted
  <2> QED
    BY <1>1, <2>1, <2>2, TypedParts
       DEF LinkParted, NetTyped, ConnsTyped, HostTyped, UeventsTyped, RestTyped, SessionTyped, InHand
<1>4. ASSUME NEW d \in Devices, NEW c \in Conns, ReadDev(d, c), ~LocalFails PROVE Typed'
  <2>1. /\ lines # <<>> /\ lines' = Tail(lines) /\ Dial(c, Held)
        /\ lpc' = "attach" /\ dialing' = <<c, d>>
        /\ UNCHANGED <<opts, master, chan, backlog, where, using, row, uevents, events>>
        /\ UNCHANGED <<ppc, todo, current, socks, linger, orphaned, lost, watching>>
    BY <1>4 DEF ReadDev, NextLine, hostVars, payload
  <2>2. LinesTyped' /\ ConnsTyped'
    BY <1>1, <2>1, TakenTyped, DialTyped DEF LinkParted
  <2>3. SessionTyped' /\ InHand'
    BY <1>1, <2>1 DEF SessionTyped, InHand, LingerSock
  <2> QED
    BY <1>1, <2>1, <2>2, <2>3, TypedParts
       DEF LinkParted, NetTyped, HostTyped, UeventsTyped, RestTyped
<1>5. ASSUME LocalAttach, ~LocalFails PROVE Typed'
  <2>1. /\ lpc' = "read" /\ dialing' = <<NoConn, NoDevice>>
        /\ imp' = [imp EXCEPT ![dialing[1]] = dialing[2]]
        /\ UNCHANGED <<opts, master, chan, lines, dialed, backlog, cut, hup, where, using, row>>
        /\ UNCHANGED <<uevents, events, ppc, todo, current, socks, linger, orphaned, lost, watching>>
    BY <1>5 DEF LocalAttach, netVars, hostVars, payload
  <2>2. dialing[2] \in Devices \cup {NoDevice}
    BY <1>1 DEF SessionTyped, LingerSock
  <2>3. ConnsTyped'
    BY <1>1, <2>1, <2>2 DEF LinkParted, ConnsTyped
  <2>4. SessionTyped' /\ InHand'
    BY <1>1, <2>1 DEF SessionTyped, InHand
  <2> QED
    BY <1>1, <2>1, <2>3, <2>4, TypedParts
       DEF LinkParted, NetTyped, LinesTyped, HostTyped, UeventsTyped, RestTyped
<1>6. ASSUME ReadEof PROVE Typed'
  <2>1. /\ lpc' = "wait"
        /\ (lines # <<>> /\ lines' = Tail(lines)) \/ lines' = lines
        /\ UNCHANGED <<opts, master, chan, dialed, backlog, cut, hup, imp, where, using, row, uevents>>
        /\ UNCHANGED <<events, dialing, ppc, todo, current, socks, linger, orphaned, lost, watching>>
    BY <1>6 DEF ReadEof, NextLine, hostVars, payload
  <2>2. LinesTyped'
    <3>1. CASE lines' = lines
      BY <1>1, <3>1 DEF LinkParted, LinesTyped
    <3> QED
      BY <1>1, <2>1, <3>1, TakenTyped DEF LinkParted
  <2>3. SessionTyped' /\ InHand'
    BY <1>1, <2>1 DEF SessionTyped, InHand
  <2> QED
    BY <1>1, <2>1, <2>2, <2>3, TypedParts
       DEF LinkParted, NetTyped, ConnsTyped, HostTyped, UeventsTyped, RestTyped
<1>7. ASSUME WaitExit PROVE Typed'
  <2>1. /\ lpc' = "done"
        /\ UNCHANGED <<opts, master, chan, lines, dialed, backlog, cut, hup, imp, where, using, row>>
        /\ UNCHANGED <<uevents, events, dialing, ppc, todo, current, socks, linger, orphaned, lost>>
        /\ UNCHANGED watching
    BY <1>7 DEF WaitExit, linkVars
  <2>2. SessionTyped' /\ InHand'
    BY <1>1, <2>1 DEF SessionTyped, InHand
  <2> QED
    BY <1>1, <2>1, <2>2, TypedParts
       DEF LinkParted, NetTyped, LinesTyped, ConnsTyped, HostTyped, UeventsTyped, RestTyped
<1> QED
  BY <1>2, <1>3, <1>4, <1>5, <1>6, <1>7, Zenon DEF LocalStep

-----------------------------------------------------------------------------
(* The payload *)

LEMMA PayloadEndsTyped ==
  ASSUME Typed, NEW dropped \in SUBSET Conns, PayloadEnds(dropped)
  PROVE  /\ ppc' = "gone" /\ watching' = FALSE /\ backlog' = <<>> /\ uevents' = <<>>
         /\ socks' = {} /\ todo' = {} /\ current' = NoDevice
         /\ cut' \subseteq Conns /\ hup' \subseteq Conns
<1>1. Range(backlog) \subseteq Conns /\ cut \subseteq Conns /\ hup \subseteq Conns
  BY TypedParts, RangeIs DEF LinkParted, ConnsTyped
<1> QED
  BY <1>1 DEF PayloadEnds, Down

\* The payload goes, whatever becomes of the line it wrote last and of the child.
LEMMA EndTyped ==
  ASSUME Typed, NEW dropped \in SUBSET Conns, PayloadEnds(dropped),
         UNCHANGED <<opts, master, chan, dialed, imp, where, using, row, events, local>>,
         LinesTyped', linger' \subseteq LingerSock,
         orphaned' \subseteq Devices, lost' \subseteq Devices
  PROVE  Typed'
<1>1. LinkParted /\ SessionTyped /\ InHand
  BY TypedParts
<1>2. /\ ppc' = "gone" /\ watching' = FALSE /\ backlog' = <<>> /\ uevents' = <<>>
      /\ socks' = {} /\ todo' = {} /\ current' = NoDevice
      /\ cut' \subseteq Conns /\ hup' \subseteq Conns
  BY PayloadEndsTyped
<1>3. NetTyped' /\ HostTyped'
  BY <1>1 DEF LinkParted, NetTyped, HostTyped
<1>4. ConnsTyped'
  BY <1>1, <1>2 DEF LinkParted, ConnsTyped
<1>5. UeventsTyped'
  <2>1. <<>> \in Seq(Devices) /\ Len(<<>>) = 0 /\ UeventCap \in Nat
    BY LinkAssumption
  <2> QED
    BY <1>2, <2>1 DEF UeventsTyped
<1>6. RestTyped'
  BY <1>1, <1>2 DEF LinkParted, RestTyped
<1>7. SessionTyped'
  BY <1>1, <1>2 DEF SessionTyped, local
<1>8. InHand'
  BY <1>2 DEF InHand
<1> QED
  BY <1>3, <1>4, <1>5, <1>6, <1>7, <1>8, TypedParts DEF LinkParted

LEMMA FatalTyped ==
  ASSUME Typed, NEW dropped \in SUBSET Conns, Fatal(dropped)
  PROVE  Typed'
<1>1. LinesTyped /\ SessionTyped
  BY TypedParts DEF LinkParted
<1>2. LinesTyped' /\ linger' \subseteq LingerSock /\ orphaned' \subseteq Devices
  BY <1>1 DEF Fatal, LinesTyped, SessionTyped
<1>3. lost' \subseteq Devices
  BY <1>1 DEF Fatal, SessionTyped, DevsOf, LingerSock
<1> QED
  BY <1>2, <1>3, EndTyped DEF Fatal

LEMMA HandoffTyped ==
  ASSUME Typed, LinesTyped', Handoff
  PROVE  Typed'
<1>1. SessionTyped
  BY TypedParts
<1>2. linger' \subseteq LingerSock /\ lost' \subseteq Devices
  BY <1>1 DEF Handoff, SessionTyped
<1>4. orphaned' \subseteq Devices
  BY <1>1 DEF Handoff, SessionTyped, DevsOf, LingerSock
<1>3. /\ PayloadEnds({}) /\ {} \in SUBSET Conns
      /\ UNCHANGED <<opts, master, chan, dialed, imp, where, using, row, events, local>>
  BY DEF Handoff
<1> QED
  BY <1>2, <1>3, <1>4, EndTyped

LEMMA ToldTyped ==
  ASSUME Typed, NEW line \in Lines, Tell(line)
  PROVE  LinesTyped'
<1>1. LinesTyped
  BY TypedParts DEF LinkParted
<1> DEFINE gone == master = "gone"
<1>2. Say(line, gone)
  BY DEF Tell
<1> HIDE DEF gone
<1> QED
  BY <1>1, <1>2, SaidTyped

LEMMA AnnounceDevTyped ==
  ASSUME Typed, NEW d \in Devices, AnnounceDev(d), UeventsTyped', todo' \subseteq Devices
  PROVE  Typed'
<1>1. LinkParted /\ SessionTyped
  BY TypedParts
<1>2. LinesTyped'
  <2>1. d \in Lines
    BY DEF Lines
  <2> QED
    BY <2>1, ToldTyped DEF AnnounceDev
<1>3. /\ ppc' = "accept" /\ current' = d
      /\ UNCHANGED <<opts, master, chan, dialed, backlog, cut, hup, imp, where, using, row, events>>
      /\ UNCHANGED <<watching, socks, linger, orphaned, lost, lpc, dialing>>
  BY DEF AnnounceDev, local
<1>4. SessionTyped'
  BY <1>1, <1>3 DEF SessionTyped
<1>5. InHand'
  BY <1>3 DEF InHand
<1> QED
  BY <1>1, <1>2, <1>3, <1>4, <1>5, TypedParts
     DEF LinkParted, NetTyped, ConnsTyped, HostTyped, RestTyped

LEMMA PayloadTyped == Typed /\ (PayloadStep \/ PollFails) => Typed'
<1> SUFFICES ASSUME Typed, PayloadStep \/ PollFails PROVE Typed'
  OBVIOUS
<1>1. LinkParted /\ SessionTyped /\ InHand
  BY TypedParts
<1>2. ASSUME NEW dropped \in SUBSET Conns, Fatal(dropped) PROVE Typed'
  BY <1>2, FatalTyped
<1>3. ASSUME Start({d \in Devices : where[d] # "absent"}), ~Fatal({}) PROVE Typed'
  <2>1. /\ ppc' = "next" /\ todo' = {d \in Devices : where[d] # "absent"} /\ Tell("socket")
        /\ UNCHANGED <<opts, master, chan, dialed, backlog, cut, hup, imp, where, using, row, uevents>>
        /\ UNCHANGED <<events, watching, current, socks, linger, orphaned, lost, lpc, dialing>>
    BY <1>3 DEF Start, hostVars, local
  <2>2. LinesTyped'
    BY <2>1, ToldTyped DEF Lines
  <2>3. SessionTyped' /\ InHand'
    BY <1>1, <2>1 DEF SessionTyped, InHand
  <2> QED
    BY <1>1, <2>1, <2>2, <2>3, TypedParts
       DEF LinkParted, NetTyped, ConnsTyped, HostTyped, UeventsTyped, RestTyped
<1>4. ASSUME NEW d \in Devices, NextDev(d), ~Fatal({}) PROVE Typed'
  <2>1. AnnounceDev(d) /\ todo' = todo \ {d} /\ UNCHANGED uevents
    BY <1>4 DEF NextDev
  <2>2. UeventsTyped' /\ todo' \subseteq Devices
    BY <1>1, <2>1 DEF LinkParted, UeventsTyped, SessionTyped
  <2> QED
    BY <2>1, <2>2, AnnounceDevTyped
<1>5. ASSUME AcceptAttach PROVE Typed'
  <2> DEFINE c == Head(backlog)
  <2>1. c \in Conns /\ Tail(backlog) \in Seq(Conns) /\ current \in Devices
    BY <1>1, <1>5 DEF AcceptAttach, LinkParted, ConnsTyped, InHand
  <2>2. CASE Fatal({c})
    BY <2>1, <2>2, FatalTyped
  <2>3. ASSUME ~Fatal({c}) PROVE Typed'
    <3>1. /\ AttachTo(current, c) /\ backlog' = Tail(backlog) /\ current' = NoDevice
          /\ socks' = socks \/ socks' = socks \cup {<<c, current>>}
          /\ ppc' = "poll" \/ ppc' = "next"
          /\ UNCHANGED <<opts, master, chan, lines, dialed, imp, uevents, events>>
          /\ UNCHANGED <<watching, todo, linger, orphaned, lost, lpc, dialing>>
      BY <1>5, <2>3 DEF AcceptAttach, local
    <3>2. HostTyped' /\ cut' \subseteq Conns /\ hup' \subseteq Conns
      BY <1>1, <2>1, <3>1, AttachTyped DEF LinkParted
    <3>3. ConnsTyped'
      BY <1>1, <2>1, <3>1, <3>2 DEF LinkParted, ConnsTyped
    <3>4. SessionTyped' /\ InHand'
      BY <1>1, <2>1, <3>1 DEF SessionTyped, InHand, LingerSock
    <3> QED
      BY <1>1, <3>1, <3>2, <3>3, <3>4, TypedParts
         DEF LinkParted, NetTyped, LinesTyped, UeventsTyped, RestTyped
  <2> QED
    BY <2>2, <2>3
<1>6. ASSUME AcceptTimeout PROVE Typed'
  BY <1>2, <1>6 DEF AcceptTimeout
<1>7. ASSUME EofHandoff PROVE Typed'
  <2>1. Tell("eof") /\ Handoff /\ "eof" \in Lines
    BY <1>7 DEF EofHandoff, Lines
  <2> QED
    BY <2>1, ToldTyped, HandoffTyped
<1>8. ASSUME OpenUevents, ~Fatal({}) PROVE Typed'
  <2>1. /\ ppc' = "poll" /\ watching' = TRUE
        /\ UNCHANGED <<opts, master, chan, lines, dialed, backlog, cut, hup, imp, where, using, row>>
        /\ UNCHANGED <<uevents, events, todo, current, socks, linger, orphaned, lost, lpc, dialing>>
    BY <1>8 DEF OpenUevents, netVars, hostVars, local
  <2>2. SessionTyped' /\ InHand'
    BY <1>1, <2>1 DEF SessionTyped, InHand
  <2>3. RestTyped'
    BY <1>1, <2>1 DEF LinkParted, RestTyped
  <2> QED
    BY <1>1, <2>1, <2>2, <2>3, TypedParts
       DEF LinkParted, NetTyped, LinesTyped, ConnsTyped, HostTyped, UeventsTyped
<1>9. ASSUME PollDead PROVE Typed'
  <2>1. Handoff /\ LinesTyped'
    BY <1>1, <1>9 DEF PollDead, LinkParted, LinesTyped
  <2> QED
    BY <2>1, HandoffTyped
<1>10. ASSUME PollRound PROVE Typed'
  <2> DEFINE D == DevsOf(Hung(socks))
  <2>1. /\ DetachAll(D) /\ socks' = socks \ Hung(socks)
        /\ UNCHANGED <<opts, master, chan, lines, dialed, backlog, imp, events, watching>>
        /\ UNCHANGED <<todo, current, linger, orphaned, lost, lpc, dialing>>
    BY <1>10 DEF PollRound, netVars, local
  <2>2. ppc' = "poll" \/ (ppc' = "recv" /\ uevents # <<>>)
    BY <1>10 DEF PollRound
  <2>3. D \in SUBSET Devices
    BY <1>1 DEF SessionTyped, LingerSock, DevsOf, Hung
  <2> HIDE DEF D
  <2>4. /\ HostTyped' /\ UeventsTyped' /\ cut' \subseteq Conns /\ hup' \subseteq Conns
        /\ uevents # <<>> => uevents' # <<>>
    BY <1>1, <2>1, <2>3, DetachTyped DEF LinkParted
  <2>5. ConnsTyped'
    BY <1>1, <2>1, <2>4 DEF LinkParted, ConnsTyped
  <2>6. SessionTyped' /\ InHand'
    BY <1>1, <2>1, <2>2, <2>4 DEF SessionTyped, InHand
  <2> QED
    BY <1>1, <2>1, <2>4, <2>5, <2>6, TypedParts
       DEF LinkParted, NetTyped, LinesTyped, RestTyped
<1>11. ASSUME Recv, ~Fatal({}) PROVE Typed'
  <2>1. /\ uevents # <<>> /\ uevents' = Tail(uevents) /\ UNCHANGED todo
        /\ AnnounceDev(Head(uevents)) \/ ppc' = "poll"
    BY <1>1, <1>11 DEF Recv, InHand
  <2>2. UeventsTyped' /\ Head(uevents) \in Devices /\ todo' \subseteq Devices
    BY <1>1, <2>1, TailTyped DEF LinkParted, SessionTyped
  <2>3. ASSUME ~AnnounceDev(Head(uevents)) PROVE Typed'
    <3>1. /\ ppc' = "poll"
          /\ UNCHANGED <<opts, master, chan, lines, dialed, backlog, cut, hup, imp, where, using, row>>
          /\ UNCHANGED <<events, watching, todo, current, socks, linger, orphaned, lost, lpc, dialing>>
      BY <1>11, <2>3 DEF Recv, netVars, local
    <3>2. SessionTyped' /\ InHand'
      BY <1>1, <3>1 DEF SessionTyped, InHand
    <3> QED
      BY <1>1, <2>2, <3>1, <3>2, TypedParts
         DEF LinkParted, NetTyped, LinesTyped, ConnsTyped, HostTyped, RestTyped
  <2> QED
    BY <2>1, <2>2, <2>3, AnnounceDevTyped
<1>12. ASSUME PollFails PROVE Typed'
  BY <1>2, <1>12 DEF PollFails
<1>13. {} \in SUBSET Conns
  OBVIOUS
<1>14. PayloadStep => \/ Start({d \in Devices : where[d] # "absent"})
                      \/ \E d \in Devices : NextDev(d)
                      \/ AcceptAttach \/ AcceptTimeout \/ EofHandoff
                      \/ OpenUevents \/ PollDead \/ PollRound \/ Recv
  BY Zenon DEF PayloadStep
<1> QED
  BY <1>2, <1>3, <1>4, <1>5, <1>6, <1>7, <1>8, <1>9, <1>10, <1>11, <1>12, <1>13, <1>14, Zenon

-----------------------------------------------------------------------------
(* The child, ssh and the environment *)

LEMMA OthersTyped == Typed /\ (LingerDetach \/ LingerFails \/ SshStep \/ EnvStep) => Typed'
<1> SUFFICES ASSUME Typed, LingerDetach \/ LingerFails \/ SshStep \/ EnvStep PROVE Typed'
  OBVIOUS
<1>1. LinkTypeOK /\ LinkParted /\ SessionTyped /\ InHand
  BY TypedParts DEF Typed
<1>2. ASSUME LingerDetach PROVE Typed'
  <2> DEFINE D == DevsOf(Hung(linger))
  <2>1. /\ DetachAll(D) /\ linger' = linger \ Hung(linger)
        /\ UNCHANGED <<opts, master, chan, lines, dialed, backlog, imp, events, watching>>
        /\ UNCHANGED <<ppc, todo, current, socks, orphaned, lost, lpc, dialing>>
    BY <1>2 DEF LingerDetach, netVars, local
  <2>2. D \in SUBSET Devices
    BY <1>1 DEF SessionTyped, LingerSock, DevsOf, Hung
  <2> HIDE DEF D
  <2>3. /\ HostTyped' /\ UeventsTyped' /\ cut' \subseteq Conns /\ hup' \subseteq Conns
        /\ uevents # <<>> => uevents' # <<>>
    BY <1>1, <2>1, <2>2, DetachTyped DEF LinkParted
  <2>4. ConnsTyped'
    BY <1>1, <2>1, <2>3 DEF LinkParted, ConnsTyped
  <2>5. SessionTyped' /\ InHand'
    BY <1>1, <2>1, <2>3 DEF SessionTyped, InHand
  <2> QED
    BY <1>1, <2>1, <2>3, <2>4, <2>5, TypedParts
       DEF LinkParted, NetTyped, LinesTyped, RestTyped
<1>3. ASSUME LingerFails PROVE Typed'
  <2>1. /\ linger' = {} /\ orphaned' = orphaned \cup DevsOf(linger)
        /\ UNCHANGED <<opts, master, chan, lines, dialed, backlog, cut, hup, imp, where, using, row>>
        /\ UNCHANGED <<watching, uevents, events, ppc, todo, current, socks, lost, lpc, dialing>>
    BY <1>3 DEF LingerFails, linkVars, local
  <2>2. SessionTyped' /\ InHand'
    BY <1>1, <2>1 DEF SessionTyped, InHand, DevsOf, LingerSock
  <2> QED
    BY <1>1, <2>1, <2>2, TypedParts
       DEF LinkParted, NetTyped, LinesTyped, ConnsTyped, HostTyped, UeventsTyped, RestTyped
<1>4. ASSUME UNCHANGED <<local, ppc, todo, current, socks, linger, orphaned, lost>>,
             LinkTypeOK', uevents # <<>> => uevents' # <<>>
      PROVE  Typed'
  BY <1>1, <1>4 DEF Typed, SessionTyped, InHand, local
<1>5. ASSUME SshStep PROVE Typed'
  <2>1. LinkTypeOK' /\ UNCHANGED uevents
    BY <1>1, <1>5, SshTyped DEF SshStep
  <2> QED
    BY <1>4, <1>5, <2>1 DEF SshStep
<1>6. ASSUME EnvStep PROVE Typed'
  <2>1. LinkTypeOK' /\ (uevents # <<>> => uevents' # <<>>)
    BY <1>1, <1>6, EnvironmentTyped DEF EnvStep
  <2> QED
    BY <1>4, <1>6, <2>1 DEF EnvStep
<1> QED
  BY <1>2, <1>3, <1>5, <1>6

LEMMA AlwaysTyped == Spec => []Typed
<1>1. Init => Typed
  <2> SUFFICES ASSUME Init PROVE Typed
    OBVIOUS
  <2>1. LinkTypeOK
    <3>1. <<>> \in Seq(Lines) /\ <<>> \in Seq(Conns) /\ <<>> \in Seq(Devices) /\ Len(<<>>) = 0
      OBVIOUS
    <3>2. MaxLines \in Nat /\ UeventCap \in Nat /\ MaxEvents \in Nat
      BY LinkAssumption
    <3>3. where \in [Devices -> {"absent", "usb", "usbip-host"}]
      BY DEF Init, LinkInit
    <3>4. LinesTyped /\ UeventsTyped /\ RestTyped
      <4>1. lines = <<>> /\ uevents = <<>> /\ watching = FALSE /\ events = 0
        BY DEF Init, LinkInit
      <4>2. LinesTyped
        BY <3>1, <3>2, <4>1 DEF LinesTyped
      <4>3. UeventsTyped
        BY <3>1, <3>2, <4>1 DEF UeventsTyped
      <4>4. 0 \in 0..MaxEvents /\ FALSE \in BOOLEAN
        BY <3>2
      <4>5. RestTyped
        BY <4>1, <4>4, Zenon DEF RestTyped
      <4> QED
        BY <4>2, <4>3, <4>5
    <3>5. NetTyped /\ ConnsTyped /\ HostTyped
      BY <3>1, <3>3 DEF Init, LinkInit, NetTyped, ConnsTyped, HostTyped
    <3> QED
      BY <3>4, <3>5, LinkParts
  <2> QED
    BY <2>1 DEF Init, Typed, SessionTyped, InHand
<1>2. Typed /\ [Next]_vars => Typed'
  <2>1. ASSUME Typed, UNCHANGED vars PROVE Typed'
    <3>1. LinkParted /\ SessionTyped /\ InHand
      BY <2>1, TypedParts
    <3> QED
      BY <2>1, <3>1, TypedParts
         DEF vars, linkVars, LinkParted, NetTyped, LinesTyped, ConnsTyped, HostTyped,
             UeventsTyped, RestTyped, SessionTyped, InHand
  <2> QED
    BY <2>1, LocalTyped, LocalFailsTyped, PayloadTyped, OthersTyped DEF Next, ReadFails
<1> QED
  BY <1>1, <1>2, PTL DEF Spec

\* For any devices, connections and buffers, the variables of a session have
\* their types: the channel and the uevent socket keep their bounds, and all
\* that a process holds are connections and devices of the session
\* (sshside.go:315-391, remoteside.go:103-400).
THEOREM TypeCorrect == Spec => []TypeOK
<1>1. Typed => TypeOK
  BY DEF Typed, SessionTyped, TypeOK
<1> QED
  BY <1>1, AlwaysTyped, PTL

-----------------------------------------------------------------------------
(* Watched *)

\* Before the one device of a session without --vhub is attached, nothing has a
\* row of match_busid, so that a failure has nothing to lose; after it the payload only
\* hands over.
OneDevice ==
  ~opts.vhub =>
     /\ ~watching /\ ppc \in {"start", "next", "accept", "gone"}
     /\ ppc = "accept" => todo = {}
     /\ \A d, e \in todo : d = e
     /\ ppc \in {"start", "accept"} \/ todo # {} =>
           socks = {} /\ \A d \in Devices : row[d] = "none"

\* The child comes after the payload.
ChildLast == ppc # "gone" => linger = {}

\* The row of an attached device comes with its socket: where devices go, unplugged
\* and plugged again, does not matter.
SockHeld(d) == Excused(d) \/ \E s \in socks \cup linger : s[2] = d
RowWatched == \A d \in Devices : row[d] = "match" => SockHeld(d)

WatchInv == OneDevice /\ ChildLast /\ Rowed /\ RowWatched

LEMMA RowsSuffice == HostTyped /\ WatchInv => Watched
<1> SUFFICES ASSUME HostTyped, WatchInv, NEW d \in Devices, where[d] = "usbip-host"
             PROVE  SockHeld(d)
  BY DEF Watched, SockHeld
<1>1. row[d] \in {"match", "left"}
  BY DEF HostTyped, WatchInv, Rowed
<1> QED
  BY <1>1 DEF WatchInv, RowWatched, SockHeld, Excused

\* A step that takes no socket from anybody, and no device without a row to
\* usbip-host.
LEMMA StillWatched ==
  ASSUME WatchInv, UNCHANGED <<opts, ppc, todo, socks, linger, orphaned, lost, watching, row>>,
         \A d \in Devices : where'[d] = "usbip-host" => where[d] = "usbip-host" \/ row[d] # "none"
  PROVE  WatchInv'
<1>1. OneDevice'
  BY DEF WatchInv, OneDevice
<1>2. ChildLast'
  BY DEF WatchInv, ChildLast
<1>3. Rowed' /\ RowWatched'
  BY DEF WatchInv, Rowed, RowWatched, SockHeld, Excused
<1> QED
  BY <1>1, <1>2, <1>3 DEF WatchInv

LEMMA LocalWatched == WatchInv /\ (LocalStep \/ ReadFails) => WatchInv'
<1> SUFFICES ASSUME WatchInv, LocalStep \/ ReadFails PROVE WatchInv'
  OBVIOUS
<1>1. UNCHANGED <<opts, ppc, todo, socks, linger, orphaned, lost, watching, where, row>>
  BY DEF LocalStep, ReadFails, ReadSocket, ReadDev, LocalAttach, ReadEof, WaitExit, LocalFails,
         payload, hostVars, netVars, linkVars
<1> QED
  BY <1>1, StillWatched

\* Sockets go only after their devices have been detached.
LEMMA DroppedWatched ==
  ASSUME Rowed, RowWatched, NEW D \in SUBSET Devices,
         UNCHANGED <<opts, orphaned, lost>>,
         \A d \in D : where'[d] # "usbip-host" /\ row'[d] # "match",
         \A d \in Devices : where'[d] = "usbip-host" => where[d] = "usbip-host",
         \A d \in Devices \ D : row'[d] = row[d],
         \A s \in socks \cup linger : s \in socks' \cup linger' \/ s[2] \in D
  PROVE  Rowed' /\ RowWatched'
<1>1. Rowed'
  BY DEF Rowed
<1>2. ASSUME NEW d \in Devices, row'[d] = "match" PROVE SockHeld(d)'
  <2>1. d \notin D /\ row[d] = "match" /\ SockHeld(d)
    BY <1>2 DEF RowWatched
  <2> QED
    BY <1>2, <2>1 DEF SockHeld, Excused
<1> QED
  BY <1>1, <1>2 DEF RowWatched

LEMMA FatalWatched ==
  ASSUME WatchInv, NEW dropped, Fatal(dropped), ppc # "gone",
         opts.vhub \/ ppc \in {"start", "accept"} \/ todo # {}
  PROVE  WatchInv'
<1>1. /\ ppc' = "gone" /\ watching' = FALSE /\ socks' = {} /\ todo' = {}
      /\ lost' = lost \cup {s[2] : s \in socks}
      /\ UNCHANGED <<opts, where, row, linger, orphaned>>
  BY DEF Fatal, PayloadEnds, DevsOf
<1>2. OneDevice' /\ ChildLast'
  BY <1>1 DEF WatchInv, OneDevice, ChildLast
<1>4. linger = {}
  BY DEF WatchInv, ChildLast
<1>3. Rowed' /\ RowWatched'
  <2>1. Rowed'
    BY <1>1 DEF WatchInv, Rowed
  <2>2. CASE opts.vhub
    BY <1>1, <1>4, <2>1, <2>2 DEF WatchInv, RowWatched, SockHeld, Excused
  <2>3. CASE ~opts.vhub
    BY <1>1, <2>1, <2>3 DEF WatchInv, OneDevice, RowWatched
  <2> QED
    BY <2>2, <2>3
<1> QED
  BY <1>2, <1>3 DEF WatchInv

LEMMA HandoffWatched ==
  ASSUME WatchInv, ppc # "gone", Handoff
  PROVE  WatchInv'
<1>1. /\ ppc' = "gone" /\ watching' = FALSE /\ socks' = {} /\ todo' = {}
      /\ UNCHANGED <<opts, where, row, lost>>
  BY DEF Handoff, PayloadEnds
<1>2. \/ linger' = socks /\ UNCHANGED orphaned
      \/ orphaned' = orphaned \cup {s[2] : s \in socks}
  BY DEF Handoff, DevsOf
<1>3. linger = {}
  BY DEF WatchInv, ChildLast
<1>4. OneDevice' /\ ChildLast'
  BY <1>1 DEF WatchInv, OneDevice, ChildLast
<1>5. Rowed' /\ RowWatched'
  BY <1>1, <1>2, <1>3 DEF WatchInv, Rowed, RowWatched, SockHeld, Excused
<1> QED
  BY <1>4, <1>5 DEF WatchInv

LEMMA PayloadWatched == Typed /\ WatchInv /\ (PayloadStep \/ PollFails) => WatchInv'
<1> SUFFICES ASSUME Typed, WatchInv, PayloadStep \/ PollFails PROVE WatchInv'
  OBVIOUS
<1>1. LinkParted /\ SessionTyped /\ InHand
  BY TypedParts
<1>2. OneDevice /\ ChildLast /\ Rowed /\ RowWatched
  BY DEF WatchInv
<1>3. ASSUME NEW found \in SUBSET Devices, Start(found) PROVE WatchInv'
  <2>1. CASE Fatal({})
    BY <1>3, <2>1, FatalWatched DEF Start
  <2>2. ASSUME ~Fatal({}) PROVE WatchInv'
    <3>1. /\ ppc = "start" /\ ppc' = "next" /\ todo' = found
          /\ opts.vhub \/ Cardinality(found) = 1
          /\ UNCHANGED <<opts, where, row, watching, socks, linger, orphaned, lost>>
      BY <1>3, <2>2 DEF Start, hostVars
    <3>2. Cardinality(found) = 1 => \A d, e \in found : d = e
      <4>1. IsFiniteSet(found)
        BY LinkAssumption, FS_Subset
      <4> QED
        BY <4>1, FS_Singleton
    <3>3. OneDevice'
      BY <1>2, <3>1, <3>2 DEF OneDevice
    <3>4. ChildLast' /\ Rowed' /\ RowWatched'
      BY <1>2, <3>1 DEF ChildLast, Rowed, RowWatched, SockHeld, Excused
    <3> QED
      BY <3>3, <3>4 DEF WatchInv
  <2> QED
    BY <2>1, <2>2
<1>4. ASSUME NEW d \in Devices, NextDev(d) PROVE WatchInv'
  <2>1. ppc = "next" /\ d \in todo
    BY <1>4 DEF NextDev
  <2>2. CASE Fatal({})
    BY <2>1, <2>2, FatalWatched
  <2>3. ASSUME ~Fatal({}) PROVE WatchInv'
    <3>1. /\ ppc' = "accept" /\ todo' = todo \ {d}
          /\ UNCHANGED <<opts, where, row, watching, socks, linger, orphaned, lost>>
      BY <1>4, <2>3 DEF NextDev, AnnounceDev
    <3>2. OneDevice'
      BY <1>2, <2>1, <3>1 DEF OneDevice
    <3>3. ChildLast' /\ Rowed' /\ RowWatched'
      BY <1>2, <2>1, <3>1 DEF ChildLast, Rowed, RowWatched, SockHeld, Excused
    <3> QED
      BY <3>2, <3>3 DEF WatchInv
  <2> QED
    BY <2>2, <2>3
<1>5. ASSUME AcceptAttach PROVE WatchInv'
  <2> DEFINE c == Head(backlog)
  <2>1. ppc = "accept" /\ c \in Conns /\ current \in Devices
    BY <1>1, <1>5 DEF AcceptAttach, LinkParted, ConnsTyped, InHand
  <2>2. CASE Fatal({c})
    BY <2>1, <2>2, FatalWatched
  <2>3. ASSUME ~Fatal({c}) PROVE WatchInv'
    <3>1. /\ AttachTo(current, c)
          /\ socks' = IF opts.noLinger THEN socks ELSE socks \cup {<<c, current>>}
          /\ ppc' = IF watching THEN "poll" ELSE "next"
          /\ UNCHANGED <<opts, watching, todo, linger, orphaned, lost>>
      BY <1>5, <2>3 DEF AcceptAttach
    <3>2. /\ where'[current] = "usbip-host" /\ row'[current] = "match"
          /\ \A d \in Devices \ {current} : where'[d] = where[d] /\ row'[d] = row[d]
      BY <1>1, <2>1, <3>1, AttachTyped DEF LinkParted
    <3>3. socks \subseteq socks' /\ (opts.noLinger \/ <<c, current>> \in socks')
      BY <3>1
    <3>4. OneDevice'
      BY <1>2, <2>1, <3>1 DEF OneDevice
    <3>5. ChildLast'
      BY <1>2, <2>1, <3>1 DEF ChildLast
    <3>6. Rowed'
      BY <1>2, <3>2 DEF Rowed
    <3>7. RowWatched'
      <4> SUFFICES ASSUME NEW d \in Devices, row'[d] = "match" PROVE SockHeld(d)'
        BY DEF RowWatched
      <4>1. CASE d = current
        BY <3>1, <3>3, <4>1 DEF SockHeld, Excused
      <4>2. CASE d # current
        <5>1. row[d] = "match"
          BY <3>2, <4>2
        <5>2. SockHeld(d) /\ row[d] # "left"
          BY <1>2, <5>1 DEF RowWatched
        <5> QED
          BY <3>1, <3>3, <5>2 DEF SockHeld, Excused
      <4> QED
        BY <4>1, <4>2
    <3> QED
      BY <3>4, <3>5, <3>6, <3>7 DEF WatchInv
  <2> QED
    BY <2>2, <2>3
<1>6. ASSUME AcceptTimeout PROVE WatchInv'
  BY <1>6, FatalWatched DEF AcceptTimeout
<1>7. ASSUME EofHandoff \/ PollDead PROVE WatchInv'
  BY <1>7, HandoffWatched DEF EofHandoff, PollDead
<1>8. ASSUME OpenUevents PROVE WatchInv'
  <2>1. opts.vhub /\ ppc = "next"
    BY <1>8 DEF OpenUevents
  <2>2. CASE Fatal({})
    BY <2>1, <2>2, FatalWatched
  <2>3. ASSUME ~Fatal({}) PROVE WatchInv'
    <3>1. ppc' = "poll" /\ UNCHANGED <<opts, where, row, todo, socks, linger, orphaned, lost>>
      BY <1>8, <2>3 DEF OpenUevents, netVars, hostVars
    <3> QED
      BY <1>2, <2>1, <3>1 DEF WatchInv, OneDevice, ChildLast, Rowed, RowWatched, SockHeld, Excused
  <2> QED
    BY <2>2, <2>3
<1>9. ASSUME PollRound PROVE WatchInv'
  <2> DEFINE D == DevsOf(Hung(socks))
  <2>1. /\ ppc = "poll" /\ DetachAll(D) /\ socks' = socks \ Hung(socks)
        /\ ppc' \in {"poll", "recv"}
        /\ UNCHANGED <<opts, watching, todo, linger, orphaned, lost>>
    BY <1>9 DEF PollRound, netVars
  <2>2. D \in SUBSET Devices
    BY <1>1 DEF SessionTyped, LingerSock, DevsOf, Hung
  <2>3. /\ \A d \in D : where'[d] # "usbip-host" /\ row'[d] # "match"
        /\ \A d \in D : row[d] = "none" => row'[d] = "none"
        /\ \A d \in Devices : where'[d] = "usbip-host" => where[d] = "usbip-host"
        /\ \A d \in Devices \ D : row'[d] = row[d]
    BY <1>1, <2>1, <2>2, DetachTyped DEF LinkParted
  <2>4. \A s \in socks \cup linger : s \in socks' \cup linger' \/ s[2] \in D
    BY <2>1 DEF DevsOf
  <2> HIDE DEF D
  <2>5. opts.vhub
    BY <1>2, <2>1 DEF OneDevice
  <2>6. OneDevice' /\ ChildLast'
    BY <1>2, <2>1, <2>5 DEF OneDevice, ChildLast
  <2>7. Rowed' /\ RowWatched'
    BY <1>2, <2>1, <2>2, <2>3, <2>4, DroppedWatched
  <2> QED
    BY <2>6, <2>7 DEF WatchInv
<1>10. ASSUME Recv PROVE WatchInv'
  <2>1. opts.vhub /\ ppc = "recv"
    BY <1>2, <1>10 DEF Recv, OneDevice
  <2>2. CASE Fatal({})
    BY <2>1, <2>2, FatalWatched
  <2>3. ASSUME ~Fatal({}) PROVE WatchInv'
    <3>1. ppc' \in {"accept", "poll"} /\ UNCHANGED <<opts, where, row, todo, socks, linger, orphaned, lost>>
      BY <1>10, <2>3 DEF Recv, AnnounceDev, netVars
    <3> QED
      BY <1>2, <2>1, <3>1 DEF WatchInv, OneDevice, ChildLast, Rowed, RowWatched, SockHeld, Excused
  <2> QED
    BY <2>2, <2>3
<1>11. ASSUME PollFails PROVE WatchInv'
  BY <1>2, <1>11, FatalWatched DEF PollFails, OneDevice
<1> QED
  BY <1>3, <1>4, <1>5, <1>6, <1>7, <1>8, <1>9, <1>10, <1>11, Zenon DEF PayloadStep

LEMMA OthersWatched ==
  Typed /\ WatchInv /\ (LingerDetach \/ LingerFails \/ SshStep \/ EnvStep) => WatchInv'
<1> SUFFICES ASSUME Typed, WatchInv, LingerDetach \/ LingerFails \/ SshStep \/ EnvStep
             PROVE  WatchInv'
  OBVIOUS
<1>1. LinkTypeOK /\ LinkParted /\ SessionTyped
  BY TypedParts DEF Typed
<1>2. OneDevice /\ ChildLast /\ Rowed /\ RowWatched
  BY DEF WatchInv
<1>3. ASSUME LingerDetach PROVE WatchInv'
  <2> DEFINE D == DevsOf(Hung(linger))
  <2>1. /\ linger # {} /\ DetachAll(D) /\ linger' = linger \ Hung(linger)
        /\ UNCHANGED <<opts, watching, ppc, todo, socks, orphaned, lost>>
    BY <1>3 DEF LingerDetach, netVars, Hung
  <2>2. D \in SUBSET Devices
    BY <1>1 DEF SessionTyped, LingerSock, DevsOf, Hung
  <2>3. /\ \A d \in D : where'[d] # "usbip-host" /\ row'[d] # "match"
        /\ \A d \in D : row[d] = "none" => row'[d] = "none"
        /\ \A d \in Devices : where'[d] = "usbip-host" => where[d] = "usbip-host"
        /\ \A d \in Devices \ D : row'[d] = row[d]
    BY <1>1, <2>1, <2>2, DetachTyped DEF LinkParted
  <2>4. \A s \in socks \cup linger : s \in socks' \cup linger' \/ s[2] \in D
    BY <2>1 DEF DevsOf
  <2> HIDE DEF D
  <2>5. OneDevice'
    BY <1>2, <2>1, <2>3 DEF OneDevice
  <2>6. ChildLast'
    BY <1>2, <2>1 DEF ChildLast
  <2>7. Rowed' /\ RowWatched'
    BY <1>2, <2>1, <2>2, <2>3, <2>4, DroppedWatched
  <2> QED
    BY <2>5, <2>6, <2>7 DEF WatchInv
<1>4. ASSUME LingerFails PROVE WatchInv'
  <2>1. /\ linger' = {} /\ orphaned' = orphaned \cup {s[2] : s \in linger}
        /\ UNCHANGED <<opts, watching, where, row, ppc, todo, socks, lost>>
    BY <1>4 DEF LingerFails, linkVars, DevsOf
  <2> QED
    BY <1>2, <2>1 DEF WatchInv, OneDevice, ChildLast, Rowed, RowWatched, SockHeld, Excused
<1>5. ASSUME SshStep PROVE WatchInv'
  <2>1. UNCHANGED <<where, row, opts, watching>>
    BY <1>1, <1>5, SshTyped DEF SshStep
  <2> QED
    BY <1>5, <2>1, StillWatched DEF SshStep
<1>6. ASSUME EnvStep PROVE WatchInv'
  <2>1. /\ UNCHANGED <<opts, watching, row>>
        /\ \A d \in Devices : where'[d] = "usbip-host" => where[d] = "usbip-host" \/ row[d] # "none"
    BY <1>1, <1>6, EnvironmentTyped DEF EnvStep
  <2> QED
    BY <1>6, <2>1, StillWatched DEF EnvStep
<1> QED
  BY <1>3, <1>4, <1>5, <1>6

\* Unless --no-linger, a device on usbip-host always has a payload or a linger
\* child that holds its socket, also when it was unplugged and plugged again in
\* between: except a device whose own socket was lost with a child, or with a
\* --vhub payload that fails, and one that came back to a row of match_busid
\* which an early detach had left (remoteside.go:103-400, usbip.go:189-195).
THEOREM DevicesAreWatched == Spec => []Watched
<1>1. Init => WatchInv
  BY DEF Init, LinkInit, WatchInv, OneDevice, ChildLast, Rowed, RowWatched
<1>2. Typed /\ WatchInv /\ [Next]_vars => WatchInv'
  <2>1. ASSUME WatchInv, UNCHANGED vars PROVE WatchInv'
    BY <2>1, StillWatched DEF vars, linkVars
  <2> QED
    BY <2>1, LocalWatched, PayloadWatched, OthersWatched DEF Next
<1>3. Typed /\ WatchInv => Watched
  BY TypedParts, RowsSuffice DEF LinkParted
<1> QED
  BY <1>1, <1>2, <1>3, AlwaysTyped, PTL DEF Spec

-----------------------------------------------------------------------------
(* Paired *)

\* Lines that announce no device, and lines that announce d and no other.
Silent(s) == \A i \in DOMAIN s : s[i] \notin Devices
Speaks(s, d) ==
  \E i \in DOMAIN s : s[i] = d /\ \A j \in DOMAIN s : j # i => s[j] \notin Devices

\* Over connection c the importer runs d, is about to, or runs nothing yet.
Means(c, d) == imp[c] \in {d, NoDevice} /\ (dialing[1] = c => dialing[2] = d)

UsingMeans == \A d \in Devices : using[d] # NoConn => Means(using[d], d)

\* Between the payload and the local process there is at most one device under
\* way, the one whose connection the payload waits for: as a line, as a
\* connection that ssh has to relay, or as one that is to be accepted.
OneUnderWay ==
  ppc # "gone" =>
    \/ Silent(lines) /\ dialed = {} /\ backlog = <<>>
    \/ /\ ppc = "accept"
       /\ \/ Speaks(lines, current) /\ dialed = {} /\ backlog = <<>>
          \/ \E c \in Conns : /\ Silent(lines) /\ Means(c, current)
                              /\ \/ dialed = {c} /\ backlog = <<>>
                                 \/ dialed = {} /\ backlog = <<c>>

PairInv == UsingMeans /\ OneUnderWay

LEMMA HeadOfLines ==
  ASSUME NEW s \in Seq(Lines), s # <<>>
  PROVE  /\ Silent(s) => Silent(Tail(s)) /\ Head(s) \notin Devices
         /\ \A d \in Devices : Speaks(s, d) =>
               IF Head(s) \in Devices THEN Head(s) = d /\ Silent(Tail(s))
                                      ELSE Speaks(Tail(s), d)
<1>1. /\ Head(s) = s[1] /\ Len(s) \in Nat /\ 1 \in DOMAIN s
      /\ DOMAIN s = 1..Len(s) /\ DOMAIN Tail(s) = 1..(Len(s) - 1)
  OBVIOUS
<1>2. \A i \in DOMAIN Tail(s) : Tail(s)[i] = s[i + 1] /\ i + 1 \in DOMAIN s /\ i + 1 # 1
  BY <1>1
<1>3. \A i \in DOMAIN s : i # 1 => i - 1 \in DOMAIN Tail(s) /\ (i - 1) + 1 = i
  BY <1>1
<1>4. \A i, j \in DOMAIN Tail(s) : i + 1 = j + 1 => i = j
  BY <1>1
<1>5. Silent(s) => Silent(Tail(s)) /\ Head(s) \notin Devices
  BY <1>1, <1>2, Zenon DEF Silent
<1>6. ASSUME NEW d \in Devices, Speaks(s, d)
      PROVE  IF Head(s) \in Devices THEN Head(s) = d /\ Silent(Tail(s)) ELSE Speaks(Tail(s), d)
  <2>1. PICK i \in DOMAIN s : s[i] = d /\ \A j \in DOMAIN s : j # i => s[j] \notin Devices
    BY <1>6 DEF Speaks
  <2>2. CASE i = 1
    <3>1. Head(s) = d /\ Silent(Tail(s))
      BY <1>1, <1>2, <2>1, <2>2, Zenon DEF Silent
    <3> QED
      BY <3>1
  <2>3. CASE i # 1
    <3>1. Head(s) \notin Devices
      BY <1>1, <2>1, <2>3, Zenon
    <3>2. Tail(s)[i - 1] = d
      BY <1>2, <1>3, <2>1, <2>3
    <3>3. \A j \in DOMAIN Tail(s) : j # i - 1 => Tail(s)[j] \notin Devices
      <4>1. \A j \in DOMAIN Tail(s) : j # i - 1 => j + 1 # i
        BY <1>3, <1>4, <2>3
      <4> QED
        BY <1>2, <2>1, <4>1, Zenon
    <3>4. Speaks(Tail(s), d)
      BY <1>3, <2>3, <3>2, <3>3 DEF Speaks
    <3> QED
      BY <3>1, <3>4
  <2> QED
    BY <2>2, <2>3
<1> QED
  BY <1>5, <1>6

LEMMA LinesLost ==
  ASSUME NEW s \in Seq(Lines), NEW k \in 0..Len(s)
  PROVE  /\ Silent(s) => Silent(SubSeq(s, 1, k))
         /\ \A d \in Devices :
               Speaks(s, d) => Silent(SubSeq(s, 1, k)) \/ Speaks(SubSeq(s, 1, k), d)
<1> DEFINE t == SubSeq(s, 1, k)
<1>1. DOMAIN t \subseteq DOMAIN s /\ \A i \in DOMAIN t : t[i] = s[i]
  OBVIOUS
<1> HIDE DEF t
<1>2. Silent(s) => Silent(t)
  BY <1>1, Zenon DEF Silent
<1>3. ASSUME NEW d \in Devices, Speaks(s, d) PROVE Silent(t) \/ Speaks(t, d)
  <2>1. PICK i \in DOMAIN s : s[i] = d /\ \A j \in DOMAIN s : j # i => s[j] \notin Devices
    BY <1>3 DEF Speaks
  <2>2. CASE i \in DOMAIN t
    BY <1>1, <2>1, <2>2, Zenon DEF Speaks
  <2>3. CASE i \notin DOMAIN t
    <3>1. \A j \in DOMAIN t : j \in DOMAIN s /\ j # i
      BY <1>1, <2>3
    <3> QED
      BY <1>1, <2>1, <3>1, Zenon DEF Silent
  <2> QED
    BY <2>2, <2>3
<1> QED
  BY <1>2, <1>3 DEF t

LEMMA LineSaid ==
  ASSUME NEW s \in Seq(Lines), Silent(s), NEW line \in Lines
  PROVE  /\ line \notin Devices => Silent(Append(s, line))
         /\ line \in Devices => Speaks(Append(s, line), line)
<1> DEFINE t == Append(s, line)
<1>1. /\ Len(s) \in Nat /\ DOMAIN s = 1..Len(s) /\ DOMAIN t = 1..(Len(s) + 1)
      /\ t[Len(s) + 1] = line /\ \A i \in DOMAIN s : t[i] = s[i]
  OBVIOUS
<1>2. Len(s) + 1 \in DOMAIN t /\ \A i \in DOMAIN t : i = Len(s) + 1 \/ i \in DOMAIN s
  BY <1>1
<1> HIDE DEF t
<1>3. \A i \in DOMAIN t : i # Len(s) + 1 => t[i] \notin Devices
  BY <1>1, <1>2, Zenon DEF Silent
<1> QED
  BY <1>1, <1>2, <1>3, Zenon DEF Silent, Speaks, t

\* A step that opens no connection and lets nobody use another one.
LEMMA StillMeans ==
  ASSUME UsingMeans, UNCHANGED <<imp, dialing>>,
         \A d \in Devices : using'[d] \in {using[d], NoConn}
  PROVE  UsingMeans'
BY DEF UsingMeans, Means

\* A step that loses lines at most.
LEMMA StillUnderWay ==
  ASSUME Typed, OneUnderWay, UNCHANGED <<imp, dialing, ppc, current, dialed, backlog>>,
         \E k \in 0..Len(lines) : lines' = SubSeq(lines, 1, k)
  PROVE  OneUnderWay'
<1>1. lines \in Seq(Lines) /\ (ppc = "accept" => current \in Devices)
  BY DEF Typed, LinkTypeOK, InHand
<1>2. Silent(lines) => Silent(lines')
  BY <1>1, LinesLost
<1>3. ppc = "accept" /\ Speaks(lines, current) => Silent(lines') \/ Speaks(lines', current)
  BY <1>1, LinesLost
<1>4. \A c : Means(c, current)' <=> Means(c, current)
  BY DEF Means
<1> QED
  BY <1>2, <1>3, <1>4 DEF OneUnderWay

LEMMA WholeLines == Typed => \E k \in 0..Len(lines) : lines = SubSeq(lines, 1, k)
<1> SUFFICES ASSUME Typed PROVE \E k \in 0..Len(lines) : lines = SubSeq(lines, 1, k)
  OBVIOUS
<1>1. lines \in Seq(Lines)
  BY DEF Typed, LinkTypeOK
<1>2. lines = SubSeq(lines, 1, Len(lines)) /\ Len(lines) \in 0..Len(lines)
  BY <1>1
<1> QED
  BY <1>2

LEMMA LocalPaired == Typed /\ PairInv /\ (LocalStep \/ ReadFails) => PairInv'
<1> SUFFICES ASSUME Typed, PairInv, LocalStep \/ ReadFails PROVE PairInv'
  OBVIOUS
<1>1. LinkParted /\ SessionTyped /\ InHand
  BY TypedParts
<1>2. UsingMeans /\ OneUnderWay /\ lines \in Seq(Lines)
  BY <1>1 DEF PairInv, LinkParted, LinesTyped
<1>3. /\ "socket" \notin Devices /\ "eof" \notin Devices /\ NoConn \notin Conns
      /\ NoDevice \notin Devices
  BY LinkAssumption
<1>4. \A d \in Devices : using[d] \in Conns \cup {NoConn}
  BY <1>1 DEF LinkParted, HostTyped
<1>5. ppc = "accept" => current \in Devices
  BY <1>1 DEF InHand
<1>6. ASSUME LocalFails PROVE PairInv'
  <2>1. /\ dialing' = <<NoConn, NoDevice>> /\ \E k \in 0..Len(lines) : lines' = SubSeq(lines, 1, k)
        /\ UNCHANGED <<imp, using, dialed, backlog, ppc, current>>
    BY <1>6, LocalFailsTyped DEF hostVars, payload
  <2>2. \A c \in Conns, d \in Devices : Means(c, d) => Means(c, d)'
    BY <1>3, <2>1 DEF Means
  <2>3. UsingMeans'
    <3> SUFFICES ASSUME NEW d \in Devices, using[d] # NoConn PROVE Means(using[d], d)'
      BY <2>1 DEF UsingMeans
    <3>1. using[d] \in Conns /\ Means(using[d], d)
      BY <1>2, <1>4 DEF UsingMeans
    <3> QED
      BY <2>1, <2>2, <3>1 DEF Means
  <2>4. Silent(lines) => Silent(lines')
    BY <1>2, <2>1, LinesLost
  <2>5. ppc = "accept" /\ Speaks(lines, current) => Silent(lines') \/ Speaks(lines', current)
    BY <1>2, <1>5, <2>1, LinesLost
  <2>6. OneUnderWay'
    BY <1>2, <1>5, <2>1, <2>2, <2>4, <2>5 DEF OneUnderWay
  <2> QED
    BY <2>3, <2>6 DEF PairInv
<1>7. ASSUME UNCHANGED <<imp, dialing, using, dialed, backlog, ppc, current>>,
             \/ lines' = lines
             \/ lines # <<>> /\ Head(lines) \notin Devices /\ lines' = Tail(lines)
      PROVE  PairInv'
  <2>1. UsingMeans'
    BY <1>2, <1>7, StillMeans
  <2>2. CASE lines' = lines
    BY <1>2, <1>7, <2>1, <2>2, WholeLines, StillUnderWay DEF PairInv
  <2>3. CASE lines # <<>> /\ Head(lines) \notin Devices /\ lines' = Tail(lines)
    <3>1. Silent(lines) => Silent(lines')
      BY <1>2, <2>3, HeadOfLines
    <3>2. ppc = "accept" /\ Speaks(lines, current) => Speaks(lines', current)
      BY <1>2, <1>5, <2>3, HeadOfLines
    <3>3. \A c : Means(c, current)' <=> Means(c, current)
      BY <1>7 DEF Means
    <3>4. OneUnderWay'
      BY <1>2, <1>7, <3>1, <3>2, <3>3 DEF OneUnderWay
    <3> QED
      BY <2>1, <3>4 DEF PairInv
  <2> QED
    BY <1>7, <2>2, <2>3
<1>8. ASSUME ReadSocket, ~LocalFails PROVE PairInv'
  <2>1. /\ UNCHANGED <<imp, dialing, using, dialed, backlog, ppc, current>>
        /\ lines # <<>> /\ Head(lines) = "socket" /\ lines' = Tail(lines)
    BY <1>8 DEF ReadSocket, NextLine, hostVars, local, payload
  <2> QED
    BY <1>3, <1>7, <2>1
<1>9. ASSUME NEW d \in Devices, NEW c \in Conns, ReadDev(d, c), ~LocalFails PROVE PairInv'
  <2>1. /\ lines # <<>> /\ Head(lines) = d /\ lines' = Tail(lines)
        /\ c \notin Held /\ dialed' = dialed \cup {c}
        /\ imp' = [imp EXCEPT ![c] = NoDevice] /\ dialing' = <<c, d>>
        /\ UNCHANGED <<backlog, using, ppc, current>>
    BY <1>9 DEF ReadDev, NextLine, Dial, Unused, hostVars, payload
  <2>2. imp'[c] = NoDevice /\ \A e \in Conns \ {c} : imp'[e] = imp[e]
    BY <1>1, <2>1 DEF LinkParted, ConnsTyped
  <2>3. \A e \in Devices : using[e] # c
    BY <2>1 DEF Held
  <2>4. UsingMeans'
    <3> SUFFICES ASSUME NEW e \in Devices, using[e] # NoConn PROVE Means(using[e], e)'
      BY <2>1 DEF UsingMeans
    <3>1. using[e] \in Conns \ {c} /\ Means(using[e], e)
      BY <1>2, <1>4, <2>3 DEF UsingMeans
    <3> QED
      BY <2>1, <2>2, <3>1 DEF Means
  <2>5. OneUnderWay'
    <3> SUFFICES ASSUME ppc # "gone" PROVE OneUnderWay'
      BY <2>1 DEF OneUnderWay
    <3>1. ~Silent(lines)
      BY <1>2, <2>1, HeadOfLines
    <3>2. ppc = "accept" /\ Speaks(lines, current) /\ dialed = {} /\ backlog = <<>>
      BY <1>2, <3>1 DEF OneUnderWay
    <3>3. current = d /\ Silent(lines')
      BY <1>2, <1>5, <2>1, <3>2, HeadOfLines
    <3>4. Means(c, current)'
      BY <2>1, <2>2, <3>3 DEF Means
    <3> QED
      BY <2>1, <3>2, <3>3, <3>4 DEF OneUnderWay
  <2> QED
    BY <2>4, <2>5 DEF PairInv
<1>10. ASSUME LocalAttach, ~LocalFails PROVE PairInv'
  <2>1. /\ dialing' = <<NoConn, NoDevice>> /\ imp' = [imp EXCEPT ![dialing[1]] = dialing[2]]
        /\ UNCHANGED <<lines, dialed, backlog, using, ppc, current>>
    BY <1>10 DEF LocalAttach, netVars, hostVars, payload
  <2>2. \A c \in Conns, d \in Devices : Means(c, d) => Means(c, d)'
    <3> SUFFICES ASSUME NEW c \in Conns, NEW d \in Devices, Means(c, d) PROVE Means(c, d)'
      OBVIOUS
    <3>1. CASE dialing[1] = c
      BY <1>1, <1>3, <2>1, <3>1 DEF Means, LinkParted, ConnsTyped
    <3>2. CASE dialing[1] # c
      <4>1. imp'[c] = imp[c]
        BY <1>1, <2>1, <3>2 DEF LinkParted, ConnsTyped
      <4> QED
        BY <1>3, <2>1, <4>1 DEF Means
    <3> QED
      BY <3>1, <3>2
  <2>3. UsingMeans'
    <3> SUFFICES ASSUME NEW d \in Devices, using[d] # NoConn PROVE Means(using[d], d)'
      BY <2>1 DEF UsingMeans
    <3>1. using[d] \in Conns /\ Means(using[d], d)
      BY <1>2, <1>4 DEF UsingMeans
    <3> QED
      BY <2>1, <2>2, <3>1 DEF Means
  <2>4. OneUnderWay'
    BY <1>2, <1>5, <2>1, <2>2 DEF OneUnderWay
  <2> QED
    BY <2>3, <2>4 DEF PairInv
<1>11. ASSUME ReadEof PROVE PairInv'
  <2>1. /\ UNCHANGED <<imp, dialing, using, dialed, backlog, ppc, current>>
        /\ \/ lines' = lines
           \/ lines # <<>> /\ Head(lines) = "eof" /\ lines' = Tail(lines)
    BY <1>11 DEF ReadEof, NextLine, hostVars, payload
  <2> QED
    BY <1>3, <1>7, <2>1
<1>12. ASSUME WaitExit PROVE PairInv'
  <2>1. UNCHANGED <<imp, dialing, using, dialed, backlog, ppc, current, lines>>
    BY <1>12 DEF WaitExit, linkVars
  <2> QED
    BY <1>7, <2>1
<1> QED
  BY <1>6, <1>8, <1>9, <1>10, <1>11, <1>12, Zenon DEF LocalStep, ReadFails

LEMMA AnnounceDevPaired ==
  ASSUME Typed, PairInv, ppc \notin {"accept", "gone"}, NEW d \in Devices, AnnounceDev(d)
  PROVE  PairInv'
<1>1. /\ Tell(d) /\ ppc' = "accept" /\ current' = d
      /\ UNCHANGED <<dialed, backlog, imp, using, dialing>>
  BY DEF AnnounceDev, local
<1>2. Silent(lines) /\ dialed = {} /\ backlog = <<>> /\ lines \in Seq(Lines)
  BY DEF PairInv, OneUnderWay, Typed, LinkTypeOK
<1>3. lines' = lines \/ lines' = Append(lines, d)
  BY <1>1 DEF Tell, Say
<1>4. Silent(lines') \/ Speaks(lines', d)
  BY <1>2, <1>3, LineSaid DEF Lines
<1>5. OneUnderWay'
  BY <1>1, <1>2, <1>4 DEF OneUnderWay
<1>6. UsingMeans'
  BY <1>1, StillMeans DEF PairInv
<1> QED
  BY <1>5, <1>6 DEF PairInv

LEMMA GonePaired ==
  ASSUME PairInv, ppc' = "gone", UNCHANGED <<imp, using, dialing>>
  PROVE  PairInv'
BY StillMeans DEF PairInv, OneUnderWay

LEMMA PayloadPaired == Typed /\ PairInv /\ (PayloadStep \/ PollFails) => PairInv'
<1> SUFFICES ASSUME Typed, PairInv, PayloadStep \/ PollFails PROVE PairInv'
  OBVIOUS
<1>1. LinkParted /\ SessionTyped /\ InHand
  BY TypedParts
<1>2. UsingMeans /\ OneUnderWay /\ lines \in Seq(Lines)
  BY <1>1 DEF PairInv, LinkParted, LinesTyped
<1>3. ASSUME NEW dropped, Fatal(dropped) PROVE PairInv'
  BY <1>3, GonePaired DEF Fatal, PayloadEnds, local
<1>4. ASSUME Handoff PROVE PairInv'
  BY <1>4, GonePaired DEF Handoff, PayloadEnds, local
<1>5. ASSUME NEW found \in SUBSET Devices, Start(found) PROVE PairInv'
  <2>1. CASE Fatal({})
    BY <1>3, <2>1
  <2>2. ASSUME ~Fatal({}) PROVE PairInv'
    <3>1. /\ ppc = "start" /\ ppc' = "next" /\ Tell("socket")
          /\ UNCHANGED <<dialed, backlog, imp, using, dialing>>
      BY <1>5, <2>2 DEF Start, hostVars, local
    <3>2. Silent(lines) /\ dialed = {} /\ backlog = <<>>
      BY <1>2, <3>1 DEF OneUnderWay
    <3>3. lines' = lines \/ lines' = Append(lines, "socket")
      BY <3>1 DEF Tell, Say
    <3>4. "socket" \in Lines /\ "socket" \notin Devices
      BY LinkAssumption DEF Lines
    <3>5. Silent(lines')
      BY <1>2, <3>2, <3>3, <3>4, LineSaid
    <3>6. OneUnderWay' /\ UsingMeans'
      BY <1>2, <3>1, <3>2, <3>5, StillMeans DEF OneUnderWay
    <3> QED
      BY <3>6 DEF PairInv
  <2> QED
    BY <2>1, <2>2
<1>6. ASSUME NEW d \in Devices, NextDev(d) PROVE PairInv'
  BY <1>3, <1>6, AnnounceDevPaired DEF NextDev
<1>7. ASSUME AcceptAttach PROVE PairInv'
  <2> DEFINE c == Head(backlog)
  <2>1. ppc = "accept" /\ backlog # <<>> /\ c \in Conns /\ current \in Devices
    BY <1>1, <1>7 DEF AcceptAttach, LinkParted, ConnsTyped, InHand
  <2>2. CASE Fatal({c})
    BY <1>3, <2>2
  <2>3. ASSUME ~Fatal({c}) PROVE PairInv'
    <3>1. /\ AttachTo(current, c) /\ backlog' = Tail(backlog) /\ ppc' \in {"poll", "next"}
          /\ UNCHANGED <<lines, dialed, imp, dialing>>
      BY <1>7, <2>3 DEF AcceptAttach, local
    <3>2. Silent(lines) /\ Means(c, current) /\ dialed = {} /\ Tail(backlog) = <<>>
      <4>1. PICK e \in Conns : Silent(lines) /\ Means(e, current) /\ dialed = {} /\ backlog = <<e>>
        BY <1>2, <2>1, Zenon DEF OneUnderWay
      <4>2. c = e /\ Tail(backlog) = <<>>
        BY <4>1
      <4> QED
        BY <4>1, <4>2, Zenon
    <3>3. /\ using'[current] \in {c, NoConn}
          /\ \A e \in Devices \ {current} : using'[e] = using[e]
      BY <1>1, <2>1, <3>1, AttachTyped DEF LinkParted
    <3>4. \A e, d : Means(e, d)' <=> Means(e, d)
      BY <3>1 DEF Means
    <3>5. UsingMeans'
      BY <1>2, <3>2, <3>3, <3>4 DEF UsingMeans
    <3>6. OneUnderWay'
      BY <3>1, <3>2 DEF OneUnderWay
    <3> QED
      BY <3>5, <3>6 DEF PairInv
  <2> QED
    BY <2>2, <2>3
<1>8. ASSUME AcceptTimeout PROVE PairInv'
  BY <1>3, <1>8 DEF AcceptTimeout
<1>9. ASSUME EofHandoff \/ PollDead PROVE PairInv'
  BY <1>4, <1>9 DEF EofHandoff, PollDead
<1>10. ASSUME OpenUevents PROVE PairInv'
  <2>1. CASE Fatal({})
    BY <1>3, <2>1
  <2>2. ASSUME ~Fatal({}) PROVE PairInv'
    <3>1. /\ ppc = "next" /\ ppc' = "poll"
          /\ UNCHANGED <<lines, dialed, backlog, imp, using, dialing>>
      BY <1>10, <2>2 DEF OpenUevents, netVars, hostVars, local
    <3>2. OneUnderWay' /\ UsingMeans'
      BY <1>2, <3>1, StillMeans DEF OneUnderWay
    <3> QED
      BY <3>2 DEF PairInv
  <2> QED
    BY <2>1, <2>2
<1>11. ASSUME PollRound PROVE PairInv'
  <2> DEFINE D == DevsOf(Hung(socks))
  <2>1. /\ ppc = "poll" /\ ppc' \in {"poll", "recv"} /\ DetachAll(D)
        /\ UNCHANGED <<lines, dialed, backlog, imp, dialing>>
    BY <1>11 DEF PollRound, netVars, local
  <2>2. D \in SUBSET Devices
    BY <1>1 DEF SessionTyped, LingerSock, DevsOf, Hung
  <2> HIDE DEF D
  <2>3. \A d \in Devices : using'[d] \in {using[d], NoConn}
    BY <1>1, <2>1, <2>2, DetachTyped DEF LinkParted
  <2>4. OneUnderWay' /\ UsingMeans'
    BY <1>2, <2>1, <2>3, StillMeans DEF OneUnderWay
  <2> QED
    BY <2>4 DEF PairInv
<1>12. ASSUME Recv PROVE PairInv'
  <2>1. ppc = "recv" /\ Head(uevents) \in Devices
    <3>1. uevents # <<>> /\ uevents \in Seq(Devices) /\ ppc = "recv"
      BY <1>1, <1>12 DEF Recv, InHand, LinkParted, UeventsTyped
    <3> QED
      BY <3>1
  <2>2. ASSUME ppc' = "poll", UNCHANGED <<lines, dialed, backlog, imp, using, dialing>>
        PROVE  PairInv'
    BY <1>2, <2>1, <2>2, StillMeans DEF PairInv, OneUnderWay
  <2> QED
    BY <1>3, <1>12, <2>1, <2>2, AnnounceDevPaired DEF Recv, netVars, local
<1>13. ASSUME PollFails PROVE PairInv'
  BY <1>3, <1>13 DEF PollFails
<1> QED
  BY <1>5, <1>6, <1>7, <1>8, <1>9, <1>10, <1>11, <1>12, <1>13, Zenon DEF PayloadStep

LEMMA OthersPaired ==
  Typed /\ PairInv /\ (LingerDetach \/ LingerFails \/ SshStep \/ EnvStep) => PairInv'
<1> SUFFICES ASSUME Typed, PairInv, LingerDetach \/ LingerFails \/ SshStep \/ EnvStep
             PROVE  PairInv'
  OBVIOUS
<1>1. LinkTypeOK /\ LinkParted /\ SessionTyped
  BY TypedParts DEF Typed
<1>2. UsingMeans /\ OneUnderWay /\ \E k \in 0..Len(lines) : lines = SubSeq(lines, 1, k)
  BY WholeLines DEF PairInv
<1>3. ASSUME LingerDetach PROVE PairInv'
  <2> DEFINE D == DevsOf(Hung(linger))
  <2>1. DetachAll(D) /\ UNCHANGED <<lines, dialed, backlog, imp, dialing, ppc, current>>
    BY <1>3 DEF LingerDetach, netVars, local
  <2>2. D \in SUBSET Devices
    BY <1>1 DEF SessionTyped, LingerSock, DevsOf, Hung
  <2> HIDE DEF D
  <2>3. \A d \in Devices : using'[d] \in {using[d], NoConn}
    BY <1>1, <2>1, <2>2, DetachTyped DEF LinkParted
  <2> QED
    BY <1>2, <2>1, <2>3, StillMeans, StillUnderWay DEF PairInv
<1>4. ASSUME LingerFails PROVE PairInv'
  <2>1. UNCHANGED <<lines, dialed, backlog, imp, using, dialing, ppc, current>>
    BY <1>4 DEF LingerFails, linkVars, local
  <2> QED
    BY <1>2, <2>1, StillMeans, StillUnderWay DEF PairInv
<1>5. ASSUME SshStep PROVE PairInv'
  <2>1. UNCHANGED <<dialing, ppc, current>>
    BY <1>5 DEF SshStep, local
  <2>2. UNCHANGED <<lines, imp>> /\ \A d \in Devices : using'[d] \in {using[d], NoConn}
    BY <1>1, <1>5, SshTyped DEF SshStep
  <2>3. UsingMeans'
    BY <1>2, <2>1, <2>2, StillMeans
  <2>4. CASE UNCHANGED <<dialed, backlog>>
    BY <1>2, <2>1, <2>2, <2>3, <2>4, StillUnderWay DEF PairInv
  <2>5. ASSUME NEW c \in Conns, Relay(c, Listening) PROVE OneUnderWay'
    <3>1. /\ c \in dialed /\ dialed' = dialed \ {c}
          /\ backlog' = Append(backlog, c) \/ backlog' = backlog
      BY <2>5, Zenon DEF Relay
    <3>2. \A e : Means(e, current)' <=> Means(e, current)
      BY <2>1, <2>2 DEF Means
    <3> SUFFICES ASSUME ppc # "gone" PROVE OneUnderWay'
      BY <2>1 DEF OneUnderWay
    <3>3. /\ ppc = "accept" /\ Silent(lines) /\ Means(c, current)
          /\ dialed = {c} /\ backlog = <<>>
      BY <1>2, <3>1 DEF OneUnderWay
    <3>4. dialed' = {} /\ (backlog' = <<c>> \/ backlog' = <<>>)
      BY <3>1, <3>3
    <3> QED
      BY <2>1, <2>2, <3>2, <3>3, <3>4 DEF OneUnderWay
  <2>6. SshStep => UNCHANGED <<dialed, backlog>> \/ \E c \in Conns : Relay(c, Listening)
    BY DEF SshStep, HangupArrives, ChannelDies, MasterExits, netVars
  <2> QED
    BY <1>5, <2>3, <2>4, <2>5, <2>6 DEF PairInv
<1>6. ASSUME EnvStep PROVE PairInv'
  <2>1. /\ UNCHANGED <<imp, dialed, backlog>>
        /\ \E k \in 0..Len(lines) : lines' = SubSeq(lines, 1, k)
        /\ \A d \in Devices : using'[d] \in {using[d], NoConn}
    BY <1>1, <1>6, EnvironmentTyped DEF EnvStep
  <2>2. UNCHANGED <<dialing, ppc, current>>
    BY <1>6 DEF EnvStep, local
  <2> QED
    BY <1>2, <2>1, <2>2, StillMeans, StillUnderWay DEF PairInv
<1> QED
  BY <1>3, <1>4, <1>5, <1>6

\* Nothing that passes over a connection names its device.  Still the device
\* that the exporter runs over one is the one that the importer was told to
\* expect on it, whatever is lost, fails, drops or is plugged in between,
\* because the payload announces a device only when the one before it has its
\* connection, and does not go on without it (remoteside.go:128-173, 290-299,
\* sshside.go:371-391).
THEOREM EndsArePaired == Spec => []Paired
<1>1. Init => PairInv
  <2> SUFFICES ASSUME Init PROVE PairInv
    OBVIOUS
  <2>1. /\ lines = <<>> /\ dialed = {} /\ backlog = <<>>
        /\ \A d \in Devices : using[d] = NoConn
    BY DEF Init, LinkInit
  <2> QED
    BY <2>1 DEF PairInv, UsingMeans, OneUnderWay, Silent
<1>2. Typed /\ PairInv /\ [Next]_vars => PairInv'
  <2>1. ASSUME Typed, PairInv, UNCHANGED vars PROVE PairInv'
    <3>1. UNCHANGED <<imp, dialing, ppc, current, dialed, backlog, lines, using>>
      BY <2>1 DEF vars, linkVars
    <3> QED
      BY <2>1, <3>1, WholeLines, StillMeans, StillUnderWay DEF PairInv
  <2> QED
    BY <2>1, LocalPaired, PayloadPaired, OthersPaired DEF Next
<1>3. PairInv => Paired
  BY DEF PairInv, UsingMeans, Means, Paired
<1> QED
  BY <1>1, <1>2, <1>3, AlwaysTyped, PTL DEF Spec

=============================================================================
