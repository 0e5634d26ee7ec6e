---------------------------- MODULE SshLinkProofs ----------------------------
(***************************************************************************)
(* What the steps of SshLink that sessions are made of do to its types:    *)
(* the lemmas that the proofs of ForwardSession and ReverseSession share.  *)
(***************************************************************************)
EXTENDS SshLink, FiniteSetTheorems, TLAPS

(* The type invariant of SshLink, in parts *)

NetTyped ==
  /\ opts \in [vhub : BOOLEAN, noLinger : BOOLEAN]
  /\ master \in {"up", "gone"} /\ chan \in {"open", "dead"}
LinesTyped == lines \in Seq(Lines) /\ Len(lines) <= MaxLines
ConnsTyped ==
  /\ dialed \subseteq Conns /\ cut \subseteq Conns /\ hup \subseteq Conns
  /\ backlog \in Seq(Conns) /\ imp \in [Conns -> Devices \cup {NoDevice}]
HostTyped ==
  /\ where \in [Devices -> {"absent", "usb", "usbip-host"}]
  /\ using \in [Devices -> Conns \cup {NoConn}]
  /\ row \in [Devices -> {"none", "match", "left"}]
UeventsTyped == uevents \in Seq(Devices) /\ Len(uevents) <= UeventCap
RestTyped == watching \in BOOLEAN /\ events \in 0..MaxEvents

LEMMA LinkParts ==
  /\ LinkTypeOK <=> /\ NetTyped /\ LinesTyped /\ ConnsTyped
                    /\ HostTyped /\ UeventsTyped /\ RestTyped
  /\ LinkTypeOK' <=> /\ NetTyped' /\ LinesTyped' /\ ConnsTyped'
                     /\ HostTyped' /\ UeventsTyped' /\ RestTyped'
BY DEF LinkTypeOK, NetTyped, LinesTyped, ConnsTyped, HostTyped, UeventsTyped, RestTyped

-----------------------------------------------------------------------------
(* Sequences *)

LEMMA FirstLines ==
  ASSUME NEW S, NEW s \in Seq(S), NEW k \in 0..Len(s)
  PROVE  /\ SubSeq(s, 1, k) \in Seq(S) /\ Len(SubSeq(s, 1, k)) = k
         /\ \A i \in 1..k : SubSeq(s, 1, k)[i] = s[i]
OBVIOUS

LEMMA RangeIs == ASSUME NEW S, NEW s \in Seq(S) PROVE Range(s) \subseteq S
BY DEF Range

\* A finite set has a listing, so SetToSeq is one.
LEMMA Listing ==
  ASSUME NEW D \in SUBSET Devices
  PROVE  SetToSeq(D) \in Seq(D)
<1>1. IsFiniteSet(D)
  BY LinkAssumption, FS_Subset
<1>2. Cardinality(D) \in Nat /\ ExistsBijection(1..Cardinality(D), D)
  BY <1>1, FS_CardinalityType
<1>3. \E f \in [1..Cardinality(D) -> D] : IsInjective(f)
  BY <1>2, Zenon DEF ExistsBijection, Bijection, Injection
<1>4. SetToSeq(D) \in [1..Cardinality(D) -> D]
  BY <1>3, Zenon DEF SetToSeq
<1> QED
  BY <1>2, <1>4

-----------------------------------------------------------------------------
(* Lines *)

LEMMA SaidTyped ==
  ASSUME LinesTyped, NEW line \in Lines, NEW lost, Say(line, lost)
  PROVE  LinesTyped'
<1>1. MaxLines \in Nat
  BY LinkAssumption
<1>2. CASE UNCHANGED lines
  BY <1>2 DEF LinesTyped
<1>3. CASE Len(lines) < MaxLines /\ lines' = Append(lines, line)
  BY <1>1, <1>3 DEF LinesTyped
<1> QED
  BY <1>2, <1>3 DEF Say

LEMMA TakenTyped == ASSUME LinesTyped, lines # <<>>, lines' = Tail(lines) PROVE LinesTyped'
<1>1. MaxLines \in Nat /\ Len(lines) \in Nat
  BY LinkAssumption DEF LinesTyped
<1>2. Tail(lines) \in Seq(Lines) /\ Len(Tail(lines)) = Len(lines) - 1
  BY DEF LinesTyped
<1> QED
  BY <1>1, <1>2 DEF LinesTyped

LEMMA MasterGoneTyped ==
  ASSUME LinesTyped, MasterGone
  PROVE  LinesTyped' /\ master' = "gone" /\ cut' = Conns
<1>1. PICK k \in 0..Len(lines) : lines' = SubSeq(lines, 1, k)
  BY DEF MasterGone
<1>2. MaxLines \in Nat /\ Len(lines) \in Nat
  BY LinkAssumption DEF LinesTyped
<1>3. SubSeq(lines, 1, k) \in Seq(Lines) /\ Len(SubSeq(lines, 1, k)) = k
  BY FirstLines DEF LinesTyped
<1> QED
  BY <1>1, <1>2, <1>3 DEF LinesTyped, MasterGone

-----------------------------------------------------------------------------
(* Devices *)

LEMMA AnnouncedTyped ==
  ASSUME UeventsTyped, NEW D \in SUBSET Devices, Announce(D)
  PROVE  UeventsTyped' /\ (uevents # <<>> => uevents' # <<>>)
<1> DEFINE all == uevents \o SetToSeq(D)
<1>1. UeventCap \in Nat
  BY LinkAssumption
<1>2. all \in Seq(Devices) /\ Len(all) >= Len(uevents)
  <2>1. SetToSeq(D) \in Seq(D)
    BY Listing
  <2>2. SetToSeq(D) \in Seq(Devices)
    BY <2>1
  <2> QED
    BY <2>2 DEF UeventsTyped
<1>3. uevents' = uevents
        \/ uevents' = SubSeq(all, 1, IF Len(all) > UeventCap THEN UeventCap ELSE Len(all))
  BY DEF Announce
<1> HIDE DEF all
<1>4. Len(all) \in Nat /\ Len(uevents) \in Nat /\ Len(uevents) <= UeventCap
  BY <1>2 DEF UeventsTyped
<1>8. \A s \in Seq(Devices) : s # <<>> <=> Len(s) # 0
  OBVIOUS
<1>5. CASE uevents' = SubSeq(all, 1, UeventCap) /\ Len(all) > UeventCap
  <2>1. uevents' \in Seq(Devices) /\ Len(uevents') = UeventCap
    BY <1>1, <1>2, <1>4, <1>5, FirstLines
  <2> QED
    BY <1>1, <1>4, <1>8, <2>1 DEF UeventsTyped
<1>6. CASE uevents' = SubSeq(all, 1, Len(all)) /\ ~(Len(all) > UeventCap)
  <2>1. uevents' \in Seq(Devices) /\ Len(uevents') = Len(all)
    BY <1>1, <1>2, <1>4, <1>6, FirstLines
  <2> QED
    BY <1>1, <1>2, <1>4, <1>6, <1>8, <2>1 DEF UeventsTyped
<1>7. CASE uevents' = uevents
  BY <1>7 DEF UeventsTyped
<1> QED
  BY <1>3, <1>5, <1>6, <1>7

LEMMA TailTyped ==
  ASSUME UeventsTyped, uevents # <<>>, uevents' = Tail(uevents)
  PROVE  UeventsTyped' /\ Head(uevents) \in Devices
<1>1. UeventCap \in Nat /\ Len(uevents) \in Nat
  BY LinkAssumption DEF UeventsTyped
<1>2. /\ Tail(uevents) \in Seq(Devices) /\ Len(Tail(uevents)) = Len(uevents) - 1
      /\ Head(uevents) \in Devices
  BY DEF UeventsTyped
<1> QED
  BY <1>1, <1>2 DEF UeventsTyped

\* Only a row puts a device on usbip-host and keeps it there.
Rowed == \A d \in Devices : where[d] = "usbip-host" => row[d] # "none"

LEMMA DetachTyped ==
  ASSUME HostTyped, ConnsTyped, UeventsTyped, NEW D \in SUBSET Devices, DetachAll(D)
  PROVE  /\ HostTyped' /\ UeventsTyped' /\ cut' \subseteq Conns /\ hup' \subseteq Conns
         /\ uevents # <<>> => uevents' # <<>>
         /\ \A d \in D : where'[d] # "usbip-host"
         /\ \A d \in Devices : where'[d] = "usbip-host" => where[d] = "usbip-host"
         /\ \A d \in Devices \ D : row'[d] = row[d]
         /\ \A d \in D : row'[d] # "match" /\ (row[d] = "none" => row'[d] = "none")
         /\ \A d \in Devices : using'[d] \in {using[d], NoConn}
<1> DEFINE bound == {d \in D : where[d] = "usbip-host"}
           C == {using[d] : d \in bound} \ {NoConn}
<1>1. /\ where' = [d \in Devices |-> IF d \in bound THEN "usb" ELSE where[d]]
      /\ using' = [d \in Devices |-> IF d \in bound THEN NoConn ELSE using[d]]
      /\ row' = [d \in Devices |-> IF d \in bound THEN "none"
                                   ELSE IF d \in D /\ row[d] = "match" THEN "left" ELSE row[d]]
      /\ Down(C) /\ Announce(bound)
  BY DEF DetachAll
<1>2. bound \in SUBSET Devices /\ bound \subseteq D /\ \A d \in D : d \in bound \/ where[d] # "usbip-host"
  OBVIOUS
<1>3. C \subseteq Conns
  BY DEF HostTyped
<1>4. UeventsTyped' /\ (uevents # <<>> => uevents' # <<>>)
  BY <1>1, <1>2, AnnouncedTyped
<1> HIDE DEF bound, C
<1>5. HostTyped'
  BY <1>1 DEF HostTyped
<1>6. cut' \subseteq Conns /\ hup' \subseteq Conns
  BY <1>1, <1>3 DEF Down, ConnsTyped
<1>7. \A d \in D : where'[d] # "usbip-host"
  BY <1>1, <1>2
<1>8. \A d \in Devices : where'[d] = "usbip-host" => where[d] = "usbip-host"
  BY <1>1
<1>9. \A d \in Devices : using'[d] \in {using[d], NoConn}
  BY <1>1
<1>10. \A d \in Devices \ D : row'[d] = row[d]
  BY <1>1, <1>2
<1>11. ASSUME NEW d \in D PROVE row'[d] # "match" /\ (row[d] = "none" => row'[d] = "none")
  <2>1. row'[d] = IF d \in bound THEN "none" ELSE IF row[d] = "match" THEN "left" ELSE row[d]
    BY <1>1
  <2> QED
    BY <2>1
<1> QED
  BY <1>4, <1>5, <1>6, <1>7, <1>8, <1>9, <1>10, <1>11

LEMMA AttachTyped ==
  ASSUME HostTyped, ConnsTyped, NEW d \in Devices, NEW c \in Conns, AttachTo(d, c)
  PROVE  /\ HostTyped' /\ cut' \subseteq Conns /\ hup' \subseteq Conns
         /\ where'[d] = "usbip-host" /\ row'[d] = "match" /\ using'[d] \in {c, NoConn}
         /\ \A e \in Devices \ {d} :
               where'[e] = where[e] /\ row'[e] = row[e] /\ using'[e] = using[e]
<1>1. /\ where' = [where EXCEPT ![d] = "usbip-host"]
      /\ row' = [row EXCEPT ![d] = "match"]
      /\ using' = [using EXCEPT ![d] = IF c \in hup THEN NoConn ELSE c]
      /\ cut' = cut \cup ({using[d]} \ {NoConn}) /\ hup' = hup \cup ({using[d]} \ {NoConn})
  BY DEF AttachTo, Down
<1>2. using[d] \in Conns \cup {NoConn}
  BY DEF HostTyped
<1> QED
  BY <1>1, <1>2 DEF HostTyped, ConnsTyped

-----------------------------------------------------------------------------
(* ssh and the environment *)

LEMMA DialTyped ==
  ASSUME ConnsTyped, NEW c \in Conns, NEW held, Dial(c, held), UNCHANGED backlog
  PROVE  ConnsTyped'
BY DEF Dial, ConnsTyped

LEMMA SshTyped ==
  ASSUME LinkTypeOK, NEW listening, NEW over,
         \/ \E c \in Conns : Relay(c, listening) \/ HangupArrives(c)
         \/ ChannelDies \/ MasterExits(over)
  PROVE  /\ LinkTypeOK' /\ lines' = lines /\ where' = where /\ row' = row
         /\ UNCHANGED <<opts, imp, watching, uevents>>
         /\ \A d \in Devices : using'[d] \in {using[d], NoConn}
<1>0. /\ NetTyped /\ LinesTyped /\ ConnsTyped /\ HostTyped /\ UeventsTyped /\ RestTyped
  BY LinkParts
<1> USE DEF NetTyped, LinesTyped, UeventsTyped, RestTyped
<1>1. ASSUME NEW c \in Conns, Relay(c, listening)
      PROVE  /\ LinkTypeOK' /\ UNCHANGED <<lines, where, using, row, opts, imp, watching, uevents>>
  <2>1. UNCHANGED <<opts, master, chan, lines, imp, where, using, row, watching, uevents, events>>
    BY <1>1 DEF Relay, hostVars
  <2>2. dialed' \subseteq Conns /\ cut' \subseteq Conns /\ hup' \subseteq Conns
    BY <1>0, <1>1 DEF Relay, ConnsTyped
  <2>3. backlog' \in Seq(Conns)
    <3>1. backlog' = Append(backlog, c) \/ backlog' = backlog
      BY <1>1, Zenon DEF Relay
    <3>2. backlog \in Seq(Conns)
      BY <1>0 DEF ConnsTyped
    <3> QED
      BY <3>1, <3>2
  <2> QED
    BY <1>0, <2>1, <2>2, <2>3, LinkParts DEF ConnsTyped, HostTyped
<1>2. ASSUME NEW c \in Conns, HangupArrives(c)
      PROVE  /\ LinkTypeOK' /\ UNCHANGED <<lines, where, row, opts, imp, watching, uevents>>
             /\ \A d \in Devices : using'[d] \in {using[d], NoConn}
  <2>1. /\ UNCHANGED <<opts, master, chan, lines, dialed, backlog, cut, imp, where, row, watching, uevents, events>>
        /\ hup' = hup \cup {c}
        /\ using' = [d \in Devices |-> IF using[d] = c THEN NoConn ELSE using[d]]
    BY <1>2 DEF HangupArrives, netVars
  <2>2. ConnsTyped'
    BY <1>0, <2>1 DEF ConnsTyped
  <2>3. HostTyped'
    BY <1>0, <2>1 DEF HostTyped
  <2> QED
    BY <1>0, <2>1, <2>2, <2>3, LinkParts
<1>3. ASSUME ChannelDies \/ MasterExits(over)
      PROVE  LinkTypeOK' /\ UNCHANGED <<lines, where, using, row, opts, imp, watching, uevents>>
  <2>1. /\ UNCHANGED <<opts, lines, dialed, backlog, cut, hup, imp, where, using, row>>
        /\ UNCHANGED <<watching, uevents, events>>
        /\ master' \in {"up", "gone"} /\ chan' \in {"open", "dead"}
    BY <1>0, <1>3 DEF ChannelDies, MasterExits, hostVars
  <2> QED
    BY <1>0, <2>1, LinkParts DEF ConnsTyped, HostTyped
<1> QED
  BY <1>1, <1>2, <1>3

LEMMA EnvironmentTyped ==
  ASSUME LinkTypeOK, Environment
  PROVE  /\ LinkTypeOK' /\ UNCHANGED <<opts, imp, row, watching, dialed, backlog>>
         /\ \E k \in 0..Len(lines) : lines' = SubSeq(lines, 1, k)
         /\ uevents # <<>> => uevents' # <<>>
         /\ \A d \in Devices : where'[d] = "usbip-host" => where[d] = "usbip-host" \/ row[d] # "none"
         /\ \A d \in Devices : using'[d] \in {using[d], NoConn}
<1>0. /\ NetTyped /\ LinesTyped /\ ConnsTyped /\ HostTyped /\ UeventsTyped /\ RestTyped
  BY LinkParts
<1>1. events' \in 0..MaxEvents
  BY <1>0, LinkAssumption DEF Environment, RestTyped
<1>2. lines = SubSeq(lines, 1, Len(lines)) /\ Len(lines) \in 0..Len(lines)
  BY <1>0 DEF LinesTyped
<1>3. ASSUME NEW d \in Devices, Unplug(d)
      PROVE  /\ LinkTypeOK' /\ UNCHANGED <<opts, imp, row, watching, dialed, backlog, lines, uevents>>
             /\ \A e \in Devices : where'[e] = "usbip-host" => where[e] = "usbip-host"
             /\ \A e \in Devices : using'[e] \in {using[e], NoConn}
  <2>1. /\ UNCHANGED <<opts, master, chan, lines, dialed, backlog, imp, row, watching, uevents>>
        /\ where' = [where EXCEPT ![d] = "absent"] /\ using' = [using EXCEPT ![d] = NoConn]
        /\ cut' = cut \cup ({using[d]} \ {NoConn}) /\ hup' = hup \cup ({using[d]} \ {NoConn})
    BY <1>3 DEF Unplug, Down, netVars
  <2>2. HostTyped' /\ ConnsTyped'
    BY <1>0, <2>1 DEF HostTyped, ConnsTyped
  <2>3. NetTyped' /\ LinesTyped' /\ UeventsTyped' /\ RestTyped'
    BY <1>0, <1>1, <2>1 DEF NetTyped, LinesTyped, UeventsTyped, RestTyped
  <2> QED
    BY <1>0, <2>1, <2>2, <2>3, LinkParts DEF HostTyped
<1>4. ASSUME NEW d \in Devices, Plug(d)
      PROVE  /\ LinkTypeOK' /\ UNCHANGED <<opts, imp, row, watching, dialed, backlog, lines, using>>
             /\ uevents # <<>> => uevents' # <<>>
             /\ \A e \in Devices : where'[e] = "usbip-host" => where[e] = "usbip-host" \/ row[e] # "none"
  <2>1. /\ UNCHANGED <<opts, master, chan, lines, dialed, backlog, cut, hup, imp, using, row, watching>>
        /\ \/ where' = [where EXCEPT ![d] = "usb"] /\ Announce({d})
           \/ row[d] # "none" /\ where' = [where EXCEPT ![d] = "usbip-host"] /\ uevents' = uevents
    BY <1>4 DEF Plug, netVars
  <2>2. UeventsTyped' /\ (uevents # <<>> => uevents' # <<>>)
    <3>1. CASE uevents' = uevents
      BY <1>0, <3>1 DEF UeventsTyped
    <3> QED
      BY <1>0, <2>1, <3>1, AnnouncedTyped
  <2>3. NetTyped' /\ LinesTyped' /\ RestTyped' /\ ConnsTyped'
    BY <1>0, <1>1, <2>1 DEF NetTyped, LinesTyped, RestTyped, ConnsTyped
  <2>4. HostTyped'
    BY <1>0, <2>1 DEF HostTyped
  <2> QED
    BY <1>0, <2>1, <2>2, <2>3, <2>4, LinkParts DEF HostTyped
<1>5. ASSUME NEW c \in Conns, PortDetached(c)
      PROVE  /\ LinkTypeOK' /\ UNCHANGED <<opts, imp, watching, dialed, backlog, lines>>
             /\ UNCHANGED <<where, using, row, uevents>>
  <2>1. /\ UNCHANGED <<opts, master, chan, lines, dialed, backlog, hup, imp>>
        /\ UNCHANGED <<where, using, row, uevents, watching>> /\ cut' = cut \cup {c}
    BY <1>5 DEF PortDetached, netVars, hostVars
  <2> QED
    BY <1>0, <1>1, <2>1, LinkParts
       DEF NetTyped, LinesTyped, UeventsTyped, RestTyped, ConnsTyped, HostTyped
<1>6. ASSUME LinkDrops
      PROVE  /\ LinkTypeOK' /\ UNCHANGED <<opts, imp, watching, dialed, backlog, where, using, row, uevents>>
             /\ \E k \in 0..Len(lines) : lines' = SubSeq(lines, 1, k)
  <2>1. /\ UNCHANGED <<opts, chan, dialed, backlog, hup, imp, where, using, row, uevents, watching>>
        /\ MasterGone
    BY <1>6 DEF LinkDrops, hostVars
  <2>2. LinesTyped' /\ master' = "gone" /\ cut' = Conns
    BY <1>0, <2>1, MasterGoneTyped
  <2>3. \E k \in 0..Len(lines) : lines' = SubSeq(lines, 1, k)
    BY <2>1 DEF MasterGone
  <2> QED
    BY <1>0, <1>1, <2>1, <2>2, <2>3, LinkParts
       DEF NetTyped, UeventsTyped, RestTyped, ConnsTyped, HostTyped
<1> QED
  BY <1>2, <1>3, <1>4, <1>5, <1>6, Zenon DEF Environment
=============================================================================
