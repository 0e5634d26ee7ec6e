--------------------------- MODULE CommandsProofs ---------------------------
(***************************************************************************)
(* Proofs about Commands and the VhciPorts it is built on.                 *)
(***************************************************************************)
EXTENDS Commands, FiniteSetTheorems, TLAPS

-----------------------------------------------------------------------------
(* The status files *)

\* Every line of a status file lists a port, and every port is on some line.
LEMMA Listed ==
  /\ Len(Files) \in Nat
  /\ \A k \in 1..Len(Files) :
        /\ DOMAIN Files[k] \subseteq Nat \ {0}
        /\ \A i \in DOMAIN Files[k] : Files[k][i] \in Ports
  /\ \A p \in Ports : \E k \in 1..Len(Files) : \E i \in DOMAIN Files[k] : Files[k][i] = p
  /\ NoPort \notin Ports
<1>1. Files \in Seq(Seq(Nat \ {NoPort}))
  BY FilesAssumption
<1>2. Len(Files) \in Nat /\ \A k \in 1..Len(Files) : Files[k] \in Seq(Nat \ {NoPort})
  BY <1>1
<1>3. \A k \in 1..Len(Files) : DOMAIN Files[k] = 1..Len(Files[k]) /\ Len(Files[k]) \in Nat
  BY <1>2
<1>4. \A p : p \in Ports <=> \E k \in 1..Len(Files) : \E i \in DOMAIN Files[k] : Files[k][i] = p
  BY DEF Ports, ToSet
<1>5. \A k \in 1..Len(Files) : \A i \in DOMAIN Files[k] : Files[k][i] # NoPort
  BY <1>2, <1>3
<1> QED
  BY <1>2, <1>3, <1>4, <1>5

-----------------------------------------------------------------------------
(* The type invariant of VhciPorts, in parts *)

PortFlags ==
  /\ loaded \in BOOLEAN
  /\ n \in [Detachers -> BOOLEAN] /\ attached \in [Detachers -> BOOLEAN]

PortStates ==
  /\ status \in [Ports -> {"null", "notassigned", "used"}]
  /\ down \subseteq {p \in Ports : status[p] # "null"}
  /\ ipc \in [Importers -> AttachPC \cup DetachPC]
  /\ speed \in [Attachers -> Speeds \cup {"unset"}]
  /\ port \in [Importers -> Ports \cup {NoPort}]
  /\ want \in [Detachers -> SUBSET Ports]
  /\ began \in [Importers -> SUBSET Ports] /\ gone \in [Importers -> SUBSET Ports]
  /\ freed \in [Detachers -> SUBSET Ports]

PortLines ==
  /\ file \in [Importers -> 1..Len(Files) + 1]
  /\ lines \in [Detachers -> SUBSET (Nat \ {0})]
  /\ \A u \in Detachers : \A i \in lines[u] :
        file[u] > 1 /\ i \in DOMAIN Files[file[u] - 1]

LEMMA PortParts == PortTypeOK <=> PortFlags /\ PortStates /\ PortLines
BY DEF PortTypeOK, PortFlags, PortStates, PortLines

PortStep ==
  \/ \E a \in Attachers : AttachBegin(a) \/ AttachRuns(a)
  \/ \E u \in Detachers : DetachBegin(u) \/ DetachRuns(u)
  \/ VhciDriver

\* What the other commands and the device tree do to the ports: nothing.
LEMMA Stepping == [CommandsNext]_vars => PortStep \/ UNCHANGED portVars
BY DEF CommandsNext, vars, PortStep, MachineChanges

\* Where the runs that have not begun, and a write to attach, stand.
Places ==
  /\ \A a \in Attachers : ipc[a] \in {"idle", "probe"} => file[a] = 1
  /\ \A a \in Attachers : ipc[a] = "attach" => port[a] # NoPort
  /\ \A u \in Detachers : ipc[u] = "idle" => lines[u] = {}

LEMMA InitTyped == PortInit => PortFlags /\ PortStates /\ PortLines /\ Places
<1> SUFFICES ASSUME PortInit PROVE PortFlags /\ PortStates /\ PortLines /\ Places
  OBVIOUS
<1> USE DEF PortInit
<1>1. PortFlags
  BY DEF PortFlags
<1>2. PortStates
  BY DEF PortStates, Importers, AttachPC, DetachPC
<1>3. PortLines
  BY Listed DEF PortLines, Importers
<1>4. Places
  BY DEF Places, Importers
<1> QED
  BY <1>1, <1>2, <1>3, <1>4

LEMMA FlagsKept == PortFlags /\ PortStep => PortFlags'
<1> SUFFICES ASSUME PortFlags, PortStep PROVE PortFlags'
  OBVIOUS
<1> USE DEF PortFlags
<1>1. ASSUME NEW a \in Attachers, AttachBegin(a) \/ AttachRuns(a) PROVE PortFlags'
  BY <1>1 DEF AttachBegin, AttachRuns, LoadVhci, ScanFile, ScanFails, WriteAttach, kernel, registers
<1>2. ASSUME NEW u \in Detachers, DetachBegin(u) \/ ReadStatusFile(u) PROVE PortFlags'
  BY <1>2 DEF DetachBegin, ReadStatusFile, kernel
<1>3. ASSUME NEW u \in Detachers, SkipLine(u) \/ DetachLine(u) PROVE PortFlags'
  BY <1>3 DEF SkipLine, DetachLine, kernel
<1>4. ASSUME NEW u \in Detachers, LinesEnd(u) \/ DetachReturns(u) PROVE PortFlags'
  BY <1>4 DEF LinesEnd, DetachReturns, kernel, registers
<1>5. CASE VhciDriver
  BY <1>5 DEF VhciDriver, Enumerated, ConnLost, Freed, registers, others
<1> QED
  BY <1>1, <1>2, <1>3, <1>4, <1>5 DEF PortStep, DetachRuns

\* findVhciAndPort's look at one status file: a suitable port of it, or none.
LEMMA Scanned ==
  ASSUME PortLines, NEW a \in Attachers, ScanFile(a)
  PROVE  /\ ipc[a] = "scan" /\ file[a] \in 1..Len(Files)
         /\ UNCHANGED <<kernel, speed, want, lines, n, attached, freed>>
         /\ \/ \E p \in Ports :
                  /\ Suitable(p, speed[a]) /\ Go(a, "attach") /\ UNCHANGED file
                  /\ port' = [port EXCEPT ![a] = p] /\ began' = [began EXCEPT ![a] = {p}]
                  /\ gone' = [gone EXCEPT ![a] = {}]
            \/ /\ \A i \in DOMAIN Files[file[a]] : ~Suitable(Files[file[a]][i], speed[a])
               /\ file' = [file EXCEPT ![a] = file[a] + 1]
               /\ UNCHANGED <<ipc, port, began, gone>>
<1>1. ipc[a] = "scan" /\ file[a] \in 1..Len(Files)
  BY Listed DEF PortLines, Importers, ScanFile, Is
<1>2. \A i \in DOMAIN Files[file[a]] : Files[file[a]][i] \in Ports
  BY <1>1, Listed
<1> QED
  BY <1>1, <1>2 DEF ScanFile

LEMMA StatesKept == PortStates /\ PortLines /\ Places /\ PortStep => PortStates'
<1> SUFFICES ASSUME PortStates, PortLines, Places, PortStep PROVE PortStates'
  OBVIOUS
<1> USE DEF PortStates, Importers, AttachPC, DetachPC, Go, Is, history
<1>1. ASSUME NEW a \in Attachers, AttachBegin(a) PROVE PortStates'
  BY <1>1 DEF AttachBegin, kernel, FreePorts
<1>2. ASSUME NEW a \in Attachers, LoadVhci(a) PROVE PortStates'
  BY <1>2 DEF LoadVhci, registers
<1>3. ASSUME NEW a \in Attachers, ScanFile(a) PROVE PortStates'
  BY <1>3, Scanned DEF kernel
<1>4. ASSUME NEW a \in Attachers, ScanFails(a) PROVE PortStates'
  BY <1>4 DEF ScanFails, kernel, registers
<1>5. ASSUME NEW a \in Attachers, WriteAttach(a) PROVE PortStates'
  <2>1. port[a] \in Ports /\ UNCHANGED <<down, speed, port, want, began, freed>>
    BY <1>5 DEF WriteAttach, registers, Places
  <2>2. \/ status' = [status EXCEPT ![port[a]] = "notassigned"] /\ Taken(port[a]) /\ Go(a, "attached")
        \/ Go(a, "busy") /\ UNCHANGED <<status, gone>>
    BY <1>5 DEF WriteAttach
  <2> QED
    BY <2>1, <2>2 DEF Taken, Noted
<1>6. ASSUME NEW u \in Detachers, DetachBegin(u) PROVE PortStates'
  BY <1>6 DEF DetachBegin, kernel, UsedPorts
<1>7. ASSUME NEW u \in Detachers, ReadStatusFile(u) PROVE PortStates'
  BY <1>7 DEF ReadStatusFile, kernel
<1>8. ASSUME NEW u \in Detachers, SkipLine(u) PROVE PortStates'
  BY <1>8 DEF SkipLine, kernel
<1>9. ASSUME NEW u \in Detachers, DetachLine(u) PROVE PortStates'
  BY <1>9 DEF DetachLine, Leaves, Noted
<1>10. ASSUME NEW u \in Detachers, LinesEnd(u) PROVE PortStates'
  BY <1>10 DEF LinesEnd, kernel, registers
<1>11. ASSUME NEW u \in Detachers, DetachReturns(u) PROVE PortStates'
  BY <1>11 DEF DetachReturns, kernel, registers
<1>12. ASSUME VhciDriver PROVE PortStates'
  BY <1>12 DEF VhciDriver, Enumerated, ConnLost, Freed, Leaves, Noted, others, registers
<1> QED
  BY <1>1, <1>2, <1>3, <1>4, <1>5, <1>6, <1>7, <1>8, <1>9, <1>10, <1>11, <1>12
    DEF PortStep, AttachRuns, DetachRuns

LEMMA LinesKept == PortStates /\ PortLines /\ Places /\ PortStep => PortLines'
<1> SUFFICES ASSUME PortStates, PortLines, Places, PortStep PROVE PortLines'
  OBVIOUS
<1> USE DEF PortLines, Importers
<1>1. ASSUME NEW a \in Attachers, ScanFile(a) PROVE PortLines'
  <2>1. /\ UNCHANGED lines /\ file[a] \in 1..Len(Files)
        /\ UNCHANGED file \/ file' = [file EXCEPT ![a] = file[a] + 1]
    BY <1>1, Scanned
  <2>2. \A u \in Detachers : file'[u] = file[u]
    BY <2>1, ImportersAssumption
  <2>3. file' \in [Importers -> 1..Len(Files) + 1]
    BY <2>1, Listed
  <2> QED
    BY <2>1, <2>2, <2>3
<1>2. ASSUME NEW u \in Detachers, DetachBegin(u) PROVE PortLines'
  <2>1. lines[u] = {} /\ UNCHANGED lines
    BY <1>2 DEF DetachBegin, Places, Is
  <2>2. file' \in [Importers -> 1..Len(Files) + 1] /\ \A v \in Detachers \ {u} : file'[v] = file[v]
    BY <1>2, Listed DEF DetachBegin
  <2> QED
    BY <2>1, <2>2
<1>3. ASSUME NEW u \in Detachers, ReadStatusFile(u) PROVE PortLines'
  <2>1. file[u] \in 1..Len(Files)
    BY <1>3, Listed DEF ReadStatusFile
  <2>2. file' \in [Importers -> 1..Len(Files) + 1] /\ file'[u] = file[u] + 1
        /\ \A v \in Detachers \ {u} : file'[v] = file[v] /\ lines'[v] = lines[v]
    BY <1>3, <2>1, Listed DEF ReadStatusFile
  <2>3. lines' \in [Detachers -> SUBSET (Nat \ {0})] /\ lines'[u] \subseteq DOMAIN Files[file[u]]
    BY <1>3, <2>1, Listed DEF ReadStatusFile
  <2>4. file'[u] - 1 = file[u] /\ file'[u] > 1
    BY <2>1, <2>2, Listed
  <2> QED
    BY <2>2, <2>3, <2>4
<1>4. ASSUME NEW u \in Detachers, SkipLine(u) PROVE PortLines'
  BY <1>4 DEF SkipLine
<1>5. ASSUME NEW u \in Detachers, DetachLine(u) PROVE PortLines'
  BY <1>5 DEF DetachLine
<1>6. CASE UNCHANGED <<file, lines>>
  BY <1>6
<1> QED
  BY <1>1, <1>2, <1>3, <1>4, <1>5, <1>6
    DEF PortStep, AttachBegin, AttachRuns, LoadVhci, ScanFails, WriteAttach, DetachRuns,
      LinesEnd, DetachReturns, VhciDriver, Enumerated, ConnLost, Freed, registers, others

LEMMA PlacesKept == PortStates /\ PortLines /\ Places /\ PortStep => Places'
<1> SUFFICES ASSUME PortStates, PortLines, Places, PortStep PROVE Places'
  OBVIOUS
<1> USE DEF PortStates, Places, Importers, Go, Is
<1>1. ASSUME NEW a \in Attachers, AttachBegin(a) PROVE Places'
  BY <1>1, ImportersAssumption DEF AttachBegin
<1>2. ASSUME NEW a \in Attachers, LoadVhci(a) PROVE Places'
  BY <1>2, ImportersAssumption DEF LoadVhci, registers
<1>3. ASSUME NEW a \in Attachers, ScanFile(a) PROVE Places'
  <2>1. ipc[a] = "scan" /\ UNCHANGED lines
    BY <1>3, Scanned
  <2>2. CASE UNCHANGED <<ipc, port>> /\ file' = [file EXCEPT ![a] = file[a] + 1]
    BY <2>1, <2>2 DEF PortLines
  <2>3. ASSUME NEW p \in Ports, Go(a, "attach"), UNCHANGED file, port' = [port EXCEPT ![a] = p]
        PROVE  Places'
    <3>1. p # NoPort
      BY Listed
    <3> QED
      BY <2>1, <2>3, <3>1, ImportersAssumption
  <2>4. \/ \E p \in Ports :
              Go(a, "attach") /\ UNCHANGED file /\ port' = [port EXCEPT ![a] = p]
        \/ UNCHANGED <<ipc, port>> /\ file' = [file EXCEPT ![a] = file[a] + 1]
    BY <1>3, Scanned
  <2> QED
    BY <2>2, <2>3, <2>4
<1>4. ASSUME NEW a \in Attachers, ScanFails(a) PROVE Places'
  BY <1>4, ImportersAssumption DEF ScanFails, registers
<1>5. ASSUME NEW a \in Attachers, WriteAttach(a) PROVE Places'
  <2>1. UNCHANGED registers /\ (Go(a, "attached") \/ Go(a, "busy"))
    BY <1>5 DEF WriteAttach
  <2> QED
    BY <2>1, ImportersAssumption DEF registers
<1>6. ASSUME NEW u \in Detachers, DetachBegin(u) PROVE Places'
  BY <1>6, ImportersAssumption DEF DetachBegin, PortLines
<1>7. ASSUME NEW u \in Detachers, ReadStatusFile(u) PROVE Places'
  BY <1>7, ImportersAssumption DEF ReadStatusFile, PortLines
<1>8. ASSUME NEW u \in Detachers, SkipLine(u) PROVE Places'
  BY <1>8 DEF SkipLine, NextLine
<1>9. ASSUME NEW u \in Detachers, DetachLine(u) PROVE Places'
  <2>1. ipc[u] = "lines" /\ UNCHANGED file /\ (UNCHANGED ipc \/ Go(u, "failed"))
    BY <1>9 DEF DetachLine, NextLine
  <2>2. \A v \in Detachers \ {u} : lines'[v] = lines[v]
    BY <1>9 DEF DetachLine, PortLines
  <2>3. \A a \in Attachers : port'[a] = port[a]
    BY <1>9, ImportersAssumption DEF DetachLine
  <2> QED
    BY <2>1, <2>2, <2>3, ImportersAssumption
<1>10. ASSUME NEW u \in Detachers, LinesEnd(u) PROVE Places'
  BY <1>10, ImportersAssumption DEF LinesEnd, registers
<1>11. ASSUME NEW u \in Detachers, DetachReturns(u) PROVE Places'
  BY <1>11, ImportersAssumption DEF DetachReturns, registers
<1>12. ASSUME VhciDriver PROVE Places'
  BY <1>12 DEF VhciDriver, Enumerated, ConnLost, Freed, others, registers
<1> QED
  BY <1>1, <1>2, <1>3, <1>4, <1>5, <1>6, <1>7, <1>8, <1>9, <1>10, <1>11, <1>12
    DEF PortStep, AttachRuns, DetachRuns

PortsTyped == PortFlags /\ PortStates /\ PortLines /\ Places

\* The type invariant of the ports holds whatever the other commands do.
LEMMA PortsStayTyped ==
  /\ CommandsInit => PortsTyped
  /\ PortsTyped /\ [CommandsNext]_vars => PortsTyped'
<1>1. CommandsInit => PortsTyped
  BY InitTyped DEF CommandsInit, PortsTyped
<1>2. ASSUME PortsTyped, UNCHANGED portVars PROVE PortsTyped'
  BY <1>2 DEF PortsTyped, PortFlags, PortStates, PortLines, Places, portVars, kernel, registers, history
<1>3. ASSUME PortsTyped, PortStep PROVE PortsTyped'
  BY <1>3, FlagsKept, StatesKept, LinesKept, PlacesKept DEF PortsTyped
<1> QED
  BY <1>1, <1>2, <1>3, Stepping
-----------------------------------------------------------------------------
(* What attach and detach rely on while they read *)

\* There are no ports in use before vhci-hcd is loaded.
LoadedFirst ==
  /\ ~loaded => \A p \in Ports : status[p] = "null"
  /\ \A a \in Attachers : ipc[a] \in {"scan", "attach"} => loaded

\* Port p is in status file k or a later one.
ListedFrom(k, p) ==
  \E j \in k..Len(Files) : \E i \in DOMAIN Files[j] : Files[j][i] = p

\* A port that was free when it was last looked at is free or has been taken
\* since, and the files that have been read held no other of the right hub.
AttachRaced(a) ==
  /\ ipc[a] = "attach" => status[port[a]] = "null" \/ port[a] \in gone[a]
  /\ ipc[a] = "busy" => port[a] \in gone[a]
  /\ ipc[a] \in {"probe", "scan"} => \A p \in began[a] : status[p] = "null" \/ p \in gone[a]
  /\ ipc[a] = "scan" =>
        \A p \in began[a] : Hub[p] = hub(speed[a]) => p \in gone[a] \/ ListedFrom(file[a], p)
  /\ ipc[a] = "noport" => \A p \in began[a] : Hub[p] = hub(speed[a]) => p \in gone[a]

\* Port p is on a line that u has read and not done yet.
OnLine(u, p) == ipc[u] = "lines" /\ \E i \in lines[u] : Files[file[u] - 1][i] = p

\* A wanted device that was up when detach began is gone, or is up and still
\* ahead; a line that has been read shows a port that was in use.
DetachRaced(u) ==
  /\ began[u] \subseteq want[u]
  /\ ipc[u] \in {"read", "lines"} => \A p \in began[u] :
        p \in gone[u] \/ (Up(p) /\ (ListedFrom(file[u], p) \/ OnLine(u, p)))
  /\ ipc[u] = "lines" => \A i \in lines[u] :
        status[Files[file[u] - 1][i]] # "null" \/ Files[file[u] - 1][i] \in freed[u]
  /\ ipc[u] = "failed" => port[u] \in freed[u]
  /\ ipc[u] \in {"done", "none", "nomatch"} => began[u] \subseteq gone[u]

Raced == (\A a \in Attachers : AttachRaced(a)) /\ (\A u \in Detachers : DetachRaced(u))

LEMMA LoadedKept == LoadedFirst /\ PortStates /\ PortStep => LoadedFirst'
<1> SUFFICES ASSUME LoadedFirst, PortStates, PortStep PROVE LoadedFirst'
  OBVIOUS
<1> USE DEF LoadedFirst, PortStates, Importers, Go, Is
<1>1. ASSUME NEW a \in Attachers, AttachBegin(a) PROVE LoadedFirst'
  BY <1>1 DEF AttachBegin, kernel
<1>2. ASSUME NEW a \in Attachers, LoadVhci(a) PROVE LoadedFirst'
  BY <1>2 DEF LoadVhci
<1>3. ASSUME NEW a \in Attachers, ScanFile(a) PROVE LoadedFirst'
  <2>1. ipc[a] = "scan" /\ UNCHANGED <<loaded, status>> /\ (UNCHANGED ipc \/ Go(a, "attach"))
    BY <1>3 DEF ScanFile, kernel
  <2> QED
    BY <2>1
<1>4. ASSUME NEW a \in Attachers, ScanFails(a) PROVE LoadedFirst'
  BY <1>4 DEF ScanFails, kernel
<1>5. ASSUME NEW a \in Attachers, WriteAttach(a) PROVE LoadedFirst'
  <2>1. ipc[a] = "attach" /\ UNCHANGED loaded /\ (Go(a, "attached") \/ Go(a, "busy"))
    BY <1>5 DEF WriteAttach
  <2> QED
    BY <2>1
<1>6. ASSUME NEW u \in Detachers, DetachBegin(u) PROVE LoadedFirst'
  BY <1>6 DEF DetachBegin, kernel
<1>7. ASSUME NEW u \in Detachers, DetachRuns(u) PROVE LoadedFirst'
  <2>1. UNCHANGED <<loaded, status>> /\ \A x \in Importers \ {u} : ipc'[x] = ipc[x]
    BY <1>7 DEF DetachRuns, ReadStatusFile, SkipLine, DetachLine, LinesEnd, DetachReturns, kernel
  <2>2. \A a \in Attachers : ipc'[a] = ipc[a]
    BY <2>1, ImportersAssumption
  <2> QED
    BY <2>1, <2>2
<1>8. ASSUME VhciDriver PROVE LoadedFirst'
  BY <1>8 DEF VhciDriver, Enumerated, ConnLost, Freed, others
<1> QED
  BY <1>1, <1>2, <1>3, <1>4, <1>5, <1>6, <1>7, <1>8 DEF PortStep, AttachRuns

\* Whatever takes a port tells the attaches, and whatever frees one, or is about
\* to, tells the detaches, and those that are at their lines when it is freed.
LEMMA ChangesNoted ==
  ASSUME PortStates, Places, PortStep, NEW p \in Ports
  PROVE  /\ status[p] = "null" /\ status'[p] # "null" => \A a \in Attachers : p \in gone'[a]
         /\ status[p] # "null" /\ status'[p] = "null" =>
              \A u \in Detachers : p \in gone'[u] /\ (ipc[u] = "lines" => p \in freed'[u])
         /\ Up(p) /\ ~Up(p)' => \A u \in Detachers : p \in gone'[u]
<1> DEFINE Told ==
         /\ status[p] = "null" /\ status'[p] # "null" => \A a \in Attachers : p \in gone'[a]
         /\ status[p] # "null" /\ status'[p] = "null" =>
              \A u \in Detachers : p \in gone'[u] /\ (ipc[u] = "lines" => p \in freed'[u])
         /\ Up(p) /\ ~Up(p)' => \A u \in Detachers : p \in gone'[u]
<1> SUFFICES Told
  OBVIOUS
<1> USE DEF PortStates, Importers, Is, Up, Taken, Leaves, Noted
<1>1. CASE UNCHANGED <<status, down>>
  BY <1>1
<1>2. ASSUME NEW a \in Attachers, WriteAttach(a) PROVE Told
  <2>1. port[a] \in Ports /\ UNCHANGED down
    BY <1>2 DEF WriteAttach, Places, Is
  <2>2. \/ /\ status[port[a]] = "null" /\ status' = [status EXCEPT ![port[a]] = "notassigned"]
           /\ Taken(port[a])
        \/ UNCHANGED status
    BY <1>2 DEF WriteAttach
  <2> QED
    BY <2>1, <2>2
<1>3. ASSUME NEW u \in Detachers, DetachLine(u) PROVE Told
  <2>1. UNCHANGED status
    BY <1>3 DEF DetachLine
  <2>2. UNCHANGED down \/ \E q \in want[u] : down' = down \cup {q} /\ Leaves(q)
    BY <1>3 DEF DetachLine
  <2> QED
    BY <2>1, <2>2
<1>4. ASSUME NEW q \in Ports, Enumerated(q) PROVE Told
  BY <1>4 DEF Enumerated
<1>5. ASSUME NEW q \in Ports, ConnLost(q) PROVE Told
  BY <1>5 DEF ConnLost
<1>6. ASSUME NEW q \in Ports, Freed(q) PROVE Told
  BY <1>6 DEF Freed
<1> QED
  BY <1>1, <1>2, <1>3, <1>4, <1>5, <1>6
    DEF PortStep, AttachBegin, AttachRuns, LoadVhci, ScanFile, ScanFails, DetachBegin, DetachRuns,
      ReadStatusFile, SkipLine, LinesEnd, DetachReturns, VhciDriver, kernel

\* A step that is not x's own leaves x's registers alone and forgets nothing.
Alone(x) ==
  /\ ipc'[x] = ipc[x] /\ file'[x] = file[x] /\ port'[x] = port[x] /\ began'[x] = began[x]
  /\ gone[x] \subseteq gone'[x]
  /\ x \in Attachers => speed'[x] = speed[x]
  /\ x \in Detachers =>
        lines'[x] = lines[x] /\ want'[x] = want[x] /\ freed[x] \subseteq freed'[x]

LEMMA OwnOrAlone ==
  ASSUME PortStates, PortLines, PortStep, NEW x \in Importers
  PROVE  \/ x \in Attachers /\ (AttachBegin(x) \/ AttachRuns(x))
         \/ x \in Detachers /\ (DetachBegin(x) \/ DetachRuns(x))
         \/ Alone(x)
<1> USE DEF PortStates, Importers, Go, history
<1>1. DOMAIN file = Importers /\ DOMAIN lines = Detachers
  BY DEF PortLines
<1>2. ASSUME NEW a \in Attachers \ {x}, AttachBegin(a) PROVE Alone(x)
  BY <1>1, <1>2 DEF AttachBegin, Alone
<1>3. ASSUME NEW a \in Attachers \ {x}, LoadVhci(a) PROVE Alone(x)
  BY <1>1, <1>3 DEF LoadVhci, Alone, registers
<1>4. ASSUME NEW a \in Attachers \ {x}, ScanFile(a) PROVE Alone(x)
  BY <1>1, <1>4, Scanned DEF Alone
<1>5. ASSUME NEW a \in Attachers \ {x}, ScanFails(a) PROVE Alone(x)
  BY <1>1, <1>5 DEF ScanFails, Alone, registers
<1>6. ASSUME NEW a \in Attachers \ {x}, WriteAttach(a) PROVE Alone(x)
  BY <1>1, <1>6 DEF WriteAttach, Alone, registers, Taken, Noted
<1>7. ASSUME NEW u \in Detachers \ {x}, DetachBegin(u) PROVE Alone(x)
  BY <1>1, <1>7 DEF DetachBegin, Alone
<1>8. ASSUME NEW u \in Detachers \ {x}, ReadStatusFile(u) PROVE Alone(x)
  BY <1>1, <1>8 DEF ReadStatusFile, Alone
<1>9. ASSUME NEW u \in Detachers \ {x}, SkipLine(u) PROVE Alone(x)
  BY <1>1, <1>9 DEF SkipLine, Alone
<1>10. ASSUME NEW u \in Detachers \ {x}, DetachLine(u) PROVE Alone(x)
  BY <1>1, <1>10 DEF DetachLine, Alone, Leaves, Noted
<1>11. ASSUME NEW u \in Detachers \ {x}, LinesEnd(u) \/ DetachReturns(u) PROVE Alone(x)
  BY <1>1, <1>11 DEF LinesEnd, DetachReturns, Alone, registers
<1>12. ASSUME VhciDriver PROVE Alone(x)
  BY <1>1, <1>12 DEF VhciDriver, Enumerated, ConnLost, Freed, Leaves, Noted, others, registers, Alone
<1> QED
  BY <1>2, <1>3, <1>4, <1>5, <1>6, <1>7, <1>8, <1>9, <1>10, <1>11, <1>12
    DEF PortStep, AttachRuns, DetachRuns
LEMMA AttachKept ==
  ASSUME PortsTyped, LoadedFirst, PortStep, NEW a \in Attachers, AttachRaced(a)
  PROVE  AttachRaced(a)'
<1> USE DEF PortStates, Importers, Go, Is, history
<1>1. PortStates /\ PortLines /\ Places
  BY DEF PortsTyped
<1>2. CASE AttachBegin(a)
  BY <1>1, <1>2 DEF AttachBegin, AttachRaced, FreePorts, kernel
<1>3. CASE LoadVhci(a)
  <2>1. ipc[a] = "probe" /\ (ipc'[a] = "scan" \/ ipc'[a] = "failed")
    BY <1>1, <1>3 DEF LoadVhci
  <2>2. UNCHANGED <<status, began, gone, file>> /\ file[a] = 1
    BY <1>1, <1>3 DEF LoadVhci, registers, Places
  <2>3. \A p \in began[a] : ListedFrom(file[a], p)
    BY <1>1, <2>2, Listed DEF ListedFrom
  <2>4. \A p \in began[a] : ListedFrom(file[a], p)'
    BY <2>2, <2>3 DEF ListedFrom
  <2> QED
    BY <2>1, <2>2, <2>4 DEF AttachRaced
<1>4. CASE ScanFile(a)
  <2>1. ipc[a] = "scan" /\ file[a] \in 1..Len(Files) /\ UNCHANGED <<status, speed>>
    BY <1>1, <1>4, Scanned DEF kernel
  <2>2. ASSUME NEW p \in Ports, Suitable(p, speed[a]), Go(a, "attach"), port' = [port EXCEPT ![a] = p]
        PROVE  AttachRaced(a)'
    <3>1. ipc'[a] = "attach" /\ port'[a] = p /\ status'[p] = "null"
      BY <1>1, <2>1, <2>2 DEF Suitable
    <3> QED
      BY <3>1 DEF AttachRaced
  <2>3. ASSUME \A i \in DOMAIN Files[file[a]] : ~Suitable(Files[file[a]][i], speed[a]),
               file' = [file EXCEPT ![a] = file[a] + 1], UNCHANGED <<ipc, port, began, gone>>
        PROVE  AttachRaced(a)'
    <3>1. ASSUME NEW p \in began[a], Hub[p] = hub(speed[a]), p \notin gone[a]
          PROVE  ListedFrom(file[a], p)'
      <4>1. ~ \E i \in DOMAIN Files[file[a]] : Files[file[a]][i] = p
        BY <2>1, <2>3, <3>1 DEF AttachRaced, Suitable
      <4>2. PICK k \in file[a]..Len(Files) : \E i \in DOMAIN Files[k] : Files[k][i] = p
        BY <2>1, <3>1 DEF AttachRaced, ListedFrom
      <4>3. file'[a] = file[a] + 1
        BY <1>1, <2>3 DEF PortLines
      <4>4. k \in file'[a]..Len(Files)
        BY <2>1, <4>1, <4>2, <4>3, Listed
      <4> QED
        BY <4>2, <4>4 DEF ListedFrom
    <3> QED
      BY <2>1, <2>3, <3>1 DEF AttachRaced
  <2>4. \/ \E p \in Ports :
              Suitable(p, speed[a]) /\ Go(a, "attach") /\ port' = [port EXCEPT ![a] = p]
        \/ /\ \A i \in DOMAIN Files[file[a]] : ~Suitable(Files[file[a]][i], speed[a])
           /\ file' = [file EXCEPT ![a] = file[a] + 1]
           /\ UNCHANGED <<ipc, port, began, gone>>
    BY <1>1, <1>4, Scanned
  <2> QED
    BY <2>2, <2>3, <2>4
<1>5. CASE ScanFails(a)
  <2>1. ipc[a] = "scan" /\ file[a] > Len(Files) /\ ipc'[a] = "noport"
        /\ UNCHANGED <<began, gone, speed>>
    BY <1>1, <1>5 DEF ScanFails, registers
  <2>2. file[a] \in Nat /\ Len(Files) \in Nat
    BY <1>1, Listed DEF PortLines
  <2>3. \A p : ~ListedFrom(file[a], p)
    BY <2>1, <2>2 DEF ListedFrom
  <2> QED
    BY <2>1, <2>3 DEF AttachRaced
<1>6. CASE WriteAttach(a)
  <2>1. ipc[a] = "attach" /\ UNCHANGED <<port, began>>
    BY <1>6 DEF WriteAttach, registers
  <2>2. \/ ipc'[a] = "attached"
        \/ status[port[a]] # "null" /\ ipc'[a] = "busy" /\ UNCHANGED gone
    BY <1>1, <1>6 DEF WriteAttach
  <2> QED
    BY <2>1, <2>2 DEF AttachRaced
<1>7. CASE Alone(a)
  <2>1. \A p \in Ports : status[p] = "null" \/ p \in gone[a] => status'[p] = "null" \/ p \in gone'[a]
    BY <1>1, <1>7, ChangesNoted DEF Alone
  <2>2. \A p : ListedFrom(file[a], p) => ListedFrom(file[a], p)'
    BY <1>7 DEF Alone, ListedFrom
  <2>3. began[a] \subseteq Ports /\ (ipc[a] = "attach" => port[a] \in Ports)
    BY <1>1 DEF Places
  <2> QED
    BY <1>7, <2>1, <2>2, <2>3 DEF Alone, AttachRaced
<1> QED
  BY <1>1, <1>2, <1>3, <1>4, <1>5, <1>6, <1>7, OwnOrAlone, ImportersAssumption DEF AttachRuns

LEMMA DetachKept ==
  ASSUME PortsTyped, LoadedFirst, PortStep, NEW u \in Detachers, DetachRaced(u)
  PROVE  DetachRaced(u)'
<1> USE DEF PortStates, Importers, Go, Is, history
<1>1. PortStates /\ PortLines /\ Places
  BY DEF PortsTyped
<1>2. CASE DetachBegin(u)
  <2>1. /\ ipc'[u] = "read" /\ gone'[u] = {} /\ UNCHANGED <<status, down>>
        /\ began'[u] \subseteq want'[u] /\ \A p \in began'[u] : status[p] = "used" /\ p \notin down
    BY <1>1, <1>2 DEF DetachBegin, UsedPorts, kernel
  <2>2. ASSUME NEW p \in began'[u] PROVE ListedFrom(file[u], p)'
    <3>1. p \in Ports /\ status[p] = "used"
      BY <1>1, <1>2 DEF DetachBegin, UsedPorts
    <3>2. loaded
      BY <3>1 DEF LoadedFirst
    <3>3. file' = [file EXCEPT ![u] = 1]
      BY <1>2, <3>2 DEF DetachBegin
    <3>4. file'[u] = 1
      BY <1>1, <3>3 DEF PortLines
    <3> QED
      BY <3>1, <3>4, Listed DEF ListedFrom
  <2> QED
    BY <2>1, <2>2 DEF DetachRaced, Up
<1>3. CASE ReadStatusFile(u)
  <2>1. /\ ipc[u] = "read" /\ ipc'[u] = "lines" /\ file[u] \in 1..Len(Files)
        /\ UNCHANGED <<status, down, began, gone, want>>
    BY <1>1, <1>3, Listed DEF ReadStatusFile, kernel, PortLines
  <2>2. file'[u] = file[u] + 1 /\ file'[u] - 1 = file[u]
    BY <1>1, <1>3, <2>1 DEF ReadStatusFile, PortLines
  <2>3. lines'[u] = {i \in DOMAIN Files[file[u]] : status[Files[file[u]][i]] = "used"}
    BY <1>1, <1>3 DEF ReadStatusFile, PortLines
  <2>4. ASSUME NEW p \in began[u], p \notin gone[u]
        PROVE  Up(p) /\ (ListedFrom(file[u], p)' \/ OnLine(u, p)')
    <3>1. Up(p) /\ ListedFrom(file[u], p)
      BY <2>1, <2>4 DEF DetachRaced, OnLine
    <3>2. PICK k \in file[u]..Len(Files) : \E i \in DOMAIN Files[k] : Files[k][i] = p
      BY <3>1 DEF ListedFrom
    <3>3. CASE k = file[u]
      BY <2>1, <2>2, <2>3, <3>1, <3>2, <3>3 DEF OnLine, Up
    <3>4. CASE k # file[u]
      <4>1. k \in file'[u]..Len(Files)
        BY <2>1, <2>2, <3>2, <3>4, Listed
      <4> QED
        BY <3>1, <3>2, <4>1 DEF ListedFrom
    <3> QED
      BY <3>3, <3>4
  <2>5. \A i \in lines'[u] : status[Files[file'[u] - 1][i]] # "null"
    BY <2>2, <2>3
  <2> QED
    BY <2>1, <2>4, <2>5 DEF DetachRaced, Up
<1>4. CASE SkipLine(u)
  <2>1. /\ ipc[u] = "lines" /\ ipc'[u] = "lines" /\ UNCHANGED <<status, down, began, gone, freed, want, file>>
    BY <1>4 DEF SkipLine, NextLine, kernel
  <2>2. PICK i \in lines[u] : Files[file[u] - 1][i] \notin want[u] /\ lines'[u] = lines[u] \ {i}
    BY <1>1, <1>4 DEF SkipLine, NextLine, PortLines
  <2>3. \A p \in began[u] : OnLine(u, p) => OnLine(u, p)'
    BY <2>1, <2>2 DEF OnLine, DetachRaced
  <2>4. \A p : ListedFrom(file[u], p) => ListedFrom(file[u], p)'
    BY <2>1 DEF ListedFrom
  <2> QED
    BY <2>1, <2>2, <2>3, <2>4 DEF DetachRaced, Up
<1>5. CASE DetachLine(u)
  <2>1. PICK i \in lines[u], p \in want[u] :
           /\ NextLine(u, i, p)
           /\ \/ /\ status[p] # "null" /\ down' = down \cup {p} /\ Leaves(p)
                 /\ lines' = [lines EXCEPT ![u] = @ \ {i}] /\ UNCHANGED <<ipc, port>>
              \/ /\ status[p] = "null" /\ Go(u, "failed") /\ port' = [port EXCEPT ![u] = p]
                 /\ UNCHANGED <<down, gone, lines>>
    BY <1>5 DEF DetachLine
  <2>2. ipc[u] = "lines" /\ p = Files[file[u] - 1][i] /\ UNCHANGED <<status, file, want, began>>
    BY <1>5, <2>1 DEF DetachLine, NextLine
  <2>3. ASSUME status[p] # "null", down' = down \cup {p}, Leaves(p),
               lines' = [lines EXCEPT ![u] = @ \ {i}], UNCHANGED <<ipc, port>>
        PROVE  DetachRaced(u)'
    <3>1. gone'[u] = gone[u] \cup {p} /\ lines'[u] = lines[u] \ {i} /\ UNCHANGED freed
      BY <1>1, <1>5, <2>3 DEF DetachLine, Leaves, Noted, PortLines
    <3>2. \A q : q # p /\ OnLine(u, q) => OnLine(u, q)'
      BY <2>2, <2>3, <3>1 DEF OnLine
    <3>3. \A q : ListedFrom(file[u], q) => ListedFrom(file[u], q)'
      BY <2>2 DEF ListedFrom
    <3>4. \A q \in Ports : q # p /\ Up(q) => Up(q)'
      BY <2>2, <2>3 DEF Up
    <3> QED
      BY <1>1, <2>2, <2>3, <3>1, <3>2, <3>3, <3>4 DEF DetachRaced
  <2>4. ASSUME status[p] = "null", Go(u, "failed"), port' = [port EXCEPT ![u] = p], UNCHANGED gone
        PROVE  DetachRaced(u)'
    <3>1. p \in freed[u] /\ UNCHANGED freed
      BY <1>5, <2>1, <2>2, <2>4 DEF DetachLine, DetachRaced
    <3>2. ipc'[u] = "failed" /\ port'[u] = p
      BY <1>1, <2>4
    <3> QED
      BY <2>2, <2>4, <3>1, <3>2 DEF DetachRaced
  <2> QED
    BY <2>1, <2>3, <2>4
<1>6. CASE LinesEnd(u)
  <2>1. /\ ipc[u] = "lines" /\ lines[u] = {} /\ ipc'[u] = "read"
        /\ UNCHANGED <<status, down, began, gone, freed, want, file>>
    BY <1>1, <1>6 DEF LinesEnd, kernel, registers
  <2>2. \A p : ListedFrom(file[u], p) => ListedFrom(file[u], p)'
    BY <2>1 DEF ListedFrom
  <2> QED
    BY <2>1, <2>2 DEF DetachRaced, OnLine, Up
<1>7. CASE DetachReturns(u)
  <2>1. /\ ipc[u] = "read" /\ file[u] > Len(Files) /\ ipc'[u] \in {"none", "nomatch", "done"}
        /\ UNCHANGED <<began, gone, freed, want>>
    BY <1>1, <1>7 DEF DetachReturns, registers
  <2>2. \A p : ~ListedFrom(file[u], p)
    BY <1>1, <2>1, Listed DEF ListedFrom, PortLines
  <2> QED
    BY <2>1, <2>2 DEF DetachRaced, OnLine
<1>8. CASE Alone(u)
  <2>1. /\ ipc'[u] = ipc[u] /\ file'[u] = file[u] /\ port'[u] = port[u] /\ began'[u] = began[u]
        /\ gone[u] \subseteq gone'[u] /\ freed[u] \subseteq freed'[u]
        /\ lines'[u] = lines[u] /\ want'[u] = want[u]
    BY <1>8 DEF Alone
  <2>2. \A p \in Ports : Up(p) => Up(p)' \/ p \in gone'[u]
    BY <1>1, ChangesNoted
  <2>3. \A p : (ListedFrom(file[u], p) => ListedFrom(file[u], p)') /\ (OnLine(u, p) => OnLine(u, p)')
    BY <2>1 DEF ListedFrom, OnLine
  <2>4. \A i \in lines[u] : Files[file[u] - 1][i] \in Ports
    <3>1. file[u] \in 1..Len(Files) + 1 /\ Len(Files) \in Nat
      BY <1>1, Listed DEF PortLines
    <3>2. ASSUME NEW i \in lines[u] PROVE file[u] - 1 \in 1..Len(Files) /\ i \in DOMAIN Files[file[u] - 1]
      BY <1>1, <3>1 DEF PortLines
    <3> QED
      BY <3>2, Listed
  <2>5. ipc[u] = "lines" => \A i \in lines[u] :
           status[Files[file[u] - 1][i]] # "null" \/ Files[file[u] - 1][i] \in freed[u]
           => status'[Files[file[u] - 1][i]] # "null" \/ Files[file[u] - 1][i] \in freed'[u]
    BY <1>1, <2>1, <2>4, ChangesNoted
  <2> QED
    BY <1>1, <2>1, <2>2, <2>3, <2>5 DEF DetachRaced
<1> QED
  BY <1>1, <1>2, <1>3, <1>4, <1>5, <1>6, <1>7, <1>8, OwnOrAlone, ImportersAssumption DEF DetachRuns

PortsInv == PortsTyped /\ LoadedFirst /\ Raced

LEMMA PortsSafe == Spec => []PortsInv
<1>1. CommandsInit => PortsInv
  <2>1. CommandsInit => PortInit /\ PortsTyped
    BY PortsStayTyped DEF CommandsInit
  <2> QED
    BY <2>1 DEF PortInit, PortsInv, LoadedFirst, Raced, AttachRaced, DetachRaced, Importers
<1>2. ASSUME PortsInv, UNCHANGED portVars, PortsTyped' PROVE PortsInv'
  <2>1. LoadedFirst'
    BY <1>2 DEF PortsInv, LoadedFirst, portVars, kernel
  <2>2. \A a \in Attachers : AttachRaced(a)'
    BY <1>2 DEF PortsInv, Raced, AttachRaced, ListedFrom, portVars, kernel, registers, history
  <2>3. \A u \in Detachers : DetachRaced(u)'
    BY <1>2 DEF PortsInv, Raced, DetachRaced, ListedFrom, OnLine, Up, portVars, kernel, registers, history
  <2> QED
    BY <1>2, <2>1, <2>2, <2>3 DEF PortsInv, Raced
<1>3. ASSUME PortsInv, PortStep, PortsTyped' PROVE PortsInv'
  <2>1. LoadedFirst'
    BY <1>3, LoadedKept DEF PortsInv, PortsTyped
  <2>2. \A a \in Attachers : AttachRaced(a)'
    BY <1>3, AttachKept DEF PortsInv, Raced
  <2>3. \A u \in Detachers : DetachRaced(u)'
    BY <1>3, DetachKept DEF PortsInv, Raced
  <2> QED
    BY <1>3, <2>1, <2>2, <2>3 DEF PortsInv, Raced
<1>4. PortsInv /\ [CommandsNext]_vars => PortsInv'
  BY <1>2, <1>3, Stepping, PortsStayTyped DEF PortsInv
<1> QED
  BY <1>1, <1>4, PTL DEF Spec

\* importerAttach reports a failure only when it was beaten to the port, or to
\* every port of the hub (usbip.go:67-101), for any number of status files,
\* ports, attaches and detaches.
THEOREM AttachFailsOnlyBeaten == Spec => []AttachFailsBeaten
<1>1. PortsInv => AttachFailsBeaten
  BY DEF PortsInv, Raced, AttachRaced, AttachFailsBeaten, Is
<1> QED
  BY <1>1, PortsSafe, PTL

\* importerDetach that ends without an error has reached every wanted device
\* that was up when it began (usbip.go:132-138).
THEOREM DetachReachesAll == Spec => []DetachReaches
<1>1. PortsInv => DetachReaches
  BY DEF PortsInv, Raced, DetachRaced, DetachReaches
<1> QED
  BY <1>1, PortsSafe, PTL

\* importerDetach fails only on a port that the driver freed after the status
\* file that listed it in use was read (usbip.go:111-128), for any number of
\* status files, ports, attaches and detaches.
THEOREM DetachFailsOnlyStale == Spec => []DetachFailsStale
<1>1. PortsInv => DetachFailsStale
  BY DEF PortsInv, Raced, DetachRaced, DetachFailsStale, Is
<1> QED
  BY <1>1, PortsSafe, PTL

-----------------------------------------------------------------------------
(* Go's order of strings, and sorting by it *)

LEMMA LeastNat ==
  ASSUME NEW T \in SUBSET Nat, T # {}
  PROVE  \E m \in T : \A k \in T : m <= k
<1> DEFINE Lower == {ss \in Nat \X Nat : ss[1] < ss[2]}
<1>1. IsWellFoundedOn(Lower, Nat)
  BY NatLessThanWellFounded DEF OpToRel
<1>2. \E m \in T : \A k \in T : <<k, m>> \notin Lower
  BY <1>1, WFMin
<1>3. ASSUME NEW k \in T, NEW m \in T, k < m PROVE <<k, m>> \in Lower
  BY <1>3
<1>4. PICK m \in T : \A k \in T : <<k, m>> \notin Lower
  BY <1>2
<1>5. \A k \in T : ~(k < m)
  BY <1>3, <1>4
<1> QED
  BY <1>5

LEMMA StrictPrefixIs ==
  ASSUME NEW s \in Seq(Nat), NEW t \in Seq(Nat)
  PROVE  IsStrictPrefix(s, t) <=> Len(s) < Len(t) /\ \A j \in 1..Len(s) : s[j] = t[j]
<1>1. ASSUME IsStrictPrefix(s, t) PROVE Len(s) < Len(t) /\ \A j \in 1..Len(s) : s[j] = t[j]
  <2>1. Len(s) <= Len(t) /\ SubSeq(s, 1, Len(s)) = SubSeq(t, 1, Len(s)) /\ s # t
    BY <1>1 DEF IsStrictPrefix, IsPrefix
  <2>2. \A j \in 1..Len(s) : SubSeq(s, 1, Len(s))[j] = s[j] /\ SubSeq(t, 1, Len(s))[j] = t[j]
    BY <2>1
  <2>3. \A j \in 1..Len(s) : s[j] = t[j]
    BY <2>1, <2>2
  <2>4. Len(s) # Len(t)
    BY <2>1, <2>3
  <2> QED
    BY <2>1, <2>3, <2>4
<1>2. ASSUME Len(s) < Len(t), \A j \in 1..Len(s) : s[j] = t[j] PROVE IsStrictPrefix(s, t)
  <2>1. SubSeq(s, 1, Len(s)) = SubSeq(t, 1, Len(s))
    BY <1>2
  <2> QED
    BY <1>2, <2>1 DEF IsStrictPrefix, IsPrefix
<1> QED
  BY <1>1, <1>2

\* Go's order of strings, said of the numbers of their bytes.
LEMMA LessIs ==
  ASSUME NEW s \in Seq(Nat), NEW t \in Seq(Nat)
  PROVE  Less(s, t) <=>
           \/ \E i \in DOMAIN s \cap DOMAIN t : s[i] < t[i] /\ \A j \in 1..(i - 1) : s[j] = t[j]
           \/ Len(s) < Len(t) /\ \A j \in 1..Len(s) : s[j] = t[j]
BY StrictPrefixIs DEF Less

LEMMA LessIrreflexive == \A s \in Seq(Nat) : ~Less(s, s)
BY LessIs

LEMMA LessTransitive ==
  ASSUME NEW s \in Seq(Nat), NEW t \in Seq(Nat), NEW u \in Seq(Nat), Less(s, t), Less(t, u)
  PROVE  Less(s, u)
<1> DEFINE Differ(x, y, i) ==
             i \in DOMAIN x \cap DOMAIN y /\ x[i] < y[i] /\ \A j \in 1..(i - 1) : x[j] = y[j]
<1> DEFINE Shorter(x, y) == Len(x) < Len(y) /\ \A j \in 1..Len(x) : x[j] = y[j]
<1>1. ASSUME NEW x \in Seq(Nat), NEW y \in Seq(Nat)
      PROVE  Less(x, y) <=> (\E i : Differ(x, y, i)) \/ Shorter(x, y)
  <2>1. (\E i : Differ(x, y, i)) <=>
           \E i \in DOMAIN x \cap DOMAIN y : x[i] < y[i] /\ \A j \in 1..(i - 1) : x[j] = y[j]
    BY Zenon
  <2> QED
    BY <2>1, LessIs, Zenon
<1>2. \A x \in Seq(Nat) : DOMAIN x = 1..Len(x) /\ Len(x) \in Nat /\ \A i \in DOMAIN x : x[i] \in Nat
  OBVIOUS
<1>3. /\ DOMAIN s = 1..Len(s) /\ DOMAIN t = 1..Len(t) /\ DOMAIN u = 1..Len(u)
      /\ Len(s) \in Nat /\ Len(t) \in Nat /\ Len(u) \in Nat
  BY <1>2, Zenon
<1>4. \A i : /\ i \in DOMAIN s => s[i] \in Nat
             /\ i \in DOMAIN t => t[i] \in Nat
             /\ i \in DOMAIN u => u[i] \in Nat
  BY <1>2, Zenon
<1>6. \A l \in Nat : \A k \in 1..l : \A i \in 1..(k - 1) : i \in 1..l
  BY SMT
<1>8. CASE (\E i : Differ(s, t, i)) /\ (\E i : Differ(t, u, i))
  <2>1. PICK i, k : Differ(s, t, i) /\ Differ(t, u, k)
    BY <1>8
  <2>2. i \in 1..Len(s) /\ i \in 1..Len(t) /\ k \in 1..Len(t) /\ k \in 1..Len(u)
    BY <1>3, <2>1, Zenon
  <2>3. i \in Nat /\ k \in Nat /\ (i < k \/ i = k \/ k < i)
    BY <2>2, SMT
  <2>4. CASE i < k
    <3>1. i \in 1..(k - 1) /\ \A j \in 1..(i - 1) : j \in 1..(k - 1)
      BY <2>2, <2>3, <2>4, SMT
    <3>2. i \in DOMAIN u /\ s[i] < u[i] /\ \A j \in 1..(i - 1) : s[j] = u[j]
      BY <1>3, <1>6, <2>1, <2>2, <3>1, Zenon
    <3> QED
      BY <1>1, <2>1, <3>2, Zenon
  <2>5. CASE i = k
    <3>1. s[i] < t[i] /\ t[i] < u[i] /\ s[i] \in Nat /\ t[i] \in Nat /\ u[i] \in Nat
      BY <1>4, <2>1, <2>5, Zenon
    <3>2. s[i] < u[i]
      BY <3>1, SMT
    <3> QED
      BY <1>1, <2>1, <2>5, <3>2, Zenon
  <2>6. CASE k < i
    <3>1. k \in 1..(i - 1) /\ \A j \in 1..(k - 1) : j \in 1..(i - 1)
      BY <2>2, <2>3, <2>6, SMT
    <3>2. k \in DOMAIN s /\ s[k] < u[k] /\ \A j \in 1..(k - 1) : s[j] = u[j]
      BY <1>3, <1>6, <2>1, <2>2, <3>1, Zenon
    <3> QED
      BY <1>1, <2>1, <3>2, Zenon
  <2> QED
    BY <2>3, <2>4, <2>5, <2>6
<1>9. CASE (\E i : Differ(s, t, i)) /\ Shorter(t, u)
  <2>1. PICK i : Differ(s, t, i)
    BY <1>9
  <2>2. i \in 1..Len(t) /\ i \in 1..Len(u) /\ \A j \in 1..(i - 1) : j \in 1..Len(t)
    <3>1. i \in 1..Len(t) /\ Len(t) < Len(u)
      BY <1>3, <1>9, <2>1, Zenon
    <3> QED
      BY <1>3, <3>1, SMT
  <2>3. t[i] = u[i] /\ \A j \in 1..(i - 1) : t[j] = u[j]
    BY <1>9, <2>2, Zenon
  <2>4. i \in DOMAIN s /\ i \in DOMAIN u /\ s[i] < u[i] /\ \A j \in 1..(i - 1) : s[j] = u[j]
    BY <1>3, <2>1, <2>2, <2>3, Zenon
  <2> QED
    BY <1>1, <2>4, Zenon
<1>10. CASE Shorter(s, t) /\ (\E i : Differ(t, u, i))
  <2>1. PICK i : Differ(t, u, i)
    BY <1>10
  <2>2. i \in 1..Len(t) /\ i \in 1..Len(u) /\ i \in Nat /\ (i <= Len(s) \/ Len(s) < i)
    <3>1. i \in 1..Len(t) /\ i \in 1..Len(u)
      BY <1>3, <2>1, Zenon
    <3> QED
      BY <1>3, <3>1, SMT
  <2>3. CASE i <= Len(s)
    <3>1. i \in 1..Len(s) /\ \A j \in 1..(i - 1) : j \in 1..Len(s)
      BY <1>3, <2>2, <2>3, SMT
    <3>2. s[i] = t[i] /\ \A j \in 1..(i - 1) : s[j] = t[j]
      BY <1>10, <3>1, Zenon
    <3>3. i \in DOMAIN s /\ s[i] < u[i] /\ \A j \in 1..(i - 1) : s[j] = u[j]
      BY <1>3, <2>1, <3>1, <3>2, Zenon
    <3> QED
      BY <1>1, <2>1, <3>3, Zenon
  <2>4. CASE Len(s) < i
    <3>1. Len(s) < Len(u) /\ \A j \in 1..Len(s) : j \in 1..(i - 1)
      BY <1>3, <2>2, <2>4, SMT
    <3>2. \A j \in 1..Len(s) : s[j] = u[j]
      BY <1>10, <2>1, <3>1, Zenon
    <3> QED
      BY <1>1, <3>1, <3>2, Zenon
  <2> QED
    BY <2>2, <2>3, <2>4
<1>11. CASE Shorter(s, t) /\ Shorter(t, u)
  <2>1. Len(s) < Len(u) /\ \A j \in 1..Len(s) : j \in 1..Len(t)
    BY <1>3, <1>11, SMT
  <2>2. \A j \in 1..Len(s) : s[j] = u[j]
    BY <1>11, <2>1, Zenon
  <2> QED
    BY <1>1, <2>1, <2>2, Zenon
<1> QED
  BY <1>1, <1>8, <1>9, <1>10, <1>11

LEMMA LessTotal ==
  ASSUME NEW s \in Seq(Nat), NEW t \in Seq(Nat), s # t
  PROVE  Less(s, t) \/ Less(t, s)
<1> DEFINE T == {i \in DOMAIN s \cap DOMAIN t : s[i] # t[i]}
<1>1. CASE T = {}
  <2>1. Len(s) # Len(t)
    BY <1>1
  <2>2. CASE Len(s) < Len(t)
    BY <1>1, <2>2, LessIs
  <2>3. CASE Len(t) < Len(s)
    BY <1>1, <2>3, LessIs
  <2> QED
    BY <2>1, <2>2, <2>3
<1>2. CASE T # {}
  <2>1. T \subseteq Nat
    OBVIOUS
  <2>2. PICK m \in T : \A k \in T : m <= k
    BY <1>2, <2>1, LeastNat
  <2>3. \A j \in 1..(m - 1) : s[j] = t[j]
    BY <2>2
  <2>4. m \in DOMAIN s \cap DOMAIN t /\ (s[m] < t[m] \/ t[m] < s[m])
    BY <2>2
  <2> QED
    BY <2>3, <2>4, LessIs
<1> QED
  BY <1>1, <1>2
\* What sorting by distinct keys gives: each member of S once, in the order of
\* the keys.
LEMMA Sorting ==
  ASSUME NEW S, IsFiniteSet(S), NEW key, \A b \in S : key[b] \in Seq(Nat),
         \A b, c \in S : key[b] = key[c] => b = c
  PROVE  /\ Sorted(S, key) \in Seq(S) /\ ToSet(Sorted(S, key)) = S
         /\ \A i, j \in DOMAIN Sorted(S, key) :
               i < j => Less(key[Sorted(S, key)[i]], key[Sorted(S, key)[j]])
<1> DEFINE Upto(b) == {c \in S : ~Less(key[b], key[c])}
<1> DEFINE N == Cardinality(S)
<1> DEFINE rank == [b \in S |-> Cardinality(Upto(b))]
<1> DEFINE sorted == Sorted(S, key)
<1>1. N \in Nat /\ IsFiniteSet(1..N) /\ Cardinality(1..N) = N
  <2>1. N \in Nat
    BY FS_CardinalityType
  <2>2. IsFiniteSet(1..N) /\ Cardinality(1..N) = IF 1 > N THEN 0 ELSE N - 1 + 1
    BY <2>1, FS_Interval
  <2> QED
    BY <2>1, <2>2
<1>2. ASSUME NEW b \in S, NEW c \in S, Less(key[b], key[c])
      PROVE  Upto(b) \subseteq Upto(c) /\ c \in Upto(c) \ Upto(b)
  <2>1. ASSUME NEW d \in Upto(b) PROVE d \in Upto(c)
    <3>1. d \in S /\ ~Less(key[b], key[d])
      OBVIOUS
    <3>2. ~Less(key[c], key[d])
      BY <1>2, <3>1, LessTransitive
    <3> QED
      BY <3>1, <3>2
  <2>2. c \in Upto(c)
    BY LessIrreflexive
  <2> QED
    BY <1>2, <2>1, <2>2
<1>3. \A b \in S : IsFiniteSet(Upto(b)) /\ Cardinality(Upto(b)) \in 1..N
  <2>1. SUFFICES ASSUME NEW b \in S PROVE IsFiniteSet(Upto(b)) /\ Cardinality(Upto(b)) \in 1..N
    OBVIOUS
  <2>2. IsFiniteSet(Upto(b)) /\ Cardinality(Upto(b)) <= N
    <3>1. Upto(b) \in SUBSET S
      OBVIOUS
    <3> QED
      BY <3>1, FS_Subset
  <2>3. b \in Upto(b)
    BY LessIrreflexive
  <2>4. Cardinality(Upto(b)) \in Nat /\ Cardinality(Upto(b)) # 0
    BY <2>2, <2>3, FS_CardinalityType, FS_EmptySet
  <2> QED
    BY <1>1, <2>2, <2>4
<1>4. ASSUME NEW b \in S, NEW c \in S, Less(key[b], key[c]) PROVE rank[b] < rank[c]
  <2>1. Upto(b) \in SUBSET Upto(c) /\ Upto(b) # Upto(c)
    BY <1>2, <1>4
  <2>2. Cardinality(Upto(b)) <= Cardinality(Upto(c)) /\ Cardinality(Upto(b)) # Cardinality(Upto(c))
    BY <1>3, <2>1, FS_Subset
  <2>3. rank[b] = Cardinality(Upto(b)) /\ rank[c] = Cardinality(Upto(c))
    OBVIOUS
  <2> HIDE DEF Upto, rank
  <2>4. Cardinality(Upto(b)) \in Nat /\ Cardinality(Upto(c)) \in Nat
    BY <1>1, <1>3
  <2> QED
    BY <2>2, <2>3, <2>4
<1>5. \A b, c \in S : b # c => Less(key[b], key[c]) \/ Less(key[c], key[b])
  BY LessTotal
<1>6. rank \in Injection(S, 1..N)
  <2>1. rank \in [S -> 1..N]
    BY <1>3
  <2> HIDE DEF rank
  <2>2. ASSUME NEW b \in S, NEW c \in S, rank[b] = rank[c] PROVE b = c
    BY <1>1, <1>4, <1>5, <2>1, <2>2
  <2> QED
    BY <2>1, <2>2 DEF Injection, IsInjective
<1>7. rank \in Surjection(S, 1..N)
  BY <1>1, <1>6, FS_Injection
<1>8. \A k \in 1..N : \E b \in S : rank[b] = k
  BY <1>7 DEF Surjection
<1>9. sorted = [k \in 1..N |-> CHOOSE b \in S : rank[b] = k]
  BY DEF Sorted
<1>10. \A k \in 1..N : sorted[k] \in S /\ rank[sorted[k]] = k
  BY <1>8, <1>9
<1>11. sorted \in [1..N -> S]
  BY <1>9, <1>10
<1>12. ToSet(sorted) = S
  <2>1. ASSUME NEW b \in S PROVE \E k \in 1..N : sorted[k] = b
    <3>1. rank[b] \in 1..N
      BY <1>3
    <3>2. rank[sorted[rank[b]]] = rank[b] /\ sorted[rank[b]] \in S
      BY <1>10, <3>1
    <3>3. sorted[rank[b]] = b
      BY <1>6, <3>2 DEF Injection, IsInjective
    <3> QED
      BY <3>1, <3>3
  <2> QED
    BY <1>10, <1>11, <2>1 DEF ToSet
<1>13. ASSUME NEW i \in 1..N, NEW j \in 1..N, i < j PROVE Less(key[sorted[i]], key[sorted[j]])
  <2>1. sorted[i] \in S /\ sorted[j] \in S /\ rank[sorted[i]] = i /\ rank[sorted[j]] = j
    BY <1>10
  <2> HIDE DEF rank, sorted
  <2>2. sorted[i] # sorted[j]
    BY <1>13, <2>1
  <2>3. ~Less(key[sorted[j]], key[sorted[i]])
    <3>1. SUFFICES ASSUME Less(key[sorted[j]], key[sorted[i]]) PROVE FALSE
      OBVIOUS
    <3>2. rank[sorted[j]] < rank[sorted[i]]
      BY <1>4, <2>1, <3>1
    <3> QED
      BY <1>13, <2>1, <3>2
  <2> QED
    BY <1>5, <2>1, <2>2, <2>3
<1> QED
  BY <1>1, <1>11, <1>12, <1>13

-----------------------------------------------------------------------------
(* dvKey *)

LEMMA DivMod ==
  \A d \in Nat : \E q \in Nat, r \in 0..255 :
     d = 256 * q + r /\ d \div 256 = q /\ d % 256 = r
<1> SUFFICES ASSUME NEW d \in Nat
             PROVE  \E q \in Nat, r \in 0..255 : d = 256 * q + r /\ d \div 256 = q /\ d % 256 = r
  OBVIOUS
<1>1. d % 256 = d - 256 * (d \div 256) /\ d \div 256 \in Nat
  BY SMT
<1>2. d % 256 \in 0..255
  BY SMT
<1>3. \A x \in Nat, y \in 0..255 : y = d - 256 * x => d = 256 * x + y
  BY SMT
<1> QED
  BY <1>1, <1>2, <1>3

FourBytes(d) == d \in Nat /\ d \div 256^3 < 256

LEMMA Bytes ==
  ASSUME NEW d, FourBytes(d)
  PROVE  /\ bigEndian(d) \in [1..4 -> 0..255]
         /\ d = 16777216 * bigEndian(d)[1] + 65536 * bigEndian(d)[2]
                  + 256 * bigEndian(d)[3] + bigEndian(d)[4]
<1>1. PICK q \in Nat, z \in 0..255 : d = 256 * q + z /\ d \div 256 = q /\ d % 256 = z
  BY DivMod DEF FourBytes
<1>2. PICK r \in Nat, y \in 0..255 : q = 256 * r + y /\ q % 256 = y
  BY DivMod
<1>3. PICK w \in Nat, x \in 0..255 : r = 256 * w + x /\ r % 256 = x
  BY DivMod
<1>4. \A k \in 1..4 : bigEndian(d)[k] = (d \div 256^(4 - k)) % 256
  BY DEF bigEndian
<1>5. /\ bigEndian(d)[1] = (d \div 16777216) % 256 /\ bigEndian(d)[2] = (d \div 65536) % 256
      /\ bigEndian(d)[3] = (d \div 256) % 256 /\ bigEndian(d)[4] = (d \div 1) % 256
  <2>1. 256^(4 - 1) = 16777216 /\ 256^(4 - 2) = 65536 /\ 256^(4 - 3) = 256 /\ 256^(4 - 4) = 1
    BY SMT
  <2> QED
    BY <1>4, <2>1, SMT
<1>6. d \div 16777216 < 256
  <2>1. 256^3 = 16777216
    BY SMT
  <2> QED
    BY <2>1, SMT DEF FourBytes
<1>7. bigEndian(d)[4] = z
  <2>1. \A k \in Nat : k \div 1 = k
    BY SMT
  <2>2. d \div 1 = d
    BY <1>1, <2>1
  <2> QED
    BY <1>1, <1>5, <2>2
<1>8. bigEndian(d)[3] = y
  <2>1. bigEndian(d)[3] = (d \div 256) % 256
    BY <1>5, SMT
  <2>2. (d \div 256) % 256 = q % 256
    BY <1>1, Zenon
  <2> QED
    BY <1>2, <2>1, <2>2, Zenon
<1>9. d = 65536 * r + (256 * y + z) /\ d \div 65536 = r
  <2>1. d = 65536 * r + (256 * y + z)
    BY <1>1, <1>2, SMT
  <2>2. \A i, j, k \in Nat : i = 65536 * j + k /\ k <= 65535 => i \div 65536 = j
    BY SMT
  <2>3. 256 * y + z \in Nat /\ 256 * y + z <= 65535
    BY SMT
  <2> QED
    BY <2>1, <2>2, <2>3
<1>10. bigEndian(d)[2] = x
  BY <1>3, <1>5, <1>9
<1>11. d = 16777216 * w + (65536 * x + 256 * y + z) /\ d \div 16777216 = w
  <2>1. d = 16777216 * w + (65536 * x + 256 * y + z)
    BY <1>3, <1>9, SMT
  <2>2. \A i, j, k \in Nat : i = 16777216 * j + k /\ k <= 16777215 => i \div 16777216 = j
    BY SMT
  <2>3. 65536 * x + 256 * y + z \in Nat /\ 65536 * x + 256 * y + z <= 16777215
    BY SMT
  <2> QED
    BY <2>1, <2>2, <2>3, SMT
<1>12. bigEndian(d)[1] = w /\ w \in 0..255
  <2>1. w \in 0..255
    BY <1>6, <1>11, SMT
  <2>2. w % 256 = w
    BY <2>1, SMT
  <2> QED
    BY <1>5, <1>11, <2>1, <2>2
<1>13. bigEndian(d) = [k \in 1..4 |-> bigEndian(d)[k]]
  BY DEF bigEndian
<1>14. \A k \in 1..4 : k = 1 \/ k = 2 \/ k = 3 \/ k = 4
  OBVIOUS
<1>15. bigEndian(d) \in [1..4 -> 0..255]
  <2>1. \A k \in 1..4 : bigEndian(d)[k] \in 0..255
    BY <1>7, <1>8, <1>10, <1>12, <1>14
  <2> QED
    BY <1>13, <2>1
<1>16. d = 16777216 * w + 65536 * x + 256 * y + z
  BY <1>11, SMT
<1> QED
  BY <1>7, <1>8, <1>10, <1>12, <1>15, <1>16, SMT

LEMMA BytesOrder ==
  ASSUME NEW d, FourBytes(d), NEW e, FourBytes(e)
  PROVE  /\ (\A i \in 1..4 : bigEndian(d)[i] = bigEndian(e)[i]) => d = e
         /\ \A i \in 1..4 : bigEndian(d)[i] < bigEndian(e)[i]
               /\ (\A j \in 1..(i - 1) : bigEndian(d)[j] = bigEndian(e)[j]) => d < e
<1> DEFINE x(i) == bigEndian(d)[i]
<1> DEFINE y(i) == bigEndian(e)[i]
<1>1. /\ x(1) \in Nat /\ x(2) \in Nat /\ x(3) \in Nat /\ x(4) \in Nat
      /\ x(1) < 256 /\ x(2) < 256 /\ x(3) < 256 /\ x(4) < 256
      /\ d = 16777216 * x(1) + 65536 * x(2) + 256 * x(3) + x(4)
  <2>1. x(1) \in 0..255 /\ x(2) \in 0..255 /\ x(3) \in 0..255 /\ x(4) \in 0..255
    <3>1. bigEndian(d) \in [1..4 -> 0..255]
      BY Bytes
    <3> QED
      BY <3>1
  <2>2. d = 16777216 * x(1) + 65536 * x(2) + 256 * x(3) + x(4)
    BY Bytes, SMT
  <2> HIDE DEF x
  <2> QED
    BY <2>1, <2>2, SMT
<1>2. /\ y(1) \in Nat /\ y(2) \in Nat /\ y(3) \in Nat /\ y(4) \in Nat
      /\ y(1) < 256 /\ y(2) < 256 /\ y(3) < 256 /\ y(4) < 256
      /\ e = 16777216 * y(1) + 65536 * y(2) + 256 * y(3) + y(4)
  <2>1. y(1) \in 0..255 /\ y(2) \in 0..255 /\ y(3) \in 0..255 /\ y(4) \in 0..255
    <3>1. bigEndian(e) \in [1..4 -> 0..255]
      BY Bytes
    <3> QED
      BY <3>1
  <2>2. e = 16777216 * y(1) + 65536 * y(2) + 256 * y(3) + y(4)
    BY Bytes, SMT
  <2> HIDE DEF y
  <2> QED
    BY <2>1, <2>2, SMT
<1> HIDE DEF x, y
<1>3. \A i \in 1..4 : x(i) < y(i) /\ (\A j \in 1..(i - 1) : x(j) = y(j)) => d < e
  <2>1. SUFFICES ASSUME NEW i \in 1..4, x(i) < y(i), \A j \in 1..(i - 1) : x(j) = y(j) PROVE d < e
    OBVIOUS
  <2>2. CASE i = 1
    BY <1>1, <1>2, <2>1, <2>2, SMT
  <2>3. CASE i = 2
    <3>1. x(1) = y(1)
      BY <2>1, <2>3, SMT
    <3> QED
      BY <1>1, <1>2, <2>1, <2>3, <3>1, SMT
  <2>4. CASE i = 3
    <3>1. x(1) = y(1) /\ x(2) = y(2)
      BY <2>1, <2>4, SMT
    <3> QED
      BY <1>1, <1>2, <2>1, <2>4, <3>1, SMT
  <2>5. CASE i = 4
    <3>1. x(1) = y(1) /\ x(2) = y(2) /\ x(3) = y(3)
      BY <2>1, <2>5, SMT
    <3> QED
      BY <1>1, <1>2, <2>1, <2>5, <3>1, SMT
  <2> QED
    BY <2>2, <2>3, <2>4, <2>5, SMT
<1>4. (\A i \in 1..4 : x(i) = y(i)) => d = e
  BY <1>1, <1>2, SMT
<1> QED
  BY <1>3, <1>4, SMT DEF x, y

\* The bytes of the numbers are at the places that are not multiples of five.
LEMMA KeyPlace ==
  ASSUME NEW len \in Nat, NEW k \in 1..(5 * len - 1), k % 5 # 0
  PROVE  \E m \in 1..len, j \in 1..4 : 5 * (m - 1) + j = k
<1>1. k \in Nat /\ k >= 1 /\ k <= 5 * len - 1
  BY SMT
<1>2. \A i \in Nat : i % 5 = i - 5 * (i \div 5) /\ i \div 5 \in Nat /\ i % 5 \in 0..4
  BY SMT
<1>3. PICK i \in Nat, j \in 0..4 : j = k - 5 * i /\ j # 0
  BY <1>1, <1>2
<1>4. PICK m : m = i + 1
  OBVIOUS
<1>5. j \in 1..4 /\ m \in 1..len /\ 5 * (m - 1) + j = k
  BY <1>1, <1>3, <1>4, SMT
<1> QED
  BY <1>5

LEMMA KeyParts ==
  ASSUME NEW b \in Slots
  PROVE  /\ b \in Seq(Nat) /\ Len(b) \in Nat \ {0}
         /\ dvKey(b) \in Seq(Nat) /\ Len(dvKey(b)) = 5 * Len(b) - 1
         /\ \A i \in 1..Len(b), j \in 1..4 : dvKey(b)[5 * (i - 1) + j] = bigEndian(b[i])[j]
         /\ \A k \in 1..(5 * Len(b) - 1) : k % 5 = 0 => dvKey(b)[k] = (IF k = 5 THEN 45 ELSE 58)
         /\ \A i \in 1..Len(b) : FourBytes(b[i])
<1>1. b \in Seq(Nat) /\ b # <<>> /\ \A i \in 1..Len(b) : FourBytes(b[i])
  BY SlotsAssumption DEF FourBytes
<1>2. Len(b) \in Nat \ {0}
  BY <1>1
<1>3. ASSUME NEW i \in 1..Len(b), NEW j \in 1..4
      PROVE  /\ 5 * (i - 1) + j \in 1..(5 * Len(b) - 1)
             /\ (5 * (i - 1) + j) % 5 = j /\ (5 * (i - 1) + j) \div 5 = i - 1
  <2>1. i \in Nat /\ 1 <= i /\ i <= Len(b) /\ j \in Nat /\ 1 <= j /\ j <= 4
    BY <1>2
  <2> QED
    BY <1>2, <2>1
<1>4. ASSUME NEW i \in 1..Len(b), NEW j \in 1..4
      PROVE  dvKey(b)[5 * (i - 1) + j] = bigEndian(b[i])[j]
  <2>1. PICK k : k = 5 * (i - 1) + j
    OBVIOUS
  <2>2. k \in 1..(5 * Len(b) - 1) /\ k % 5 = j /\ k \div 5 = i - 1
    BY <1>3, <2>1
  <2>3. k % 5 # 0 /\ k # 5 /\ k \div 5 + 1 = i
    BY <2>2
  <2>4. dvKey(b)[k] = bigEndian(b[k \div 5 + 1])[k % 5]
    BY <2>2, <2>3 DEF dvKey
  <2> QED
    BY <2>1, <2>2, <2>3, <2>4
<1>5. \A k \in 1..(5 * Len(b) - 1) : k % 5 = 0 => dvKey(b)[k] = (IF k = 5 THEN 45 ELSE 58)
  BY <1>2 DEF dvKey
<1>6. ASSUME NEW k \in 1..(5 * Len(b) - 1) PROVE dvKey(b)[k] \in Nat
  <2>1. CASE k % 5 = 0
    BY <1>5, <2>1
  <2>2. CASE k % 5 # 0
    <3>1. PICK m \in 1..Len(b), j \in 1..4 : 5 * (m - 1) + j = k
      BY <1>2, <2>2, KeyPlace
    <3>6. dvKey(b)[k] = bigEndian(b[m])[j]
      BY <1>4, <3>1
    <3>7. FourBytes(b[m])
      BY <1>1, <3>1
    <3>8. bigEndian(b[m]) \in [1..4 -> 0..255]
      BY <3>7, Bytes
    <3>9. bigEndian(b[m])[j] \in 0..255
      BY <3>1, <3>8, Zenon
    <3>10. dvKey(b)[k] \in 0..255
      BY <3>6, <3>9, Zenon
    <3>11. 0..255 \subseteq Nat
      BY SMT
    <3> QED
      BY <3>10, <3>11, Zenon
  <2> QED
    BY <2>1, <2>2
<1>7. 5 * Len(b) - 1 \in Nat
  BY <1>2
<1>8. dvKey(b) \in [1..(5 * Len(b) - 1) -> Nat]
  BY <1>6 DEF dvKey
<1>9. dvKey(b) \in Seq(Nat) /\ Len(dvKey(b)) = 5 * Len(b) - 1
  BY <1>7, <1>8
<1> QED
  BY <1>1, <1>2, <1>4, <1>5, <1>9
LEMMA KeyTypes ==
  \A b \in Slots :
     /\ b \in Seq(Nat) /\ Len(b) \in Nat \ {0} /\ \A i \in 1..Len(b) : FourBytes(b[i])
     /\ dvKey(b) \in Seq(Nat) /\ Len(dvKey(b)) = 5 * Len(b) - 1
     /\ DOMAIN dvKey(b) = 1..(5 * Len(b) - 1) /\ DOMAIN b = 1..Len(b)
<1> SUFFICES ASSUME NEW b \in Slots
             PROVE  /\ DOMAIN dvKey(b) = 1..(5 * Len(b) - 1) /\ DOMAIN b = 1..Len(b)
  BY KeyParts
<1>1. dvKey(b) \in Seq(Nat) /\ Len(dvKey(b)) = 5 * Len(b) - 1 /\ b \in Seq(Nat)
  BY KeyParts
<1>2. \A s \in Seq(Nat) : DOMAIN s = 1..Len(s)
  OBVIOUS
<1> QED
  BY <1>1, <1>2, Zenon

LEMMA KeyByte ==
  \A b \in Slots : \A i \in 1..Len(b), j \in 1..4 :
     dvKey(b)[5 * (i - 1) + j] = bigEndian(b[i])[j]
BY KeyParts

LEMMA KeySeparator ==
  \A b, c \in Slots : \A k \in (1..(5 * Len(b) - 1)) \cap (1..(5 * Len(c) - 1)) :
     k % 5 = 0 => dvKey(b)[k] = dvKey(c)[k]
<1> TAKE b, c \in Slots
<1> TAKE k \in (1..(5 * Len(b) - 1)) \cap (1..(5 * Len(c) - 1))
<1> HAVE k % 5 = 0
<1> DEFINE Separator(l) == IF l = 5 THEN 45 ELSE 58
<1>0. k \in 1..(5 * Len(b) - 1) /\ k \in 1..(5 * Len(c) - 1)
  BY Zenon
<1>s. \A d \in Slots : \A l \in 1..(5 * Len(d) - 1) :
         l % 5 = 0 => dvKey(d)[l] = Separator(l)
  BY KeyParts, Zenon
<1> HIDE DEF Separator
<1>1. dvKey(b)[k] = Separator(k)
  BY <1>0, <1>s, Zenon
<1>2. dvKey(c)[k] = Separator(k)
  BY <1>0, <1>s, Zenon
<1> QED
  BY <1>1, <1>2, Zenon

LEMMA KeyInjective ==
  ASSUME NEW b \in Slots, NEW c \in Slots, dvKey(b) = dvKey(c)
  PROVE  b = c
<1>1. b \in Seq(Nat) /\ c \in Seq(Nat) /\ Len(b) = Len(c)
  BY KeyTypes
<1>2. ASSUME NEW i \in 1..Len(b) PROVE b[i] = c[i]
  <2>1. FourBytes(b[i]) /\ FourBytes(c[i])
    BY <1>1, KeyTypes
  <2>2. ASSUME NEW j \in 1..4 PROVE bigEndian(b[i])[j] = bigEndian(c[i])[j]
    <3>1. i \in 1..Len(c)
      BY <1>1, Zenon
    <3>2. dvKey(b)[5 * (i - 1) + j] = bigEndian(b[i])[j]
      BY KeyByte, Zenon
    <3>3. dvKey(c)[5 * (i - 1) + j] = bigEndian(c[i])[j]
      BY <3>1, KeyByte, Zenon
    <3> QED
      BY <3>2, <3>3, Zenon
  <2> QED
    BY <2>1, <2>2, BytesOrder
<1> QED
  BY <1>1, <1>2

\* The order of nsort's keys is that of the tree: what dvKey is for.
LEMMA KeyOrder ==
  ASSUME NEW b \in Slots, NEW c \in Slots, Less(dvKey(b), dvKey(c))
  PROVE  TreeBefore(b, c)
<1>1. /\ b \in Seq(Nat) /\ c \in Seq(Nat) /\ Len(b) \in Nat \ {0} /\ Len(c) \in Nat \ {0}
      /\ dvKey(b) \in Seq(Nat) /\ Len(dvKey(b)) = 5 * Len(b) - 1
      /\ dvKey(c) \in Seq(Nat) /\ Len(dvKey(c)) = 5 * Len(c) - 1
  BY KeyTypes
<1>2. \A i \in 1..Len(b) : FourBytes(b[i])
  BY KeyTypes
<1>3. \A i \in 1..Len(c) : FourBytes(c[i])
  BY KeyTypes
<1>4. ASSUME NEW i \in 1..Len(b), i \in 1..Len(c),
             \A j \in 1..4 : dvKey(b)[5 * (i - 1) + j] = dvKey(c)[5 * (i - 1) + j]
      PROVE  b[i] = c[i]
  <2>1. \A j \in 1..4 : bigEndian(b[i])[j] = bigEndian(c[i])[j]
    BY <1>4, KeyByte, Zenon
  <2> QED
    BY <1>2, <1>3, <1>4, <2>1, BytesOrder
<1>5. ASSUME NEW k \in DOMAIN dvKey(b) \cap DOMAIN dvKey(c), dvKey(b)[k] < dvKey(c)[k],
             \A j \in 1..(k - 1) : dvKey(b)[j] = dvKey(c)[j]
      PROVE  TreeBefore(b, c)
  <2>1. k \in 1..(5 * Len(b) - 1) /\ k \in 1..(5 * Len(c) - 1)
    BY <1>5, KeyTypes, Zenon
  <2>2. k % 5 # 0
    <3>1. SUFFICES ASSUME k % 5 = 0 PROVE FALSE
      OBVIOUS
    <3>2. dvKey(b)[k] = dvKey(c)[k]
      BY <2>1, <3>1, KeySeparator, Zenon
    <3>3. dvKey(b)[k] \in Nat
      <4>1. \A s \in Seq(Nat) : \A i \in DOMAIN s : s[i] \in Nat
        OBVIOUS
      <4> QED
        BY <1>1, <1>5, <4>1, Zenon
    <3> QED
      BY <1>5, <3>2, <3>3
  <2>3. PICK i \in 1..Len(b), j \in 1..4 : 5 * (i - 1) + j = k
    BY <1>1, <2>1, <2>2, KeyPlace
  <2>4. i \in Nat /\ i >= 1 /\ i <= Len(b) /\ j \in Nat /\ j >= 1 /\ j <= 4
    <3>1. \A l \in Nat : \A m \in 1..l : m \in Nat /\ m >= 1 /\ m <= l
      BY SMT
    <3>2. Len(b) \in Nat /\ 4 \in Nat
      BY <1>1, SMT
    <3> QED
      BY <3>1, <3>2, Zenon
  <2>5. i \in 1..Len(c)
    BY <1>1, <2>1, <2>3, <2>4, SMT
  <2>6. bigEndian(b[i])[j] < bigEndian(c[i])[j]
    <3>1. dvKey(b)[k] = bigEndian(b[i])[j] /\ dvKey(c)[k] = bigEndian(c[i])[j]
      BY <2>3, <2>5, KeyByte, Zenon
    <3> QED
      BY <1>5, <3>1
  <2>7. \A l \in 1..(j - 1) : bigEndian(b[i])[l] = bigEndian(c[i])[l]
    <3>1. SUFFICES ASSUME NEW l \in 1..(j - 1) PROVE bigEndian(b[i])[l] = bigEndian(c[i])[l]
      OBVIOUS
    <3>2. 5 * (i - 1) + l \in 1..(k - 1) /\ l \in 1..4
      BY <2>3, <2>4, SMT
    <3>3. dvKey(b)[5 * (i - 1) + l] = dvKey(c)[5 * (i - 1) + l]
      BY <1>5, <3>2
    <3>4. /\ dvKey(b)[5 * (i - 1) + l] = bigEndian(b[i])[l]
          /\ dvKey(c)[5 * (i - 1) + l] = bigEndian(c[i])[l]
      BY <2>3, <2>5, <3>2, KeyByte, Zenon
    <3> QED
      BY <3>3, <3>4
  <2>8. b[i] < c[i]
    BY <1>2, <1>3, <2>3, <2>5, <2>6, <2>7, BytesOrder
  <2>9. \A h \in 1..(i - 1) : b[h] = c[h]
    <3>1. SUFFICES ASSUME NEW h \in 1..(i - 1) PROVE b[h] = c[h]
      OBVIOUS
    <3>2. h \in Nat /\ h >= 1 /\ h <= i - 1
      BY <2>4
    <3>3. h \in 1..Len(b) /\ h \in 1..Len(c)
      <4>1. \A l \in Nat : i \in 1..l => h \in 1..l
        BY <2>4, <3>2, SMT
      <4>2. Len(b) \in Nat /\ Len(c) \in Nat
        BY <1>1, SMT
      <4> QED
        BY <2>3, <2>5, <4>1, <4>2, Zenon
    <3>4. \A l \in 1..4 : 5 * (h - 1) + l \in 1..(k - 1)
      BY <2>3, <2>4, <3>2, SMT
    <3>5. \A l \in 1..4 : dvKey(b)[5 * (h - 1) + l] = dvKey(c)[5 * (h - 1) + l]
      BY <1>5, <3>4
    <3> QED
      BY <1>4, <3>3, <3>5
  <2>10. SubSeq(b, 1, i - 1) = SubSeq(c, 1, i - 1)
    BY <1>1, <2>3, <2>4, <2>5, <2>9
  <2>11. i \in DOMAIN b \cap DOMAIN c
    BY <2>3, <2>5, KeyTypes, Zenon
  <2> QED
    BY <2>8, <2>10, <2>11, Zenon DEF TreeBefore
<1>6. ASSUME Len(dvKey(b)) < Len(dvKey(c)),
             \A j \in 1..Len(dvKey(b)) : dvKey(b)[j] = dvKey(c)[j]
      PROVE  TreeBefore(b, c)
  <2>1. Len(b) < Len(c)
    BY <1>1, <1>6
  <2>2. ASSUME NEW i \in 1..Len(b) PROVE b[i] = c[i]
    <3>1. i \in 1..Len(c)
      BY <1>1, <2>1
    <3>2. \A j \in 1..4 : 5 * (i - 1) + j \in 1..(5 * Len(b) - 1)
      <4>1. \A l \in Nat : \A h \in 1..l, j \in 1..4 : 5 * (h - 1) + j \in 1..(5 * l - 1)
        BY SMT
      <4>2. Len(b) \in Nat
        BY <1>1, SMT
      <4> QED
        BY <4>1, <4>2, Zenon
    <3>3. \A j \in 1..4 : dvKey(b)[5 * (i - 1) + j] = dvKey(c)[5 * (i - 1) + j]
      BY <1>1, <1>6, <3>2
    <3> QED
      BY <1>4, <3>1, <3>3
  <2>3. IsStrictPrefix(b, c)
    BY <1>1, <2>1, <2>2, StrictPrefixIs
  <2> QED
    BY <2>3 DEF TreeBefore
<1> QED
  BY <1>1, <1>5, <1>6, LessIs

\* nsort loses nothing, doubles nothing, and puts a tree in order.
LEMMA Nsorted ==
  ASSUME NEW S \in SUBSET Slots
  PROVE  /\ nsort(S) \in Seq(S) /\ ToSet(nsort(S)) = S
         /\ \A i, j \in DOMAIN nsort(S) : i < j => TreeBefore(nsort(S)[i], nsort(S)[j])
<1> DEFINE key == [b \in S |-> dvKey(b)]
<1>1. IsFiniteSet(S)
  BY SlotsAssumption, FS_Subset
<1>2. \A b \in S : key[b] \in Seq(Nat)
  BY KeyTypes
<1>3. \A b, c \in S : key[b] = key[c] => b = c
  BY KeyInjective
<1>4. nsort(S) = Sorted(S, key)
  BY DEF nsort
<1>5. \A b, c \in S : Less(key[b], key[c]) => TreeBefore(b, c)
  BY KeyOrder
<1> HIDE DEF key
<1>6. /\ nsort(S) \in Seq(S) /\ ToSet(nsort(S)) = S
      /\ \A i, j \in DOMAIN nsort(S) : i < j => Less(key[nsort(S)[i]], key[nsort(S)[j]])
  BY <1>1, <1>2, <1>3, <1>4, Sorting
<1>7. \A i \in DOMAIN nsort(S) : nsort(S)[i] \in S
  BY <1>6
<1> QED
  BY <1>5, <1>6, <1>7

LEMMA NamesSorted ==
  ASSUME NEW S \in SUBSET Slots
  PROVE  Sorted(S, Name) \in Seq(S) /\ ToSet(Sorted(S, Name)) = S
<1>1. IsFiniteSet(S)
  BY SlotsAssumption, FS_Subset
<1>2. (\A b \in S : Name[b] \in Seq(Nat)) /\ (\A b, c \in S : Name[b] = Name[c] => b = c)
  BY SlotsAssumption
<1> QED
  BY <1>1, <1>2, Sorting

-----------------------------------------------------------------------------
(* The type invariant of Commands, in parts *)

TreeTyped ==
  /\ last \in Cardinality(Slots)..MaxDevnum /\ devnum \in [Slots -> 0..last]
  /\ ready \subseteq {b \in Slots : Here(b)}

RunsTyped ==
  /\ cpc \in [Readers -> {"idle", "glob", "read", "choose", "next", "open",
                          "done", "nomatch", "failed"}]
  /\ wanted \in [Readers -> SUBSET Slots]
  /\ node \in [Readers -> 0..last]
  /\ \A x \in Readers : cpc[x] = "open" => node[x] # 0 /\ found[x] # <<>>
  /\ resets \in [Readers -> SUBSET (Slots \X (1..last))]
  /\ settled \in [Readers -> SUBSET (Slots \X (1..last))]

ListsTyped ==
  /\ names \in [Readers -> Seq(Slots)] /\ found \in [Readers -> Seq(Slots)]
  /\ printed \in [Readers -> Seq(Slots)]

RunStep == (\E r \in Resetters : Reset(r)) \/ (\E l \in Listers : List(l))

LEMMA ReaderSteps ==
  [CommandsNext]_vars =>
     \/ RunStep /\ UNCHANGED <<crew, tree>>
     \/ TreeChanges /\ UNCHANGED <<crew, runs>>
     \/ UNCHANGED <<crew, tree, runs>>
BY DEF CommandsNext, vars, RunStep

LEMMA SlotsCounted == Cardinality(Slots) \in Nat
BY SlotsAssumption, FS_CardinalityType

LEMMA InitReaders == CommandsInit => TreeTyped /\ RunsTyped /\ ListsTyped /\ crew \in Crews
<1> SUFFICES ASSUME CommandsInit PROVE TreeTyped /\ RunsTyped /\ ListsTyped /\ crew \in Crews
  OBVIOUS
<1>1. last = Cardinality(Slots) /\ last \in Nat /\ last <= MaxDevnum /\ MaxDevnum \in Nat
  BY SlotsCounted, DevnumAssumption DEF CommandsInit
<1>2. PICK P \in SUBSET Slots :
         /\ ready = P
         /\ devnum = [b \in Slots |-> IF b \in P THEN Cardinality({c \in P : ~Less(b, c)}) ELSE 0]
  BY DEF CommandsInit
<1>3. ASSUME NEW b \in P
      PROVE  Cardinality({c \in P : ~Less(b, c)}) \in 0..last /\ Cardinality({c \in P : ~Less(b, c)}) # 0
  <2> DEFINE T == {c \in P : ~Less(b, c)}
  <2>1. T \in SUBSET Slots /\ b \in T
    <3>1. b \in Seq(Nat)
      BY SlotsAssumption
    <3> QED
      BY <3>1, LessIrreflexive
  <2>2. IsFiniteSet(T) /\ Cardinality(T) <= Cardinality(Slots)
    BY <2>1, SlotsAssumption, FS_Subset
  <2>3. Cardinality(T) \in Nat /\ Cardinality(T) # 0
    BY <2>1, <2>2, FS_CardinalityType, FS_EmptySet
  <2> QED
    BY <1>1, <2>2, <2>3
<1>4. TreeTyped
  <2>1. devnum \in [Slots -> 0..last] /\ \A b \in P : devnum[b] # 0
    BY <1>1, <1>2, <1>3
  <2>2. last \in Cardinality(Slots)..MaxDevnum
    BY <1>1
  <2>3. ready \subseteq {b \in Slots : Here(b)}
    BY <1>2, <2>1 DEF Here
  <2> QED
    BY <2>1, <2>2, <2>3 DEF TreeTyped
<1>5. RunsTyped
  BY <1>1 DEF CommandsInit, RunsTyped
<1>6. ListsTyped
  <2>1. <<>> \in Seq(Slots)
    OBVIOUS
  <2> QED
    BY <2>1 DEF CommandsInit, ListsTyped
<1> QED
  BY <1>4, <1>5, <1>6 DEF CommandsInit

\* The tree gives out numbers in ascending order, and a busid without a number
\* gets a new one.
LEMMA TreeKept ==
  ASSUME TreeTyped, TreeChanges
  PROVE  /\ TreeTyped' /\ last' >= last
         /\ \A b \in Slots : \/ devnum'[b] = devnum[b] \/ devnum'[b] > last
                             \/ devnum'[b] = 0 /\ b \notin ready'
         /\ \A b \in ready : b \in ready' \/ devnum'[b] = 0
<1> DEFINE Numbers == last' \in Cardinality(Slots)..MaxDevnum /\ last' >= last
           Devices == devnum' \in [Slots -> 0..last']
           Interfaces == ready' \subseteq {b \in Slots : devnum'[b] # 0}
           Renumbered ==
             \A b \in Slots : \/ devnum'[b] = devnum[b] \/ devnum'[b] > last
                              \/ devnum'[b] = 0 /\ b \notin ready'
           StaysReady == \A b \in ready : b \in ready' \/ devnum'[b] = 0
           Kept == Numbers /\ Devices /\ Interfaces /\ Renumbered /\ StaysReady
<1>1. Cardinality(Slots) \in Nat /\ MaxDevnum \in Nat /\ last \in Nat
  BY SlotsCounted, DevnumAssumption DEF TreeTyped
<1>2. last \in Cardinality(Slots)..MaxDevnum /\ devnum \in [Slots -> 0..last]
  BY DEF TreeTyped
<1>3. \A b \in ready : b \in Slots /\ devnum[b] # 0
  BY DEF TreeTyped, Here
<1>4. ASSUME NEW b \in Slots, Plug(b) PROVE Kept
  <2>1. /\ last < MaxDevnum /\ last' = last + 1 /\ devnum' = [devnum EXCEPT ![b] = last + 1]
        /\ ready' = ready /\ devnum[b] = 0
    BY <1>4 DEF Plug, Here
  <2>2. devnum'[b] = last + 1 /\ \A c \in Slots \ {b} : devnum'[c] = devnum[c]
    BY <1>2, <2>1
  <2>3. Numbers
    BY <1>1, <1>2, <2>1
  <2>4. Devices
    <3>1. last + 1 \in 0..(last + 1) /\ \A k \in 0..last : k \in 0..(last + 1)
      BY <1>1
    <3> QED
      BY <1>2, <2>1, <3>1
  <2>5. Interfaces
    BY <1>3, <2>1, <2>2
  <2>6. Renumbered
    <3>1. last + 1 > last
      BY <1>1
    <3> QED
      BY <2>2, <3>1
  <2>7. StaysReady
    BY <2>1
  <2> QED
    BY <2>3, <2>4, <2>5, <2>6, <2>7
<1>5. ASSUME NEW b \in Slots, Configured(b) PROVE Kept
  <2>1. ready' = ready \cup {b} /\ devnum' = devnum /\ last' = last /\ devnum[b] # 0
    BY <1>5 DEF Configured, Here
  <2>2. Numbers
    BY <1>1, <1>2, <2>1
  <2>3. Devices
    BY <1>2, <2>1
  <2>4. Interfaces
    BY <1>3, <2>1
  <2>5. Renumbered
    BY <2>1
  <2>6. StaysReady
    BY <2>1
  <2> QED
    BY <2>2, <2>3, <2>4, <2>5, <2>6
<1>6. ASSUME NEW b \in Slots, Unplug(b) PROVE Kept
  <2>1. /\ devnum' = [c \in Slots |-> IF c \in Below(b) THEN 0 ELSE devnum[c]]
        /\ ready' = ready \ Below(b) /\ last' = last
    BY <1>6 DEF Unplug
  <2>2. Numbers
    BY <1>1, <1>2, <2>1
  <2>3. Devices
    <3>1. 0 \in 0..last
      BY <1>1
    <3> QED
      BY <1>2, <2>1, <3>1
  <2>4. \A c \in Slots : devnum'[c] = IF c \in Below(b) THEN 0 ELSE devnum[c]
    BY <2>1
  <2>5. Interfaces
    BY <1>3, <2>1, <2>4
  <2>6. Renumbered
    BY <2>1, <2>4
  <2>7. StaysReady
    BY <1>3, <2>1, <2>4
  <2> QED
    BY <2>2, <2>3, <2>5, <2>6, <2>7
<1>7. Kept
  BY <1>4, <1>5, <1>6 DEF TreeChanges
<1>8. TreeTyped'
  BY <1>7 DEF TreeTyped, Here
<1> QED
  BY <1>7, <1>8

\* A run's step, taken apart: CommandBegin and Glob are both commands'.
LEMMA RunParts ==
  ASSUME RunStep
  PROVE  \/ \E x \in Readers : CommandBegin(x) \/ Glob(x)
         \/ \E r \in Resetters : \/ ReadSpec(r) \/ FindDevReturns(r) \/ ReadDevnum(r)
                                \/ ResetNode(r) \/ ResetReturns(r)
         \/ \E l \in Listers : PrintDevice(l) \/ ListReturns(l)
BY DEF RunStep, Reset, List, Readers

LEMMA RunsKept == TreeTyped /\ RunsTyped /\ ListsTyped /\ RunStep /\ UNCHANGED tree => RunsTyped'
<1> SUFFICES ASSUME TreeTyped, RunsTyped, ListsTyped, RunStep, UNCHANGED tree PROVE RunsTyped'
  OBVIOUS
<1> USE DEF RunsTyped, Goto, At
<1>0. UNCHANGED last
  BY DEF tree
<1>1. ASSUME NEW x \in Readers, CommandBegin(x) PROVE RunsTyped'
  <2>1. \A b \in ready : Device(b) \in Slots \X (1..last)
    BY SlotsCounted, DevnumAssumption DEF TreeTyped, Device, Here
  <2>2. settled' = [settled EXCEPT ![x] = {Device(b) : b \in ready}] /\ UNCHANGED <<node, resets>>
    BY <1>1 DEF CommandBegin
  <2>3. settled' \in [Readers -> SUBSET (Slots \X (1..last))]
    BY <2>1, <2>2
  <2>4. wanted' \in [Readers -> SUBSET Slots]
    BY <1>1, PatternsAssumption DEF CommandBegin
  <2>5. cpc' = [cpc EXCEPT ![x] = "glob"]
    BY <1>1 DEF CommandBegin
  <2>6. UNCHANGED found
    BY <1>1 DEF CommandBegin
  <2> QED
    BY <1>0, <2>2, <2>3, <2>4, <2>5, <2>6
<1>2. ASSUME NEW x \in Readers, Glob(x) PROVE RunsTyped'
  <2>1. (Goto(x, "read") \/ Goto(x, "failed")) /\ UNCHANGED <<wanted, found, node, resets, settled>>
    BY <1>2 DEF Glob
  <2> QED
    BY <1>0, <2>1
<1>3. ASSUME NEW r \in Resetters, ReadSpec(r) PROVE RunsTyped'
  BY <1>0, <1>3 DEF ReadSpec
<1>4. ASSUME NEW r \in Resetters, FindDevReturns(r) PROVE RunsTyped'
  <2>1. (Goto(r, "nomatch") \/ Goto(r, "next")) /\ UNCHANGED <<wanted, found, node, resets, settled>>
    BY <1>4 DEF FindDevReturns
  <2> QED
    BY <1>0, <2>1
<1>5. ASSUME NEW r \in Resetters, ReadDevnum(r) PROVE RunsTyped'
  <2>1. r \in Readers /\ found[r] # <<>> /\ Head(found[r]) \in Slots
    BY <1>5 DEF ReadDevnum, ListsTyped, Readers
  <2>2. /\ UNCHANGED <<wanted, found, resets, settled>>
        /\ \/ /\ devnum[Head(found[r])] # 0 /\ Goto(r, "open")
              /\ node' = [node EXCEPT ![r] = devnum[Head(found[r])]]
           \/ Goto(r, "failed") /\ UNCHANGED node
    BY <1>5 DEF ReadDevnum, Here
  <2>3. devnum[Head(found[r])] \in 0..last
    BY <2>1 DEF TreeTyped
  <2> QED
    BY <1>0, <2>1, <2>2, <2>3
<1>6. ASSUME NEW r \in Resetters, ResetNode(r) PROVE RunsTyped'
  <2>1. r \in Readers /\ cpc[r] = "open" /\ UNCHANGED <<wanted, node, settled>>
    BY <1>6 DEF ResetNode, Readers
  <2>2. \/ /\ devnum[Head(found[r])] = node[r] /\ Goto(r, "next")
           /\ resets' = [resets EXCEPT ![r] = @ \cup {<<Head(found[r]), node[r]>>}]
           /\ found' = [found EXCEPT ![r] = Tail(@)]
        \/ Goto(r, "failed") /\ UNCHANGED <<resets, found>>
    BY <1>6 DEF ResetNode
  <2>3. resets' \in [Readers -> SUBSET (Slots \X (1..last))] /\ UNCHANGED last
    <3>1. CASE UNCHANGED resets
      BY <1>0, <3>1
    <3>2. CASE resets' = [resets EXCEPT ![r] = @ \cup {<<Head(found[r]), node[r]>>}]
      <4>1. found[r] # <<>> => Head(found[r]) \in Slots
        BY <2>1 DEF ListsTyped
      <4>2. node[r] \in 1..last
        BY <2>1, SlotsCounted, DevnumAssumption DEF TreeTyped
      <4>3. found[r] # <<>>
        BY <2>1
      <4> QED
        BY <1>0, <2>1, <3>2, <4>1, <4>2, <4>3
    <3> QED
      BY <2>2, <3>1, <3>2
  <2>4. cpc' = [cpc EXCEPT ![r] = "next"] \/ cpc' = [cpc EXCEPT ![r] = "failed"]
    BY <2>2
  <2>5. \A x \in Readers : x # r => found'[x] = found[x]
    BY <2>2 DEF ListsTyped
  <2>6. \A x \in Readers : cpc'[x] = "open" => node'[x] # 0 /\ found'[x] # <<>>
    BY <2>1, <2>4, <2>5
  <2> QED
    BY <1>0, <2>1, <2>3, <2>4, <2>6
<1>7. ASSUME NEW r \in Resetters, ResetReturns(r) PROVE RunsTyped'
  BY <1>0, <1>7 DEF ResetReturns
<1>8. ASSUME NEW l \in Listers, PrintDevice(l) \/ ListReturns(l) PROVE RunsTyped'
  BY <1>0, <1>8 DEF PrintDevice, ListReturns
<1> QED
  BY <1>1, <1>2, <1>3, <1>4, <1>5, <1>6, <1>7, <1>8, RunParts

-----------------------------------------------------------------------------
(* Sequences of busids *)

LEMMA HeadAndTail ==
  ASSUME NEW S, NEW s \in Seq(S), s # <<>>
  PROVE  /\ Head(s) \in S /\ Tail(s) \in Seq(S)
         /\ ToSet(s) = {Head(s)} \cup ToSet(Tail(s))
<1>1. Head(s) = s[1] /\ Head(s) \in S /\ Tail(s) \in Seq(S) /\ Len(s) \in Nat /\ Len(s) >= 1
  OBVIOUS
<1>2. DOMAIN s = 1..Len(s) /\ DOMAIN Tail(s) = 1..(Len(s) - 1)
  BY <1>1
<1>3. \A i \in 1..(Len(s) - 1) : Tail(s)[i] = s[i + 1]
  BY <1>1
<1>4. ASSUME NEW i \in 1..Len(s), s[i] # Head(s)
      PROVE  \E j \in 1..(Len(s) - 1) : s[i] = Tail(s)[j]
  <2>1. i - 1 \in 1..(Len(s) - 1) /\ (i - 1) + 1 = i
    BY <1>1, <1>4
  <2> QED
    BY <1>3, <2>1
<1>5. \A i \in 1..(Len(s) - 1) : i + 1 \in 1..Len(s)
  BY <1>1
<1>6. 1 \in 1..Len(s)
  BY <1>1
<1>7. ToSet(s) \subseteq {Head(s)} \cup ToSet(Tail(s))
  <2>1. \A i \in 1..Len(s) : s[i] = Head(s) \/ s[i] \in ToSet(Tail(s))
    BY <1>2, <1>4, Zenon DEF ToSet
  <2> QED
    BY <1>2, <2>1, Zenon DEF ToSet
<1>8. {Head(s)} \cup ToSet(Tail(s)) \subseteq ToSet(s)
  BY <1>1, <1>2, <1>3, <1>5, <1>6 DEF ToSet
<1> QED
  BY <1>1, <1>7, <1>8

LEMMA Appended ==
  ASSUME NEW S, NEW s \in Seq(S), NEW e \in S
  PROVE  Append(s, e) \in Seq(S) /\ ToSet(Append(s, e)) = ToSet(s) \cup {e}
<1>1. /\ Append(s, e) \in Seq(S) /\ Len(s) \in Nat
      /\ DOMAIN s = 1..Len(s) /\ DOMAIN Append(s, e) = 1..(Len(s) + 1)
  OBVIOUS
<1>2. Append(s, e)[Len(s) + 1] = e /\ \A i \in 1..Len(s) : Append(s, e)[i] = s[i]
  OBVIOUS
<1>3. \A i \in 1..(Len(s) + 1) : i \in 1..Len(s) \/ i = Len(s) + 1
  BY <1>1
<1>4. Len(s) + 1 \in 1..(Len(s) + 1) /\ \A i \in 1..Len(s) : i \in 1..(Len(s) + 1)
  BY <1>1
<1>5. ToSet(Append(s, e)) \subseteq ToSet(s) \cup {e}
  BY <1>1, <1>2, <1>3 DEF ToSet
<1>6. ToSet(s) \cup {e} \subseteq ToSet(Append(s, e))
  BY <1>1, <1>2, <1>4 DEF ToSet
<1> QED
  BY <1>1, <1>5, <1>6

LEMMA NoneIn == ToSet(<<>>) = {}
BY DEF ToSet

Ordered(s) == \A i, j \in DOMAIN s : i < j => TreeBefore(s[i], s[j])

LEMMA OrderedTail ==
  ASSUME NEW S, NEW s \in Seq(S), s # <<>>, Ordered(s)
  PROVE  Ordered(Tail(s)) /\ \A c \in ToSet(Tail(s)) : TreeBefore(Head(s), c)
<1>1. /\ Head(s) = s[1] /\ Len(s) \in Nat /\ Len(s) >= 1
      /\ DOMAIN s = 1..Len(s) /\ DOMAIN Tail(s) = 1..(Len(s) - 1)
  OBVIOUS
<1>2. \A i \in 1..(Len(s) - 1) : Tail(s)[i] = s[i + 1] /\ i + 1 \in 1..Len(s) /\ 1 < i + 1
  BY <1>1
<1>3. 1 \in 1..Len(s) /\ \A i, j \in 1..(Len(s) - 1) : i < j => i + 1 < j + 1
  BY <1>1
<1>4. Ordered(Tail(s))
  BY <1>1, <1>2, <1>3, Zenon DEF Ordered
<1>5. \A i \in 1..(Len(s) - 1) : TreeBefore(Head(s), Tail(s)[i])
  BY <1>1, <1>2, <1>3, Zenon DEF Ordered
<1> QED
  BY <1>1, <1>4, <1>5, Zenon DEF ToSet

LEMMA OrderedAppend ==
  ASSUME NEW S, NEW s \in Seq(S), NEW e \in S, Ordered(s),
         \A b \in ToSet(s) : TreeBefore(b, e)
  PROVE  Ordered(Append(s, e))
<1>1. /\ Len(s) \in Nat /\ DOMAIN s = 1..Len(s) /\ DOMAIN Append(s, e) = 1..(Len(s) + 1)
  OBVIOUS
<1>2. Append(s, e)[Len(s) + 1] = e /\ \A i \in 1..Len(s) : Append(s, e)[i] = s[i]
  OBVIOUS
<1>3. \A i, j \in 1..(Len(s) + 1) :
         i < j => i \in 1..Len(s) /\ (j \in 1..Len(s) \/ j = Len(s) + 1)
  BY <1>1
<1>4. \A i \in 1..Len(s) : TreeBefore(s[i], e)
  BY <1>1 DEF ToSet
<1> QED
  BY <1>1, <1>2, <1>3, <1>4, Zenon DEF Ordered

LEMMA ListsKept ==
  RunsTyped /\ ListsTyped /\ RunStep => ListsTyped'
<1> SUFFICES ASSUME RunsTyped, ListsTyped, RunStep PROVE ListsTyped'
  OBVIOUS
<1> USE DEF ListsTyped
<1>1. ASSUME NEW x \in Readers, CommandBegin(x) PROVE ListsTyped'
  BY <1>1 DEF CommandBegin
<1>2. ASSUME NEW x \in Readers, Glob(x) PROVE ListsTyped'
  <2> DEFINE here == {b \in Slots : Here(b)}
  <2>1. nsort(here) \in Seq(Slots) /\ Sorted(here, Name) \in Seq(Slots)
    <3>1. nsort(here) \in Seq(here) /\ Sorted(here, Name) \in Seq(here)
      BY Nsorted, NamesSorted
    <3>2. \A s : s \in Seq(here) => s \in Seq(Slots)
      OBVIOUS
    <3> QED
      BY <3>1, <3>2, Zenon
  <2>2. /\ UNCHANGED <<found, printed>>
        /\ \/ UNCHANGED names
           \/ names' = [names EXCEPT ![x] = nsort(here)]
           \/ names' = [names EXCEPT ![x] = Sorted(here, Name)]
    BY <1>2 DEF Glob
  <2> HIDE DEF here
  <2> QED
    BY <2>1, <2>2
<1>3. ASSUME NEW r \in Resetters, ReadSpec(r) PROVE ListsTyped'
  <2>1. r \in Readers /\ names[r] # <<>> /\ UNCHANGED printed /\ names' = [names EXCEPT ![r] = Tail(@)]
    BY <1>3 DEF ReadSpec, Readers
  <2>2. UNCHANGED found \/ found' = [found EXCEPT ![r] = Append(@, Head(names[r]))]
    BY <1>3 DEF ReadSpec
  <2>3. Tail(names[r]) \in Seq(Slots) /\ Append(found[r], Head(names[r])) \in Seq(Slots)
    BY <2>1, HeadAndTail, Appended
  <2> QED
    BY <2>1, <2>2, <2>3
<1>4. ASSUME NEW r \in Resetters, FindDevReturns(r) \/ ReadDevnum(r) \/ ResetReturns(r)
      PROVE  ListsTyped'
  BY <1>4 DEF FindDevReturns, ReadDevnum, ResetReturns
<1>5. ASSUME NEW r \in Resetters, ResetNode(r) PROVE ListsTyped'
  <2>1. /\ r \in Readers /\ found[r] # <<>> /\ UNCHANGED <<names, printed>>
        /\ UNCHANGED found \/ found' = [found EXCEPT ![r] = Tail(@)]
    BY <1>5 DEF ResetNode, Readers, RunsTyped, At
  <2>2. Tail(found[r]) \in Seq(Slots)
    BY <2>1, HeadAndTail
  <2> QED
    BY <2>1, <2>2
<1>6. ASSUME NEW l \in Listers, PrintDevice(l) PROVE ListsTyped'
  <2>1. l \in Readers /\ names[l] # <<>> /\ UNCHANGED found /\ names' = [names EXCEPT ![l] = Tail(@)]
    BY <1>6 DEF PrintDevice, Readers
  <2>2. UNCHANGED printed \/ printed' = [printed EXCEPT ![l] = Append(@, Head(names[l]))]
    BY <1>6 DEF PrintDevice
  <2>3. Tail(names[l]) \in Seq(Slots) /\ Append(printed[l], Head(names[l])) \in Seq(Slots)
    BY <2>1, HeadAndTail, Appended
  <2> QED
    BY <2>1, <2>2, <2>3
<1>7. ASSUME NEW l \in Listers, ListReturns(l) PROVE ListsTyped'
  BY <1>7 DEF ListReturns
<1> QED
  BY <1>1, <1>2, <1>3, <1>4, <1>5, <1>6, <1>7, RunParts

ReadersTyped == TreeTyped /\ RunsTyped /\ ListsTyped

LEMMA ReadersStayTyped == ReadersTyped /\ [CommandsNext]_vars => ReadersTyped'
<1> SUFFICES ASSUME ReadersTyped, [CommandsNext]_vars PROVE ReadersTyped'
  OBVIOUS
<1> USE DEF ReadersTyped
<1>1. CASE RunStep /\ UNCHANGED <<crew, tree>>
  <2>1. TreeTyped'
    BY <1>1 DEF TreeTyped, tree, Here
  <2> QED
    BY <1>1, <2>1, RunsKept, ListsKept
<1>2. CASE TreeChanges /\ UNCHANGED <<crew, runs>>
  <2>1. TreeTyped' /\ last' >= last
    BY <1>2, TreeKept
  <2>2. last \in Nat /\ last' \in Nat
    BY <2>1, SlotsCounted, DevnumAssumption DEF TreeTyped
  <2>3. \A i \in 0..last : i \in 0..last'
    BY <2>1, <2>2
  <2>4. \A i \in 1..last : i \in 1..last'
    BY <2>1, <2>2
  <2>5. node' \in [Readers -> 0..last']
    BY <1>2, <2>3 DEF RunsTyped, runs
  <2>6. /\ resets' \in [Readers -> SUBSET (Slots \X (1..last'))]
        /\ settled' \in [Readers -> SUBSET (Slots \X (1..last'))]
    BY <1>2, <2>4 DEF RunsTyped, runs
  <2>7. RunsTyped'
    BY <1>2, <2>5, <2>6 DEF RunsTyped, runs
  <2>8. ListsTyped'
    BY <1>2 DEF ListsTyped, runs
  <2> QED
    BY <2>1, <2>7, <2>8
<1>3. CASE UNCHANGED <<crew, tree, runs>>
  BY <1>3 DEF TreeTyped, RunsTyped, ListsTyped, tree, runs, Here
<1> QED
  BY <1>1, <1>2, <1>3, ReaderSteps

LEMMA ReadersTypedAlways == Spec => []ReadersTyped
<1>1. CommandsInit => ReadersTyped
  BY InitReaders DEF ReadersTyped
<1> QED
  BY <1>1, ReadersStayTyped, PTL DEF Spec

\* Whatever the status files, the busids and the commands, the variables have
\* their types (usbip.go:60-139, reset.go:19-55, list.go:35-110): device
\* numbers stay in their bound, a node that is opened has a number, and what
\* is found, printed or still to read are busids.
THEOREM TypeCorrect == Spec => []TypeOK
<1>1. CommandsInit => crew \in Crews
  BY DEF CommandsInit
<1>2. crew \in Crews /\ [CommandsNext]_vars => (crew \in Crews)'
  BY DEF CommandsNext, vars
<1>3. PortsInv /\ ReadersTyped /\ crew \in Crews => TypeOK
  <2> SUFFICES ASSUME PortsInv, ReadersTyped, crew \in Crews PROVE TypeOK
    OBVIOUS
  <2>1. PortTypeOK
    BY PortParts DEF PortsInv, PortsTyped
  <2>2. \A x \in Readers : /\ names[x] \in Seq(Slots) /\ found[x] \in Seq(Slots)
                           /\ printed[x] \in Seq(Slots)
    BY DEF ReadersTyped, ListsTyped
  <2>3. \A x \in Readers : /\ resets[x] \subseteq Slots \X (1..last)
                           /\ settled[x] \subseteq Slots \X (1..last)
                           /\ cpc[x] = "open" => node[x] # 0
    BY DEF ReadersTyped, RunsTyped
  <2> QED
    BY <2>1, <2>2, <2>3 DEF TypeOK, ReadersTyped, TreeTyped, RunsTyped
<1> QED
  BY <1>1, <1>2, <1>3, PortsSafe, ReadersTypedAlways, PTL DEF Spec

-----------------------------------------------------------------------------
(* What "reset" and "list" know of the devices that were there when they began *)

\* Such a device has its interfaces as long as it is there.
SettledReady(x) == \A d \in settled[x] : Device(d[1]) = d => d[1] \in ready

\* The devices that x was asked for: those that were there, and have been since.
Due(x, B) == {d \in settled[x] : d[1] \in B /\ Device(d[1]) = d}

\* What findDev found of the old devices is right.
ResetRight(r) ==
  /\ cpc[r] \in {"idle", "glob"} => found[r] = <<>> /\ resets[r] = {}
  /\ \A b \in ToSet(found[r]) : Device(b) \in settled[r] => b \in wanted[r] \ HubIf
  /\ cpc[r] = "open" /\ <<Head(found[r]), node[r]>> \in settled[r] =>
        Head(found[r]) \in wanted[r] \ HubIf
  /\ \A d \in resets[r] \cap settled[r] : d[1] \in wanted[r] \ HubIf

\* No device that is due is lost: its busid is to be read, or to be reset.
ResetDue(r) ==
  \A d \in Due(r, wanted[r] \ HubIf) :
     /\ cpc[r] = "read" => d[1] \in ToSet(names[r]) \cup ToSet(found[r])
     /\ cpc[r] \in {"next", "open"} => d \in resets[r] \/ d[1] \in ToSet(found[r])
     /\ cpc[r] \in {"done", "nomatch"} => d \in resets[r]

\* list has printed, in order, what comes before all that it has to read yet.
ListRight(l) ==
  /\ cpc[l] \in {"idle", "glob"} => printed[l] = <<>>
  /\ Ordered(names[l]) /\ Ordered(printed[l])
  /\ cpc[l] = "read" => \A b \in ToSet(printed[l]), c \in ToSet(names[l]) : TreeBefore(b, c)

ListDue(l) ==
  \A d \in Due(l, wanted[l]) :
     /\ cpc[l] = "read" => d[1] \in ToSet(names[l]) \cup ToSet(printed[l])
     /\ cpc[l] = "done" => d[1] \in ToSet(printed[l])

ReaderInv(x) ==
  /\ SettledReady(x)
  /\ x \in Resetters => ResetRight(x) /\ ResetDue(x)
  /\ x \in Listers => ListRight(x) /\ ListDue(x)

\* A device of settled, and the device that its busid has.
LEMMA SettledIs ==
  ASSUME ReadersTyped, NEW x \in Readers, NEW d \in settled[x]
  PROVE  d[1] \in Slots /\ d[2] \in 1..last /\ d = <<d[1], d[2]>>
BY DEF ReadersTyped, RunsTyped

LEMMA OldIsSteady ==
  ASSUME ReadersTyped, NEW x \in Readers, SettledReady(x),
         NEW b \in Slots, Device(b) \in settled[x]
  PROVE  Steady(x, b) /\ Matches(x, b) = {(b \in wanted[x])} /\ IsHub(x, b) = {(b \in HubIf)}
<1>1. Device(b)[1] = b
  BY DEF Device
<1>2. b \in ready
  BY <1>1 DEF SettledReady
<1> QED
  BY <1>2 DEF Steady, Matches, IsHub

\* A device that is still there has a busid that Glob lists.
LEMMA DueIsHere ==
  ASSUME ReadersTyped, NEW x \in Readers, NEW d \in settled[x], Device(d[1]) = d
  PROVE  d[1] \in {b \in Slots : Here(b)}
<1>1. d[1] \in Slots /\ d[2] \in 1..last /\ last \in Nat
  BY SettledIs, SlotsCounted, DevnumAssumption DEF ReadersTyped, TreeTyped
<1>2. devnum[d[1]] = d[2]
  BY DEF Device
<1> QED
  BY <1>1, <1>2 DEF Here

\* The step of one reader is nothing to another.
Mine(x) ==
  <<cpc[x], wanted[x], names[x], found[x], node[x], resets[x], printed[x], settled[x]>>

LEMMA SameReader ==
  ASSUME NEW x, ReaderInv(x), Mine(x)' = Mine(x), UNCHANGED tree
  PROVE  ReaderInv(x)'
<1>1. /\ cpc'[x] = cpc[x] /\ wanted'[x] = wanted[x] /\ names'[x] = names[x]
      /\ found'[x] = found[x] /\ node'[x] = node[x] /\ resets'[x] = resets[x]
      /\ printed'[x] = printed[x] /\ settled'[x] = settled[x]
      /\ devnum' = devnum /\ ready' = ready
  BY DEF Mine, tree
<1>2. SettledReady(x)'
  BY <1>1 DEF ReaderInv, SettledReady, Device
<1>3. x \in Resetters => ResetRight(x)'
  BY <1>1 DEF ReaderInv, ResetRight, Device
<1>4. x \in Resetters => ResetDue(x)'
  BY <1>1 DEF ReaderInv, ResetDue, Due, Device
<1>5. x \in Listers => ListRight(x)'
  BY <1>1 DEF ReaderInv, ListRight
<1>6. x \in Listers => ListDue(x)'
  BY <1>1 DEF ReaderInv, ListDue, Due, Device
<1> QED
  BY <1>2, <1>3, <1>4, <1>5, <1>6 DEF ReaderInv

\* A device that was there and still is, was all along.
LEMMA OldNumbers ==
  ASSUME ReadersTyped, TreeChanges, UNCHANGED runs, NEW x \in Readers, SettledReady(x),
         NEW d \in settled[x], Device(d[1])' = d
  PROVE  Device(d[1]) = d /\ d[1] \in ready'
<1>1. d[1] \in Slots /\ d[2] \in 1..last /\ d = <<d[1], d[2]>> /\ last \in Nat
  BY SettledIs, SlotsCounted, DevnumAssumption DEF ReadersTyped, TreeTyped
<1>2. devnum'[d[1]] = d[2]
  BY DEF Device
<1>3. devnum'[d[1]] # 0 /\ ~(devnum'[d[1]] > last)
  BY <1>1, <1>2
<1>4. devnum'[d[1]] = devnum[d[1]]
  BY <1>1, <1>3, TreeKept DEF ReadersTyped
<1>5. Device(d[1]) = d
  BY <1>1, <1>2, <1>4 DEF Device
<1>6. d[1] \in ready
  BY <1>5 DEF SettledReady
<1> QED
  BY <1>3, <1>5, <1>6, TreeKept DEF ReadersTyped

LEMMA TreeReader ==
  ASSUME ReadersTyped, TreeChanges, UNCHANGED runs, NEW x \in Readers, ReaderInv(x)
  PROVE  ReaderInv(x)'
<1>1. UNCHANGED <<cpc, wanted, names, found, node, resets, printed, settled>>
  BY DEF runs
<1>2. \A d \in settled[x] : Device(d[1])' = d => Device(d[1]) = d /\ d[1] \in ready'
  BY OldNumbers DEF ReaderInv
<1>3. SettledReady(x)'
  BY <1>1, <1>2 DEF SettledReady
<1>4. \A B : Due(x, B)' \subseteq Due(x, B)
  BY <1>1, <1>2 DEF Due
<1>5. ASSUME x \in Resetters PROVE ResetRight(x)'
  <2>1. \A b \in ToSet(found[x]) : Device(b)' \in settled[x] => Device(b) \in settled[x]
    <3>1. \A b : Device(b)'[1] = b
      BY DEF Device
    <3> QED
      BY <1>2, <3>1
  <2>2. ResetRight(x)
    BY <1>5 DEF ReaderInv
  <2> QED
    BY <1>1, <2>1, <2>2 DEF ResetRight
<1>6. ASSUME x \in Resetters PROVE ResetDue(x)'
  BY <1>1, <1>4, <1>6 DEF ReaderInv, ResetDue
<1>7. ASSUME x \in Listers PROVE ListRight(x)' /\ ListDue(x)'
  BY <1>1, <1>4, <1>7 DEF ReaderInv, ListRight, ListDue
<1> QED
  BY <1>3, <1>5, <1>6, <1>7 DEF ReaderInv

LEMMA BeginRight ==
  ASSUME ReadersTyped, NEW x \in Readers, ReaderInv(x), CommandBegin(x), UNCHANGED tree
  PROVE  ReaderInv(x)'
<1>1. /\ cpc[x] = "idle" /\ cpc'[x] = "glob" /\ UNCHANGED <<names, found, resets, printed>>
      /\ settled'[x] = {Device(b) : b \in ready} /\ ready' = ready /\ devnum' = devnum
  BY DEF CommandBegin, At, Goto, ReadersTyped, RunsTyped, tree
<1>2. SettledReady(x)'
  BY <1>1 DEF SettledReady, Device
<1>3. ASSUME x \in Resetters PROVE ResetRight(x)' /\ ResetDue(x)'
  <2>1. found[x] = <<>> /\ resets[x] = {}
    BY <1>1, <1>3 DEF ReaderInv, ResetRight
  <2>2. ResetRight(x)'
    BY <1>1, <2>1, NoneIn DEF ResetRight
  <2>3. ResetDue(x)'
    BY <1>1 DEF ResetDue
  <2> QED
    BY <2>2, <2>3
<1>4. ASSUME x \in Listers PROVE ListRight(x)' /\ ListDue(x)'
  BY <1>1, <1>4 DEF ReaderInv, ListRight, ListDue
<1> QED
  BY <1>2, <1>3, <1>4 DEF ReaderInv

LEMMA GlobRight ==
  ASSUME ReadersTyped, NEW x \in Readers, ReaderInv(x), Glob(x), UNCHANGED tree
  PROVE  ReaderInv(x)'
<1> DEFINE here == {b \in Slots : Here(b)}
<1>1. cpc[x] = "glob" /\ UNCHANGED <<wanted, found, resets, printed, settled, devnum, ready>>
  BY DEF Glob, At, tree
<1>2. \/ cpc'[x] = "read" /\ names'[x] = IF x \in Listers THEN nsort(here) ELSE Sorted(here, Name)
      \/ cpc'[x] = "failed" /\ names' = names
  BY DEF Glob, Goto, ReadersTyped, RunsTyped, ListsTyped
<1>3. SettledReady(x)'
  BY <1>1 DEF ReaderInv, SettledReady, Device
<1>4. \A d \in settled[x] : Device(d[1])' = d => d[1] \in here
  BY <1>1, DueIsHere DEF Device
<1>5. /\ ToSet(nsort(here)) = here /\ ToSet(Sorted(here, Name)) = here
      /\ Ordered(nsort(here))
  BY Nsorted, NamesSorted DEF Ordered
<1> HIDE DEF here
<1>6. ASSUME x \in Resetters PROVE ResetRight(x)' /\ ResetDue(x)'
  <2>1. found[x] = <<>> /\ resets[x] = {}
    BY <1>1, <1>6 DEF ReaderInv, ResetRight
  <2>2. x \notin Listers
    BY <1>6, ReadersAssumption
  <2>3. ResetRight(x)'
    BY <1>1, <1>2, <2>1, NoneIn DEF ResetRight
  <2>4. ResetDue(x)'
    BY <1>1, <1>2, <1>4, <1>5, <2>2 DEF ResetDue, Due
  <2> QED
    BY <2>3, <2>4
<1>7. ASSUME x \in Listers PROVE ListRight(x)' /\ ListDue(x)'
  <2>1. printed[x] = <<>> /\ Ordered(names[x]) /\ Ordered(printed[x])
    BY <1>1, <1>7 DEF ReaderInv, ListRight
  <2>2. ListRight(x)'
    BY <1>1, <1>2, <1>5, <1>7, <2>1, NoneIn DEF ListRight
  <2>3. ListDue(x)'
    BY <1>1, <1>2, <1>4, <1>5, <1>7 DEF ListDue, Due
  <2> QED
    BY <2>2, <2>3
<1> QED
  BY <1>3, <1>6, <1>7 DEF ReaderInv

LEMMA ReadSpecRight ==
  ASSUME ReadersTyped, NEW r \in Resetters, ReaderInv(r), ReadSpec(r), UNCHANGED tree
  PROVE  ReaderInv(r)'
<1> DEFINE b == Head(names[r])
           asked == wanted[r] \ HubIf
<1>1. /\ r \in Readers /\ r \notin Listers /\ cpc[r] = "read" /\ names[r] # <<>>
      /\ UNCHANGED <<cpc, wanted, resets, settled, devnum, ready>>
  BY ReadersAssumption DEF ReadSpec, At, tree, Readers
<1>2. names'[r] = Tail(names[r]) /\ b \in Slots /\ ToSet(names[r]) = {b} \cup ToSet(Tail(names[r]))
  BY <1>1, HeadAndTail DEF ReadSpec, ReadersTyped, ListsTyped
<1>3. PICK match \in Matches(r, b), hubIf \in IsHub(r, b) :
         found' = [found EXCEPT ![r] = IF match /\ ~hubIf THEN Append(@, b) ELSE @]
  BY DEF ReadSpec
<1>4. Device(b) \in settled[r] => (match <=> b \in wanted[r]) /\ (hubIf <=> b \in HubIf)
  <2>1. ASSUME Device(b) \in settled[r]
        PROVE  Matches(r, b) = {(b \in wanted[r])} /\ IsHub(r, b) = {(b \in HubIf)}
    BY <1>1, <1>2, <2>1, OldIsSteady DEF ReaderInv
  <2>2. ASSUME Device(b) \in settled[r]
        PROVE  match = (b \in wanted[r]) /\ hubIf = (b \in HubIf)
    <3> HIDE DEF b
    <3> QED
      BY <2>1, <2>2
  <2> QED
    BY <2>2
<1>5. \/ /\ ToSet(found'[r]) = ToSet(found[r]) \cup {b}
         /\ Device(b) \in settled[r] => b \in asked
      \/ ToSet(found'[r]) = ToSet(found[r]) /\ (Device(b) \in settled[r] => b \notin asked)
  <2>1. r \in DOMAIN found /\ found[r] \in Seq(Slots)
    BY <1>1 DEF ReadersTyped, ListsTyped
  <2>2. ToSet(Append(found[r], b)) = ToSet(found[r]) \cup {b}
    BY <1>2, <2>1, Appended
  <2>3. CASE match /\ ~hubIf
    <3>1. found'[r] = Append(found[r], b)
      BY <1>3, <2>1, <2>3
    <3>2. Device(b) \in settled[r] => b \in asked
      BY <1>4, <2>3
    <3> QED
      BY <2>2, <3>1, <3>2
  <2>4. CASE ~(match /\ ~hubIf)
    <3>1. found'[r] = found[r]
      BY <1>3, <2>1, <2>4
    <3>2. Device(b) \in settled[r] => b \notin asked
      BY <1>4, <2>4
    <3> QED
      BY <3>1, <3>2
  <2> QED
    BY <2>3, <2>4
<1> HIDE DEF b, asked
<1>6. ResetRight(r) /\ ResetDue(r) /\ SettledReady(r)
  BY DEF ReaderInv
<1>7. SettledReady(r)'
  BY <1>1, <1>6 DEF SettledReady, Device
<1>8. ResetRight(r)'
  <2>1. \A c \in ToSet(found'[r]) : Device(c) \in settled[r] => c \in asked
    BY <1>5, <1>6 DEF ResetRight, asked
  <2>2. \A c : Device(c)' = Device(c)
    BY <1>1 DEF Device
  <2> QED
    BY <1>1, <1>6, <2>1, <2>2 DEF ResetRight, asked
<1>9. ResetDue(r)'
  <2> SUFFICES ASSUME NEW d \in settled[r], d[1] \in asked, Device(d[1]) = d
               PROVE  d[1] \in ToSet(names'[r]) \cup ToSet(found'[r])
    BY <1>1 DEF ResetDue, Due, Device, asked
  <2>1. d[1] \in ToSet(names[r]) \cup ToSet(found[r])
    BY <1>1, <1>6 DEF ResetDue, Due, asked
  <2> QED
    BY <1>2, <1>5, <2>1
<1> QED
  BY <1>1, <1>7, <1>8, <1>9 DEF ReaderInv

LEMMA FindDevRight ==
  ASSUME ReadersTyped, NEW r \in Resetters, ReaderInv(r), FindDevReturns(r), UNCHANGED tree
  PROVE  ReaderInv(r)'
<1>1. /\ r \in Readers /\ r \notin Listers /\ cpc[r] = "read" /\ names[r] = <<>>
      /\ UNCHANGED <<wanted, names, found, node, resets, settled, devnum, ready>>
  BY ReadersAssumption DEF FindDevReturns, At, tree, Readers
<1>2. (cpc'[r] = "nomatch" /\ found[r] = <<>>) \/ cpc'[r] = "next"
  BY <1>1 DEF FindDevReturns, Goto, ReadersTyped, RunsTyped
<1>3. ResetRight(r) /\ ResetDue(r) /\ SettledReady(r)
  BY <1>1 DEF ReaderInv
<1>4. SettledReady(r)'
  BY <1>1, <1>3 DEF SettledReady, Device
<1>5. ResetRight(r)'
  BY <1>1, <1>2, <1>3 DEF ResetRight, Device
<1>6. ResetDue(r)'
  BY <1>1, <1>2, <1>3, NoneIn DEF ResetDue, Due, Device
<1> QED
  BY <1>1, <1>4, <1>5, <1>6 DEF ReaderInv

LEMMA ReadDevnumRight ==
  ASSUME ReadersTyped, NEW r \in Resetters, ReaderInv(r), ReadDevnum(r), UNCHANGED tree
  PROVE  ReaderInv(r)'
<1>1. /\ r \in Readers /\ r \notin Listers /\ cpc[r] = "next" /\ found[r] # <<>>
      /\ UNCHANGED <<wanted, names, found, resets, settled, devnum, ready>>
  BY ReadersAssumption DEF ReadDevnum, At, tree, Readers
<1>2. \/ cpc'[r] = "open" /\ node'[r] = devnum[Head(found[r])]
      \/ cpc'[r] = "failed"
  BY <1>1 DEF ReadDevnum, Goto, ReadersTyped, RunsTyped
<1>3. ResetRight(r) /\ ResetDue(r) /\ SettledReady(r)
  BY <1>1 DEF ReaderInv
<1>4. SettledReady(r)'
  BY <1>1, <1>3 DEF SettledReady, Device
<1>5. ResetRight(r)'
  <2>1. Head(found[r]) \in ToSet(found[r])
    BY <1>1, HeadAndTail DEF ReadersTyped, ListsTyped
  <2>2. cpc'[r] = "open" /\ <<Head(found[r]), node'[r]>> \in settled[r] =>
           Head(found[r]) \in wanted[r] \ HubIf
    BY <1>2, <1>3, <2>1 DEF ResetRight, Device
  <2>3. cpc'[r] \notin {"idle", "glob"}
    BY <1>2
  <2> QED
    BY <1>1, <1>3, <2>2, <2>3 DEF ResetRight, Device
<1>6. ResetDue(r)'
  <2>1. cpc'[r] \in {"open", "failed"}
    BY <1>2
  <2> QED
    BY <1>1, <1>3, <2>1 DEF ResetDue, Due, Device
<1> QED
  BY <1>1, <1>4, <1>5, <1>6 DEF ReaderInv

LEMMA ResetNodeRight ==
  ASSUME ReadersTyped, NEW r \in Resetters, ReaderInv(r), ResetNode(r), UNCHANGED tree
  PROVE  ReaderInv(r)'
<1> DEFINE b == Head(found[r])
<1>1. /\ r \in Readers /\ r \notin Listers /\ cpc[r] = "open" /\ found[r] # <<>>
      /\ UNCHANGED <<wanted, names, node, settled, devnum, ready>>
  BY ReadersAssumption DEF ResetNode, At, tree, Readers, ReadersTyped, RunsTyped
<1>2. \/ /\ devnum[b] = node[r] /\ cpc'[r] = "next"
         /\ resets'[r] = resets[r] \cup {<<b, node[r]>>} /\ found'[r] = Tail(found[r])
      \/ cpc'[r] = "failed" /\ resets'[r] = resets[r] /\ found'[r] = found[r]
  BY <1>1 DEF ResetNode, Goto, ReadersTyped, RunsTyped, ListsTyped
<1>3. ToSet(found[r]) = {b} \cup ToSet(Tail(found[r]))
  BY <1>1, HeadAndTail DEF ReadersTyped, ListsTyped
<1> HIDE DEF b
<1>4. ResetRight(r) /\ ResetDue(r) /\ SettledReady(r)
  BY <1>1 DEF ReaderInv
<1>5. SettledReady(r)'
  BY <1>1, <1>4 DEF SettledReady, Device
<1>6. ResetRight(r)'
  <2>1. <<b, node[r]>> \in settled[r] => b \in wanted[r] \ HubIf
    BY <1>1, <1>4 DEF ResetRight, b
  <2>2. \A d \in resets'[r] \cap settled[r] : d[1] \in wanted[r] \ HubIf
    <3>1. <<b, node[r]>>[1] = b
      OBVIOUS
    <3> QED
      BY <1>2, <1>4, <2>1, <3>1 DEF ResetRight
  <2>3. \A c \in ToSet(found'[r]) : Device(c)' \in settled[r] => c \in wanted[r] \ HubIf
    BY <1>1, <1>2, <1>3, <1>4 DEF ResetRight, Device
  <2>4. cpc'[r] \in {"next", "failed"}
    BY <1>2
  <2> QED
    BY <1>1, <2>2, <2>3, <2>4 DEF ResetRight
<1>7. ResetDue(r)'
  <2> SUFFICES ASSUME NEW d \in settled[r], d[1] \in wanted[r] \ HubIf, Device(d[1]) = d,
                      cpc'[r] = "next"
               PROVE  d \in resets'[r] \/ d[1] \in ToSet(found'[r])
    <3>1. cpc'[r] \in {"next", "failed"}
      BY <1>2
    <3> QED
      BY <1>1, <3>1 DEF ResetDue, Due, Device
  <2>1. d \in resets[r] \/ d[1] \in ToSet(found[r])
    BY <1>1, <1>4 DEF ResetDue, Due
  <2>2. /\ devnum[b] = node[r]
        /\ resets'[r] = resets[r] \cup {<<b, node[r]>>} /\ found'[r] = Tail(found[r])
    BY <1>2
  <2>3. d[1] = b => d = <<b, node[r]>>
    BY <2>2 DEF Device
  <2> QED
    BY <1>3, <2>1, <2>2, <2>3
<1> QED
  BY <1>1, <1>5, <1>6, <1>7 DEF ReaderInv

LEMMA ResetReturnsRight ==
  ASSUME ReadersTyped, NEW r \in Resetters, ReaderInv(r), ResetReturns(r), UNCHANGED tree
  PROVE  ReaderInv(r)'
<1>1. /\ r \in Readers /\ r \notin Listers /\ cpc[r] = "next" /\ found[r] = <<>>
      /\ cpc'[r] = "done"
      /\ UNCHANGED <<wanted, names, found, node, resets, settled, devnum, ready>>
  BY ReadersAssumption
     DEF ResetReturns, At, Goto, tree, Readers, ReadersTyped, RunsTyped
<1>2. ResetRight(r) /\ ResetDue(r) /\ SettledReady(r)
  BY <1>1 DEF ReaderInv
<1>3. SettledReady(r)'
  BY <1>1, <1>2 DEF SettledReady, Device
<1>4. ResetRight(r)'
  BY <1>1, <1>2 DEF ResetRight, Device
<1>5. ResetDue(r)'
  BY <1>1, <1>2, NoneIn DEF ResetDue, Due, Device
<1> QED
  BY <1>1, <1>3, <1>4, <1>5 DEF ReaderInv

LEMMA PrintRight ==
  ASSUME ReadersTyped, NEW l \in Listers, ReaderInv(l), PrintDevice(l), UNCHANGED tree
  PROVE  ReaderInv(l)'
<1> DEFINE b == Head(names[l])
<1>1. /\ l \in Readers /\ l \notin Resetters /\ cpc[l] = "read" /\ names[l] # <<>>
      /\ UNCHANGED <<cpc, wanted, settled, devnum, ready>>
  BY ReadersAssumption DEF PrintDevice, At, tree, Readers
<1>2. /\ names'[l] = Tail(names[l]) /\ b \in Slots
      /\ names[l] \in Seq(Slots) /\ printed[l] \in Seq(Slots)
      /\ ToSet(names[l]) = {b} \cup ToSet(Tail(names[l]))
  BY <1>1, HeadAndTail DEF PrintDevice, ReadersTyped, ListsTyped
<1>3. \/ printed'[l] = Append(printed[l], b)
      \/ printed'[l] = printed[l] /\ (Device(b) \in settled[l] => b \notin wanted[l])
  <2>1. PICK match \in Matches(l, b) :
           printed' = [printed EXCEPT ![l] = IF match THEN Append(@, b) ELSE @]
    BY DEF PrintDevice
  <2>2. l \in DOMAIN printed
    BY <1>1 DEF ReadersTyped, ListsTyped
  <2>3. ASSUME Device(b) \in settled[l] PROVE match = (b \in wanted[l])
    <3>1. Matches(l, b) = {(b \in wanted[l])}
      BY <1>1, <1>2, <2>3, OldIsSteady DEF ReaderInv
    <3> HIDE DEF b
    <3> QED
      BY <2>1, <3>1
  <2> HIDE DEF b
  <2>4. CASE match
    BY <2>1, <2>2, <2>4
  <2>5. CASE ~match
    <3>1. printed'[l] = printed[l]
      BY <2>1, <2>2, <2>5
    <3> QED
      BY <2>3, <2>5, <3>1
  <2> QED
    BY <2>4, <2>5
<1> HIDE DEF b
<1>4. ToSet(Append(printed[l], b)) = ToSet(printed[l]) \cup {b}
  BY <1>2, Appended
<1>5. ListRight(l) /\ ListDue(l) /\ SettledReady(l)
  BY <1>1 DEF ReaderInv
<1>6. SettledReady(l)'
  BY <1>1, <1>5 DEF SettledReady, Device
<1>7. Ordered(names'[l]) /\ \A c \in ToSet(names'[l]) : TreeBefore(b, c)
  BY <1>1, <1>2, <1>5, OrderedTail DEF ListRight, b
<1>8. Ordered(printed'[l])
  <2>1. \A c \in ToSet(printed[l]) : TreeBefore(c, b)
    BY <1>1, <1>2, <1>5 DEF ListRight
  <2> QED
    BY <1>2, <1>3, <1>5, <2>1, OrderedAppend DEF ListRight
<1>9. \A c \in ToSet(printed'[l]), d \in ToSet(names'[l]) : TreeBefore(c, d)
  BY <1>1, <1>2, <1>3, <1>4, <1>5, <1>7 DEF ListRight
<1>10. ListRight(l)'
  BY <1>1, <1>7, <1>8, <1>9 DEF ListRight
<1>11. ListDue(l)'
  <2> SUFFICES ASSUME NEW d \in settled[l], d[1] \in wanted[l], Device(d[1]) = d
               PROVE  d[1] \in ToSet(names'[l]) \cup ToSet(printed'[l])
    BY <1>1 DEF ListDue, Due, Device
  <2>1. d[1] \in ToSet(names[l]) \cup ToSet(printed[l])
    BY <1>1, <1>5 DEF ListDue, Due
  <2> QED
    BY <1>2, <1>3, <1>4, <2>1
<1> QED
  BY <1>1, <1>6, <1>10, <1>11 DEF ReaderInv

LEMMA ListReturnsRight ==
  ASSUME ReadersTyped, NEW l \in Listers, ReaderInv(l), ListReturns(l), UNCHANGED tree
  PROVE  ReaderInv(l)'
<1>1. /\ l \in Readers /\ l \notin Resetters /\ cpc[l] = "read" /\ names[l] = <<>>
      /\ cpc'[l] = "done" /\ UNCHANGED <<wanted, names, printed, settled, devnum, ready>>
  BY ReadersAssumption DEF ListReturns, At, Goto, tree, Readers, ReadersTyped, RunsTyped
<1>2. ListRight(l) /\ ListDue(l) /\ SettledReady(l)
  BY <1>1 DEF ReaderInv
<1>3. SettledReady(l)'
  BY <1>1, <1>2 DEF SettledReady, Device
<1>4. ListRight(l)' /\ ListDue(l)'
  BY <1>1, <1>2, NoneIn DEF ListRight, ListDue, Due, Device
<1> QED
  BY <1>1, <1>3, <1>4 DEF ReaderInv

\* No two readers share anything but the tree.
LEMMA OwnSteps ==
  ASSUME ReadersTyped, RunStep
  PROVE  \E x \in Readers :
            /\ \/ CommandBegin(x) \/ Glob(x)
               \/ /\ x \in Resetters
                  /\ \/ ReadSpec(x) \/ FindDevReturns(x) \/ ReadDevnum(x)
                     \/ ResetNode(x) \/ ResetReturns(x)
               \/ x \in Listers /\ (PrintDevice(x) \/ ListReturns(x))
            /\ \A y \in Readers \ {x} : Mine(y)' = Mine(y)
<1> USE DEF ReadersTyped, RunsTyped, ListsTyped, Mine, Goto
<1> DEFINE Others(x) == \A y \in Readers \ {x} : Mine(y)' = Mine(y)
<1>1. ASSUME NEW x \in Readers, CommandBegin(x) PROVE Others(x)
  BY <1>1 DEF CommandBegin
<1>2. ASSUME NEW x \in Readers, Glob(x) PROVE Others(x)
  BY <1>2 DEF Glob
<1>3. ASSUME NEW r \in Resetters, ReadSpec(r) PROVE Others(r)
  BY <1>3 DEF ReadSpec
<1>4. ASSUME NEW r \in Resetters, FindDevReturns(r) \/ ReadDevnum(r) \/ ResetReturns(r)
      PROVE  Others(r)
  BY <1>4 DEF FindDevReturns, ReadDevnum, ResetReturns
<1>5. ASSUME NEW r \in Resetters, ResetNode(r) PROVE Others(r)
  BY <1>5 DEF ResetNode
<1>6. ASSUME NEW l \in Listers, PrintDevice(l) \/ ListReturns(l) PROVE Others(l)
  BY <1>6 DEF PrintDevice, ListReturns
<1>7. Resetters \subseteq Readers /\ Listers \subseteq Readers
  BY DEF Readers
<1> HIDE DEF ReadersTyped, RunsTyped, ListsTyped, Mine, Goto
<1> QED
  BY <1>1, <1>2, <1>3, <1>4, <1>5, <1>6, <1>7, RunParts, Zenon

ReadersInv == ReadersTyped /\ \A x \in Readers : ReaderInv(x)

LEMMA ReadersSafe == Spec => []ReadersInv
<1>1. CommandsInit => ReadersInv
  <2> SUFFICES ASSUME CommandsInit, NEW x \in Readers PROVE ReaderInv(x)
    BY InitReaders DEF ReadersInv, ReadersTyped
  <2>1. /\ cpc[x] = "idle" /\ settled[x] = {} /\ found[x] = <<>> /\ resets[x] = {}
        /\ names[x] = <<>> /\ printed[x] = <<>>
    BY DEF CommandsInit
  <2>2. Ordered(<<>>)
    BY DEF Ordered
  <2> QED
    BY <2>1, <2>2, NoneIn
       DEF ReaderInv, SettledReady, ResetRight, ResetDue, ListRight, ListDue, Due
<1>2. ReadersInv /\ [CommandsNext]_vars => ReadersInv'
  <2> SUFFICES ASSUME ReadersInv, [CommandsNext]_vars, NEW x \in Readers PROVE ReaderInv(x)'
    BY ReadersStayTyped DEF ReadersInv
  <2>1. ReadersTyped /\ ReaderInv(x)
    BY DEF ReadersInv
  <2>2. CASE RunStep /\ UNCHANGED tree
    <3>1. PICK y \in Readers :
             /\ \/ CommandBegin(y) \/ Glob(y)
                \/ /\ y \in Resetters
                   /\ \/ ReadSpec(y) \/ FindDevReturns(y) \/ ReadDevnum(y)
                      \/ ResetNode(y) \/ ResetReturns(y)
                \/ y \in Listers /\ (PrintDevice(y) \/ ListReturns(y))
             /\ \A z \in Readers \ {y} : Mine(z)' = Mine(z)
      BY <2>1, <2>2, OwnSteps
    <3>2. CASE x # y
      <4>1. Mine(x)' = Mine(x)
        BY <3>1, <3>2
      <4> QED
        BY <2>1, <2>2, <4>1, SameReader
    <3>3. CASE x = y
      BY <2>1, <2>2, <3>1, <3>3, BeginRight, GlobRight, ReadSpecRight, FindDevRight,
         ReadDevnumRight, ResetNodeRight, ResetReturnsRight, PrintRight, ListReturnsRight,
         Zenon
    <3> QED
      BY <3>2, <3>3
  <2>3. CASE TreeChanges /\ UNCHANGED runs
    BY <2>1, <2>3, TreeReader
  <2>4. CASE UNCHANGED <<tree, runs>>
    <3>1. Mine(x)' = Mine(x)
      BY <2>4 DEF Mine, runs
    <3> QED
      BY <2>1, <2>4, <3>1, SameReader
  <2> QED
    BY <2>2, <2>3, <2>4, ReaderSteps
<1> QED
  BY <1>1, <1>2, PTL DEF Spec

\* Whatever comes and goes while "reset" looks for devices, reads their numbers
\* and opens their nodes, no device that was there when it began is reset but
\* one that its pattern matches and whose spec has no word 090000, the interface
\* by which most hubs are told (reset.go:24-36, spec.go:69).
THEOREM ResetsOnlySelected == Spec => []OnlySelected
<1>1. ReadersInv => OnlySelected
  BY DEF ReadersInv, ReaderInv, ResetRight, OnlySelected, Readers
<1> QED
  BY <1>1, ReadersSafe, PTL

\* A "reset" that ends well, or says that nothing matches, has reset every
\* matching device that was there from its beginning to its end and whose spec
\* has no word 090000 (reset.go:24-28, spec.go:69, 84-90).
THEOREM ResetIsComplete == Spec => []ResetComplete
<1>1. ReadersInv => ResetComplete
  BY DEF ReadersInv, ReaderInv, ResetDue, Due, ResetComplete, Readers
<1> QED
  BY <1>1, ReadersSafe, PTL

\* "list" prints the devices in the order of their tree, ports as numbers and
\* hubs before what is behind them, for busids of any length and any numbers of
\* four bytes; and it leaves out none that was there all along (list.go:35-78).
THEOREM ListsInTreeOrder == Spec => []ListsTree
<1>1. ReadersInv => ListsTree
  BY DEF ReadersInv, ReaderInv, ListRight, ListDue, Due, Ordered, ListsTree, Readers, At
<1> QED
  BY <1>1, ReadersSafe, PTL

=============================================================================
