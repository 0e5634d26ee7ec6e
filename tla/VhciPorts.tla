------------------------------ MODULE VhciPorts ------------------------------
(***************************************************************************)
(* The importer side of src/usbip.go: any number of attaches               *)
(* (findVhciAndPort, importerAttach) and "detach" commands                 *)
(* (importerDetach) that read the vhci status files one at a time, on one  *)
(* machine, against ports that change under them.  The vhci_hcd driver is  *)
(* external: a port is taken by the write to attach, gets its device an    *)
(* address some time later, and is freed some time after the write to      *)
(* detach or after its connection is lost.                                 *)
(***************************************************************************)
EXTENDS Naturals, Sequences, SequencesExt

CONSTANTS Files,      \* the status files in Glob's order: each the ports it lists
          Hub,        \* the hub, "hs" or "ss", that a port belongs to
          Attachers,  \* runs of importerAttach
          Detachers,  \* runs of importerDetach
          Speeds      \* the speed strings that are announced

Ports == UNION {ToSet(Files[i]) : i \in 1..Len(Files)}
NoPort == 0

ASSUME FilesAssumption ==
  /\ Files \in Seq(Seq(Nat \ {NoPort})) /\ Hub \in [Ports -> {"hs", "ss"}]
ASSUME ImportersAssumption == Attachers \cap Detachers = {}

VARIABLES
  loaded,  \* vhci-hcd is loaded, so that there are status files
  status,  \* of each port
  down,    \* the ports that the driver is about to free
  ipc,     \* what each attach and detach does next
  file,    \* the status file it reads next
  speed,   \* importerAttach: speedStr
  port,    \* importerAttach: the port it chose; importerDetach: where a write failed
  want,    \* importerDetach: the ports of the devices it was asked to detach
  lines,   \* importerDetach: the lines with a used port, not done yet, of the file
           \* it has read
  n,       \* importerDetach: it has detached something
  attached,\* importerDetach: it has seen something attached
  began,   \* (history) attach: the ports free when it began, then the one it chose;
           \* detach: the wanted ports that were up when it began
  gone,    \* (history) attach: the ports taken since; detach: those freed, or about
           \* to be, since
  freed    \* (history) detach: the ports freed since it read the lines it is at

kernel == <<loaded, status, down>>
registers == <<file, speed, port, want, lines, n, attached>>
history == <<began, gone, freed>>
portVars == <<kernel, ipc, registers, history>>

Importers == Attachers \cup Detachers
AttachPC == {"idle", "probe", "scan", "attach", "attached", "busy", "noport", "failed"}
DetachPC == {"idle", "read", "lines", "done", "none", "nomatch", "failed"}

PortTypeOK ==
  /\ loaded \in BOOLEAN
  /\ status \in [Ports -> {"null", "notassigned", "used"}]
  /\ down \subseteq {p \in Ports : status[p] # "null"}
  /\ ipc \in [Importers -> AttachPC \cup DetachPC]
  /\ file \in [Importers -> 1..Len(Files) + 1]
  /\ speed \in [Attachers -> Speeds \cup {"unset"}]
  /\ port \in [Importers -> Ports \cup {NoPort}]
  /\ want \in [Detachers -> SUBSET Ports]
  /\ lines \in [Detachers -> SUBSET (Nat \ {0})]
  /\ \A u \in Detachers : \A i \in lines[u] :
        file[u] > 1 /\ i \in DOMAIN Files[file[u] - 1]
  /\ n \in [Detachers -> BOOLEAN] /\ attached \in [Detachers -> BOOLEAN]
  /\ began \in [Importers -> SUBSET Ports] /\ gone \in [Importers -> SUBSET Ports]
  /\ freed \in [Detachers -> SUBSET Ports]

PortInit ==
  /\ loaded = FALSE /\ status = [p \in Ports |-> "null"] /\ down = {}
  /\ ipc = [x \in Importers |-> "idle"] /\ file = [x \in Importers |-> 1]
  /\ speed = [a \in Attachers |-> "unset"] /\ port = [x \in Importers |-> NoPort]
  /\ want = [u \in Detachers |-> {}]
  /\ lines = [u \in Detachers |-> {}]
  /\ n = [u \in Detachers |-> FALSE] /\ attached = [u \in Detachers |-> FALSE]
  /\ began = [x \in Importers |-> {}] /\ gone = [x \in Importers |-> {}]
  /\ freed = [u \in Detachers |-> {}]

Go(x, label) == ipc' = [ipc EXCEPT ![x] = label]
Is(x, label) == ipc[x] = label
UsedPorts == {p \in Ports : status[p] = "used"}
FreePorts == {p \in Ports : status[p] = "null"}

\* What is noted of port p as it is taken, and as it is freed or about to be.
Noted(p, S) == gone' = [x \in Importers |-> IF x \in S THEN gone[x] \cup {p} ELSE gone[x]]
Taken(p) == Noted(p, Attachers)
Leaves(p) == Noted(p, Detachers)

-----------------------------------------------------------------------------
(* importerAttach *)

speedSuper == 5

speedCode(s) ==
  CASE s = "1.5" -> 1 [] s = "12" -> 2 [] s = "480" -> 3 [] s = "5000" -> speedSuper
    [] s \in {"10000", "20000"} -> 6 [] OTHER -> 3

hub(s) == IF speedCode(s) >= speedSuper THEN "ss" ELSE "hs"

AttachBegin(a) ==
  /\ Is(a, "idle") /\ Go(a, "probe")
  /\ \E s \in Speeds : speed' = [speed EXCEPT ![a] = s]
  /\ began' = [began EXCEPT ![a] = FreePorts] /\ gone' = [gone EXCEPT ![a] = {}]
  /\ UNCHANGED <<kernel, file, port, want, lines, n, attached, freed>>

\* modprobe, which may fail, when vhci-hcd is not there.
LoadVhci(a) ==
  /\ Is(a, "probe")
  /\ \/ loaded' = TRUE /\ Go(a, "scan")
     \/ ~loaded /\ Go(a, "failed") /\ UNCHANGED loaded
  /\ UNCHANGED <<status, down, registers, history>>

\* Mutant: a port that is not in use yet passes for a free one.
SuitableUnused(p, s) == status[p] # "used" /\ Hub[p] = hub(s)

Suitable(p, s) == status[p] = "null" /\ Hub[p] = hub(s)

\* The first suitable port of the next status file.
ScanFile(a) ==
  /\ Is(a, "scan") /\ file[a] <= Len(Files)
  /\ LET entries == Files[file[a]]
         suitable == {i \in DOMAIN entries : Suitable(entries[i], speed[a])}
     IN \/ \E i \in suitable :
              /\ \A j \in suitable : i <= j
              /\ Go(a, "attach") /\ port' = [port EXCEPT ![a] = entries[i]]
              /\ began' = [began EXCEPT ![a] = {entries[i]}]
              /\ gone' = [gone EXCEPT ![a] = {}]
              /\ UNCHANGED file
        \/ /\ suitable = {} /\ file' = [file EXCEPT ![a] = @ + 1]
           /\ UNCHANGED <<ipc, port, began, gone>>
  /\ UNCHANGED <<kernel, speed, want, lines, n, attached, freed>>

ScanFails(a) ==
  /\ Is(a, "scan") /\ file[a] > Len(Files) /\ Go(a, "noport")
  /\ UNCHANGED <<kernel, registers, history>>

\* The driver takes a port that is free, and refuses any other.
WriteAttach(a) ==
  /\ Is(a, "attach")
  /\ IF status[port[a]] = "null"
       THEN /\ status' = [status EXCEPT ![port[a]] = "notassigned"]
            /\ Taken(port[a]) /\ Go(a, "attached")
       ELSE Go(a, "busy") /\ UNCHANGED <<status, gone>>
  /\ UNCHANGED <<loaded, down, registers, began, freed>>

AttachRuns(a) == LoadVhci(a) \/ ScanFile(a) \/ ScanFails(a) \/ WriteAttach(a)

-----------------------------------------------------------------------------
(* importerDetach *)

\* There are no status files before vhci-hcd is loaded.
DetachBegin(u) ==
  /\ Is(u, "idle") /\ Go(u, "read")
  /\ file' = [file EXCEPT ![u] = IF loaded THEN 1 ELSE Len(Files) + 1]
  /\ \E S \in SUBSET Ports \ {{}} :
        /\ want' = [want EXCEPT ![u] = S]
        /\ began' = [began EXCEPT ![u] = (UsedPorts \ down) \cap S]
  /\ gone' = [gone EXCEPT ![u] = {}]
  /\ UNCHANGED <<kernel, speed, port, lines, n, attached, freed>>

\* Mutant: the status column is not looked at.
ReadStatusFileAll(u) ==
  /\ Is(u, "read") /\ file[u] <= Len(Files) /\ Go(u, "lines")
  /\ file' = [file EXCEPT ![u] = @ + 1]
  /\ lines' = [lines EXCEPT ![u] = DOMAIN Files[file[u]]]
  /\ freed' = [freed EXCEPT ![u] = {}]
  /\ UNCHANGED <<kernel, speed, port, want, n, attached, began, gone>>

\* The lines of the next status file whose ports are in use: a device that has
\* no address yet is passed over.
ReadStatusFile(u) ==
  /\ Is(u, "read") /\ file[u] <= Len(Files) /\ Go(u, "lines")
  /\ file' = [file EXCEPT ![u] = @ + 1]
  /\ lines' = [lines EXCEPT ![u] =
                {i \in DOMAIN Files[file[u]] : status[Files[file[u]][i]] = "used"}]
  /\ freed' = [freed EXCEPT ![u] = {}]
  /\ UNCHANGED <<kernel, speed, port, want, n, attached, began, gone>>

\* Line i of the status file that u has read is the next one, and lists port p.
NextLine(u, i, p) ==
  /\ Is(u, "lines") /\ i \in lines[u] /\ \A j \in lines[u] : i <= j
  /\ p = Files[file[u] - 1][i]

\* Mutant: the first device that was not asked for ends the file.
SkipLineBreaks(u) ==
  /\ \E i \in lines[u], p \in Ports \ want[u] : NextLine(u, i, p)
  /\ lines' = [lines EXCEPT ![u] = {}]
  /\ attached' = [attached EXCEPT ![u] = TRUE]
  /\ UNCHANGED <<kernel, ipc, file, speed, port, want, n, history>>

SkipLine(u) ==
  /\ \E i \in lines[u], p \in Ports \ want[u] :
        NextLine(u, i, p) /\ lines' = [lines EXCEPT ![u] = @ \ {i}]
  /\ attached' = [attached EXCEPT ![u] = TRUE]
  /\ UNCHANGED <<kernel, ipc, file, speed, port, want, n, history>>

\* The write fails for a port that is free again, and ends the command.
DetachLine(u) ==
  /\ \E i \in lines[u], p \in want[u] :
        /\ NextLine(u, i, p)
        /\ \/ /\ status[p] # "null" /\ down' = down \cup {p}
              /\ Leaves(p) /\ n' = [n EXCEPT ![u] = TRUE]
              /\ lines' = [lines EXCEPT ![u] = @ \ {i}]
              /\ UNCHANGED <<ipc, port>>
           \/ /\ status[p] = "null" /\ Go(u, "failed") /\ port' = [port EXCEPT ![u] = p]
              /\ UNCHANGED <<down, gone, n, lines>>
  /\ attached' = [attached EXCEPT ![u] = TRUE]
  /\ UNCHANGED <<loaded, status, file, speed, want, began, freed>>

LinesEnd(u) ==
  /\ Is(u, "lines") /\ lines[u] = {} /\ Go(u, "read")
  /\ UNCHANGED <<kernel, registers, history>>

DetachReturns(u) ==
  /\ Is(u, "read") /\ file[u] > Len(Files)
  /\ Go(u, IF ~attached[u] THEN "none" ELSE IF ~n[u] THEN "nomatch" ELSE "done")
  /\ UNCHANGED <<kernel, registers, history>>

DetachRuns(u) ==
  ReadStatusFile(u) \/ SkipLine(u) \/ DetachLine(u) \/ LinesEnd(u) \/ DetachReturns(u)

-----------------------------------------------------------------------------
(* The vhci_hcd driver *)

others == <<ipc, registers, began>>

Enumerated(p) ==
  /\ status[p] = "notassigned" /\ p \notin down
  /\ status' = [status EXCEPT ![p] = "used"]
  /\ UNCHANGED <<loaded, down, gone, freed, others>>

ConnLost(p) ==
  /\ status[p] # "null" /\ p \notin down
  /\ down' = down \cup {p}
  /\ Leaves(p)
  /\ UNCHANGED <<loaded, status, freed, others>>

Freed(p) ==
  /\ p \in down
  /\ status' = [status EXCEPT ![p] = "null"] /\ down' = down \ {p}
  /\ Leaves(p)
  /\ freed' = [u \in Detachers |-> IF Is(u, "lines") THEN freed[u] \cup {p} ELSE freed[u]]
  /\ UNCHANGED <<loaded, others>>

VhciDriver == \E p \in Ports : Enumerated(p) \/ ConnLost(p) \/ Freed(p)

-----------------------------------------------------------------------------
\* importerAttach looks and then takes, with nothing to hold the port meanwhile
\* (usbip.go:94-100): its write fails only because another attach was faster,
\* and it reports that there is no suitable port only if every port of that hub
\* was taken at some moment since it began.
AttachFailsBeaten ==
  \A a \in Attachers :
     /\ Is(a, "busy") => port[a] \in gone[a]
     /\ Is(a, "noport") => \A p \in began[a] : Hub[p] = hub(speed[a]) => p \in gone[a]

\* Unless a write fails, "detach" has reached every wanted device that was up
\* when it began, whatever other commands and connections did to the ports it
\* had read, and also when it says that there was nothing to do
\* (usbip.go:132-138).
DetachReaches ==
  \A u \in Detachers : ipc[u] \in {"done", "none", "nomatch"} => began[u] \subseteq gone[u]

\* A write of "detach" that fails, and with it the rest of the command
\* (usbip.go:126-128), means that the driver freed this port after the status
\* file that listed it in use was read.
DetachFailsStale ==
  \A u \in Detachers : Is(u, "failed") => port[u] \in freed[u]
=============================================================================
