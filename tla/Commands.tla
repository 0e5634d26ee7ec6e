------------------------------ MODULE Commands ------------------------------
(***************************************************************************)
(* The commands that work on one machine and end: "attach" and "detach" of *)
(* VhciPorts, "reset" (src/reset.go, with findDev of src/spec.go) and      *)
(* "list" (src/list.go), over the device tree of sysfs.  All of them read  *)
(* sysfs in several steps while devices come and go: those that are        *)
(* plugged in, and those that the vhci ports bring up and take away.       *)
(*                                                                         *)
(* A busid is its numbers: 1-1.2 is <<1, 1, 2>>.                           *)
(***************************************************************************)
EXTENDS VhciPorts, FiniteSets

CONSTANTS Slots,      \* the busids, roots excluded
          Name,       \* the characters of each
          Hubs,       \* those that may have devices below them
          HubIf,      \* those of devices whose specs have the word 090000
          PortSlot,   \* the busid that a vhci port's device gets
          Patterns,   \* the sets of busids that a device pattern may pick
          Resetters,  \* runs of resetMatching
          Listers,    \* runs of listDevices
          Crews,      \* bound: which commands run in the same behaviour
          MaxDevnum   \* bound: the device numbers that are given out

\* The numbers of a busid fit in four bytes, and no two busids are spelt alike.
ASSUME SlotsAssumption ==
  /\ IsFiniteSet(Slots) /\ Slots \subseteq Seq(Nat) \ {<<>>}
  /\ \A b \in Slots : \A i \in DOMAIN b : b[i] \div 256^3 < 256
  /\ Name \in [Slots -> Seq(Nat)] /\ \A b, c \in Slots : Name[b] = Name[c] => b = c
ASSUME ReadersAssumption == Resetters \cap Listers = {}
ASSUME PatternsAssumption == Patterns \subseteq SUBSET Slots
ASSUME DevnumAssumption == MaxDevnum \in Nat /\ Cardinality(Slots) <= MaxDevnum

VARIABLES
  crew,     \* the commands of this behaviour
  devnum,   \* of each busid: the number of its device, 0 when there is none
  last,     \* the last number given out
  ready,    \* the busids whose device has its interfaces
  cpc,      \* what each reset and list does next
  wanted,   \* the busids whose devices its pattern matches
  names,    \* the busids it has to read yet
  found,    \* reset: the busids that findDev found, not reset yet
  node,     \* reset: the device number it has read, 0 for none
  resets,   \* reset: the devices that were reset
  printed,  \* list: the busids it has printed
  settled   \* (history) the devices, with their interfaces, when it began

tree == <<devnum, last, ready>>
runs == <<cpc, wanted, names, found, node, resets, printed, settled>>
vars == <<portVars, crew, tree, runs>>

Readers == Resetters \cup Listers
Here(b) == devnum[b] # 0
Device(b) == <<b, devnum[b]>>
Below(b) == {c \in Slots : IsPrefix(b, c)}
Imported == {PortSlot[p] : p \in Ports}

TypeOK ==
  /\ PortTypeOK
  /\ crew \in Crews
  /\ last \in Cardinality(Slots)..MaxDevnum /\ devnum \in [Slots -> 0..last]
  /\ ready \subseteq {b \in Slots : Here(b)}
  /\ cpc \in [Readers -> {"idle", "glob", "read", "choose", "next", "open",
                          "done", "nomatch", "failed"}]
  /\ wanted \in [Readers -> SUBSET Slots]
  /\ \A x \in Readers : names[x] \in Seq(Slots) /\ found[x] \in Seq(Slots)
  /\ node \in [Readers -> 0..last] /\ \A x \in Readers : cpc[x] = "open" => node[x] # 0
  /\ \A x \in Readers : resets[x] \subseteq Slots \X (1..last)
  /\ \A x \in Readers : printed[x] \in Seq(Slots) /\ settled[x] \subseteq Slots \X (1..last)

-----------------------------------------------------------------------------
(* dvKey and nsort *)

\* Sequences of numbers compared as Go compares strings.
Less(s, t) ==
  \/ \E i \in DOMAIN s \cap DOMAIN t :
        s[i] < t[i] /\ \A j \in 1..(i - 1) : s[j] = t[j]
  \/ IsStrictPrefix(s, t)

\* A digit run as four bytes, big-endian.
bigEndian(d) == [i \in 1..4 |-> (d \div 256^(4 - i)) % 256]

\* Mutant: digit runs are left as they are.
dvKeyDigits(b) == [k \in DOMAIN Name[b] |-> IF Name[b][k] = 46 THEN 58 ELSE Name[b][k]]

\* '-' is 45, and '.', which becomes ':', is 58.
dvKey(b) ==
  [k \in 1..(5 * Len(b) - 1) |->
     CASE k = 5 -> 45 [] k > 5 /\ k % 5 = 0 -> 58
       [] OTHER -> bigEndian(b[k \div 5 + 1])[k % 5]]

\* The members of S in the order of their keys.
Sorted(S, key) ==
  LET rank == [b \in S |-> Cardinality({c \in S : ~Less(key[b], key[c])})]
  IN [k \in 1..Cardinality(S) |-> CHOOSE b \in S : rank[b] = k]

nsort(S) == Sorted(S, [b \in S |-> dvKey(b)])

-----------------------------------------------------------------------------
CommandsInit ==
  /\ PortInit
  /\ crew \in Crews /\ last = Cardinality(Slots)
  /\ \E P \in SUBSET (Slots \ Imported) :
        /\ crew \cap Readers = {} => P = {}
        /\ \A b \in P, c \in Slots \ P : ~IsStrictPrefix(c, b)
        /\ ready = P
        /\ devnum = [b \in Slots |-> IF b \in P THEN Cardinality({c \in P : ~Less(b, c)}) ELSE 0]
  /\ cpc = [x \in Readers |-> "idle"]
  /\ wanted = [x \in Readers |-> {}]
  /\ names = [x \in Readers |-> <<>>] /\ found = [x \in Readers |-> <<>>]
  /\ node = [x \in Readers |-> 0] /\ resets = [x \in Readers |-> {}]
  /\ printed = [x \in Readers |-> <<>>] /\ settled = [x \in Readers |-> {}]

At(x, label) == cpc[x] = label
Goto(x, label) == cpc' = [cpc EXCEPT ![x] = label]

CommandBegin(x) ==
  /\ At(x, "idle") /\ Goto(x, "glob")
  /\ \E S \in Patterns : wanted' = [wanted EXCEPT ![x] = S]
  /\ settled' = [settled EXCEPT ![x] = {Device(b) : b \in ready}]
  /\ UNCHANGED <<names, found, node, resets, printed>>

\* The directory entries of sysfs, in the order in which they will be read:
\* nsort's for list, and that of their names for findDev.
Glob(x) ==
  /\ At(x, "glob")
  /\ \/ /\ Goto(x, "read")
        /\ LET here == {b \in Slots : Here(b)} IN
           names' = [names EXCEPT ![x] = IF x \in Listers THEN nsort(here) ELSE Sorted(here, Name)]
     \/ x \in Listers /\ Goto(x, "failed") /\ UNCHANGED names
  /\ UNCHANGED <<wanted, found, node, resets, printed, settled>>

\* The spec of busid b is read now.  That of a device that is on its way up
\* or down, or has come since, is what was there of it: any pattern may match
\* it, and the word 090000 may be missing.  HubIf is not Hubs: the interface of
\* a hub with several transaction translators is 090001 or 090002, and a string
\* of any device may have the word.
Steady(x, b) == b \in ready /\ Device(b) \in settled[x]
Matches(x, b) == IF Steady(x, b) THEN {(b \in wanted[x])} ELSE BOOLEAN
IsHub(x, b) == IF Steady(x, b) THEN {(b \in HubIf)} ELSE {FALSE, (b \in HubIf)}

-----------------------------------------------------------------------------
(* findDev, resetMatching *)

\* Mutant: findDev does not look for the hub interface.
ReadSpecHubs(r) ==
  /\ At(r, "read") /\ names[r] # <<>>
  /\ LET b == Head(names[r]) IN
     \E match \in Matches(r, b) :
        found' = [found EXCEPT ![r] = IF match THEN Append(@, b) ELSE @]
  /\ names' = [names EXCEPT ![r] = Tail(@)]
  /\ UNCHANGED <<cpc, wanted, node, resets, printed, settled>>

ReadSpec(r) ==
  /\ At(r, "read") /\ names[r] # <<>>
  /\ LET b == Head(names[r]) IN
     \E match \in Matches(r, b), hubIf \in IsHub(r, b) :
        found' = [found EXCEPT ![r] = IF match /\ ~hubIf THEN Append(@, b) ELSE @]
  /\ names' = [names EXCEPT ![r] = Tail(@)]
  /\ UNCHANGED <<cpc, wanted, node, resets, printed, settled>>

FindDevReturns(r) ==
  /\ At(r, "read") /\ names[r] = <<>>
  /\ Goto(r, IF found[r] = <<>> THEN "nomatch" ELSE "next")
  /\ UNCHANGED <<wanted, names, found, node, resets, printed, settled>>

\* Mutant: readFile instead of xreadFile, so that no number reads as 0.
ReadDevnumUnchecked(r) ==
  /\ At(r, "next") /\ found[r] # <<>>
  /\ Goto(r, "open") /\ node' = [node EXCEPT ![r] = devnum[Head(found[r])]]
  /\ UNCHANGED <<wanted, names, found, resets, printed, settled>>

\* busnum and devnum, the second of which names the node.
ReadDevnum(r) ==
  /\ At(r, "next") /\ found[r] # <<>>
  /\ LET b == Head(found[r]) IN
     IF Here(b) THEN Goto(r, "open") /\ node' = [node EXCEPT ![r] = devnum[b]]
                ELSE Goto(r, "failed") /\ UNCHANGED node
  /\ UNCHANGED <<wanted, names, found, resets, printed, settled>>

\* Mutant: a device that cannot be reset is passed over.
ResetNodeGoesOn(r) ==
  /\ At(r, "open") /\ Goto(r, "next")
  /\ found' = [found EXCEPT ![r] = Tail(@)]
  /\ \/ /\ devnum[Head(found[r])] = node[r]
        /\ resets' = [resets EXCEPT ![r] = @ \cup {<<Head(found[r]), node[r]>>}]
     \/ UNCHANGED resets
  /\ UNCHANGED <<wanted, names, node, printed, settled>>

\* The node is gone with its device, and a device may refuse to be reset: the
\* first failure ends the command.
ResetNode(r) ==
  /\ At(r, "open")
  /\ \/ /\ devnum[Head(found[r])] = node[r] /\ Goto(r, "next")
        /\ resets' = [resets EXCEPT ![r] = @ \cup {<<Head(found[r]), node[r]>>}]
        /\ found' = [found EXCEPT ![r] = Tail(@)]
     \/ Goto(r, "failed") /\ UNCHANGED <<resets, found>>
  /\ UNCHANGED <<wanted, names, node, printed, settled>>

ResetReturns(r) ==
  /\ At(r, "next") /\ found[r] = <<>> /\ Goto(r, "done")
  /\ UNCHANGED <<wanted, names, found, node, resets, printed, settled>>

Reset(r) ==
  CommandBegin(r) \/ Glob(r) \/ ReadSpec(r) \/ FindDevReturns(r) \/ ReadDevnum(r)
    \/ ResetNode(r) \/ ResetReturns(r)

-----------------------------------------------------------------------------
(* listDevices *)

PrintDevice(l) ==
  /\ At(l, "read") /\ names[l] # <<>>
  /\ \E match \in Matches(l, Head(names[l])) :
        printed' = [printed EXCEPT ![l] = IF match THEN Append(@, Head(names[l])) ELSE @]
  /\ names' = [names EXCEPT ![l] = Tail(@)]
  /\ UNCHANGED <<cpc, wanted, found, node, resets, settled>>

ListReturns(l) ==
  /\ At(l, "read") /\ names[l] = <<>> /\ Goto(l, "done")
  /\ UNCHANGED <<wanted, names, found, node, resets, printed, settled>>

List(l) == CommandBegin(l) \/ Glob(l) \/ PrintDevice(l) \/ ListReturns(l)

-----------------------------------------------------------------------------
(* The device tree *)

Up(p) == status[p] = "used" /\ p \notin down

\* A device appears below a root or a hub that is there, or behind a vhci port.
Plug(b) ==
  /\ ~Here(b) /\ last < MaxDevnum
  /\ \A c \in Slots : IsStrictPrefix(c, b) => c \in ready /\ c \in Hubs
  /\ b \in Imported => \E p \in Ports : PortSlot[p] = b /\ Up(p)
  /\ last' = last + 1 /\ devnum' = [devnum EXCEPT ![b] = last + 1]
  /\ UNCHANGED ready

Configured(b) ==
  /\ Here(b) /\ b \notin ready /\ ready' = ready \cup {b}
  /\ UNCHANGED <<devnum, last>>

\* It goes with everything below it; behind a vhci port, only when that is down.
Unplug(b) ==
  /\ Here(b)
  /\ b \in Imported => \A p \in Ports : PortSlot[p] = b => ~Up(p)
  /\ devnum' = [c \in Slots |-> IF c \in Below(b) THEN 0 ELSE devnum[c]]
  /\ ready' = ready \ Below(b)
  /\ UNCHANGED last

\* Bound: the tree changes only while one of the crew reads it.
TreeChanges ==
  /\ crew \cap Readers # {}
  /\ \E b \in Slots : Plug(b) \/ Configured(b) \/ Unplug(b)

\* An imported device gets its address when the one before it is gone.
MachineChanges ==
  /\ VhciDriver
  /\ \A p \in Ports : status[p] = "notassigned" /\ status'[p] = "used" => ~Here(PortSlot[p])

-----------------------------------------------------------------------------
CommandsNext ==
  \/ /\ \/ \E a \in Attachers \cap crew : AttachBegin(a) \/ AttachRuns(a)
        \/ \E u \in Detachers \cap crew : DetachBegin(u) \/ DetachRuns(u)
        \/ MachineChanges
     /\ UNCHANGED <<crew, tree, runs>>
  \/ /\ \/ \E r \in Resetters \cap crew : Reset(r)
        \/ \E l \in Listers \cap crew : List(l)
     /\ UNCHANGED <<portVars, crew, tree>>
  \/ TreeChanges /\ UNCHANGED <<portVars, crew, runs>>

Spec == CommandsInit /\ [][CommandsNext]_vars

-----------------------------------------------------------------------------
\* "reset" acts on busids that findDev found some time before, and on whatever
\* device has the busid when its number is read (reset.go:24-36): of the
\* devices that were there when the command began, it resets none that the
\* pattern does not match, and none whose spec has the word of a hub
\* (spec.go:69).  A hub without the word is a device like any other, and so is
\* one that has taken a busid since: they may be reset.
OnlySelected ==
  \A r \in Resetters : \A d \in resets[r] \cap settled[r] : d[1] \in wanted[r] \ HubIf

\* "reset" that ends well, or finds nothing that matches, has reset every
\* matching device that was there when it began and still is, unless its spec
\* has the word of a hub (reset.go:24-28, spec.go:69, 84-90): what came and went
\* meanwhile hides none of them.
ResetComplete ==
  \A r \in Resetters : cpc[r] \in {"done", "nomatch"} =>
     \A d \in settled[r] : d[1] \in wanted[r] \ HubIf /\ Device(d[1]) = d => d \in resets[r]

\* The order of a tree in which ports are numbers.
TreeBefore(b, c) ==
  \/ IsStrictPrefix(b, c)
  \/ \E i \in DOMAIN b \cap DOMAIN c : b[i] < c[i] /\ SubSeq(b, 1, i - 1) = SubSeq(c, 1, i - 1)

\* "list" prints a hub before what is behind it and ports in numeric order
\* (list.go:35-55, list_test.go:32), each device once, and by its end every
\* matching device that was there all along (list.go:67-78).
ListsTree ==
  \A l \in Listers :
     /\ \A i, j \in DOMAIN printed[l] : i < j => TreeBefore(printed[l][i], printed[l][j])
     /\ At(l, "done") => \A d \in settled[l] :
           d[1] \in wanted[l] /\ Device(d[1]) = d => d[1] \in ToSet(printed[l])
=============================================================================
