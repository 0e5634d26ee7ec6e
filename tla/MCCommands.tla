----------------------------- MODULE MCCommands -----------------------------
(* The instance of Commands for TLC: two status files of two ports each; a    *)
(* hub with a device behind it, a port with two digits, imported devices.     *)
EXTENDS Commands

\* status and status.1: a USB 2 and a USB 3 port each.
TwoFiles == <<<<1, 2>>, <<3>>>>
HubOf == [p \in 1..3 |-> IF p % 2 = 1 THEN "hs" ELSE "ss"]
SlotOf == [p \in 1..3 |-> IF p % 2 = 1 THEN <<3, p>> ELSE <<4, p>>]

Tree == {<<1, 1>>, <<1, 1, 2>>, <<1, 10>>} \cup {SlotOf[p] : p \in 1..3}

\* The characters of a busid whose numbers have one or two digits.
Digits(d) == IF d < 10 THEN <<48 + d>> ELSE <<48 + (d \div 10), 48 + (d % 10)>>
Spelling ==
  [b \in Tree |->
     FlattenSeq([i \in 1..Len(b) |->
                   (CASE i = 1 -> <<>> [] i = 2 -> <<45>> [] OTHER -> <<46>>) \o Digits(b[i])])]

\* <<1, 10>> is a hub whose interface is not 090000; a string of the USB 3
\* device behind port 2 has the word.
TreeHubs == {<<1, 1>>, <<1, 10>>}
SpecHubs == {<<1, 1>>, SlotOf[2]}
Picked == {Tree, {<<1, 1, 2>>, SlotOf[1]}}
=============================================================================
