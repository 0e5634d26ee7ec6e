---------------------------- MODULE CustodyProofs ----------------------------
(***************************************************************************)
(* What follows from passing custody on without a gap, for any devices,    *)
(* agents and connections.                                                 *)
(***************************************************************************)
EXTENDS Custody, TLAPS

\* A device away from home is somebody's, and only such a device is lent out,
\* to a connection that answers for it: the two are inductive together.
CustodyInv == CustodyTypeOK /\ NeverLost /\ UserAnswers

THEOREM CustodyHolds == ASSUME CustodyConstants PROVE CustodySpec => []CustodyInv
<1>1. CustodyInit => CustodyInv
  BY CustodyConstants DEF CustodyConstants, CustodyInit, CustodyInv, CustodyTypeOK, NeverLost, UserAnswers
<1>2. CustodyInv /\ [CustodyNext]_cvars => CustodyInv'
  <2> SUFFICES ASSUME CustodyInv, [CustodyNext]_cvars PROVE CustodyInv'
    OBVIOUS
  <2> USE DEF CustodyConstants, CustodyInv, CustodyTypeOK, NeverLost, UserAnswers, Answers,
              MayAnswer, Ends
  <2>1. ASSUME NEW a \in Agents, NEW d \in Devices, Bear(a, d) PROVE CustodyInv'
    BY <2>1 DEF Bear
  <2>2. ASSUME NEW a \in Agents, NEW d \in Devices, LayDown(a, d) PROVE CustodyInv'
    BY <2>2 DEF LayDown
  <2>3. ASSUME NEW a \in Agents, NEW d \in Devices, Fetch(a, d) PROVE CustodyInv'
    BY <2>3 DEF Fetch
  <2>4. ASSUME NEW a \in Agents, NEW d \in Devices, Return(a, d) PROVE CustodyInv'
    BY <2>4 DEF Return
  <2>5. ASSUME NEW a \in Agents, NEW d \in Devices, Recall(a, d) PROVE CustodyInv'
    BY <2>5 DEF Recall
  <2>6. ASSUME NEW c \in Conns, Hangup(c) PROVE CustodyInv'
    BY <2>6 DEF Hangup
  <2>7. ASSUME NEW c \in Conns, NEW d \in Devices, Lend(c, d) PROVE CustodyInv'
    BY <2>7 DEF Lend
  <2>8. ASSUME NEW d \in Devices, Drop(d) PROVE CustodyInv'
    BY <2>8 DEF Drop
  <2>9. CASE UNCHANGED cvars
    BY <2>9 DEF cvars
  <2>q. QED
    BY <2>1, <2>2, <2>3, <2>4, <2>5, <2>6, <2>7, <2>8, <2>9 DEF CustodyNext
<1>q. QED
  BY <1>1, <1>2, PTL DEF CustodySpec
=============================================================================
