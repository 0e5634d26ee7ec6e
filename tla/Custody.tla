------------------------------- MODULE Custody -------------------------------
(***************************************************************************)
(* What the exporting side promises, whatever it does inside: a device     *)
(* that is away from its own machine always has an agent that answers for  *)
(* it, and a connection that loses its device is told in the same step.    *)
(* Exporter implements it (its Kept, proved in ExporterProofs).            *)
(***************************************************************************)
CONSTANTS Devices,
          Agents,    \* whoever may answer for a device
          Conns,     \* the agents that a device may be lent to
          NoConn, NoDevice

\* What the constants must satisfy, for whoever instantiates this module.
CustodyConstants ==
  /\ Conns \subseteq Agents
  /\ NoConn \notin Conns /\ NoDevice \notin Devices

VARIABLES
  place,  \* whether a device is at the disposal of its own machine
  user,   \* the connection it is lent to
  told,   \* the connections that know they are over
  duty    \* the device an agent answers for

cvars == <<place, user, told, duty>>

CustodyTypeOK ==
  /\ place \in [Devices -> {"home", "away"}]
  /\ user \in [Devices -> Conns \cup {NoConn}]
  /\ told \subseteq Conns
  /\ duty \in [Agents -> Devices \cup {NoDevice}]

CustodyInit ==
  /\ place = [d \in Devices |-> "home"]
  /\ user = [d \in Devices |-> NoConn]
  /\ told = {}
  /\ duty = [a \in Agents |-> NoDevice]

Answers(a, d) == duty' = [duty EXCEPT ![a] = d]
MayAnswer(a, d) == duty[a] \in {NoDevice, d}

\* An agent takes a device on.
Bear(a, d) ==
  /\ duty[a] = NoDevice /\ Answers(a, d)
  /\ UNCHANGED <<place, user, told>>

\* It is rid of a device it has not the use of once that is home, or when
\* another answers for it.
LayDown(a, d) ==
  /\ duty[a] = d /\ user[d] # a /\ Answers(a, NoDevice)
  /\ place[d] = "home" \/ \E b \in Agents \ {a} : duty[b] = d
  /\ UNCHANGED <<place, user, told>>

\* Its own machine loses the device to an agent.
Fetch(a, d) ==
  /\ MayAnswer(a, d) /\ Answers(a, d)
  /\ place[d] = "home" /\ place' = [place EXCEPT ![d] = "away"]
  /\ UNCHANGED <<user, told>>

\* It gets it back, and the agent may be rid of it in that step.
Return(a, d) ==
  /\ duty[a] = d /\ (Answers(a, d) \/ Answers(a, NoDevice))
  /\ place[d] = "away" /\ place' = [place EXCEPT ![d] = "home"]
  /\ user[d] = NoConn
  /\ UNCHANGED <<user, told>>

Lend(c, d) ==
  /\ duty[c] = d /\ place[d] = "away" /\ user[d] = NoConn
  /\ user' = [user EXCEPT ![d] = c]
  /\ UNCHANGED <<place, told, duty>>

\* The loan ends, and its user is told in that very step.
Ends(d) ==
  /\ user' = [user EXCEPT ![d] = NoConn]
  /\ told' = told \cup ({user[d]} \ {NoConn})

\* An agent calls the device back, perhaps all the way home.
Recall(a, d) ==
  /\ MayAnswer(a, d) /\ Answers(a, d)
  /\ place[d] = "away" /\ Ends(d)
  /\ \E there \in {"home", "away"} : place' = [place EXCEPT ![d] = there]

\* The kernel ends a loan by itself: the agents keep their duties.
Drop(d) == place[d] = "away" /\ Ends(d) /\ UNCHANGED <<place, duty>>

\* A connection is over for another reason.
Hangup(c) == told' = told \cup {c} /\ UNCHANGED <<place, user, duty>>

CustodyNext ==
  \/ \E a \in Agents, d \in Devices :
        Bear(a, d) \/ LayDown(a, d) \/ Fetch(a, d) \/ Return(a, d) \/ Recall(a, d)
  \/ \E c \in Conns : Hangup(c) \/ \E d \in Devices : Lend(c, d)
  \/ \E d \in Devices : Drop(d)

CustodySpec == CustodyInit /\ [][CustodyNext]_cvars

-----------------------------------------------------------------------------
\* No device is ever away with nobody to answer for it.
NeverLost == \A d \in Devices : place[d] = "away" => \E a \in Agents : duty[a] = d

\* Only a connection that answers for the device has the use of it, and only
\* while the device is away.
UserAnswers ==
  \A d \in Devices : user[d] # NoConn => place[d] = "away" /\ duty[user[d]] = d
=============================================================================
