------------------------- MODULE RemoteCommandProofs -------------------------
(***************************************************************************)
(* The safety invariants of the handshake and of the commands on HOST,     *)
(* proved for any number of tries, lines and buffered lines.               *)
(***************************************************************************)
EXTENDS RemoteCommand, FiniteSetTheorems, SequenceTheorems, TLAPS

\* CommandTypeOK in three parts: the provers take numbers and flags apart, and
\* shown <= said needs more than types.
Flags == killed \in BOOLEAN /\ warned \in BOOLEAN
Scalars ==
  /\ mode \in {"plain", "sudo", "sudoPrompt"} /\ rule \in {"ask", "nopasswd"}
  /\ lpc \in {"dial", "send", "scan", "ship", "wait", "auth", "ask", "ok", "failed"}
  /\ outcome \in {"auth", "failed"}
  /\ tries \in Nat /\ sudoPass \in Passwords
  /\ ssh \in {"none", "up", "gone"}
  /\ rpc \in {"none", "sudo", "shell", "read", "payload", "gone"}
  /\ read \in Passwords \cup {Blob, "nothing"}
  /\ mpc \in {"start", "copy", "reap", "exited"}
  /\ exit \in {0, 1, 255, 64 + SIGTERM}
  /\ status \in {Exit(0), Exit(1), Exit(255), Signal(SIGTERM)}
  /\ job \in {"none", "running", "zero", "one"}
  /\ said \in 0..MaxLines /\ shown \in Nat

\* dialRemote writes at most twice: the password, then the blob.
Streams ==
  /\ stdin \in Seq(Passwords \cup {Blob}) /\ Len(stdin) <= 2
  /\ output \in Seq(Lines) /\ Len(output) <= MaxOutput
  /\ lpc = "send" => stdin = <<>>
  /\ lpc \in {"scan", "ship"} => Len(stdin) <= 1

Typed == Flags /\ Scalars /\ Streams

\* A dial is the first one, or one that --sudo-prompt allows.
TriesInv ==
  /\ mode # "sudoPrompt" => tries <= (IF lpc = "dial" THEN 0 ELSE 1) /\ lpc # "ask"
  /\ mode = "sudoPrompt" => tries <= maxSudoTries
  /\ mode = "sudoPrompt" /\ lpc \in {"dial", "ask"} => tries < maxSudoTries

\* Where a password may be in stdin: in front, while sudo asks for it.
SudoTakesIt == mode # "sudoPrompt" \/ rule # "nopasswd"
FramedInv ==
  SudoTakesIt =>
    /\ read \notin Passwords
    /\ lpc = "send" => mode = "sudoPrompt" /\ rpc \in {"sudo", "gone"}
    /\ \A i \in 2..Len(stdin) : stdin[i] = Blob
    /\ mode # "sudoPrompt" \/ rpc \in {"shell", "read"} => \A i \in 1..Len(stdin) : stdin[i] = Blob

\* The operation runs only once all of the handshake is over.
JobInv ==
  /\ \A i \in 1..Len(stdin) : stdin[i] = Blob => lpc = "ok"
  /\ rpc = "payload" => lpc = "ok"
  /\ job # "none" => lpc = "ok" /\ rpc \in {"payload", "gone"}
  /\ job = "none" => said = 0
  /\ mpc \in {"copy", "reap"} => lpc = "ok"
  /\ mpc = "exited" => lpc \in {"ok", "failed"}

\* Lines of the operation that wait in the output.
Said(line) == line \in {"line", "longLine"}
WaitingAt(s) == {i \in 1..Len(s) : Said(s[i])}
Waiting(s) == Cardinality(WaitingAt(s))
CountInv == said = shown + Waiting(output)

\* What the exit status of ssh, and then the one of the command, stand for.
StatusInv ==
  /\ ssh = "gone" /\ status = Exit(0) => job = "zero"
  /\ mpc = "reap" => warned \/ (ssh = "gone" /\ (status = Exit(0) => shown = said))
  /\ ExitStatus

-----------------------------------------------------------------------------
\* What reading and writing do to a stream.
LEMMA Reading ==
  ASSUME NEW S, NEW s \in Seq(S), s # <<>>
  PROVE  /\ Head(s) \in S /\ Head(s) = s[1] /\ Len(s) \in Nat \ {0}
         /\ Tail(s) \in Seq(S) /\ Len(Tail(s)) = Len(s) - 1
         /\ \A i \in 1..Len(Tail(s)) : i + 1 \in 1..Len(s) /\ Tail(s)[i] = s[i + 1]
  OBVIOUS

LEMMA Writing ==
  ASSUME NEW S, NEW s \in Seq(S), NEW e \in S
  PROVE  /\ Append(s, e) \in Seq(S) /\ Len(Append(s, e)) = Len(s) + 1 /\ Len(s) \in Nat
         /\ \A i \in 1..Len(s) : Append(s, e)[i] = s[i]
         /\ Append(s, e)[Len(s) + 1] = e
  OBVIOUS

LEMMA FlagsStep == Flags /\ [CommandNext]_allVars => Flags'
<1> SUFFICES ASSUME Flags, [CommandNext]_allVars PROVE Flags'
  OBVIOUS
<1> USE DEF Flags, vars, local
<1>1. CASE remoteSimple
  BY <1>1 DEF remoteSimple, StartFails, StartReturns, CopyLine, ScanFails, OutputEnds, Reap
<1>2. CASE remoteMain
  BY <1>2 DEF remoteMain, Says, OperationEnds
<1>3. CASE SshEndsWith \/ LinkDropsWith
  BY <1>3 DEF SshEndsWith, LinkDropsWith, SshEnds, LinkDrops, unended
<1>4. CASE Handshakes
  BY <1>4 DEF Handshakes, Local, Dial, Waited, SendPassword, ReadLine, Rejected, EndOfOutput, Ship, ShipFails,
     AuthFailed, Timeout, AskPassword, SshPrints, Sudo, Shell, ShellReads, RemoteEnds, GiveUp
<1>5. CASE UNCHANGED allVars
  BY <1>5 DEF allVars, commandVars
<1>q. QED
  BY <1>1, <1>2, <1>3, <1>4, <1>5 DEF CommandNext

LEMMA ScalarsStep == Scalars /\ Streams /\ [CommandNext]_allVars => Scalars'
<1> SUFFICES ASSUME Scalars, Streams, [CommandNext]_allVars PROVE Scalars'
  OBVIOUS
<1> USE DEF Scalars, vars, options, local, remote
<1>1. CASE remoteSimple
  <2>1. CASE StartFails \/ StartReturns \/ OutputEnds \/ ScanFails
    BY <2>1 DEF StartFails, StartReturns, ScanFails, OutputEnds
  <2>3. CASE CopyLine
    <3>1. /\ shown' \in {shown, shown + 1}
          /\ UNCHANGED <<options, lpc, outcome, tries, sudoPass, ssh, rpc, read, mpc, exit, status,
                         job, said>>
      BY <2>3 DEF CopyLine
    <3>q. QED
      BY <3>1
  <2>2. CASE Reap
    <3>1. waitExit(status) \in {0, 1, 255, 64 + SIGTERM}
      BY DEF waitExit, Exit, Signal, SIGTERM
    <3>q. QED
      BY <2>2, <3>1 DEF Reap
  <2>q. QED
    BY <1>1, <2>1, <2>2, <2>3 DEF remoteSimple
<1>2. CASE remoteMain
  <2>1. ASSUME NEW line, Says(line) PROVE Scalars'
    BY <2>1, MaxLinesAssumption DEF Says
  <2>2. CASE OperationEnds
    BY <2>2 DEF OperationEnds
  <2>q. QED
    BY <1>2, <2>1, <2>2 DEF remoteMain
<1>3. CASE SshEndsWith \/ LinkDropsWith
  BY <1>3 DEF SshEndsWith, LinkDropsWith, SshEnds, LinkDrops, unended
<1>4. CASE Handshakes
  <2> USE DEF GiveUp
  <2>h. UNCHANGED <<mpc, exit, status, said, shown>> /\ JobChanges
    BY <1>4 DEF Handshakes
  <2>1. CASE Dial
    BY <2>h, <2>1 DEF Dial, JobChanges
  <2>2. CASE Waited \/ AuthFailed \/ AskPassword \/ EndOfOutput \/ Timeout \/ RemoteEnds
    BY <2>h, <2>2 DEF Waited, AuthFailed, AskPassword, EndOfOutput, Timeout, RemoteEnds, JobChanges
  <2>3. CASE SendPassword \/ Ship \/ ShipFails
    BY <2>h, <2>3 DEF SendPassword, Ship, ShipFails, JobChanges
  <2>4. CASE ReadLine
    <3>1. /\ lpc' \in {"ship", "scan"} /\ UNCHANGED job
          /\ UNCHANGED <<options, outcome, tries, sudoPass, ssh, rpc, read>>
      BY <2>h, <2>4 DEF ReadLine, JobChanges
    <3>q. QED
      BY <2>h, <3>1
  <2>r. CASE Rejected
    BY <2>h, <2>r DEF Rejected, JobChanges
  <2>5. CASE SshPrints \/ Shell
    <3>1. rpc' \in {rpc, "read", "gone"} /\ UNCHANGED <<local, ssh, read, job>>
      BY <2>h, <2>5 DEF SshPrints, Shell, JobChanges
    <3>q. QED
      BY <2>h, <3>1
  <2>s. CASE Sudo
    <3>1. rpc' \in {rpc, "shell", "gone"} /\ UNCHANGED <<local, ssh, read, job>>
      BY <2>h, <2>s DEF Sudo, JobChanges
    <3>q. QED
      BY <2>h, <3>1
  <2>6. CASE ShellReads
    BY <2>h, <2>6, Reading DEF ShellReads, JobChanges, Streams
  <2>q. QED
    BY <1>4, <2>1, <2>2, <2>3, <2>4, <2>r, <2>5, <2>s, <2>6 DEF Local, Handshakes
<1>5. CASE UNCHANGED allVars
  BY <1>5 DEF allVars, commandVars
<1>q. QED
  BY <1>1, <1>2, <1>3, <1>4, <1>5 DEF CommandNext

LEMMA StreamsStep == Scalars /\ Streams /\ [CommandNext]_allVars => Streams'
<1> SUFFICES ASSUME Scalars, Streams, [CommandNext]_allVars PROVE Streams'
  OBVIOUS
<1> USE DEF Streams, vars, options, local, remote, Prints
<1>i. stdin # <<>> => /\ Tail(stdin) \in Seq(Passwords \cup {Blob})
                      /\ Len(Tail(stdin)) <= 2 /\ (Len(stdin) <= 1 => Len(Tail(stdin)) <= 1)
  BY Reading
<1>o. output # <<>> => Tail(output) \in Seq(Lines) /\ Len(Tail(output)) <= MaxOutput
  BY Reading, HandshakeAssumption
<1>p. ASSUME NEW line \in Lines, Prints(line) PROVE output' \in Seq(Lines) /\ Len(output') <= MaxOutput
  BY <1>p, Writing, HandshakeAssumption
<1> HIDE DEF Prints
<1>1. CASE remoteSimple
  <2>1. CASE StartFails \/ StartReturns \/ OutputEnds \/ Reap
    BY <2>1 DEF StartFails, StartReturns, OutputEnds, Reap
  <2>2. CASE ScanFails
    BY <2>2 DEF ScanFails
  <2>3. CASE CopyLine
    BY <2>3, <1>o DEF CopyLine
  <2>q. QED
    BY <1>1, <2>1, <2>2, <2>3 DEF remoteSimple
<1>2. CASE remoteMain
  BY <1>2, <1>p DEF remoteMain, Says, OperationEnds, Lines
<1>3. CASE SshEndsWith \/ LinkDropsWith
  BY <1>3 DEF SshEndsWith, LinkDropsWith, SshEnds, LinkDrops
<1>4. CASE Handshakes
  <2> USE DEF GiveUp, Write
  <2>1. CASE Dial
    <3>1. CASE stdin' = <<>> /\ output' = <<>>
      BY <3>1, HandshakeAssumption
    <3>2. CASE UNCHANGED <<stdin, output>> /\ lpc' = "failed"
      BY <3>2
    <3>q. QED
      BY <2>1, <3>1, <3>2 DEF Dial
  <2>2. CASE Waited \/ AuthFailed \/ AskPassword \/ EndOfOutput \/ Timeout
    <3>1. UNCHANGED <<stdin, output>> /\ lpc' \notin {"send", "scan", "ship"}
      BY <2>2 DEF Waited, AuthFailed, AskPassword, EndOfOutput, Timeout, Scalars
    <3>q. QED
      BY <3>1
  <2>e. CASE RemoteEnds
    BY <2>e DEF RemoteEnds
  <2>3. CASE SendPassword \/ Ship \/ ShipFails
    <3>1. ASSUME NEW e \in Passwords \cup {Blob}, Write(e), Len(stdin) <= 1
          PROVE  /\ stdin' \in Seq(Passwords \cup {Blob}) /\ Len(stdin') <= 2
                 /\ Len(stdin) = 0 => Len(stdin') <= 1
      BY <3>1, Writing
    <3>2. CASE SendPassword
      BY <2>3, <3>1, <3>2 DEF SendPassword, Scalars
    <3>3. CASE Ship \/ ShipFails
      BY <2>3, <3>1, <3>3 DEF Ship, ShipFails
    <3>q. QED
      BY <2>3, <3>2, <3>3
  <2>4. CASE ReadLine \/ Rejected
    BY <2>4, <1>o DEF ReadLine, Rejected, SudoFailed, Line
  <2>5. CASE SshPrints \/ Shell
    BY <2>5, <1>p DEF SshPrints, Shell, Lines
  <2>6. CASE Sudo
    BY <2>6, <1>i, <1>p DEF Sudo, Lines
  <2>7. CASE ShellReads
    BY <2>7, <1>i DEF ShellReads
  <2>q. QED
    BY <1>4, <2>1, <2>2, <2>e, <2>3, <2>4, <2>5, <2>6, <2>7 DEF Local, Handshakes
<1>5. CASE UNCHANGED allVars
  BY <1>5 DEF allVars, commandVars
<1>q. QED
  BY <1>1, <1>2, <1>3, <1>4, <1>5 DEF CommandNext

LEMMA TypedAlways == CommandSpec => []Typed
<1>1. CommandInit => Typed
  <2> SUFFICES ASSUME CommandInit PROVE Typed
    OBVIOUS
  <2>1. Flags
    BY DEF CommandInit, Init, Flags
  <2>2. Scalars
    BY MaxLinesAssumption DEF CommandInit, Init, Scalars
  <2>3. Streams
    BY HandshakeAssumption DEF CommandInit, Init, Streams
  <2>q. QED
    BY <2>1, <2>2, <2>3 DEF Typed
<1>2. Typed /\ [CommandNext]_allVars => Typed'
  BY FlagsStep, ScalarsStep, StreamsStep DEF Typed
<1>q. QED
  BY <1>1, <1>2, PTL DEF CommandSpec

-----------------------------------------------------------------------------
\* An ssh is up only during the attempt that started it: whichever way an attempt
\* fails, startRemote comes to the user, to another attempt or to its end only
\* after Wait (sshside.go:181-199, 236-292).
THEOREM AttemptsTakeTurns == CommandSpec => []OneSsh
<1>1. CommandInit => OneSsh
  BY DEF CommandInit, Init, OneSsh
<1>2. Scalars /\ OneSsh /\ [CommandNext]_allVars => OneSsh'
  <2> SUFFICES ASSUME Scalars, OneSsh, [CommandNext]_allVars PROVE OneSsh'
    OBVIOUS
  <2> USE DEF OneSsh, Scalars, vars, local
  <2>1. CASE remoteSimple \/ remoteMain \/ SshEndsWith \/ LinkDropsWith \/ UNCHANGED allVars
    <3>1. UNCHANGED lpc /\ (ssh' = "up" => ssh = "up")
      BY <2>1 DEF remoteSimple, StartFails, StartReturns, CopyLine, ScanFails, OutputEnds, Reap,
         remoteMain, Says, OperationEnds, SshEndsWith, SshEnds, LinkDropsWith, LinkDrops, allVars
    <3>q. QED
      BY <3>1
  <2>2. CASE Handshakes
    <3>1. CASE Dial
      BY <3>1 DEF Dial
    <3>2. CASE Waited \/ SendPassword \/ ReadLine \/ Rejected \/ EndOfOutput \/ Ship \/ ShipFails
      BY <3>2 DEF Waited, SendPassword, ReadLine, Rejected, EndOfOutput, Ship, ShipFails, GiveUp
    <3>3. CASE AuthFailed \/ Timeout \/ AskPassword
      BY <3>3 DEF AuthFailed, Timeout, AskPassword, GiveUp
    <3>4. CASE SshPrints \/ Sudo \/ Shell \/ ShellReads \/ RemoteEnds
      BY <3>4 DEF SshPrints, Sudo, Shell, ShellReads, RemoteEnds
    <3>q. QED
      BY <2>2, <3>1, <3>2, <3>3, <3>4 DEF Handshakes, Local
  <2>q. QED
    BY <2>1, <2>2 DEF CommandNext
<1>q. QED
  BY <1>1, <1>2, TypedAlways, PTL DEF CommandSpec, Typed

\* Without --sudo-prompt there is one attempt, and with it at most maxSudoTries
\* (sshside.go:174-199), whatever the remote sudo answers and whenever ssh ends.
THEOREM TriesAreCapped == CommandSpec => []TriesCapped
<1>1. CommandInit => TriesInv
  BY HandshakeAssumption DEF CommandInit, Init, TriesInv
<1>2. Scalars /\ TriesInv /\ [CommandNext]_allVars => TriesInv'
  <2> SUFFICES ASSUME Scalars, TriesInv, [CommandNext]_allVars PROVE TriesInv'
    OBVIOUS
  <2> USE DEF TriesInv, Scalars, vars, options, local
  <2>1. CASE remoteSimple \/ remoteMain \/ SshEndsWith \/ LinkDropsWith \/ UNCHANGED allVars
    <3>1. UNCHANGED <<mode, lpc, tries>>
      BY <2>1 DEF remoteSimple, StartFails, StartReturns, CopyLine, ScanFails, OutputEnds, Reap,
         remoteMain, Says, OperationEnds, SshEndsWith, SshEnds, LinkDropsWith, LinkDrops, allVars
    <3>q. QED
      BY <3>1
  <2>2. CASE Handshakes
    <3>1. CASE Dial
      BY <3>1, HandshakeAssumption DEF Dial
    <3>2. CASE Waited \/ SendPassword \/ ReadLine \/ Rejected \/ EndOfOutput \/ Ship \/ ShipFails \/ Timeout
      <4>1. UNCHANGED <<mode, tries>> /\ lpc \notin {"dial", "ask"} /\ lpc' \notin {"dial", "ask"}
        BY <3>2 DEF Waited, SendPassword, ReadLine, Rejected, EndOfOutput, Ship, ShipFails, Timeout, GiveUp,
           SudoFailed, Line
      <4>q. QED
        BY <4>1
    <3>3. CASE AuthFailed \/ AskPassword
      BY <3>3 DEF AuthFailed, AskPassword
    <3>4. CASE SshPrints \/ Sudo \/ Shell \/ ShellReads \/ RemoteEnds
      <4>1. UNCHANGED <<mode, lpc, tries>>
        BY <3>4 DEF SshPrints, Sudo, Shell, ShellReads, RemoteEnds
      <4>q. QED
        BY <4>1
    <3>q. QED
      BY <2>2, <3>1, <3>2, <3>3, <3>4 DEF Handshakes, Local
  <2>q. QED
    BY <2>1, <2>2 DEF CommandNext
<1>3. Scalars /\ TriesInv => TriesCapped
  BY DEF TriesInv, TriesCapped, Scalars
<1>q. QED
  BY <1>1, <1>2, <1>3, TypedAlways, PTL DEF CommandSpec, Typed

\* A sudo that asks has taken the password before the shell starts, and no other
\* mode sends one, so that the bootstrap never reads it (sshside.go:104-117, 244-285).
THEOREM StreamIsFramed == CommandSpec => []Framed
<1>1. CommandInit => FramedInv
  BY DEF CommandInit, Init, FramedInv, Passwords
<1>2. Scalars /\ Streams /\ FramedInv /\ [CommandNext]_allVars => FramedInv'
  <2> SUFFICES ASSUME Scalars, Streams, FramedInv, [CommandNext]_allVars, SudoTakesIt'
               PROVE  /\ read' \notin Passwords
                      /\ lpc' = "send" => mode' = "sudoPrompt" /\ rpc' \in {"sudo", "gone"}
                      /\ \A i \in 2..Len(stdin') : stdin'[i] = Blob
                      /\ mode' # "sudoPrompt" \/ rpc' \in {"shell", "read"}
                           => \A i \in 1..Len(stdin') : stdin'[i] = Blob
    BY DEF FramedInv
  <2>m. UNCHANGED <<mode, rule>>
    BY DEF CommandNext, remoteSimple, StartFails, StartReturns, CopyLine, ScanFails, OutputEnds, Reap,
       remoteMain, Says, OperationEnds, SshEndsWith, SshEnds, LinkDropsWith, LinkDrops, Handshakes, Local,
       Dial, Waited, SendPassword, ReadLine, Rejected, EndOfOutput, Ship, ShipFails, AuthFailed, Timeout, AskPassword,
       SshPrints, Sudo, Shell, ShellReads, RemoteEnds, GiveUp, allVars, vars, options, local
  <2>s. SudoTakesIt
    BY <2>m DEF SudoTakesIt
  <2>o. \A i \in 1..Len(stdin) : stdin[i] \in Passwords \cup {Blob}
    BY DEF Streams
  <2>t. stdin # <<>> => /\ Head(stdin) = stdin[1] /\ 1 \in 1..Len(stdin)
                        /\ \A i \in 1..Len(Tail(stdin)) : i + 1 \in 2..Len(stdin) /\ Tail(stdin)[i] = stdin[i + 1]
    BY Reading DEF Streams
  <2>b. stdin # <<>> => \A i \in 1..Len(Tail(stdin)) : Tail(stdin)[i] = Blob
    BY <2>t, <2>s DEF FramedInv
  <2> USE <2>m, <2>s DEF FramedInv, vars, options, local, remote
  <2>1. ASSUME UNCHANGED <<read, stdin>>, lpc' # "send" \/ lpc' = lpc, rpc' \in {rpc, "gone"}
        PROVE  FramedInv'
    BY <2>1
  <2>2. CASE remoteSimple \/ remoteMain \/ SshEndsWith \/ LinkDropsWith \/ UNCHANGED allVars
    BY <2>1, <2>2 DEF remoteSimple, StartFails, StartReturns, CopyLine, ScanFails, OutputEnds, Reap,
       remoteMain, Says, OperationEnds, SshEndsWith, SshEnds, LinkDropsWith, LinkDrops, allVars
  <2>3. CASE Dial
    BY <2>1, <2>3 DEF Dial, Passwords
  <2>4. CASE SendPassword
    BY <2>1, <2>4, Writing DEF SendPassword, Write, Streams, GiveUp, Passwords
  <2>5. CASE Ship \/ ShipFails
    BY <2>1, <2>5, Writing DEF Ship, ShipFails, Write, Streams, GiveUp
  <2>6. CASE Sudo
    <3>1. UNCHANGED <<lpc, read>> /\ rpc = "sudo" /\ rpc' \in {rpc, "shell", "gone"}
      BY <2>6 DEF Sudo
    <3>2. CASE UNCHANGED stdin /\ mode = "sudo"
      BY <2>1, <3>1, <3>2 DEF Sudo
    <3>3. CASE stdin # <<>> /\ stdin' = Tail(stdin) /\ mode = "sudoPrompt"
      <4>1. \A i \in 2..Len(stdin') : i \in 1..Len(stdin')
        OBVIOUS
      <4>q. QED
        BY <2>b, <3>1, <3>3, <4>1 DEF Streams
    <3>q. QED
      BY <2>6, <3>2, <3>3 DEF Sudo, SudoTakesIt, Scalars
  <2>7. CASE ShellReads
    <3>1. Head(stdin) = Blob
      BY <2>t, <2>7 DEF ShellReads
    <3>2. stdin # <<>> /\ read' = Blob /\ stdin' = Tail(stdin) /\ rpc' = "payload" /\ UNCHANGED lpc
      BY <2>7, <3>1 DEF ShellReads
    <3>3. rpc = "read" /\ lpc # "send"
      BY <2>7 DEF ShellReads
    <3>4. \A i \in 2..Len(stdin') : i \in 1..Len(stdin')
      OBVIOUS
    <3>q. QED
      BY <2>b, <3>2, <3>3, <3>4 DEF Passwords, Blob
  <2>8. CASE Shell
    BY <2>8 DEF Shell, SudoTakesIt
  <2>9. CASE Waited \/ ReadLine \/ Rejected \/ EndOfOutput \/ AuthFailed \/ Timeout \/ AskPassword
    BY <2>1, <2>9 DEF Waited, ReadLine, Rejected, EndOfOutput, AuthFailed, Timeout, AskPassword, GiveUp,
       Scalars
  <2>10. CASE SshPrints \/ RemoteEnds
    BY <2>1, <2>10 DEF SshPrints, RemoteEnds
  <2>q. QED
    BY <2>2, <2>3, <2>4, <2>5, <2>6, <2>7, <2>8, <2>9, <2>10 DEF CommandNext, Handshakes, Local
<1>3. FramedInv => Framed
  BY DEF FramedInv, Framed, SudoTakesIt
<1>q. QED
  BY <1>1, <1>2, <1>3, TypedAlways, PTL DEF CommandSpec, Typed

-----------------------------------------------------------------------------
\* The operation is a matter of the attempt that succeeded.
LEMMA JobStep == Scalars /\ Streams /\ JobInv /\ [CommandNext]_allVars => JobInv'
<1> SUFFICES ASSUME Scalars, Streams, JobInv, [CommandNext]_allVars PROVE JobInv'
  OBVIOUS
<1>t. stdin # <<>> => \A i \in 1..Len(Tail(stdin)) : i + 1 \in 1..Len(stdin) /\ Tail(stdin)[i] = stdin[i + 1]
  BY Reading DEF Streams
<1>h. stdin # <<>> => Head(stdin) = stdin[1] /\ 1 \in 1..Len(stdin)
  BY Reading DEF Streams
<1> USE DEF JobInv, vars, options, local, remote
<1>1. CASE remoteSimple
  <2>1. UNCHANGED <<stdin, lpc, rpc, job, said>>
    BY <1>1 DEF remoteSimple, StartFails, StartReturns, CopyLine, ScanFails, OutputEnds, Reap
  <2>2. /\ mpc' \in {"copy", "reap"} => lpc = "ok"
        /\ mpc' = "exited" => lpc \in {"ok", "failed"}
    BY <1>1 DEF remoteSimple, StartFails, StartReturns, CopyLine, ScanFails, OutputEnds, Reap
  <2>q. QED
    BY <2>1, <2>2
<1>2. CASE remoteMain
  <2>1. UNCHANGED <<stdin, lpc, mpc>> /\ job = "running" /\ job' # "none" /\ rpc' \in {rpc, "gone"}
    BY <1>2 DEF remoteMain, Says, OperationEnds
  <2>q. QED
    BY <2>1
<1>3. CASE SshEndsWith \/ LinkDropsWith \/ UNCHANGED allVars
  <2>1. UNCHANGED <<stdin, lpc, rpc, job, said, mpc>>
    BY <1>3 DEF SshEndsWith, SshEnds, LinkDropsWith, LinkDrops, unended, allVars, commandVars
  <2>q. QED
    BY <2>1
<1>4. CASE Handshakes
  <2>h. UNCHANGED <<mpc, said>> /\ JobChanges
    BY <1>4 DEF Handshakes
  <2>1. CASE Dial
    BY <2>h, <2>1 DEF Dial, JobChanges
  <2>2. CASE Ship \/ ShipFails
    <3>1. UNCHANGED <<rpc, job, mpc, said>> /\ lpc = "ship"
      BY <2>h, <2>2 DEF Ship, ShipFails, JobChanges, GiveUp
    <3>2. CASE lpc' = "ok"
      BY <3>1, <3>2
    <3>3. CASE lpc' # "ok" /\ UNCHANGED stdin
      BY <3>1, <3>3
    <3>q. QED
      BY <2>2, <3>2, <3>3 DEF Ship, ShipFails, GiveUp
  <2>3. CASE SendPassword
    <3>1. UNCHANGED <<rpc, job, mpc, said>> /\ lpc = "send" /\ lpc' # "ok"
      BY <2>h, <2>3 DEF SendPassword, JobChanges, GiveUp
    <3>2. \A i \in 1..Len(stdin') : stdin'[i] # Blob
      <4>1. stdin = <<>> /\ stdin' \in {stdin, Append(stdin, sudoPass)}
        BY <2>3 DEF SendPassword, GiveUp, Write, Streams
      <4>2. sudoPass # Blob /\ sudoPass \in Passwords
        BY DEF Scalars, Passwords, Blob
      <4>3. Len(Append(<<>>, sudoPass)) = 1 /\ Append(<<>>, sudoPass)[1] = sudoPass
        BY <4>2, Writing
      <4>q. QED
        BY <4>1, <4>2, <4>3
    <3>q. QED
      BY <3>1, <3>2
  <2>4. CASE Waited \/ ReadLine \/ Rejected \/ EndOfOutput \/ AuthFailed \/ Timeout \/ AskPassword
    <3>1. UNCHANGED <<stdin, rpc, job, mpc, said>>
      BY <2>h, <2>4 DEF Waited, ReadLine, Rejected, EndOfOutput, AuthFailed, Timeout, AskPassword, GiveUp,
         JobChanges
    <3>2. lpc \notin {"ok", "failed"} /\ lpc' # "ok"
      BY <2>4 DEF Waited, ReadLine, Rejected, EndOfOutput, AuthFailed, Timeout, AskPassword, GiveUp,
         SudoFailed, Line, Scalars
    <3>q. QED
      BY <3>1, <3>2
  <2>5. CASE SshPrints \/ Shell \/ RemoteEnds
    <3>1. UNCHANGED <<lpc, stdin, job, mpc, said>> /\ rpc' \in {rpc, "read", "gone"}
      BY <2>h, <2>5 DEF SshPrints, Shell, RemoteEnds, JobChanges
    <3>2. job # "none" => rpc' \in {rpc, "gone"}
      BY <2>5 DEF SshPrints, Shell, RemoteEnds
    <3>q. QED
      BY <3>1, <3>2
  <2>6. CASE Sudo
    <3>1. UNCHANGED <<lpc, job, mpc, said>> /\ rpc = "sudo" /\ rpc' \in {rpc, "shell", "gone"}
      BY <2>h, <2>6 DEF Sudo, JobChanges
    <3>2. stdin' = stdin \/ (stdin # <<>> /\ stdin' = Tail(stdin))
      BY <2>6 DEF Sudo
    <3>q. QED
      BY <1>t, <3>1, <3>2
  <2>7. CASE ShellReads
    <3>1. /\ UNCHANGED <<lpc, mpc, said>> /\ rpc = "read" /\ stdin # <<>> /\ stdin' = Tail(stdin)
          /\ rpc' = IF Head(stdin) = Blob THEN "payload" ELSE "gone"
          /\ job' = IF Head(stdin) = Blob THEN "running" ELSE job
      BY <2>h, <2>7 DEF ShellReads, JobChanges
    <3>q. QED
      BY <1>t, <1>h, <3>1
  <2>q. QED
    BY <1>4, <2>1, <2>2, <2>3, <2>4, <2>5, <2>6, <2>7 DEF Local, Handshakes
<1>q. QED
  BY <1>1, <1>2, <1>3, <1>4 DEF CommandNext

\* How many lines wait: none in an empty output, one more for each line printed,
\* and one fewer for each line read.
Counts(line) == IF Said(line) THEN 1 ELSE 0

LEMMA WaitingFinite ==
  ASSUME NEW s \in Seq(Lines)
  PROVE  IsFiniteSet(WaitingAt(s)) /\ Waiting(s) \in Nat /\ (s = <<>> => Waiting(s) = 0)
<1>1. 1 \in Int /\ Len(s) \in Int
  OBVIOUS
<1>2. IsFiniteSet(1..Len(s))
  BY <1>1, FS_Interval, Zenon
<1>3. WaitingAt(s) \in SUBSET (1..Len(s))
  BY DEF WaitingAt
<1>4. IsFiniteSet(WaitingAt(s))
  BY <1>2, <1>3, FS_Subset
<1>5. s = <<>> => WaitingAt(s) = {}
  BY DEF WaitingAt
<1>q. QED
  BY <1>4, <1>5, FS_CardinalityType, FS_EmptySet DEF Waiting

LEMMA WaitingAppend ==
  ASSUME NEW s \in Seq(Lines), NEW e \in Lines
  PROVE  Waiting(Append(s, e)) = Waiting(s) + Counts(e)
<1> DEFINE n == Len(s) + 1
<1>1. /\ Len(s) \in Nat /\ Len(Append(s, e)) = n /\ Append(s, e)[n] = e
      /\ \A i \in 1..Len(s) : Append(s, e)[i] = s[i]
  BY Writing
<1>2. WaitingAt(Append(s, e)) = IF Said(e) THEN WaitingAt(s) \cup {n} ELSE WaitingAt(s)
  <2>1. 1..n = (1..Len(s)) \cup {n}
    BY <1>1
  <2>2. \A i : i \in WaitingAt(Append(s, e)) <=> i \in WaitingAt(s) \/ (i = n /\ Said(e))
    BY <1>1, <2>1 DEF WaitingAt
  <2>q. QED
    BY <2>2
<1>3. n \notin WaitingAt(s)
  BY <1>1 DEF WaitingAt
<1>4. Cardinality(WaitingAt(s) \cup {n}) = Cardinality(WaitingAt(s)) + 1
  BY <1>3, WaitingFinite, FS_AddElement
<1>5. Cardinality(WaitingAt(s)) \in Nat
  BY WaitingFinite DEF Waiting
<1>q. QED
  BY <1>2, <1>4, <1>5 DEF Waiting, Counts

LEMMA WaitingTail ==
  ASSUME NEW s \in Seq(Lines), s # <<>>
  PROVE  Waiting(s) = Waiting(Tail(s)) + Counts(Head(s))
<1> DEFINE T == WaitingAt(Tail(s))
           U == WaitingAt(s) \ {1}
           f == [i \in T |-> i + 1]
<1>1. /\ Len(s) \in Nat \ {0} /\ Head(s) = s[1] /\ Len(Tail(s)) = Len(s) - 1
      /\ Tail(s) \in Seq(Lines)
      /\ \A i \in 1..Len(Tail(s)) : i + 1 \in 1..Len(s) /\ Tail(s)[i] = s[i + 1]
  BY Reading
<1>2. \A i \in T : i \in Nat /\ i + 1 \in U
  BY <1>1 DEF WaitingAt
<1>3. \A j \in U : j \in Nat /\ j - 1 \in T
  BY <1>1 DEF WaitingAt
<1> HIDE DEF T, U
<1>4. f \in Injection(T, U)
  BY <1>2 DEF Injection, IsInjective
<1>5. f \in Surjection(T, U)
  <2>1. \A j \in U : \E i \in T : f[i] = j
    <3> TAKE j \in U
    <3>1. j - 1 \in T /\ f[j - 1] = j
      BY <1>3
    <3>q. QED
      BY <3>1
  <2>q. QED
    BY <1>2, <2>1 DEF Surjection
<1>6. IsFiniteSet(T) /\ Cardinality(T) = Waiting(Tail(s)) /\ Waiting(Tail(s)) \in Nat
  BY <1>1, WaitingFinite DEF T, Waiting
<1>7. Cardinality(U) = Cardinality(T)
  BY <1>4, <1>5, <1>6, FS_Surjection
<1>8. IsFiniteSet(WaitingAt(s)) /\ Waiting(s) \in Nat
  BY WaitingFinite
<1>9. Cardinality(U) = IF 1 \in WaitingAt(s) THEN Waiting(s) - 1 ELSE Waiting(s)
  BY <1>8, FS_RemoveElement DEF U, Waiting
<1>10. 1 \in WaitingAt(s) <=> Said(Head(s))
  BY <1>1 DEF WaitingAt
<1>q. QED
  BY <1>6, <1>7, <1>8, <1>9, <1>10 DEF Counts

\* Every line that was said has been shown here or waits to be read.
LEMMA CountStep == Scalars /\ Streams /\ JobInv /\ CountInv /\ [CommandNext]_allVars => CountInv'
<1> SUFFICES ASSUME Scalars, Streams, JobInv, CountInv, [CommandNext]_allVars PROVE CountInv'
  OBVIOUS
<1> USE DEF vars, local, remote
<1>o. output \in Seq(Lines)
  BY DEF Streams
<1>n. Waiting(output) \in Nat /\ said \in Nat /\ shown \in Nat /\ said = shown + Waiting(output)
  <2>2. Waiting(output) \in Nat
    BY <1>o, WaitingFinite
  <2>3. said \in Nat /\ shown \in Nat
    BY MaxLinesAssumption DEF Scalars
  <2>q. QED
    BY <2>2, <2>3 DEF CountInv
<1>p. ASSUME NEW line \in Lines, Prints(line) PROVE Waiting(output') = Waiting(output) + Counts(line)
  BY <1>o, <1>p, WaitingAppend DEF Prints
<1>0. CASE UNCHANGED <<output, shown, said>>
  BY <1>0 DEF CountInv
<1>1. CASE CopyLine
  <2>1. /\ output # <<>> /\ Tail(output) \in Seq(Lines) /\ output' = Tail(output)
        /\ Waiting(output) = Waiting(output') + Counts(Head(output))
        /\ Head(output) \in Lines /\ UNCHANGED said
    BY <1>1, <1>o, WaitingTail, Reading DEF CopyLine
  <2>2. Waiting(output') \in Nat
    BY <2>1, WaitingFinite
  <2>3. shown' = shown + Counts(Head(output))
    <3>1. shown' = (IF Head(output) = "line" THEN shown + 1 ELSE shown) /\ Head(output) # "longLine"
      BY <1>1 DEF CopyLine
    <3>2. Said(Head(output)) <=> Head(output) = "line"
      BY <3>1 DEF Said
    <3>3. CASE Head(output) = "line"
      BY <3>1, <3>2, <3>3 DEF Counts
    <3>4. CASE Head(output) # "line"
      <4>1. Counts(Head(output)) = 0 /\ shown' = shown
        BY <3>1, <3>2, <3>4 DEF Counts
      <4>q. QED
        BY <1>n, <4>1
    <3>q. QED
      BY <3>3, <3>4
  <2>4. Counts(Head(output)) \in Nat
    BY DEF Counts
  <2>q. QED
    BY <1>n, <2>1, <2>2, <2>3, <2>4 DEF CountInv
<1>2. ASSUME NEW line \in {"line", "longLine"}, Says(line) PROVE CountInv'
  <2>1. Waiting(output') = Waiting(output) + 1
    <3>1. Counts(line) = 1 /\ line \in Lines /\ Prints(line)
      BY <1>2 DEF Says, Counts, Said, Lines
    <3>q. QED
      BY <1>p, <3>1
  <2>2. said' = said + 1 /\ shown' = shown
    BY <1>2 DEF Says
  <2>3. said' = shown' + Waiting(output')
    BY <1>n, <2>1, <2>2
  <2>q. QED
    BY <2>3 DEF CountInv
<1>3. CASE Handshakes
  <2>h. UNCHANGED <<said, shown>>
    BY <1>3 DEF Handshakes
  <2>1. ASSUME NEW line \in {"arch", "unsupported", "sudoFailure", "chatter"}, Prints(line)
        PROVE  CountInv'
    <3>1. Counts(line) = 0 /\ line \in Lines
      BY DEF Counts, Said, Lines
    <3>2. Waiting(output') = Waiting(output) + 0
      BY <1>p, <2>1, <3>1
    <3>3. said' = shown' + Waiting(output')
      BY <2>h, <1>n, <3>2
    <3>q. QED
      BY <3>3 DEF CountInv
  <2>2. ASSUME job = "none", output' = <<>> \/ (output # <<>> /\ output' = Tail(output)) PROVE CountInv'
    <3>1. said = 0 /\ shown = 0 /\ Waiting(output) = 0
      BY <1>n, <2>2 DEF JobInv
    <3>2. Waiting(output') = 0
      <4>1. CASE output' = <<>>
        <5>1. output' \in Seq(Lines)
          BY <4>1
        <5>q. QED
          BY <4>1, <5>1, WaitingFinite
      <4>2. CASE output # <<>> /\ output' = Tail(output)
        <5>1. Waiting(Tail(output)) \in Nat
          BY <1>o, <4>2, Reading, WaitingFinite
        <5>2. Waiting(output) = Waiting(Tail(output)) + Counts(Head(output))
          BY <1>o, <4>2, WaitingTail
        <5>q. QED
          BY <3>1, <4>2, <5>1, <5>2, Counts(Head(output)) \in Nat DEF Counts
      <4>q. QED
        BY <2>2, <4>1, <4>2
    <3>q. QED
      BY <2>h, <3>1, <3>2 DEF CountInv
  <2>3. CASE Dial
    BY <1>0, <2>2, <2>3, <2>h DEF Dial, JobInv
  <2>4. CASE ReadLine
    BY <2>2, <2>4 DEF ReadLine, JobInv, Line
  <2>5. CASE SshPrints \/ Sudo \/ Shell
    BY <1>0, <2>1, <2>5, <2>h DEF SshPrints, Sudo, Shell
  <2>6. CASE Waited \/ SendPassword \/ Rejected \/ EndOfOutput \/ Ship \/ ShipFails \/ AuthFailed \/ Timeout \/ AskPassword
    BY <1>0, <2>6, <2>h DEF Waited, SendPassword, Rejected, EndOfOutput, Ship, ShipFails, AuthFailed, Timeout,
       AskPassword, GiveUp
  <2>7. CASE ShellReads \/ RemoteEnds
    BY <1>0, <2>7, <2>h DEF ShellReads, RemoteEnds
  <2>q. QED
    BY <1>3, <2>3, <2>4, <2>5, <2>6, <2>7 DEF Handshakes, Local
<1>4. CASE StartFails \/ StartReturns \/ ScanFails \/ OutputEnds \/ Reap
  BY <1>0, <1>4 DEF StartFails, StartReturns, ScanFails, OutputEnds, Reap
<1>5. CASE OperationEnds \/ SshEndsWith \/ LinkDropsWith \/ UNCHANGED allVars
  BY <1>0, <1>5 DEF OperationEnds, SshEndsWith, SshEnds, LinkDropsWith, LinkDrops, unended, allVars,
     commandVars
<1>q. QED
  BY <1>1, <1>2, <1>3, <1>4, <1>5 DEF CommandNext, remoteSimple, remoteMain

-----------------------------------------------------------------------------
\* The wait statuses of ssh are told apart, and only one maps to 0.
LEMMA Statuses ==
  /\ Exit(0) # Exit(1) /\ Exit(0) # Exit(255) /\ Exit(0) # Signal(SIGTERM)
  /\ waitExit(Exit(1)) # 0 /\ waitExit(Exit(255)) # 0 /\ waitExit(Signal(SIGTERM)) # 0
BY DEF Exit, Signal, SIGTERM, waitExit

\* Whether the link, ssh or the operation ends first: a status of 0 was the
\* operation's, and it goes with all of the output.
LEMMA StatusStep ==
  Scalars /\ Streams /\ JobInv /\ CountInv /\ StatusInv /\ [CommandNext]_allVars => StatusInv'
<1> SUFFICES ASSUME Scalars, Streams, JobInv, CountInv, StatusInv, [CommandNext]_allVars
             PROVE  StatusInv'
  OBVIOUS
<1> USE DEF StatusInv, ExitStatus, vars, local, remote
<1>0. CASE /\ UNCHANGED <<ssh, status, mpc, exit, job, said, shown, warned>>
  BY <1>0
<1>1. CASE StartFails \/ StartReturns
  BY <1>1 DEF StartFails, StartReturns
<1>2. CASE CopyLine
  BY <1>2 DEF CopyLine
<1>3. CASE ScanFails
  BY <1>3 DEF ScanFails
<1>4. CASE OutputEnds
  <2>1. shown = said
    <3>1. Waiting(output) = 0
      BY <1>4, WaitingFinite DEF OutputEnds, Streams
    <3>q. QED
      BY <3>1 DEF CountInv, Scalars
  <2>q. QED
    BY <1>4, <2>1 DEF OutputEnds
<1>5. CASE Reap
  <2>1. waitExit(status) = 0 => status = Exit(0)
    BY Statuses DEF Scalars
  <2>q. QED
    BY <1>5, <2>1 DEF Reap
<1>6. ASSUME NEW line, Says(line) PROVE StatusInv'
  BY <1>6 DEF Says
<1>7. CASE OperationEnds
  BY <1>7 DEF OperationEnds
<1>8. CASE SshEndsWith
  BY <1>8, Statuses DEF SshEndsWith, SshEnds, unended
<1>9. CASE LinkDropsWith
  BY <1>9, Statuses DEF LinkDropsWith, LinkDrops, unended
<1>10. CASE Handshakes
  <2>h. UNCHANGED <<mpc, exit, status, said, shown, warned>> /\ JobChanges
    BY <1>10 DEF Handshakes
  <2>1. CASE Dial
    <3>1. job = "none" /\ mpc # "reap" /\ mpc # "exited" /\ ssh' \in {ssh, "up"} /\ rpc' # "payload"
      BY <2>1 DEF Dial, JobInv
    <3>2. UNCHANGED job
      BY <2>h, <3>1 DEF JobChanges
    <3>q. QED
      BY <2>h, <3>1, <3>2
  <2>2. CASE ShellReads
    BY <2>2, <2>h DEF ShellReads, JobChanges, JobInv
  <2>3. CASE Waited \/ SendPassword \/ ReadLine \/ Rejected \/ EndOfOutput \/ Ship \/ ShipFails \/ AuthFailed \/ Timeout
             \/ AskPassword
    BY <1>0, <2>3, <2>h DEF Waited, SendPassword, ReadLine, Rejected, EndOfOutput, Ship, ShipFails, AuthFailed, Timeout,
       AskPassword, GiveUp, JobChanges
  <2>4. CASE SshPrints \/ Sudo \/ Shell \/ RemoteEnds
    BY <1>0, <2>4, <2>h DEF SshPrints, Sudo, Shell, RemoteEnds, JobChanges
  <2>q. QED
    BY <1>10, <2>1, <2>2, <2>3, <2>4 DEF Handshakes, Local
<1>11. CASE UNCHANGED allVars
  BY <1>0, <1>11 DEF allVars, commandVars
<1>q. QED
  BY <1>1, <1>2, <1>3, <1>4, <1>5, <1>6, <1>7, <1>8, <1>9, <1>10, <1>11
     DEF CommandNext, remoteSimple, remoteMain

\* The inductive invariant of the command.
CommandInv == Typed /\ JobInv /\ CountInv /\ StatusInv

LEMMA CommandInvAlways == CommandSpec => []CommandInv
<1>1. CommandInit => JobInv /\ CountInv /\ StatusInv
  <2> SUFFICES ASSUME CommandInit PROVE JobInv /\ CountInv /\ StatusInv
    OBVIOUS
  <2>1. JobInv
    BY DEF CommandInit, Init, JobInv
  <2>2. CountInv
    <3>1. Waiting(<<>>) = 0
      BY <<>> \in Seq(Lines), WaitingFinite
    <3>q. QED
      BY <3>1 DEF CommandInit, Init, CountInv
  <2>3. StatusInv
    BY DEF CommandInit, Init, StatusInv, ExitStatus
  <2>q. QED
    BY <2>1, <2>2, <2>3
<1>2. Typed /\ JobInv /\ CountInv /\ StatusInv /\ [CommandNext]_allVars => JobInv' /\ CountInv' /\ StatusInv'
  BY JobStep, CountStep, StatusStep DEF Typed
<1>q. QED
  BY <1>1, <1>2, TypedAlways, PTL DEF CommandSpec, CommandInv

\* remoteSimple exits with 0 only for an operation that ended well and whose
\* output was shown, or whose loss was logged (sshside.go:130-145, 393-407).
THEOREM ExitStatusIsTrue == CommandSpec => []ExitStatus
<1>1. CommandInv => ExitStatus
  BY DEF CommandInv, StatusInv
<1>q. QED
  BY <1>1, CommandInvAlways, PTL

\* No more lines are shown than were said, and ssh carries what dialRemote may
\* write: the types of the handshake and the command.
THEOREM CommandTypeCorrect == CommandSpec => []CommandTypeOK
<1>1. CommandInv => CommandTypeOK
  <2> SUFFICES ASSUME CommandInv PROVE CommandTypeOK
    OBVIOUS
  <2>1. Flags /\ Scalars /\ Streams /\ CountInv
    BY DEF CommandInv, Typed
  <2>2. shown \in 0..said
    <3>1. Waiting(output) \in Nat
      BY <2>1, WaitingFinite DEF Streams
    <3>q. QED
      BY <2>1, <3>1, MaxLinesAssumption DEF Scalars, CountInv
  <2>3. TypeOK
    BY <2>1 DEF Flags, Scalars, Streams, TypeOK
  <2>q. QED
    BY <2>1, <2>2, <2>3 DEF Flags, Scalars, CommandTypeOK
<1>q. QED
  BY <1>1, CommandInvAlways, PTL
=============================================================================
