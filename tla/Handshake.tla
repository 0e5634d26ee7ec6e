------------------------------- MODULE Handshake -------------------------------
(***************************************************************************)
(* startRemote and dialRemote (src/sshside.go): an attempt starts ssh with *)
(* the bootstrap line, perhaps under sudo, waits for its -Arch line within *)
(* a deadline and ships the arguments and the payload; with --sudo-prompt  *)
(* a rejected password is asked for again.  The remote side is sudo and    *)
(* the shell that runs the bootstrap line.  RemoteCommand has the payload  *)
(* that the shell becomes, and the specification.                          *)
(***************************************************************************)
EXTENDS Naturals, Sequences

CONSTANTS maxSudoTries,
          MaxOutput       \* lines of output ssh buffers before this model blocks

ASSUME HandshakeAssumption == maxSudoTries \in Nat \ {0} /\ MaxOutput \in Nat \ {0}

VARIABLES
  mode,      \* no option, --sudo or --sudo-prompt
  rule,      \* whether the remote sudo asks this user for a password
  lpc,       \* startRemote, in this attempt or between two
  outcome,   \* what the attempt comes to once ssh has been waited for
  tries,     \* attempts begun
  sudoPass,  \* the password in hand, as the remote sudo will judge it
  ssh,       \* the ssh of the attempt
  killed,    \* it was sent SIGTERM
  rpc,       \* the remote command
  stdin,     \* what ssh carries to it
  output,    \* lines of it, and of ssh, not read yet
  read       \* what the bootstrap line read as size, arguments and payload

vars == <<mode, rule, lpc, outcome, tries, sudoPass, ssh, killed, rpc, stdin, output, read>>
options == <<mode, rule>>
remote == <<rpc, output, read>>

Passwords == {"right", "wrong"}
Blob == "blob"   \* size, arguments, payload
Lines == {"arch", "unsupported", "sudoFailure", "chatter", "line", "longLine"}

TypeOK ==
  /\ mode \in {"plain", "sudo", "sudoPrompt"} /\ rule \in {"ask", "nopasswd"}
  /\ lpc \in {"dial", "send", "scan", "ship", "wait", "auth", "ask", "ok", "failed"}
  /\ outcome \in {"auth", "failed"}
  /\ tries \in Nat /\ sudoPass \in Passwords
  /\ ssh \in {"none", "up", "gone"} /\ killed \in BOOLEAN
  /\ rpc \in {"none", "sudo", "shell", "read", "payload", "gone"}
  /\ stdin \in Seq(Passwords \cup {Blob}) /\ Len(stdin) <= 2
  /\ output \in Seq(Lines) /\ Len(output) <= MaxOutput
  /\ read \in Passwords \cup {Blob, "nothing"}

Init ==
  /\ mode \in {"plain", "sudo", "sudoPrompt"} /\ rule \in {"ask", "nopasswd"}
  /\ lpc = "dial" /\ outcome = "failed" /\ tries = 0 /\ sudoPass \in Passwords
  /\ ssh = "none" /\ killed = FALSE
  /\ rpc = "none" /\ stdin = <<>> /\ output = <<>> /\ read = "nothing"

-----------------------------------------------------------------------------
(* dialRemote *)

\* Mutant: the password is sent with --sudo as well.
DialSends ==
  /\ lpc = "dial" /\ tries' = tries + 1
  /\ ssh' = "up" /\ killed' = FALSE
  /\ lpc' = IF mode = "plain" THEN "scan" ELSE "send"
  /\ rpc' = IF mode = "plain" THEN "shell" ELSE "sudo"
  /\ stdin' = <<>> /\ output' = <<>> /\ read' = "nothing"
  /\ UNCHANGED <<options, outcome, sudoPass>>

\* ssh starts the bootstrap line, unless there is no ssh.
Dial ==
  /\ lpc = "dial" /\ tries' = tries + 1
  /\ \/ /\ ssh' = "up" /\ killed' = FALSE
        /\ lpc' = IF mode = "sudoPrompt" THEN "send" ELSE "scan"
        /\ rpc' = IF mode = "plain" THEN "shell" ELSE "sudo"
        /\ stdin' = <<>> /\ output' = <<>> /\ read' = "nothing"
     \/ lpc' = "failed" /\ UNCHANGED <<ssh, killed, stdin, remote>>
  /\ UNCHANGED <<options, outcome, sudoPass>>

\* Mutant: the attempt is over without its ssh.
GiveUpAtOnce(result) ==
  /\ lpc' = result /\ outcome' = result /\ killed' = TRUE
  /\ UNCHANGED <<options, tries, sudoPass, ssh, stdin, remote>>

\* kill, and Wait for ssh, which Waited ends.
GiveUp(result) ==
  /\ lpc' = "wait" /\ outcome' = result /\ killed' = TRUE
  /\ UNCHANGED <<options, tries, sudoPass, ssh, stdin, remote>>

Waited ==
  /\ lpc = "wait" /\ ssh = "gone" /\ lpc' = outcome
  /\ UNCHANGED <<options, outcome, tries, sudoPass, ssh, killed, stdin, remote>>

Write(what) == stdin' = IF ssh = "up" THEN Append(stdin, what) ELSE stdin

\* Mutant: the password is sent again, should sudo ask again.
SendPasswordAgain ==
  /\ lpc = "send" /\ Write(sudoPass) /\ lpc' \in {"send", "scan"}
  /\ UNCHANGED <<options, outcome, tries, sudoPass, ssh, killed, remote>>

SendPassword ==
  /\ lpc = "send"
  /\ \/ /\ Write(sudoPass) /\ lpc' = "scan"
        /\ UNCHANGED <<options, outcome, tries, sudoPass, ssh, killed, remote>>
     \/ ssh = "gone" /\ GiveUp("failed")

\* A line of output: -Arch, a sudo failure, or chatter to be logged.
Line(line) == lpc = "scan" /\ output # <<>> /\ Head(output) = line
SudoFailed == mode # "plain" /\ Line("sudoFailure")

ReadLine ==
  /\ \E line \in Lines \ {"unsupported"} : Line(line)
  /\ ~SudoFailed
  /\ lpc' = (IF Line("arch") THEN "ship" ELSE "scan") /\ output' = Tail(output)
  /\ UNCHANGED <<options, outcome, tries, sudoPass, ssh, killed, rpc, stdin, read>>

Rejected ==
  \/ SudoFailed /\ GiveUp("auth")
  \/ Line("unsupported") /\ GiveUp("failed")

\* Mutant: a stalled ssh is waited for without being killed.
TimeoutUnkilled ==
  /\ lpc = "scan"
  /\ lpc' = "wait" /\ outcome' = "failed"
  /\ UNCHANGED <<options, tries, sudoPass, ssh, killed, stdin, remote>>

\* handshakeTimeout, or a line too long to read.
Timeout ==
  /\ lpc = "scan"
  /\ GiveUp(IF mode = "sudoPrompt" THEN "auth" ELSE "failed") \/ GiveUp("failed")

EndOfOutput ==
  /\ lpc = "scan" /\ output = <<>> /\ ssh = "gone"
  /\ lpc' = "wait" /\ outcome' = "failed"
  /\ UNCHANGED <<options, tries, sudoPass, ssh, killed, stdin, remote>>

\* The writes of the arguments and the payload may block, on a full pipe and
\* window, for as long as ssh is there: the deadline is one for reads.
Ship ==
  /\ lpc = "ship" /\ Write(Blob) /\ lpc' = "ok"
  /\ UNCHANGED <<options, outcome, tries, sudoPass, ssh, killed, remote>>

ShipFails == lpc = "ship" /\ ssh = "gone" /\ GiveUp("failed")

-----------------------------------------------------------------------------
(* startRemote *)

\* Mutant: one try too many.
AuthFailedOnce ==
  /\ lpc = "auth"
  /\ lpc' = IF mode = "sudoPrompt" /\ tries <= maxSudoTries THEN "ask" ELSE "failed"
  /\ UNCHANGED <<options, outcome, tries, sudoPass, ssh, killed, stdin, remote>>

AuthFailed ==
  /\ lpc = "auth"
  /\ lpc' = IF mode = "sudoPrompt" /\ tries < maxSudoTries THEN "ask" ELSE "failed"
  /\ UNCHANGED <<options, outcome, tries, sudoPass, ssh, killed, stdin, remote>>

\* readSudoPassword, which needs a terminal and somebody at it.
AskPassword ==
  /\ lpc = "ask"
  /\ \/ sudoPass' \in Passwords /\ lpc' = "dial"
     \/ lpc' = "failed" /\ UNCHANGED sudoPass
  /\ UNCHANGED <<options, outcome, tries, ssh, killed, stdin, remote>>

\* The steps that nothing holds up; Ship and AskPassword are not among them.
Local ==
  \/ Dial \/ Waited \/ SendPassword \/ ReadLine \/ Rejected \/ EndOfOutput
  \/ ShipFails \/ AuthFailed

-----------------------------------------------------------------------------
(* ssh, sudo and the bootstrap line *)

local == <<options, lpc, outcome, tries, sudoPass>>
Prints(line) == Len(output) < MaxOutput /\ output' = Append(output, line)

SshEnds ==
  /\ ssh = "up" /\ (killed \/ rpc = "gone")
  /\ ssh' = "gone" /\ UNCHANGED <<local, killed, stdin, remote>>

SshPrints ==
  /\ ssh = "up" /\ Prints("chatter")
  /\ UNCHANGED <<local, ssh, killed, rpc, stdin, read>>

\* sudo -S asks, and asks again after a wrong password, whose rejection may be
\* worded as dialRemote does not know it; sudo -n refuses.
Sudo ==
  /\ rpc = "sudo"
  /\ \/ rule = "nopasswd" /\ rpc' = "shell" /\ UNCHANGED <<stdin, output>>
     \/ /\ rule = "ask" /\ mode = "sudoPrompt" /\ stdin # <<>> /\ stdin' = Tail(stdin)
        /\ IF Head(stdin) = "right" THEN rpc' = "shell" /\ UNCHANGED output
           ELSE UNCHANGED rpc /\ (Prints("sudoFailure") \/ Prints("chatter"))
     \/ /\ rule = "ask" /\ mode = "sudo" /\ UNCHANGED stdin
        /\ rpc' = "gone" /\ Prints("sudoFailure")
  /\ UNCHANGED <<local, ssh, killed, read>>

\* The bootstrap line reports the architecture, or fails before it does.
Shell ==
  /\ rpc = "shell"
  /\ \/ rpc' = "read" /\ (Prints("arch") \/ Prints("unsupported"))
     \/ rpc' = "gone" /\ Prints("chatter")
  /\ UNCHANGED <<local, ssh, killed, stdin, read>>

\* Then it reads a size, the arguments and the payload, whatever comes.
ShellReads ==
  /\ rpc = "read" /\ stdin # <<>>
  /\ read' = Head(stdin) /\ stdin' = Tail(stdin)
  /\ rpc' = IF Head(stdin) = Blob THEN "payload" ELSE "gone"
  /\ UNCHANGED <<local, ssh, killed, output>>

\* The connection fails, and the remote command learns of its end.
LinkDrops ==
  /\ ssh = "up" /\ ssh' = "gone"
  /\ UNCHANGED <<local, killed, stdin, remote>>
RemoteEnds ==
  /\ ssh = "gone" /\ rpc \notin {"none", "gone"} /\ rpc' = "gone"
  /\ UNCHANGED <<local, ssh, killed, stdin, output, read>>

-----------------------------------------------------------------------------
\* The bootstrap line reads the size, arguments and payload and nothing else:
\* the password goes first "so sudo consumes it before the bootstrap reads the
\* rest" (sshside.go:236-237).  Only a sudo that has no use for the password, which
\* --sudo-prompt is not meant for (README.md:74-75), leaves it to the bootstrap.
Framed ==
  read \in Passwords => mode = "sudoPrompt" /\ rule = "nopasswd"

\* An attempt that failed leaves no ssh behind, so two never compete for the
\* control socket.
OneSsh == ssh = "up" => lpc \notin {"dial", "auth", "ask", "failed"}

\* "maxSudoTries caps the interactive --sudo-prompt retries per connection"
\* (sshside.go:174); other failures are not retried at all.
TriesCapped == tries <= (IF mode = "sudoPrompt" THEN maxSudoTries ELSE 1)

\* startRemote comes to an end, to the user or to the write of the payload, also
\* when sudo waits for another password or the network stalls before -Arch:
\* handshakeTimeout is the "backstop" (sshside.go:169-172) of that wait.  In the
\* write it stays only while its ssh does.
Returns ==
  []<>(lpc \in {"ok", "failed", "ask"} \/ (lpc = "ship" /\ ssh = "up"))
=============================================================================
