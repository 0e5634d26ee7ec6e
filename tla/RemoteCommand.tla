---------------------------- MODULE RemoteCommand ----------------------------
(***************************************************************************)
(* "list", "unbind", "reset" and "detach -r" on HOST: remoteSimple of      *)
(* src/sshside.go on this side of Handshake, remoteMain of                 *)
(* src/remoteside.go as the payload, and ssh, which carries the output and *)
(* the exit status of one to the other.  What the operations do to the     *)
(* remote machine is in Commands and Exporter.                             *)
(***************************************************************************)
EXTENDS Handshake

CONSTANT MaxLines   \* bound: lines that the payload prints

ASSUME MaxLinesAssumption == MaxLines \in Nat

VARIABLES
  mpc,      \* remoteSimple
  exit,     \* the exit status of the local command, once it has ended
  status,   \* how ssh ended
  job,      \* the remote operation, and once it has ended its exit status
  said,     \* lines that it has sent
  shown,    \* those of them that were printed here
  warned    \* reading the output failed, and that was logged

commandVars == <<mpc, exit, status, job, said, shown, warned>>
allVars == <<vars, commandVars>>

SIGTERM == 15
Exit(n) == [signal |-> 0, code |-> n]
Signal(n) == [signal |-> n, code |-> 0]

CommandTypeOK ==
  /\ TypeOK
  /\ mpc \in {"start", "copy", "reap", "exited"}
  /\ exit \in {0, 1, 255, 64 + SIGTERM}
  /\ status \in {Exit(0), Exit(1), Exit(255), Signal(SIGTERM)}
  /\ job \in {"none", "running", "zero", "one"}
  /\ said \in 0..MaxLines /\ shown \in 0..said /\ warned \in BOOLEAN

CommandInit ==
  /\ Init
  /\ mpc = "start" /\ exit = 1 /\ status = Exit(0)
  /\ job = "none" /\ said = 0 /\ shown = 0 /\ warned = FALSE

-----------------------------------------------------------------------------
(* remoteSimple *)

\* Mutant: the exit code of the wait status, which is 0 after a signal.
waitExitCode(s) == s.code

\* A death by signal n maps to n|64.
waitExit(s) == IF s.signal # 0 THEN s.signal + 64 ELSE s.code

StartFails ==
  /\ mpc = "start" /\ lpc = "failed"
  /\ mpc' = "exited" /\ exit' = 1
  /\ UNCHANGED <<vars, status, job, said, shown, warned>>

StartReturns ==
  /\ mpc = "start" /\ lpc = "ok" /\ mpc' = "copy"
  /\ UNCHANGED <<vars, exit, status, job, said, shown, warned>>

CopyLine ==
  /\ mpc = "copy" /\ output # <<>> /\ Head(output) # "longLine"
  /\ output' = Tail(output)
  /\ shown' = IF Head(output) = "line" THEN shown + 1 ELSE shown
  /\ UNCHANGED <<local, ssh, killed, stdin, rpc, read, mpc, exit, status, job, said, warned>>

\* A line too long for the scanner: ssh is killed, unless it has ended already.
ScanFails ==
  /\ mpc = "copy" /\ output # <<>> /\ Head(output) = "longLine"
  /\ mpc' = "reap" /\ warned' = TRUE /\ killed' = TRUE
  /\ UNCHANGED <<local, ssh, stdin, remote, exit, status, job, said, shown>>

OutputEnds ==
  /\ mpc = "copy" /\ output = <<>> /\ ssh = "gone" /\ mpc' = "reap"
  /\ UNCHANGED <<vars, exit, status, job, said, shown, warned>>

Reap ==
  /\ mpc = "reap" /\ ssh = "gone"
  /\ mpc' = "exited" /\ exit' = waitExit(status)
  /\ UNCHANGED <<vars, status, job, said, shown, warned>>

remoteSimple ==
  StartFails \/ StartReturns \/ CopyLine \/ ScanFails \/ OutputEnds \/ Reap

-----------------------------------------------------------------------------
(* remoteMain, whose stdout is the ssh channel *)

Says(line) ==
  /\ job = "running" /\ rpc = "payload" /\ said < MaxLines
  /\ Prints(line) /\ said' = said + 1
  /\ UNCHANGED <<local, ssh, killed, stdin, rpc, read, mpc, exit, status, job, shown, warned>>

\* The operation ends, well or by fatalf, also when nobody hears it any more:
\* SIGHUP and SIGPIPE are ignored.
OperationEnds ==
  /\ job = "running" /\ job' \in {"zero", "one"} /\ rpc' = "gone"
  /\ UNCHANGED <<local, ssh, killed, stdin, output, read, mpc, exit, status, said, shown, warned>>

remoteMain == Says("line") \/ Says("longLine") \/ OperationEnds

-----------------------------------------------------------------------------
(* The handshake, and how ssh ends *)

unended == <<mpc, exit, job, said, shown, warned>>

\* Killed, it may catch the signal and exit; or it ends with the status of the
\* remote command.
SshEndsWith ==
  /\ SshEnds /\ UNCHANGED unended
  /\ \/ killed /\ status' \in {Signal(SIGTERM), Exit(255)}
     \/ rpc = "gone" /\ status' = Exit(IF job = "zero" THEN 0 ELSE 1)

LinkDropsWith == LinkDrops /\ status' = Exit(255) /\ UNCHANGED unended

\* The shell execs the payload.
JobChanges == IF rpc' = "payload" /\ rpc = "read" THEN job' = "running" ELSE UNCHANGED job

Handshakes ==
  /\ \/ Local \/ Ship \/ Timeout \/ AskPassword
     \/ SshPrints \/ Sudo \/ Shell \/ ShellReads \/ RemoteEnds
  /\ JobChanges
  /\ UNCHANGED <<mpc, exit, status, said, shown, warned>>

CommandNext == remoteSimple \/ remoteMain \/ SshEndsWith \/ LinkDropsWith \/ Handshakes

\* The deadline passes whatever arrives; ssh ends once it is killed or its
\* command has.  The remote side, the network and the user owe us nothing, so
\* neither the write of the payload (Ship) nor the prompt has to end.
CommandFairness ==
  /\ WF_allVars(Local /\ UNCHANGED commandVars)
  /\ WF_allVars(Timeout /\ UNCHANGED commandVars)
  /\ WF_allVars(SshEndsWith)

CommandSpec == CommandInit /\ [][CommandNext]_allVars /\ CommandFairness

-----------------------------------------------------------------------------
\* A script may trust the exit status: 0 is returned only when the operation
\* has ended well on HOST (sshside.go:393-406, 129-143), and then everything it
\* printed was printed here, unless an error in reading it was logged.  The
\* link, ssh and the operation may end in any order.
ExitStatus ==
  mpc = "exited" /\ exit = 0 => job = "zero" /\ (shown = said \/ warned)
=============================================================================
