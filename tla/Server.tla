------------------------------ MODULE Server ------------------------------
(***************************************************************************)
(* The server supervisors (modelfuzz/server.py): one RatisServer thread    *)
(* per node, each owning one target subprocess.                            *)
(*                                                                         *)
(* The supervisor thread runs run_server, which spawns the process and     *)
(* awaits its exit; the finally clause of run_server calls close().  The   *)
(* orchestrator's main thread calls crash(), restart() and close() on the  *)
(* same object.  The flags are plain attributes shared by both threads.    *)
(* The subprocess is abstracted to its status and its exit code.           *)
(***************************************************************************)
EXTENDS ClusterNodes

CONSTANTS
  ExitCodes     \* codes a target may exit with on its own

ASSUME -9 \notin ExitCodes

VARIABLES
  spc,          \* supervisor thread: "start", "waiting" (in run_server), "loop", "end"
  proc,         \* subprocess: "none", "running", "dead"
  exitCode,     \* exit status of the dead subprocess (-9: SIGKILL)
  wait,         \* RatisServer.wait
  restartFlg,   \* RatisServer.restart_flg
  restartProc,  \* RatisServer.restart_process
  errorFlg,     \* RatisServer.error_flg
  returncode,   \* RatisServer.returncode
  killedBy      \* ghost: who ended the process: "self", "kill" or the wait "timeout"

srvVars == <<spc, proc, exitCode, wait, restartFlg, restartProc, errorFlg,
             returncode, killedBy>>

SrvInit ==
  /\ spc = [n \in Nodes |-> "start"]
  /\ proc = [n \in Nodes |-> "none"]
  /\ exitCode = [n \in Nodes |-> 0]
  /\ wait = [n \in Nodes |-> TRUE]
  /\ restartFlg = [n \in Nodes |-> FALSE]
  /\ restartProc = [n \in Nodes |-> FALSE]
  /\ errorFlg = [n \in Nodes |-> FALSE]
  /\ returncode = [n \in Nodes |-> 0]
  /\ killedBy = [n \in Nodes |-> "none"]

\* A return code the supervisor treats as normal: clean exit or SIGKILL.
NormalExit(rc) == rc \in {0, -9}

\* kill(): SIGKILL the process (a dead one raises ProcessLookupError, which
\* is ignored) and zero the return code unless an error was flagged.
kill(n) ==
  /\ IF proc[n] = "running"
       THEN /\ proc' = [proc EXCEPT ![n] = "dead"]
            /\ exitCode' = [exitCode EXCEPT ![n] = -9]
            /\ killedBy' = [killedBy EXCEPT ![n] = "kill"]
       ELSE UNCHANGED <<proc, exitCode, killedBy>>
  /\ returncode' = [returncode EXCEPT ![n] = IF errorFlg[n] THEN @ ELSE 0]

\* Fault: close() marks the supervisor done without killing the process.
closeNoKill(n) ==
  IF wait[n]
    THEN /\ wait' = [wait EXCEPT ![n] = FALSE]
         /\ UNCHANGED <<proc, exitCode, killedBy, returncode>>
    ELSE UNCHANGED <<proc, exitCode, killedBy, returncode, wait>>

\* close(): kill, then wait = False and done = True.
close(n) ==
  IF wait[n]
    THEN /\ kill(n)
         /\ wait' = [wait EXCEPT ![n] = FALSE]
    ELSE UNCHANGED <<proc, exitCode, killedBy, returncode, wait>>

-----------------------------------------------------------------------------
(* The supervisor thread.                                                  *)

\* run() / run_server() up to the await: if still wanted, build the command
\* (with restart=1 after a crash, clearing restart_flg) and spawn the process.
SrvSpawn(n) ==
  /\ spc[n] = "start"
  /\ IF wait[n]
       THEN /\ proc' = [proc EXCEPT ![n] = "running"]
            /\ restartFlg' = [restartFlg EXCEPT ![n] = FALSE]
            /\ spc' = [spc EXCEPT ![n] = "waiting"]
       ELSE /\ spc' = [spc EXCEPT ![n] = "end"]
            /\ UNCHANGED <<proc, restartFlg>>
  /\ UNCHANGED <<exitCode, wait, restartProc, errorFlg, returncode, killedBy>>

\* The awaited process.wait() returns: record the return code, flag an error
\* unless it is 0 or -9, and run the finally clause close().  The thread then
\* goes on to the restart loop of run().
SrvWaitDone(n) ==
  LET rc == exitCode[n]
      err == errorFlg[n] \/ ~NormalExit(rc) IN
  /\ spc[n] = "waiting"
  /\ proc[n] = "dead"
  /\ errorFlg' = [errorFlg EXCEPT ![n] = err]
  /\ IF wait[n]
       THEN /\ wait' = [wait EXCEPT ![n] = FALSE]
            /\ returncode' = [returncode EXCEPT ![n] = IF err THEN rc ELSE 0]
       ELSE /\ returncode' = [returncode EXCEPT ![n] = rc]
            /\ UNCHANGED wait
  /\ spc' = [spc EXCEPT ![n] = "loop"]
  /\ UNCHANGED <<proc, exitCode, restartFlg, restartProc, killedBy>>

\* asyncio.wait_for(process.wait(), timeout + 10) times out: error flagged,
\* return code the process's own if it has been reaped, else -1, and the
\* finally clause close() kills it.  The deadline may also pass after a kill
\* or an exit and before the awaited wait() has returned.
SrvWaitTimeout(n) ==
  /\ spc[n] = "waiting"
  /\ \E rc \in IF proc[n] = "dead" THEN {exitCode[n], -1} ELSE {-1} :
       returncode' = [returncode EXCEPT ![n] = rc]
  /\ errorFlg' = [errorFlg EXCEPT ![n] = TRUE]
  /\ IF proc[n] = "running"
       THEN /\ proc' = [proc EXCEPT ![n] = "dead"]
            /\ exitCode' = [exitCode EXCEPT ![n] = -9]
            /\ killedBy' = [killedBy EXCEPT ![n] = "timeout"]
       ELSE UNCHANGED <<proc, exitCode, killedBy>>
  /\ wait' = [wait EXCEPT ![n] = FALSE]
  /\ spc' = [spc EXCEPT ![n] = "loop"]
  /\ UNCHANGED <<restartFlg, restartProc>>

\* `while self.wait: sleep; if restart_process: run_server()`: the thread
\* leaves the loop once wait is False, or respawns when a restart is due.
SrvLoop(n) ==
  /\ spc[n] = "loop"
  /\ ~wait[n] \/ restartProc[n]
  /\ spc' = [spc EXCEPT ![n] = IF wait[n] THEN "start" ELSE "end"]
  /\ restartProc' = [restartProc EXCEPT ![n] = IF wait[n] THEN FALSE ELSE @]
  /\ UNCHANGED <<proc, exitCode, wait, restartFlg, errorFlg, returncode, killedBy>>

-----------------------------------------------------------------------------
(* The target process, on its own.                                         *)

ProcExit(n, rc) ==
  /\ proc[n] = "running"
  /\ proc' = [proc EXCEPT ![n] = "dead"]
  /\ exitCode' = [exitCode EXCEPT ![n] = rc]
  /\ killedBy' = [killedBy EXCEPT ![n] = "self"]
  /\ UNCHANGED <<spc, wait, restartFlg, restartProc, errorFlg, returncode>>

-----------------------------------------------------------------------------
(* Calls made by the orchestrator's main thread.                           *)

\* Fault: crash() only marks the restart as due and never kills.
crashNoKill(n) ==
  IF wait[n]
    THEN /\ restartFlg' = [restartFlg EXCEPT ![n] = TRUE]
         /\ UNCHANGED <<spc, proc, exitCode, killedBy, returncode, wait, restartProc, errorFlg>>
    ELSE UNCHANGED srvVars

\* crash(): if still wanted, kill and remember that a restart is due.
crash(n) ==
  IF wait[n]
    THEN /\ kill(n)
         /\ restartFlg' = [restartFlg EXCEPT ![n] = TRUE]
         /\ UNCHANGED <<spc, wait, restartProc, errorFlg>>
    ELSE UNCHANGED srvVars

\* restart(): if still wanted and a crash is pending, ask the thread to respawn.
restart(n) ==
  /\ IF wait[n] /\ restartFlg[n]
       THEN restartProc' = [restartProc EXCEPT ![n] = TRUE]
       ELSE UNCHANGED restartProc
  /\ UNCHANGED <<spc, proc, exitCode, wait, restartFlg, errorFlg, returncode, killedBy>>

\* close() called from cluster_stop.
srvClose(n) ==
  /\ close(n)
  /\ UNCHANGED <<spc, restartFlg, restartProc, errorFlg>>

SrvThreadStep(n) ==
  SrvSpawn(n) \/ SrvWaitDone(n) \/ SrvWaitTimeout(n) \/ SrvLoop(n)

SrvTypeOK ==
  /\ spc \in [Nodes -> {"start", "waiting", "loop", "end"}]
  /\ proc \in [Nodes -> {"none", "running", "dead"}]
  /\ exitCode \in [Nodes -> ExitCodes \cup {0, -9}]
  /\ wait \in [Nodes -> BOOLEAN]
  /\ restartFlg \in [Nodes -> BOOLEAN]
  /\ restartProc \in [Nodes -> BOOLEAN]
  /\ errorFlg \in [Nodes -> BOOLEAN]
  /\ returncode \in [Nodes -> ExitCodes \cup {0, -9, -1}]
  /\ killedBy \in [Nodes -> {"none", "self", "kill", "timeout"}]
=============================================================================
