------------------------------ MODULE ExecChild ------------------------------
(***************************************************************************)
(* A call of a child process, from src/crates/domarinn-core/src/exec.rs:   *)
(* run_exec_raw, collect_output and GroupKill, on Unix.                    *)
(*                                                                         *)
(* The child leads a process group.  It may start a helper in the group,   *)
(* read its request or not, and write output; helper and leader hold the   *)
(* ends of the pipes they did not close.  Requests and outputs are counted *)
(* in pipefuls divided by PipeRoom.                                        *)
(***************************************************************************)
EXTENDS Naturals

CONSTANTS RequestSize,    \* of the request, in the units of PipeRoom
          PipeRoom,       \* what a pipe holds before a writer waits
          MaxOutput       \* bound on what the processes write

VARIABLES at,             \* where run_exec_raw is
          result,         \* what it returned
          unsent,         \* of the request, not yet in the pipe
          stdin,          \* what is in the pipe to the child
          eof,            \* the child's stdin was closed after the request
          stdout,         \* what is in the pipe from the child
          written,        \* history: what the processes wrote to it
          collected,      \* what was read from it
          armed,          \* GroupKill still holds the group
          process,        \* leader and helper: "none", "alive" or "gone"
          holds           \* who has stdout, and who stdin, open

execVars == <<at, result, unsent, stdin, eof, stdout, written, collected, armed, process, holds>>

Processes == {"leader", "helper"}

----------------------------------------------------------------------------
(* run_exec_raw.                                                           *)

\* Dropping GroupKill and the child: every process of the group is killed
\* while it is armed, the leader in any case (kill_on_drop).
OnlyTheLeader == {"leader"}
Killed == IF armed THEN Processes ELSE {"leader"}

Kill(victims) ==
    /\ process' = [p \in Processes |-> IF p \in victims /\ process[p] = "alive" THEN "gone" ELSE process[p]]
    /\ holds' = [end \in DOMAIN holds |-> holds[end] \ victims]

Return(r) == at' = "returned" /\ result' = r

GiveUp(r) ==
    /\ Return(r) /\ Kill(Killed) /\ armed' = FALSE
    /\ UNCHANGED <<unsent, stdin, eof, stdout, written, collected>>

SpawnFails ==
    /\ at = "spawn" /\ Return("spawn")
    /\ UNCHANGED <<unsent, stdin, eof, stdout, written, collected, armed, process, holds>>

Spawn ==
    /\ at = "spawn" /\ at' = "write"
    /\ process' = [process EXCEPT !["leader"] = "alive"]
    /\ holds' = [end \in DOMAIN holds |-> {"leader"}]
    /\ armed' = TRUE
    /\ UNCHANGED <<result, unsent, stdin, eof, stdout, written, collected>>

\* write_all waits for room, for as long as someone could still read.
WriteSome ==
    /\ at = "write" /\ unsent > 0 /\ holds["stdin"] # {} /\ stdin < PipeRoom
    /\ stdin' = stdin + 1 /\ unsent' = unsent - 1
    /\ UNCHANGED <<at, result, eof, stdout, written, collected, armed, process, holds>>

\* All of it is written, or nobody reads any more; the end is closed.
CloseStdin ==
    /\ at = "write" /\ (unsent = 0 \/ holds["stdin"] = {})
    /\ at' = "collect" /\ eof' = TRUE
    /\ UNCHANGED <<result, unsent, stdin, stdout, written, collected, armed, process, holds>>

WriteFails == at = "write" /\ GiveUp("io")

\* collect_output reads to the end of the output while it waits for the leader.
Collect ==
    /\ at = "collect" /\ stdout > 0
    /\ stdout' = stdout - 1 /\ collected' = collected + 1
    /\ UNCHANGED <<at, result, unsent, stdin, eof, written, armed, process, holds>>

Complete ==
    /\ at = "collect"
    /\ process["leader"] = "gone" /\ holds["stdout"] = {} /\ stdout = 0
    /\ Return("completed") /\ armed' = FALSE
    /\ UNCHANGED <<unsent, stdin, eof, stdout, written, collected, process, holds>>

CollectFails == at = "collect" /\ GiveUp("io")

\* The timeout runs from the moment the output is collected.
TimeOut == at = "collect" /\ GiveUp("timeout")

\* The caller drops the call.
Abandon == at \in {"write", "collect"} /\ GiveUp("abandoned")

----------------------------------------------------------------------------
(* The processes.                                                          *)

ReadStdin(p) ==
    /\ process[p] = "alive" /\ p \in holds["stdin"] /\ stdin > 0
    /\ stdin' = stdin - 1
    /\ UNCHANGED <<at, result, unsent, eof, stdout, written, collected, armed, process, holds>>

WriteStdout(p) ==
    /\ process[p] = "alive" /\ p \in holds["stdout"] /\ stdout < PipeRoom /\ written < MaxOutput
    /\ stdout' = stdout + 1 /\ written' = written + 1
    /\ UNCHANGED <<at, result, unsent, stdin, eof, collected, armed, process, holds>>

StartHelper ==
    /\ process["leader"] = "alive" /\ process["helper"] = "none"
    /\ process' = [process EXCEPT !["helper"] = "alive"]
    /\ holds' = [end \in DOMAIN holds |->
                    holds[end] \cup (IF "leader" \in holds[end] THEN {"helper"} ELSE {})]
    /\ UNCHANGED <<at, result, unsent, stdin, eof, stdout, written, collected, armed>>

CloseEnd(p, end) ==
    /\ process[p] = "alive" /\ p \in holds[end]
    /\ holds' = [holds EXCEPT ![end] = @ \ {p}]
    /\ UNCHANGED <<at, result, unsent, stdin, eof, stdout, written, collected, armed, process>>

Exit(p) ==
    /\ process[p] = "alive"
    /\ Kill({p})
    /\ UNCHANGED <<at, result, unsent, stdin, eof, stdout, written, collected, armed>>

----------------------------------------------------------------------------
ExecInit ==
    /\ at = "spawn" /\ result = "none" /\ unsent = RequestSize
    /\ stdin = 0 /\ eof = FALSE /\ stdout = 0 /\ written = 0 /\ collected = 0
    /\ armed = FALSE
    /\ process = [p \in Processes |-> "none"]
    /\ holds = [end \in {"stdin", "stdout"} |-> {}]

ExecStep == SpawnFails \/ Spawn \/ WriteSome \/ CloseStdin \/ WriteFails \/ Collect \/ Complete
            \/ CollectFails \/ TimeOut \/ Abandon

ProcessStep ==
    \/ StartHelper
    \/ \E p \in Processes : ReadStdin(p) \/ WriteStdout(p) \/ Exit(p)
    \/ \E p \in Processes, end \in DOMAIN holds : CloseEnd(p, end)

ExecNext == ExecStep \/ ProcessStep

\* The runtime polls a call that can go on, and timers expire.  Nothing is
\* assumed of the processes.
ExecSpec ==
    /\ ExecInit /\ [][ExecNext]_execVars
    /\ WF_execVars(Spawn \/ WriteSome \/ CloseStdin \/ Collect \/ Complete)
    /\ WF_execVars(TimeOut)

\* A call that returns leaves no process of its group behind, also one that was
\* started by another: it is killed when the call ends early, and when the call
\* completes, one that is left has closed the output, which was read to its end
\* (run_exec_raw, GroupKill::drop, disarm).
NoProcessIsLeft ==
    at = "returned" =>
        /\ process["leader"] # "alive"
        /\ process["helper"] = "alive" => result = "completed" /\ "helper" \notin holds["stdout"]
        /\ result = "completed" => collected = written

\* A call ends, whatever its child does: the timeout sees to it (run_exec_raw).
EveryExecCallEnds == <>(at = "returned")

=============================================================================
