------------------------------- MODULE Backfill -------------------------------
(***************************************************************************)
(* `ltm backfill': the command that has the server feed old session files  *)
(* to the long-term memory (server/src/cli/ltm-commands.ts), the routes    *)
(* that start, report and cancel a job (server/src/server.ts), and the job *)
(* (server/src/memory/bridge/backfill-job.ts), over the server's drain and *)
(* restart.  Pauses are steps that take a while; one file after another is *)
(* what module LtmStore ingests.                                           *)
(***************************************************************************)
EXTENDS Naturals, FiniteSets

CONSTANTS
    Commands,       \* runs of the command
    OldFiles,       \* the session files in its directory, in their order: 1..n
    Broken,         \* those that are no session files
    MaxServers      \* bound: processes of the server

ASSUME BackfillAssumption ==
    /\ "none" \notin Commands
    /\ OldFiles \subseteq Nat \ {0} /\ Broken \subseteq OldFiles
    /\ MaxServers \in Nat

VARIABLES
    cmd,        \* each command: what it does, or its exit code
    signalled,  \* Ctrl-C
    deletes,    \* its DELETE, on its way
    job,        \* the job of each command in this process
    slot,       \* currentBackfillJob
    process,    \* "up", "draining", "down"
    storeOpen,  \* the LTM is attached, and lock.pid is the server's
    servers

feedVars == <<cmd, signalled, deletes, job, slot, process, storeOpen, servers>>

NoCommand == "none"
NoJob == [status |-> "none"]
NewJob == [status |-> "running", at |-> 0, todo |-> OldFiles, done |-> {},
           warned |-> {}, cancelRequested |-> FALSE]
Terminal(status) == status \in {"done", "cancelled", "failed"}
Ended == {"0", "1"}

BackfillInit ==
    /\ cmd = [c \in Commands |-> "new"] /\ signalled = {} /\ deletes = {}
    /\ job = [c \in Commands |-> NoJob] /\ slot = NoCommand
    /\ process = "up" /\ storeOpen = TRUE
    /\ servers = 1

hostState == <<process, storeOpen, servers>>

-----------------------------------------------------------------------------
(* The routes.                                                             *)

Taken == slot # NoCommand /\ ~Terminal(job[slot].status)

\* POST: without an LTM it is refused; then its body is read.
Post(c) ==
    /\ cmd[c] = "new"
    /\ cmd' = [cmd EXCEPT ![c] = IF process = "up" /\ storeOpen THEN "posted" ELSE "1"]
    /\ UNCHANGED <<signalled, deletes, job, slot, hostState>>

\* The guard, the job, its slot and the listing of the directory, in one go; the
\* job has the handle that the LTM had when the request came.
StartJob(c) ==
    /\ cmd[c] = "posted" /\ process # "down"
    /\ IF Taken
       THEN cmd' = [cmd EXCEPT ![c] = "1"] /\ UNCHANGED <<job, slot>>
       ELSE /\ \E listing \in {"running", "failed"} :
                  job' = [job EXCEPT ![c] = [NewJob EXCEPT !.status = listing]]
            /\ slot' = c
            /\ cmd' = [cmd EXCEPT ![c] = "polling"]
    /\ UNCHANGED <<signalled, deletes, hostState>>

\* DELETE: a job that is not in the slot is not found.
DeleteArrives(c) ==
    /\ c \in deletes
    /\ deletes' = deletes \ {c}
    /\ job' = IF process = "up" /\ slot = c THEN [job EXCEPT ![c].cancelRequested = TRUE] ELSE job
    /\ UNCHANGED <<cmd, signalled, slot, hostState>>

-----------------------------------------------------------------------------
(* The command.                                                            *)

Interrupt(c) ==
    /\ cmd[c] = "polling" /\ c \notin signalled
    /\ signalled' = signalled \cup {c} /\ deletes' = deletes \cup {c}
    /\ UNCHANGED <<cmd, job, slot, hostState>>

\* The connection of a POST is lost with the process.
PostLost(c) ==
    /\ cmd[c] = "posted" /\ process = "down"
    /\ cmd' = [cmd EXCEPT ![c] = "1"]
    /\ UNCHANGED <<signalled, deletes, job, slot, hostState>>

\* A slip of Poll: "job not found" is taken for an answer to wait on.
PollOn(c) ==
    /\ cmd[c] = "polling" /\ process = "up" /\ slot = c /\ Terminal(job[c].status)
    /\ cmd' = [cmd EXCEPT ![c] = IF job[c].status = "done" THEN "0" ELSE "1"]
    /\ UNCHANGED <<signalled, deletes, job, slot, hostState>>

\* Every 5 s: the command ends with the job, or when the server does not answer
\* or does not know the job.
Poll(c) ==
    /\ cmd[c] = "polling"
    /\ LET known == process = "up" /\ slot = c
       IN /\ known => Terminal(job[c].status)
          /\ cmd' = [cmd EXCEPT ![c] = IF known /\ job[c].status = "done" THEN "0" ELSE "1"]
    /\ UNCHANGED <<signalled, deletes, job, slot, hostState>>

-----------------------------------------------------------------------------
(* The job.                                                                *)

Busy(c) == job[c].status = "running" /\ process # "down"

\* Between two files: a cancellation is looked for, and then the next one taken.
NextFile(c) ==
    /\ Busy(c) /\ job[c].at = 0
    /\ \/ /\ job[c].cancelRequested
          /\ job' = [job EXCEPT ![c].status = "cancelled"]
       \/ /\ ~job[c].cancelRequested /\ job[c].todo = {}
          /\ job' = [job EXCEPT ![c].status = "done"]
       \/ /\ ~job[c].cancelRequested
          /\ \E f \in job[c].todo :
                /\ \A g \in job[c].todo : f <= g
                /\ job' = [job EXCEPT ![c].at = f, ![c].todo = @ \ {f}]
    /\ UNCHANGED <<cmd, signalled, deletes, slot, hostState>>

\* The handle works on after close().
FileFed(c) ==
    /\ Busy(c) /\ job[c].at \in OldFiles \ Broken
    /\ job' = [job EXCEPT ![c].at = 0, ![c].done = @ \cup {job[c].at}]
    /\ UNCHANGED <<cmd, signalled, deletes, slot, hostState>>

\* One that fails is a warning, and is not tried again.
FileFailed(c) ==
    /\ Busy(c) /\ job[c].at \in OldFiles
    /\ job' = [job EXCEPT ![c].at = 0, ![c].warned = @ \cup {job[c].at}]
    /\ UNCHANGED <<cmd, signalled, deletes, slot, hostState>>

-----------------------------------------------------------------------------
(* The server: its drain waits for requests and closes the LTM; the process  *)
(* ends when nothing is left to do, a job included, or when it is killed.   *)

StartDrain ==
    /\ process = "up"
    /\ process' = "draining"
    /\ UNCHANGED <<cmd, signalled, deletes, job, slot, storeOpen, servers>>

CloseStore ==
    /\ process = "draining" /\ storeOpen /\ \A c \in Commands : cmd[c] # "posted"
    /\ storeOpen' = FALSE
    /\ UNCHANGED <<cmd, signalled, deletes, job, slot, process, servers>>

ProcessEnds ==
    /\ process # "down"
    /\ process' = "down" /\ storeOpen' = FALSE
    /\ UNCHANGED <<cmd, signalled, deletes, job, slot, servers>>

StartServer ==
    /\ process = "down" /\ servers < MaxServers
    /\ servers' = servers + 1
    /\ process' = "up" /\ storeOpen' \in BOOLEAN
    /\ job' = [c \in Commands |-> NoJob] /\ slot' = NoCommand
    /\ UNCHANGED <<cmd, signalled, deletes>>

-----------------------------------------------------------------------------
JobRuns(c) == NextFile(c) \/ FileFed(c) \/ FileFailed(c)
Answered(c) == StartJob(c) \/ PostLost(c) \/ Poll(c)

BackfillNext ==
    \/ \E c \in Commands :
          Post(c) \/ Interrupt(c) \/ DeleteArrives(c) \/ Answered(c) \/ JobRuns(c)
    \/ StartDrain \/ CloseStore \/ ProcessEnds \/ StartServer

\* Requests are answered, commands go on polling, and what the job waits for
\* comes: an ingestion and a pause end.
BackfillFairness ==
    \A c \in Commands : WF_feedVars(Answered(c)) /\ WF_feedVars(JobRuns(c))

BackfillSpec == BackfillInit /\ [][BackfillNext]_feedVars /\ BackfillFairness

-----------------------------------------------------------------------------
(* Properties.                                                             *)

BackfillTypeOK ==
    /\ cmd \in [Commands -> {"new", "posted", "polling"} \cup Ended]
    /\ signalled \subseteq Commands /\ deletes \subseteq signalled
    /\ slot \in Commands \cup {NoCommand}
    /\ \A c \in Commands : job[c] # NoJob =>
          job[c].at \in OldFiles \cup {0} /\ job[c].done \subseteq OldFiles \ Broken
    /\ process \in {"up", "draining", "down"} /\ (storeOpen => process # "down")

\* "Two concurrent POSTs can't both pass the guard" (server.ts:276-281): one job
\* runs at a time, however requests, cancellations and a drain interleave; only
\* its own command cancels it, and a job that is done has taken every file or
\* warned of it, "per-file isolation" (backfill-job.ts:31-36).
BackfillSound ==
    /\ \A c, d \in Commands : job[c].status = "running" /\ job[d].status = "running" => c = d
    /\ \A c \in Commands :
          /\ job[c].status = "cancelled" => c \in signalled
          /\ job[c].status = "done" => job[c].done \cup job[c].warned = OldFiles

\* The command returns, whatever becomes of its request, its job and the server:
\* it neither waits on a job of a server that is gone nor on a cancellation that
\* was lost (ltm-commands.ts:470-505).
BackfillReturns == \A c \in Commands : (cmd[c] = "posted") ~> (cmd[c] \in Ended)

\* A command that asks for a backfill gets one: no job of two, none of it cut off
\* by another command, and in the end an exit code.
BackfillSettles == []BackfillSound /\ BackfillReturns

\* Not so: the store "is single-writer", its lock held while it is written
\* (packages/ltm/src/api/memory-system.ts:75-80).  The drain neither cancels nor
\* awaits the job, whose handle goes on writing after close() released the lock.
FedUnderLock ==
    [][\A c \in Commands :
           /\ job[c].status = "running" /\ job'[c] # NoJob
           /\ job'[c].done # job[c].done
           => storeOpen]_feedVars

\* Not so: the job is kept "in the slot for later GET reads even after done"
\* (server.ts:285).  Another command's job takes the slot between two polls, and
\* a command whose job was done fails.
OutcomeIsTold ==
    process = "up" =>
        \A c \in Commands : cmd[c] = "1" => job[c].status # "done"
===============================================================================
