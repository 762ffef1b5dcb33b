------------------------------ MODULE Executer ------------------------------
(***************************************************************************)
(* The fence agent executor, pkg/cli/cliexecuter.go: the map of routines   *)
(* the reconciler consults, and the goroutines that run a fence agent with *)
(* retries and then write the outcome into the CR's status.                *)
(*                                                                         *)
(* A goroutine is a slot; it keeps running after Remove, which cancels its *)
(* context and forgets it but does not wait for it.  Both of its loops are *)
(* wait.ExponentialBackoffWithContext (external), whose remaining Steps    *)
(* are the field "steps".  The loop's condition is tried while steps > 0   *)
(* and the context is live; when it runs out of steps it returns an        *)
(* interrupted error, whatever happened to the context.                    *)
(*                                                                         *)
(* The runner gives one of three results.  "failed" is an exit status or a *)
(* kill: exec.CommandContext reports a process it killed, on time-out or   *)
(* cancellation, as an exit error.  "interrupted" is the context's own     *)
(* error, returned when the context ended before the process started or    *)
(* while it was exiting by itself.                                         *)
(***************************************************************************)
EXTENDS Cluster

CONSTANTS
    Slots,       \* goroutines; the map holds one per CR at most
    None,        \* no goroutine, no CR
    RetryCount   \* far.Spec.RetryCount, an integer without a minimum

ASSUME ExecuterAssumption ==
    /\ RetryCount \in Int
    /\ None \notin Slots
    /\ None \notin FARs

VARIABLES
    routines,    \* Executer.routines: the goroutine of each UID, or None
    gor,         \* the goroutines
    agentOk      \* history: a fence agent run for this CR exited with 0

execVars == <<routines, gor, agentOk>>

\* retry.DefaultBackoff.Steps (external)
StatusSteps == 4

(***************************************************************************)
(* pc of a goroutine:                                                      *)
(*   free    not running                                                   *)
(*   run     top of runWithRetry's loop                                    *)
(*   exec    the fence agent process is running                            *)
(*   update  top of updateStatusWithRetry's loop                           *)
(*   get     about to list the CRs                                         *)
(*   put     Status().Update of obj is on its way                          *)
(***************************************************************************)
GorPC == {"free", "run", "exec", "update", "get", "put"}
CmdErr == {"nil", "failed", "interrupted"}

Goroutine == [pc : GorPC, uid : FARs \cup {None}, cancelled : BOOLEAN,
              steps : Int, cmdErr : CmdErr, obj : FarObject]

FreeSlot == [pc |-> "free", uid |-> None, cancelled |-> FALSE, steps |-> 0,
             cmdErr |-> "nil", obj |-> NoFar]

ExecTypeOK ==
    /\ routines \in [FARs -> Slots \cup {None}]
    /\ gor \in [Slots -> Goroutine]
    /\ agentOk \in [FARs -> BOOLEAN]

NewExecuter ==
    /\ routines = [u \in FARs |-> None]
    /\ gor = [s \in Slots |-> FreeSlot]

ExecInit ==
    /\ NewExecuter
    /\ agentOk = [u \in FARs |-> FALSE]

-----------------------------------------------------------------------------
(***************************************************************************)
(* The methods the reconciler calls, each under routinesLock.              *)
(***************************************************************************)
\* Mutation: a second routine is not recognised.
ExistsNever(u) == FALSE

Exists(u) == routines[u] # None

AsyncExecute(u) ==
    IF Exists(u)
       THEN UNCHANGED <<routines, gor>>
       ELSE \E s \in Slots :
              /\ gor[s].pc = "free"
              /\ routines' = [routines EXCEPT ![u] = s]
              /\ gor' = [gor EXCEPT ![s] = [FreeSlot EXCEPT !.pc = "run", !.uid = u,
                                                            !.steps = RetryCount]]

\* Cancels the routine's context, which has no effect on one that has returned: its slot
\* may be another CR's by now.
Remove(u) ==
    IF Exists(u)
       THEN /\ routines' = [routines EXCEPT ![u] = None]
            /\ gor' = [s \in Slots |->
                         IF s = routines[u] /\ gor[s].uid = u
                            THEN [gor[s] EXCEPT !.cancelled = TRUE] ELSE gor[s]]
       ELSE UNCHANGED <<routines, gor>>

-----------------------------------------------------------------------------
(***************************************************************************)
(* fenceAgentRoutine.  It never takes itself out of the map.               *)
(***************************************************************************)
Becomes(s, g) == gor' = [gor EXCEPT ![s] = g]

Goto(s, pc) == Becomes(s, [gor[s] EXCEPT !.pc = pc])

Return(s) == Becomes(s, FreeSlot)

\* runWithRetry is over: on to the status, with what the last command returned.
BeginUpdate(s, err) ==
    Becomes(s, [gor[s] EXCEPT !.pc = "update", !.steps = StatusSteps, !.cmdErr = err])

\* The loop of runWithRetry ends (out of steps, or cancelled) or starts the command.
NextAttempt(s) ==
    /\ gor[s].pc = "run"
    /\ \/ gor[s].steps <= 0 /\ BeginUpdate(s, gor[s].cmdErr)
       \/ gor[s].steps > 0 /\ gor[s].cancelled /\ Return(s)
       \/ gor[s].steps > 0 /\ ~gor[s].cancelled /\ Goto(s, "exec")
    /\ UNCHANGED <<clusterVars, routines, agentOk>>

CommandSucceeds(s) ==
    /\ gor[s].pc = "exec"
    /\ agentOk' = [agentOk EXCEPT ![gor[s].uid] = TRUE]
    /\ BeginUpdate(s, "nil")
    /\ UNCHANGED <<clusterVars, routines>>

\* Mutation: the command's error is assigned to a shadowing variable.
CommandFailsShadowed(s) ==
    /\ gor[s].pc = "exec"
    /\ Becomes(s, [gor[s] EXCEPT !.pc = "run", !.steps = gor[s].steps - 1])
    /\ UNCHANGED <<clusterVars, routines, agentOk>>

\* Mutation: failed attempts are not counted.
CommandFailsForever(s) ==
    /\ gor[s].pc = "exec"
    /\ Becomes(s, [gor[s] EXCEPT !.pc = "run", !.cmdErr = "failed"])
    /\ UNCHANGED <<clusterVars, routines, agentOk>>

CommandFails(s) ==
    /\ gor[s].pc = "exec"
    /\ Becomes(s, [gor[s] EXCEPT !.pc = "run", !.steps = gor[s].steps - 1,
                                 !.cmdErr = "failed"])
    /\ UNCHANGED <<clusterVars, routines, agentOk>>

\* Not retried: the outcome is reported after a time-out, and dropped after a cancel.
CommandInterrupted(s) ==
    /\ gor[s].pc = "exec"
    /\ IF gor[s].cancelled THEN Return(s) ELSE BeginUpdate(s, "interrupted")
    /\ UNCHANGED <<clusterVars, routines, agentOk>>

-----------------------------------------------------------------------------
(***************************************************************************)
(* updateStatusWithRetry.                                                  *)
(***************************************************************************)
OutcomeReason(err) ==
    CASE err = "nil" -> AgentSucceeded
      [] err = "interrupted" -> AgentTimedOut
      [] OTHER -> AgentFailed

\* The CR that updateStatus sends.
WithOutcome(o, err) == [o EXCEPT !.st = UpdateConditions(OutcomeReason(err), @)]

NextUpdate(s) ==
    /\ gor[s].pc = "update"
    /\ IF gor[s].steps <= 0 \/ gor[s].cancelled THEN Return(s) ELSE Goto(s, "get")
    /\ UNCHANGED <<clusterVars, routines, agentOk>>

Listed == {u \in FARs : Present(farCache[u])}

\* Mutation: the UIDs of the listed CRs are not compared.
GetAny(s) ==
    /\ gor[s].pc = "get"
    /\ \E u \in Listed :
         Becomes(s, [gor[s] EXCEPT !.pc = "put", !.uid = u,
                                   !.obj = WithOutcome(farCache[u], gor[s].cmdErr)])
    /\ UNCHANGED <<clusterVars, routines, agentOk>>

\* The request is sent only while the context is live.  A UID missing from a list that
\* is not empty is an error and is not retried.
GetByUID(s) ==
    /\ gor[s].pc = "get" /\ Listed # {}
    /\ \/ /\ gor[s].uid \in Listed /\ ~gor[s].cancelled
          /\ Becomes(s, [gor[s] EXCEPT !.pc = "put",
                           !.obj = WithOutcome(farCache[gor[s].uid], gor[s].cmdErr)])
       \/ /\ gor[s].uid \notin Listed \/ gor[s].cancelled
          /\ Return(s)
    /\ UNCHANGED <<clusterVars, routines, agentOk>>

\* An empty list comes back as a nil CR without an error, which updateStatus dereferences.
GetPanics(s) == gor[s].pc = "get" /\ Listed = {}

\* Accepted (whether or not the reply arrives the goroutine is done).
PutAccepted(s) ==
    /\ gor[s].pc = "put"
    /\ FarFresh(gor[s].uid, gor[s].obj)
    /\ StoreFarStatus(gor[s].uid, gor[s].obj.st)
    /\ Return(s)
    /\ UNCHANGED <<farCache, node, nodeCache, nodePending, queue, faults,
                   routines, agentOk>>

\* A conflict uses up a step and starts over with a new read.
PutConflict(s) ==
    /\ gor[s].pc = "put"
    /\ Present(far[gor[s].uid]) /\ ~FarFresh(gor[s].uid, gor[s].obj)
    /\ Becomes(s, [gor[s] EXCEPT !.pc = "update", !.steps = gor[s].steps - 1,
                                 !.obj = NoFar])
    /\ UNCHANGED <<clusterVars, routines, agentOk>>

\* Not found, aborted by the cancelled context, or any other error: not retried.
PutFails(s) ==
    /\ gor[s].pc = "put"
    /\ \/ ~Present(far[gor[s].uid]) /\ UNCHANGED faults
       \/ gor[s].cancelled /\ UNCHANGED faults
       \/ ApiError
    /\ Return(s)
    /\ UNCHANGED <<far, farCache, farPending, node, nodeCache, nodePending, queue,
                   routines, agentOk>>

RoutineStep(s) ==
    \/ NextAttempt(s) \/ CommandSucceeds(s) \/ CommandFails(s) \/ CommandInterrupted(s)
    \/ NextUpdate(s) \/ GetByUID(s)
    \/ PutAccepted(s) \/ PutConflict(s) \/ PutFails(s)

=============================================================================
