--------------------------- MODULE TunnelWrapper ---------------------------
(***************************************************************************)
(* The Kotlin class around the native tunnel client (TunnelClient.kt): the  *)
(* coroutine that runs the tunnel, its child that turns a cancellation into *)
(* a stop, the teardown that close() starts, the flow of events with its    *)
(* replay buffer, and the native handle that all of them share.             *)
(*                                                                          *)
(* The native run() is an external part here: it tells the handler any      *)
(* number of events and then one terminal event, as TunnelEvents shows.     *)
(* The names of the specification have a prefix: EventsProofs extends both.  *)
(***************************************************************************)
EXTENDS Naturals, Sequences

CONSTANTS
    Callers,         \* those who call closeAndJoin()
    BUFFER_CAPACITY, \* of the flow
    MaxFlow          \* bound: events before the terminal one

ASSUME WrapperAssumption == BUFFER_CAPACITY \in Nat \ {0} /\ MaxFlow \in Nat

VARIABLES
    scope,     \* the scope of the wrapper: active or cancelled
    job,       \* runJob
    stopper,   \* stopOnCancel, the child of runJob
    cleanup,   \* cleanupJob
    caller,    \* the callers of closeAndJoin()
    handle,    \* the native handle: live or destroyed
    toldStop,  \* stop() was called on it
    native,    \* the native run()
    nativeEnd, \* the terminal event that run() will tell
    flow,      \* what was emitted into the flow
    sub        \* a collector of the flow: how far it is, and whether it collects

kotlinVars == <<scope, job, stopper, cleanup, caller>>
nativeVars == <<toldStop, native, nativeEnd>>
wrapperVars == <<kotlinVars, handle, nativeVars, flow, sub>>

FlowEnds == {"stopped", "failed"}

WrapperInit ==
    /\ scope = "active" /\ job = "created" /\ stopper = "none" /\ cleanup = "none"
    /\ caller = [k \in Callers |-> "idle"]
    /\ handle = "live" /\ toldStop = FALSE /\ native = "idle" /\ nativeEnd = "none"
    /\ flow = <<>> /\ sub = [at |-> 0, state |-> "none"]

\* stopQuietly(): a destroyed handle throws, and the exception is swallowed.
StopQuietly == toldStop' = (toldStop \/ handle = "live")

\* emit() suspends while a collector has not taken what the buffer holds.
CanEmit == sub.state = "none" \/ Len(flow) - sub.at < BUFFER_CAPACITY

Emit(event) == CanEmit /\ flow' = Append(flow, event)

-----------------------------------------------------------------------------
(* The application.                                                        *)

\* The parent scope is cancelled.
ParentCancels ==
    /\ scope = "active"
    /\ scope' = "cancelled"
    /\ UNCHANGED <<job, stopper, cleanup, caller, handle, nativeVars, flow, sub>>

\* closeAndJoin(), or close(): the first call starts the teardown.
Close(k) ==
    /\ caller[k] = "idle"
    /\ caller' = [caller EXCEPT ![k] = "waiting"]
    /\ IF cleanup = "none"
       THEN StopQuietly /\ cleanup' = "joining"
       ELSE UNCHANGED <<toldStop, cleanup>>
    /\ UNCHANGED <<scope, job, stopper, handle, native, nativeEnd, flow, sub>>

CloseReturns(k) ==
    /\ caller[k] = "waiting" /\ cleanup = "done"
    /\ caller' = [caller EXCEPT ![k] = "returned"]
    /\ UNCHANGED <<scope, job, stopper, cleanup, handle, nativeVars, flow, sub>>

\* A collector starts with what the flow replays.
Subscribe ==
    /\ sub.state = "none"
    /\ sub' = [at |-> IF Len(flow) > BUFFER_CAPACITY THEN Len(flow) - BUFFER_CAPACITY ELSE 0,
               state |-> "collecting"]
    /\ UNCHANGED <<kotlinVars, handle, nativeVars, flow>>

Collect ==
    /\ sub.state = "collecting" /\ sub.at < Len(flow)
    /\ sub' = [sub EXCEPT !.at = @ + 1]
    /\ UNCHANGED <<kotlinVars, handle, nativeVars, flow>>

CollectorHangs ==
    /\ sub.state = "collecting"
    /\ sub' = [sub EXCEPT !.state = "hung"]
    /\ UNCHANGED <<kotlinVars, handle, nativeVars, flow>>

-----------------------------------------------------------------------------
(* runJob and its child.                                                   *)

\* Mutant: the child is dispatched, and one that is cancelled before does not run.
JobStartsLazily ==
    /\ job = "created"
    /\ job' = "calling"
    /\ stopper' = IF scope = "cancelled" THEN "done" ELSE "waiting"
    /\ UNCHANGED <<scope, cleanup, caller, handle, nativeVars, flow, sub>>

\* An ATOMIC start happens also in a cancelled scope.  The child runs undispatched
\* to its first suspension, and past it if the scope is cancelled already.
JobStarts ==
    /\ job = "created"
    /\ job' = "calling"
    /\ IF scope = "cancelled"
       THEN StopQuietly /\ stopper' = "done"
       ELSE stopper' = "waiting" /\ UNCHANGED toldStop
    /\ UNCHANGED <<scope, cleanup, caller, handle, native, nativeEnd, flow, sub>>

\* inner.run(): throws if the handle was destroyed.
CallRun ==
    /\ job = "calling"
    /\ IF handle = "live"
       THEN job' = "running" /\ native' = "starting"
       ELSE job' = "failing" /\ UNCHANGED native
    /\ UNCHANGED <<scope, stopper, cleanup, caller, handle, toldStop, nativeEnd, flow, sub>>

\* catch (e: Throwable)
ReportFailure ==
    /\ job = "failing"
    /\ Emit("failed")
    /\ job' = "finally"
    /\ UNCHANGED <<scope, stopper, cleanup, caller, handle, nativeVars, sub>>

\* Mutant: without NonCancellable, a cancelled scope abandons the native run.
RunReturnsCancelled ==
    /\ job = "running"
    /\ native = "ended" \/ scope = "cancelled"
    /\ job' = "finally"
    /\ UNCHANGED <<scope, stopper, cleanup, caller, handle, nativeVars, flow, sub>>

\* NonCancellable: the native run is awaited whatever happens to the scope.
RunReturns ==
    /\ job = "running"
    /\ native = "ended"
    /\ job' = "finally"
    /\ UNCHANGED <<scope, stopper, cleanup, caller, handle, nativeVars, flow, sub>>

\* finally: stopOnCancel.cancel(), then inner.close()
JobCancelsStopper ==
    /\ job = "finally"
    /\ job' = "closing"
    /\ UNCHANGED <<scope, stopper, cleanup, caller, handle, nativeVars, flow, sub>>

JobCloses ==
    /\ job = "closing"
    /\ handle' = "destroyed"
    /\ job' = "closed"
    /\ UNCHANGED <<scope, stopper, cleanup, caller, nativeVars, flow, sub>>

\* A job completes with its children.
JobCompletes ==
    /\ job = "closed" /\ stopper = "done"
    /\ job' = "done"
    /\ UNCHANGED <<scope, stopper, cleanup, caller, handle, nativeVars, flow, sub>>

\* awaitCancellation() throws and the child's finally block is dispatched.
StopperStops ==
    /\ stopper = "waiting"
    /\ scope = "cancelled" \/ job \in {"closing", "closed"}
    /\ StopQuietly
    /\ stopper' = "done"
    /\ UNCHANGED <<scope, job, cleanup, caller, handle, native, nativeEnd, flow, sub>>

-----------------------------------------------------------------------------
(* The teardown.                                                           *)

\* Mutant: joins without a timeout.
CleanupWaits ==
    /\ cleanup = "joining" /\ job = "done"
    /\ cleanup' = "joined"
    /\ UNCHANGED <<scope, job, stopper, caller, handle, nativeVars, flow, sub>>

\* runJob has completed, or CLOSE_JOIN_TIMEOUT_MS has passed.
CleanupJoins ==
    /\ cleanup = "joining"
    /\ cleanup' = "joined"
    /\ UNCHANGED <<scope, job, stopper, caller, handle, nativeVars, flow, sub>>

CleanupCancels ==
    /\ cleanup = "joined"
    /\ scope' = "cancelled"
    /\ cleanup' = "cancelled"
    /\ UNCHANGED <<job, stopper, caller, handle, nativeVars, flow, sub>>

CleanupCloses ==
    /\ cleanup = "cancelled"
    /\ handle' = "destroyed"
    /\ cleanup' = "done"
    /\ UNCHANGED <<scope, job, stopper, caller, nativeVars, flow, sub>>

-----------------------------------------------------------------------------
(* The native run(), which keeps its own reference to the tunnel.           *)

NativeStarts ==
    /\ native = "starting"
    /\ \/ toldStop /\ native' = "ending" /\ nativeEnd' = "stopped"
       \/ ~toldStop /\ native' = "tunnel" /\ UNCHANGED nativeEnd
       \/ ~toldStop /\ native' = "ending" /\ nativeEnd' = "failed"
    /\ UNCHANGED <<kotlinVars, handle, toldStop, flow, sub>>

NativeEvent ==
    /\ native = "tunnel"
    /\ Len(flow) < MaxFlow
    /\ Emit("event")
    /\ UNCHANGED <<kotlinVars, handle, nativeVars, sub>>

NativeStops ==
    /\ native = "tunnel" /\ toldStop
    /\ native' = "ending" /\ nativeEnd' = "stopped"
    /\ UNCHANGED <<kotlinVars, handle, toldStop, flow, sub>>

NativeFails ==
    /\ native = "tunnel"
    /\ native' = "ending" /\ nativeEnd' = "failed"
    /\ UNCHANGED <<kotlinVars, handle, toldStop, flow, sub>>

NativeEnds ==
    /\ native = "ending"
    /\ Emit(nativeEnd)
    /\ native' = "ended"
    /\ UNCHANGED <<kotlinVars, handle, toldStop, nativeEnd, sub>>

-----------------------------------------------------------------------------

JobStep ==
    \/ JobStarts \/ CallRun \/ ReportFailure \/ RunReturns
    \/ JobCancelsStopper \/ JobCloses \/ JobCompletes

CleanupStep == CleanupJoins \/ CleanupCancels \/ CleanupCloses

WrapperNext ==
    \/ ParentCancels \/ Subscribe \/ Collect \/ CollectorHangs
    \/ \E k \in Callers : Close(k) \/ CloseReturns(k)
    \/ JobStep \/ StopperStops \/ CleanupStep
    \/ NativeStarts \/ NativeEvent \/ NativeStops \/ NativeFails \/ NativeEnds

WrapperSpec == WrapperInit /\ [][WrapperNext]_wrapperVars

\* Coroutines that can go on do; a native run that is told to stop ends
\* (StreamEnds of TunnelEvents); a collector that does not hang collects.
WrapperFairness ==
    /\ WF_wrapperVars(JobStep) /\ WF_wrapperVars(StopperStops) /\ WF_wrapperVars(CleanupStep)
    /\ \A k \in Callers : WF_wrapperVars(CloseReturns(k))
    /\ WF_wrapperVars(NativeStarts) /\ WF_wrapperVars(NativeStops) /\ WF_wrapperVars(NativeEnds)
    /\ WF_wrapperVars(Collect)

FairWrapperSpec == WrapperSpec /\ WrapperFairness

-----------------------------------------------------------------------------
(* Properties.                                                             *)

WrapperTypeOK ==
    /\ scope \in {"active", "cancelled"}
    /\ job \in {"created", "calling", "running", "failing", "finally", "closing", "closed",
                "done"}
    /\ stopper \in {"none", "waiting", "done"}
    /\ cleanup \in {"none", "joining", "joined", "cancelled", "done"}
    /\ caller \in [Callers -> {"idle", "waiting", "returned"}]
    /\ handle \in {"live", "destroyed"} /\ toldStop \in BOOLEAN
    /\ native \in {"idle", "starting", "tunnel", "ending", "ended"}
    /\ nativeEnd \in {"none"} \cup FlowEnds
    /\ flow \in Seq({"event"} \cup FlowEnds)
    /\ sub \in [at : 0..Len(flow), state : {"none", "collecting", "hung"}]

\* The comment on the class: "Exactly one terminal event - Stopped or Failed -
\* always ends [events]."  Nothing follows a terminal event, and one has been emitted
\* when runJob gets to its finally block: by the native run or, if the handle was
\* destroyed before it could start, by the wrapper, and never by both.
OneEnd ==
    /\ \A i \in 1..Len(flow) : flow[i] \in FlowEnds => i = Len(flow)
    /\ job \in {"finally", "closing", "closed", "done"} =>
        Len(flow) > 0 /\ flow[Len(flow)] \in FlowEnds

\* closeAndJoin() returns, and the handle is then destroyed, whoever else closes or
\* cancels, and also if the collector hangs and run() with it.
CloseReleases ==
    \A k \in Callers : caller[k] = "waiting" ~> caller[k] = "returned" /\ handle = "destroyed"

\* A cancelled scope stops the tunnel like close() does, even if it was cancelled
\* before runJob was dispatched: run() ends, runJob completes and the handle is
\* destroyed, unless the collector hangs.
CancelEnds ==
    scope = "cancelled" ~> (job = "done" /\ handle = "destroyed") \/ sub.state = "hung"

=============================================================================
