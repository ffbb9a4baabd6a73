---------------------------- MODULE NativeRuntime -----------------------------
(***************************************************************************)
(* The native process, `service run-native`: its main goroutine, the       *)
(* engine's two forwarding loops over a MASQUE tunnel, and the goroutine   *)
(* that hands the tunnel's events to the runtime tracker.                  *)
(*                                                                         *)
(* Not modelled here: what the tracker writes to runtime.json and the      *)
(* socket (BackendRuntime), packets and the userspace network stack, which *)
(* is open until it is closed.  A panic ends the process.                  *)
(***************************************************************************)
EXTENDS MasqueTunnel

VARIABLES
  stage,     \* how far the main goroutine is
  errors,    \* the errors in the engine's channel
  degraded   \* the tracker's LastTransportError is set

engine == <<stage, errors, degraded>>
vars == <<tunnelVars, engine>>

Stages == {"starting", "preparing", "serving", "stopped", "cancelled",
           "stackClosed", "closed", "ended"}
Cancelled == stage \in {"cancelled", "stackClosed", "closed", "ended"}
StackClosed == stage \in {"stackClosed", "closed", "ended"}
ErrorsCap == 2

Panicked == \E c \in Callers : pc[c] = "panic"
Ended == stage = "ended" \/ Panicked
Closing == stage \in {"stopped", "cancelled", "stackClosed", "closed", "ended"}

Init == TunnelInit /\ stage = "starting" /\ errors = 0 /\ degraded = FALSE

-------------------------------------------------------------------------------
(* The engine's loops. *)

LoopTop(f) ==
  /\ pc[f] = "idle" \/ (pc[f] = "ok" /\ f \in Writers)
  /\ stage # "starting"
  /\ Goto(f, IF Cancelled THEN "dead" ELSE IF f \in Readers THEN "read" ELSE "stack")
  /\ UNCHANGED <<link, channel, held, attempt, faults, engine>>

\* Mutant: the error channel has no buffer, and main may not be receiving yet.
ReportUnbuffered(f) ==
  /\ Goto(f, "dead")
  /\ errors' = IF stage = "serving" THEN 1 ELSE errors
  /\ UNCHANGED <<link, channel, held, attempt, faults, stage, degraded>>

\* reportError, and the loop ends.
Report(f) ==
  /\ Goto(f, "dead")
  /\ errors' = IF errors < ErrorsCap THEN errors + 1 ELSE errors
  /\ UNCHANGED <<link, channel, held, attempt, faults, stage, degraded>>

StackRead(f) ==
  /\ pc[f] = "stack"
  /\ \/ /\ ~StackClosed
        /\ Goto(f, "write")
        /\ UNCHANGED <<link, channel, held, attempt, faults, engine>>
     \/ StackClosed /\ Report(f)

StackWrite(f) ==
  /\ pc[f] = "ok" /\ f \in Readers
  /\ \/ /\ ~StackClosed
        /\ Goto(f, "idle")
        /\ UNCHANGED <<link, channel, held, attempt, faults, engine>>
     \/ StackClosed /\ Report(f)

TunnelError(f) == pc[f] = "error" /\ Report(f)

-------------------------------------------------------------------------------
(* runNativeRuntime. *)

\* The event loop's receive, ObserveEvent and recordEvent.
RecordEvent ==
  /\ stage # "starting"
  /\ events # <<>>
  /\ events' = Tail(events)
  /\ degraded' = CASE Head(events) = "error"     -> TRUE
                   [] Head(events) = "connected" -> FALSE
                   [] OTHER                      -> degraded
  /\ UNCHANGED <<link, eventsClosed, local, faults, stage, errors>>

At(s, t) == stage = s /\ stage' = t

StartFails ==
  /\ At("starting", "ended")
  /\ pc[Owner] = "error"
  /\ UNCHANGED <<tunnelVars, errors, degraded>>

StartEngine ==
  /\ At("starting", "preparing")
  /\ pc[Owner] = "ok"
  /\ UNCHANGED <<tunnelVars, errors, degraded>>

\* The listeners and the socket; an error there returns through the deferred
\* calls, without tracker.stop.
Serve ==
  /\ At("preparing", "serving") \/ At("preparing", "stopped")
  /\ UNCHANGED <<tunnelVars, errors, degraded>>

\* The select of runNativeRuntime, then tracker.stop.
StopOnError ==
  /\ At("serving", "stopped")
  /\ errors > 0
  /\ errors' = errors - 1
  /\ UNCHANGED <<tunnelVars, degraded>>

\* A signal, or a listener's error.
StopOnSignal ==
  /\ At("serving", "stopped")
  /\ UNCHANGED <<tunnelVars, errors, degraded>>

\* The deferred eng.Close: cancel, stack.Close, tunnel.Close.
Cancel == At("stopped", "cancelled") /\ UNCHANGED <<tunnelVars, errors, degraded>>

CloseStack ==
  /\ At("cancelled", "stackClosed")
  /\ Goto(Owner, "close")
  /\ UNCHANGED <<link, channel, held, attempt, faults, errors, degraded>>

\* The deferred tun.Close: the tunnel's second.  CloseEvents then closes a closed
\* channel, so that no step leads from here to "ended".
CloseAgain ==
  /\ At("stackClosed", "closed")
  /\ pc[Owner] = "ok"
  /\ Goto(Owner, "close")
  /\ UNCHANGED <<link, channel, held, attempt, faults, errors, degraded>>

-------------------------------------------------------------------------------
ForwarderNext(f) ==
  \/ LoopTop(f) \/ StackRead(f) \/ StackWrite(f) \/ TunnelError(f)
  \/ ForwarderStep(f) /\ UNCHANGED engine

MainNext ==
  \/ OwnerStep /\ UNCHANGED engine
  \/ StartFails \/ StartEngine \/ Serve
  \/ StopOnError \/ Cancel \/ CloseStack \/ CloseAgain

Next ==
  /\ ~Ended
  /\ \/ \E f \in Forwarders : ForwarderNext(f)
     \/ MainNext \/ StopOnSignal
     \/ RecordEvent
     \/ \E s \in Sessions : Break(s) /\ UNCHANGED engine

Spec == Init /\ [][Next]_vars

-------------------------------------------------------------------------------
(* Properties. *)

TypeOK ==
  /\ TunnelTypeOK
  /\ stage \in Stages
  /\ errors \in 0..ErrorsCap
  /\ degraded \in BOOLEAN

\* A nil bundle, a closed channel and a channel closed twice are met only once
\* the process has begun to close the tunnel.
PanicsOnlyWhileClosing == Panicked => stage \in {"stackClosed", "closed"}

\* The events of a start, which nobody receives yet, fit the channel, so that
\* the tracker learns that the tunnel is connected.
StartIsReported == stage = "starting" => "missed" \notin faults

\* Unless an event was dropped, runtime.json stops saying that the transport has
\* failed once both loops are back at their packets and the events are recorded.
TrackerSettles ==
  /\ "missed" \notin faults
  /\ events = <<>> /\ ~Closing
  /\ stage # "starting"
  /\ \A f \in Forwarders : pc[f] \notin Reconnecting \cup {"error", "dead"}
  => ~degraded

\* A session that is lost once, with every dial answered, is replaced without
\* an error, as long as no reconnect replaces a session that works.
OneLossIsSurvived ==
  faults \subseteq {"loss", "missed"} /\ ~Closing =>
    \A f \in Forwarders : pc[f] \notin {"error", "dead"}

\* One forwarding loop does not run on without the other: when one has ended,
\* its error is there for the select that ends the process.
NoHalfTunnel ==
  (\E f \in Forwarders : pc[f] = "dead") => errors > 0 \/ Closing

\* docs/specs/002-unified-transport-dataplane/design.md:202: reconnect logic on
\* session loss.  One loss with every dial answered is survived, whoever else
\* reconnects.
SessionLossIsSurvived ==
  faults \subseteq {"loss", "missed", "replaced"} /\ ~Closing =>
    \A f \in Forwarders : pc[f] \notin {"error", "dead"}

===============================================================================
