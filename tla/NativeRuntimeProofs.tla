-------------------------- MODULE NativeRuntimeProofs --------------------------
(***************************************************************************)
(* Proofs about NativeRuntime for any readers and writers of the tunnel,   *)
(* any number of attempts, and every capacity its assumptions allow.       *)
(***************************************************************************)
EXTENDS NativeRuntime, TLAPS

-------------------------------------------------------------------------------
(* The inductive invariant. *)

\* A dial that backs off has an attempt left.
AttemptsLeft == \A c \in Callers : pc[c] = "backoff" => attempt[c] < MaxAttempts

\* Where the main goroutine is in the tunnel's code: it dials at the start, and
\* comes back only to close.
MainKnown ==
  /\ stage = "starting" => /\ pc[Owner] \in Dialing \cup {"ok", "error"}
                           /\ \A f \in Forwarders : pc[f] = "idle"
  /\ stage \in {"preparing", "serving", "stopped", "cancelled"} => pc[Owner] = "ok"
  /\ stage \in {"stackClosed", "closed"} =>
       pc[Owner] \in {"close", "closeEvents", "ok", "panic"}

\* Until the tunnel is being closed there is a session, and the channel is open.
TunnelOpen ==
  stage \notin {"stackClosed", "closed"} =>
    /\ ~eventsClosed
    /\ \A c \in Callers : pc[c] # "panic"
    /\ bundle = Nil <=> stage \in {"starting", "ended"} /\ pc[Owner] # "ok"
    /\ \A c \in Callers : pc[c] \in {"use", "reuse"} => held[c] # Nil

Installing == \A c \in Callers : pc[c] = "install" => held[c] # Nil

\* How much of the channel a start has filled, with nobody receiving.
StartFits ==
  stage = "starting" =>
    /\ "missed" \notin faults
    /\ pc[Owner] = "dial"       => Len(events) <= 2 * attempt[Owner] - 2
    /\ pc[Owner] = "connecting" => Len(events) <= 2 * attempt[Owner] - 1
    /\ pc[Owner] \in {"backoff", "install"} => Len(events) <= 2 * attempt[Owner]

\* The last word about the transport, of those recorded and those still in the
\* channel, is an error.
LastWordIsError ==
  \/ degraded /\ \A i \in 1..Len(events) : events[i] = "info"
  \/ \E i \in 1..Len(events) :
       /\ events[i] = "error"
       /\ \A j \in (i + 1)..Len(events) : events[j] = "info"

\* Whoever has said that the transport failed is still dialing, or has given up.
GaveUp == {"error", "dead"}
Troubled ==
  \/ stage = "starting" /\ pc[Owner] # "ok"
  \/ \E f \in Forwarders : pc[f] \in Dialing \cup {"closeOld"} \cup GaveUp
ErrorIsCurrent == "missed" \notin faults /\ ~Closing /\ LastWordIsError => Troubled

Up(s) == s # Nil /\ session[s] = "up"

\* Before the loss every session in use works and nobody reconnects.
BeforeLoss ==
  /\ \A s \in Sessions : session[s] # "down"
  /\ pc[Owner] = "ok" => Up(bundle)
  /\ pc[Owner] = "install" => Up(held[Owner])
  /\ \A f \in Forwarders : pc[f] \notin Reconnecting \cup {"reload", "reuse"}
  /\ \A f \in Forwarders : pc[f] = "use" => Up(held[f])

\* After it the sessions dialled work, and none of them is closed.
AfterLoss ==
  /\ \A f \in Forwarders : pc[f] \in {"install", "reuse"} => Up(held[f])
  /\ \A f \in Forwarders : pc[f] = "closeOld" => ~Up(held[f])
  /\ (\E f \in Forwarders : pc[f] \in {"closeOld", "reload", "reuse"}) => Up(bundle)

Recovers ==
  /\ \A f \in Forwarders : pc[f] \notin {"error", "dead"}
  /\ IF "loss" \in faults THEN AfterLoss ELSE BeforeLoss

OneLoss == faults \subseteq {"loss", "missed"} /\ ~Closing => Recovers

IInv == TypeOK /\ AttemptsLeft /\ MainKnown /\ TunnelOpen /\ Installing

-------------------------------------------------------------------------------
(* Types. *)

\* The main goroutine is not one of the loops.
LEMMA OwnerApart ==
  /\ Owner \in Callers /\ Forwarders \subseteq Callers
  /\ \A f \in Forwarders : f # Owner
  /\ \A c \in Callers : c # Owner => c \in Forwarders
  BY CallersAssumption DEF Callers, Forwarders

\* Emit moves the caller on, to a panic if the channel is closed.
LEMMA Emitting ==
  ASSUME TypeOK, NEW c \in Callers, NEW e \in EventTypes, NEW next \in Points,
         Emit(c, e, next)
  PROVE  /\ pc' = [pc EXCEPT ![c] = IF eventsClosed THEN "panic" ELSE next]
         /\ pc' \in [Callers -> Points]
         /\ events' \in Seq(EventTypes) /\ Len(events') <= EventsCap
         /\ eventsClosed' = eventsClosed
<1>1. "panic" \in Points
  BY DEF Points
<1>2. pc' = [pc EXCEPT ![c] = IF eventsClosed THEN "panic" ELSE next]
  BY DEF Emit, Goto
<1>3. events' \in Seq(EventTypes) /\ Len(events') <= EventsCap
  <2>1. events \in Seq(EventTypes) /\ Len(events) \in Nat /\ EventsCap \in Nat
    BY CapAssumption DEF TypeOK, TunnelTypeOK
  <2>2. CASE eventsClosed \/ Len(events) >= EventsCap
    BY <2>2 DEF Emit, TypeOK, TunnelTypeOK
  <2>3. CASE ~(eventsClosed \/ Len(events) >= EventsCap)
    BY <2>1, <2>3 DEF Emit
  <2>4. QED
    BY <2>2, <2>3
<1>4. QED
  BY <1>1, <1>2, <1>3 DEF Emit, TypeOK, TunnelTypeOK

LEMMA InitInv == Init => IInv
<1> SUFFICES ASSUME Init
             PROVE  IInv
  OBVIOUS
<1> USE OwnerApart DEF Init, TunnelInit
<1>1. TypeOK
  <2>1. <<>> \in Seq(EventTypes) /\ Len(<<>>) <= EventsCap
    BY CapAssumption
  <2>2. 1 \in 1..MaxAttempts /\ 0 \in 0..PendingCap
    BY CapAssumption
  <2>3. pc \in [Callers -> Points]
    BY DEF Points, Reconnecting, Dialing
  <2>4. held \in [Callers -> Sessions \cup {Nil}] /\ attempt \in [Callers -> 1..MaxAttempts]
    BY <2>2
  <2>5. TunnelTypeOK
    BY <2>1, <2>2, <2>3, <2>4 DEF TunnelTypeOK
  <2>6. stage \in Stages /\ errors \in 0..ErrorsCap
    BY DEF Stages, ErrorsCap
  <2>7. degraded \in BOOLEAN
    OBVIOUS
  <2>8. QED
    BY <2>5, <2>6, <2>7 DEF TypeOK
<1>2. AttemptsLeft /\ MainKnown /\ TunnelOpen /\ Installing
  BY DEF AttemptsLeft, MainKnown, TunnelOpen, Installing, Dialing
<1>3. QED
  BY <1>1, <1>2 DEF IInv

\* A step of a loop, of the tunnel or of main keeps every variable in its type.
LEMMA TypeStep ==
  ASSUME TypeOK, AttemptsLeft, Next
  PROVE  TypeOK' /\ AttemptsLeft'
<1> USE OwnerApart DEF TypeOK, TunnelTypeOK, AttemptsLeft
<1> DEFINE Kept == TypeOK' /\ AttemptsLeft'
<1>c. Len(events) \in Nat /\ EventsCap \in Nat /\ PendingCap \in Nat
  BY CapAssumption
<1>1. ASSUME NEW f \in Forwarders,
             LoopTop(f) \/ StackRead(f) \/ StackWrite(f) \/ TunnelError(f)
      PROVE  Kept
  BY <1>1 DEF LoopTop, StackRead, StackWrite, TunnelError, Report, Goto, link, channel,
     engine, ErrorsCap, Points
<1>2. ASSUME NEW f \in Forwarders, ReadPending(f), UNCHANGED engine
      PROVE  Kept
  BY <1>2, <1>c DEF ReadPending, Goto, channel, engine, Points
<1>3. ASSUME NEW f \in Forwarders, UNCHANGED engine, Current(f) \/ Reload(f)
      PROVE  Kept
  BY <1>3 DEF Current, Reload, Goto, Hold, link, channel, engine, Points
<1>4. ASSUME NEW f \in Forwarders, UNCHANGED engine, UseFails(f) \/ UseNil(f)
      PROVE  Kept
  BY <1>4 DEF UseFails, UseNil, Goto, Hold, link, channel, engine, Points, Reconnecting
<1>5. ASSUME NEW f \in Forwarders, UNCHANGED engine, UseSucceeds(f)
      PROVE  Kept
  BY <1>5, <1>c DEF UseSucceeds, Goto, Hold, channel, engine, Points
<1>6. ASSUME NEW f \in Forwarders, UNCHANGED engine, Reconnect(f)
      PROVE  Kept
  <2>1. "error" \in EventTypes /\ "dial" \in Points
    BY DEF EventTypes, Points, Reconnecting, Dialing
  <2>2. 1 \in 1..MaxAttempts
    BY CapAssumption
  <2>3. QED
    BY <1>6, <2>1, <2>2, Emitting DEF Reconnect, link, engine, Missed, Faults
<1>7. ASSUME NEW c \in Callers, UNCHANGED engine, Dial(c)
      PROVE  Kept
  <2>1. "info" \in EventTypes /\ "connecting" \in Points
    BY DEF EventTypes, Points, Reconnecting, Dialing
  <2>2. QED
    BY <1>7, <2>1, Emitting DEF Dial, link, engine
<1>8. ASSUME NEW c \in Callers, UNCHANGED engine, DialFails(c)
      PROVE  Kept
  <2>1. "error" \in EventTypes /\ {"backoff", "error"} \subseteq Points
    BY DEF EventTypes, Points, Reconnecting, Dialing
  <2>2. CASE attempt[c] = MaxAttempts
    <3>1. pc' = [pc EXCEPT ![c] = "error"] /\ UNCHANGED channel
      BY <1>8, <2>2 DEF DialFails, Goto
    <3>2. faults' = faults \cup {"refused"} /\ UNCHANGED <<link, held, attempt, engine>>
      BY <1>8, <2>2 DEF DialFails
    <3>3. QED
      BY <2>1, <3>1, <3>2 DEF link, channel, engine, Faults
  <2>3. CASE attempt[c] # MaxAttempts
    BY <1>8, <2>1, <2>3, Emitting, CapAssumption
       DEF DialFails, link, engine, Missed, Faults
  <2>4. QED
    BY <2>2, <2>3
<1>9. ASSUME NEW c \in Callers, UNCHANGED engine, Backoff(c)
      PROVE  Kept
  BY <1>9, CapAssumption DEF Backoff, Goto, link, channel, engine, Points, Reconnecting,
     Dialing
<1>10. ASSUME NEW c \in Callers, UNCHANGED engine, Connect(c)
       PROVE  Kept
  <2>1. "info" \in EventTypes /\ "install" \in Points
    BY DEF EventTypes, Points, Reconnecting, Dialing
  <2>2. PICK s \in Sessions : session' = [session EXCEPT ![s] = "up"] /\ Hold(c, s)
    BY <1>10 DEF Connect, Unreferenced
  <2>3. QED
    BY <1>10, <2>1, <2>2, Emitting DEF Connect, Hold, engine
<1>11. ASSUME UNCHANGED engine, Establish
       PROVE  Kept
  <2>1. "connected" \in EventTypes /\ "ok" \in Points
    BY DEF EventTypes, Points
  <2>2. QED
    BY <1>11, <2>1, Emitting DEF Establish, Hold, engine, Missed, Faults
<1>12. ASSUME NEW f \in Forwarders, UNCHANGED engine, SetBundle(f)
       PROVE  Kept
  BY <1>12 DEF SetBundle, Goto, Hold, channel, engine, Points, Reconnecting, Faults
<1>13. ASSUME NEW f \in Forwarders, UNCHANGED engine, CloseOld(f)
       PROVE  Kept
  <2>1. "connected" \in EventTypes /\ "reload" \in Points
    BY DEF EventTypes, Points
  <2>2. QED
    BY <1>13, <2>1, Emitting DEF CloseOld, Hold, engine, Missed, Faults
<1>14. ASSUME UNCHANGED engine, CloseBundle
       PROVE  Kept
  BY <1>14 DEF CloseBundle, Goto, channel, engine, Points
<1>15. ASSUME UNCHANGED engine, CloseEvents
       PROVE  Kept
  <2>1. events' \in Seq(EventTypes) /\ Len(events') <= EventsCap
    BY <1>15, <1>c DEF CloseEvents
  <2>2. QED
    BY <1>15, <2>1 DEF CloseEvents, Goto, link, engine, Points
<1>16. ASSUME RecordEvent
       PROVE  Kept
  <2>1. events' \in Seq(EventTypes) /\ Len(events') <= EventsCap
    BY <1>16, <1>c DEF RecordEvent
  <2>2. QED
    BY <1>16, <2>1 DEF RecordEvent, link, local
<1>17. ASSUME \/ StartFails \/ StartEngine \/ Serve
              \/ StopOnError \/ StopOnSignal \/ Cancel
       PROVE  Kept
  BY <1>17 DEF StartFails, StartEngine, Serve, StopOnError, StopOnSignal, Cancel, At,
     Stages, ErrorsCap, tunnelVars, link, channel, local
<1>18. ASSUME CloseStack \/ CloseAgain
       PROVE  Kept
  BY <1>18 DEF CloseStack, CloseAgain, At, Goto, link, channel, Stages, Points
<1>19. ASSUME NEW s \in Sessions, UNCHANGED engine, Break(s)
       PROVE  Kept
  BY <1>19 DEF Break, channel, local, engine, Faults
<1>20. QED
  BY <1>1, <1>2, <1>3, <1>4, <1>5, <1>6, <1>7, <1>8, <1>9, <1>10, <1>11, <1>12, <1>13,
     <1>14, <1>15, <1>16, <1>17, <1>18, <1>19
     DEF Next, ForwarderNext, MainNext, ForwarderStep, OwnerStep, DialStep

-------------------------------------------------------------------------------
(* Where main is, and what that says of the tunnel. *)

\* No step is taken after the end or after a panic.
LEMMA StillRunning ==
  ASSUME Next
  PROVE  stage # "ended" /\ \A c \in Callers : pc[c] # "panic"
  BY DEF Next, Ended, Panicked

\* A loop is inside the tunnel only after the start.
LEMMA LoopsAfterStart ==
  ASSUME IInv, Next, NEW f \in Forwarders,
         ForwarderNext(f)
  PROVE  stage # "starting"
  BY DEF IInv, MainKnown, ForwarderNext, LoopTop, StackRead, StackWrite, TunnelError,
     ForwarderStep, DialStep, ReadPending, Current, UseSucceeds, UseFails, UseNil,
     Reconnect, Dial, DialFails, Backoff, Connect, SetBundle, CloseOld, Reload

\* What a caller's step does not touch.
OthersStay(c) == \A d \in Callers \ {c} : pc'[d] = pc[d] /\ held'[d] = held[d]

\* A step of the dialling code.
LEMMA DialMoves ==
  ASSUME IInv, Next, NEW c \in Callers, DialStep(c)
  PROVE  /\ OthersStay(c)
         /\ UNCHANGED <<eventsClosed, bundle, pending>>
         /\ pc[c] \in {"dial", "connecting", "backoff"}
         /\ pc'[c] \in Dialing \cup {"error", "panic"}
         /\ pc'[c] = "panic" => eventsClosed
         /\ pc'[c] = "install" => held'[c] # Nil
<1> USE DEF OthersStay, IInv, TypeOK, TunnelTypeOK, Goto, Emit, Dialing, link, channel
<1>1. CASE Dial(c)
  BY <1>1 DEF Dial
<1>2. CASE DialFails(c)
  <2>1. CASE attempt[c] = MaxAttempts
    BY <1>2, <2>1 DEF DialFails
  <2>2. CASE attempt[c] # MaxAttempts
    BY <1>2, <2>2 DEF DialFails
  <2>3. QED
    BY <2>1, <2>2
<1>3. CASE Backoff(c)
  BY <1>3 DEF Backoff
<1>4. CASE Connect(c)
  <2>1. PICK s \in Sessions : Hold(c, s)
    BY <1>4 DEF Connect, Unreferenced
  <2>2. QED
    BY <1>4, <2>1, NilAssumption DEF Connect, Hold
<1>5. QED
  BY <1>1, <1>2, <1>3, <1>4 DEF DialStep

\* A step of a loop, inside the tunnel or outside.
LEMMA LoopMoves ==
  ASSUME IInv, Next, NEW f \in Forwarders, ForwarderNext(f)
  PROVE  /\ OthersStay(f)
         /\ UNCHANGED <<eventsClosed, stage, degraded>>
         /\ \/ UNCHANGED bundle
            \/ pc[f] = "install" /\ bundle' = held[f] /\ pc'[f] = "closeOld"
         /\ pc'[f] = "panic" =>
              eventsClosed \/ (pc[f] \in {"use", "reuse"} /\ held[f] = Nil)
         /\ pc'[f] = "install" => held'[f] # Nil
         /\ pc'[f] \in {"use", "reuse"} => held'[f] = bundle
<1> USE OwnerApart
    DEF OthersStay, IInv, TypeOK, TunnelTypeOK, Goto, Hold, link, channel, engine
<1>1. CASE LoopTop(f) \/ StackRead(f) \/ StackWrite(f) \/ TunnelError(f)
  BY <1>1 DEF LoopTop, StackRead, StackWrite, TunnelError, Report
<1>2. CASE UNCHANGED engine /\ (ReadPending(f) \/ Current(f) \/ Reload(f))
  BY <1>2 DEF ReadPending, Current, Reload
<1>3. CASE UNCHANGED engine /\ (UseSucceeds(f) \/ UseFails(f) \/ UseNil(f))
  BY <1>3 DEF UseSucceeds, UseFails, UseNil
<1>4. CASE UNCHANGED engine /\ (Reconnect(f) \/ CloseOld(f))
  <2>1. \E l \in {"dial", "reload"} :
          pc' = [pc EXCEPT ![f] = IF eventsClosed THEN "panic" ELSE l]
    BY <1>4 DEF Reconnect, CloseOld, Emit
  <2>2. UNCHANGED <<eventsClosed, bundle>> /\ \A d \in Callers \ {f} : held'[d] = held[d]
    BY <1>4 DEF Reconnect, CloseOld, Emit
  <2>3. QED
    BY <1>4, <2>1, <2>2
<1>5. CASE UNCHANGED engine /\ SetBundle(f)
  BY <1>5 DEF SetBundle
<1>6. CASE UNCHANGED engine /\ DialStep(f)
  <2>1. f \in Callers
    OBVIOUS
  <2>2. OthersStay(f) /\ UNCHANGED <<eventsClosed, bundle, stage, degraded>>
    BY <1>6, <2>1, DialMoves
  <2>3. QED
    BY <1>6, <2>1, <2>2, DialMoves DEF Dialing
<1>7. QED
  BY <1>1, <1>2, <1>3, <1>4, <1>5, <1>6 DEF ForwarderNext, ForwarderStep

LEMMA ControlStep ==
  ASSUME IInv, Next
  PROVE  MainKnown' /\ TunnelOpen' /\ Installing'
<1> DEFINE Kept == MainKnown' /\ TunnelOpen' /\ Installing'
<1> USE OwnerApart, StillRunning
    DEF IInv, TypeOK, TunnelTypeOK, MainKnown, TunnelOpen, Installing
<1>1. ASSUME NEW f \in Forwarders, ForwarderNext(f)
      PROVE  Kept
  <2>1. stage # "starting" /\ f # Owner /\ f \in Callers
    BY <1>1, LoopsAfterStart
  <2>2. MainKnown' /\ Installing'
    BY <1>1, <2>1, LoopMoves DEF OthersStay
  <2>3. TunnelOpen'
    BY <1>1, <2>1, LoopMoves DEF OthersStay
  <2>4. QED
    BY <2>2, <2>3
<1>2. ASSUME DialStep(Owner), UNCHANGED engine
      PROVE  Kept
  <2>1. /\ OthersStay(Owner)
        /\ UNCHANGED <<eventsClosed, bundle, stage>>
        /\ pc[Owner] \in {"dial", "connecting", "backoff"}
        /\ pc'[Owner] \in Dialing \cup {"error", "panic"}
        /\ pc'[Owner] = "panic" => eventsClosed
        /\ pc'[Owner] = "install" => held'[Owner] # Nil
    BY <1>2, DialMoves DEF engine
  <2>2. stage = "starting" /\ ~eventsClosed /\ bundle = Nil
    BY <2>1 DEF Stages
  <2>3. MainKnown' /\ Installing'
    BY <2>1, <2>2 DEF OthersStay
  <2>4. \A c \in Callers : pc'[c] \notin {"panic", "use", "reuse"}
    BY <2>1, <2>2 DEF OthersStay, Dialing
  <2>5. QED
    BY <2>1, <2>2, <2>3, <2>4 DEF Dialing
<1>3. ASSUME Establish, UNCHANGED engine
      PROVE  Kept
  BY <1>3 DEF Establish, Emit, Goto, Hold, engine, Dialing
<1>4. ASSUME CloseBundle \/ CloseEvents, UNCHANGED engine
      PROVE  Kept
  <2>1. pc[Owner] \in {"close", "closeEvents"} /\ UNCHANGED <<held, stage>>
    BY <1>4 DEF CloseBundle, CloseEvents, engine
  <2>2. stage \in {"stackClosed", "closed"}
    BY <2>1 DEF Stages, Dialing
  <2>3. \E l \in {"closeEvents", "ok", "panic"} : pc' = [pc EXCEPT ![Owner] = l]
    BY <1>4 DEF CloseBundle, CloseEvents, Goto
  <2>4. QED
    BY <2>1, <2>2, <2>3
<1>5. ASSUME StartFails \/ StartEngine \/ Serve \/ StopOnError \/ StopOnSignal \/ Cancel
      PROVE  Kept
  BY <1>5 DEF StartFails, StartEngine, Serve, StopOnError, StopOnSignal, Cancel, At,
     tunnelVars, link, channel, local
<1>6. ASSUME CloseStack \/ CloseAgain
      PROVE  Kept
  BY <1>6 DEF CloseStack, CloseAgain, At, Goto, link, channel
<1>7. ASSUME RecordEvent
      PROVE  Kept
  BY <1>7 DEF RecordEvent, link, local
<1>8. ASSUME NEW s \in Sessions, Break(s), UNCHANGED engine
      PROVE  Kept
  BY <1>8 DEF Break, channel, local, engine
<1>9. QED
  BY <1>1, <1>2, <1>3, <1>4, <1>5, <1>6, <1>7, <1>8 DEF Next, MainNext, OwnerStep

LEMMA Invariance == Spec => []IInv
<1>1. IInv /\ [Next]_vars => IInv'
  <2> SUFFICES ASSUME IInv, [Next]_vars
               PROVE  IInv'
    OBVIOUS
  <2>1. CASE Next
    <3>1. TypeOK /\ AttemptsLeft
      BY DEF IInv
    <3>2. QED
      BY <2>1, <3>1, TypeStep, ControlStep DEF IInv
  <2>2. CASE UNCHANGED vars
    <3>1. UNCHANGED <<session, bundle, events, eventsClosed, pending, pc, held, attempt,
                      faults, stage, errors, degraded>>
      BY <2>2 DEF vars, tunnelVars, link, channel, local, engine
    <3>2. QED
      BY <3>1 DEF IInv, TypeOK, TunnelTypeOK, AttemptsLeft, MainKnown, TunnelOpen,
         Installing
  <2>3. QED
    BY <2>1, <2>2
<1>2. QED
  BY InitInv, <1>1, PTL DEF Spec

\* Every variable keeps its type: no session but a known one is held, the event
\* channel, the answers waiting and the attempts stay within their bounds.
THEOREM NativeTypeCorrect == Spec => []TypeOK
<1>1. IInv => TypeOK
  BY DEF IInv
<1>2. QED
  BY Invariance, <1>1, PTL

\* The tunnel's nil bundle and its closed channel are met by a loop, or by the
\* second Close, only once the first Close has begun.
THEOREM PanicsWhileClosing == Spec => []PanicsOnlyWhileClosing
<1>1. IInv => PanicsOnlyWhileClosing
  BY DEF IInv, TunnelOpen, PanicsOnlyWhileClosing, Panicked
<1>2. QED
  BY Invariance, <1>1, PTL

-------------------------------------------------------------------------------
(* The loops end together. *)

LEMMA HalfTunnelStep ==
  ASSUME IInv, NoHalfTunnel, Next
  PROVE  NoHalfTunnel'
<1> USE OwnerApart DEF IInv, TypeOK, TunnelTypeOK, NoHalfTunnel, Closing
<1>1. ASSUME NEW f \in Forwarders, LoopTop(f)
      PROVE  NoHalfTunnel'
  BY <1>1 DEF LoopTop, Goto, engine, Cancelled
<1>2. ASSUME NEW f \in Forwarders, Report(f)
      PROVE  NoHalfTunnel'
  <2>1. errors' > 0
    BY <1>2 DEF Report, ErrorsCap
  <2>2. QED
    BY <2>1
<1>3. ASSUME UNCHANGED engine,
             \A f \in Forwarders : pc'[f] = "dead" => pc[f] = "dead"
      PROVE  NoHalfTunnel'
  BY <1>3 DEF engine
<1>4. ASSUME NEW f \in Forwarders,
             StackRead(f) \/ StackWrite(f) \/ TunnelError(f)
      PROVE  NoHalfTunnel'
  <2>1. CASE Report(f)
    BY <1>2, <2>1
  <2>2. CASE UNCHANGED engine /\ \E l \in {"write", "idle"} : Goto(f, l)
    BY <1>3, <2>2 DEF Goto
  <2>3. QED
    BY <1>4, <2>1, <2>2 DEF StackRead, StackWrite, TunnelError
<1>5. ASSUME NEW f \in Forwarders, ForwarderStep(f), UNCHANGED engine
      PROVE  NoHalfTunnel'
  <2>1. OthersStay(f) /\ pc'[f] # "dead"
    <3>1. CASE DialStep(f)
      BY <3>1, DialMoves DEF Dialing
    <3>2. CASE Reconnect(f) \/ CloseOld(f)
      BY <3>2 DEF Reconnect, CloseOld, Emit, Goto, Hold, OthersStay, link
    <3>3. CASE \/ ReadPending(f) \/ Current(f) \/ Reload(f) \/ SetBundle(f)
               \/ UseSucceeds(f) \/ UseFails(f) \/ UseNil(f)
      BY <3>3 DEF ReadPending, Current, Reload, SetBundle, UseSucceeds, UseFails, UseNil,
         Goto, Hold, OthersStay
    <3>4. QED
      BY <1>5, <3>1, <3>2, <3>3 DEF ForwarderStep
  <2>2. QED
    BY <1>3, <1>5, <2>1 DEF OthersStay
<1>6. ASSUME OwnerStep, UNCHANGED engine
      PROVE  NoHalfTunnel'
  <2>1. OthersStay(Owner)
    BY <1>6, DialMoves DEF OwnerStep, Establish, CloseBundle, CloseEvents, Emit, Goto,
       Hold, OthersStay
  <2>2. QED
    BY <1>3, <1>6, <2>1 DEF OthersStay
<1>7. ASSUME StartFails \/ StartEngine \/ Serve \/ StopOnError \/ StopOnSignal \/ Cancel
      PROVE  NoHalfTunnel'
  BY <1>7 DEF StartFails, StartEngine, Serve, StopOnError, StopOnSignal, Cancel, At,
     tunnelVars, local
<1>8. ASSUME CloseStack \/ CloseAgain
      PROVE  NoHalfTunnel'
  BY <1>8 DEF CloseStack, CloseAgain, At
<1>9. ASSUME RecordEvent
      PROVE  NoHalfTunnel'
  BY <1>9 DEF RecordEvent, local
<1>10. ASSUME NEW s \in Sessions, Break(s), UNCHANGED engine
       PROVE  NoHalfTunnel'
  BY <1>10 DEF Break, local, engine
<1>11. QED
  BY <1>1, <1>4, <1>5, <1>6, <1>7, <1>8, <1>9, <1>10 DEF Next, ForwarderNext, MainNext

\* When one of the loops has ended, main has its error or is closing already,
\* however many loops there are and however many have ended.
THEOREM LoopsEndTogether == Spec => []NoHalfTunnel
<1>1. Init => NoHalfTunnel
  BY OwnerApart DEF Init, TunnelInit, NoHalfTunnel
<1>2. IInv /\ NoHalfTunnel /\ [Next]_vars => NoHalfTunnel'
  <2>1. UNCHANGED vars /\ NoHalfTunnel => NoHalfTunnel'
    BY DEF vars, tunnelVars, local, engine, NoHalfTunnel, Closing
  <2>2. QED
    BY <2>1, HalfTunnelStep
<1>3. QED
  BY Invariance, <1>1, <1>2, PTL DEF Spec

-------------------------------------------------------------------------------
(* No session is left behind. *)

LEMMA LeakStep ==
  ASSUME IInv, NoSessionLeaks, Next
  PROVE  NoSessionLeaks'
<1> USE OwnerApart DEF IInv, TypeOK, TunnelTypeOK, NoSessionLeaks
\* A step that opens no session and takes none from who is responsible for it.
<1>1. ASSUME NEW c \in Callers, pc[c] \notin {"install", "closeOld", "panic"},
             OthersStay(c), UNCHANGED bundle,
             \A s \in Sessions : session'[s] # "closed" => session[s] # "closed"
      PROVE  NoSessionLeaks'
  BY <1>1 DEF OthersStay
<1>2. ASSUME NEW c \in Callers, Connect(c)
      PROVE  NoSessionLeaks'
  <2>1. PICK s \in Sessions : session' = [session EXCEPT ![s] = "up"] /\ Hold(c, s)
    BY <1>2 DEF Connect, Unreferenced
  <2>2. pc[c] = "connecting" /\ pc'[c] \in {"install", "panic"} /\ held'[c] = s
        /\ OthersStay(c) /\ UNCHANGED bundle
    BY <1>2, <2>1 DEF Connect, Emit, Goto, Hold, OthersStay
  <2>3. QED
    BY <2>1, <2>2 DEF OthersStay
<1>3. ASSUME NEW c \in Callers, DialStep(c)
      PROVE  NoSessionLeaks'
  <2>1. CASE Connect(c)
    BY <1>2, <2>1
  <2>2. CASE Dial(c) \/ DialFails(c) \/ Backoff(c)
    <3>1. UNCHANGED session
      BY <2>2 DEF Dial, DialFails, Backoff, link
    <3>2. QED
      BY <1>1, <1>3, <3>1, DialMoves
  <2>3. QED
    BY <1>3, <2>1, <2>2 DEF DialStep
<1>4. ASSUME NEW f \in Forwarders, SetBundle(f)
      PROVE  NoSessionLeaks'
  <2>1. /\ pc[f] = "install" /\ pc'[f] = "closeOld" /\ OthersStay(f)
        /\ held'[f] = bundle /\ bundle' = held[f] /\ UNCHANGED session
    BY <1>4 DEF SetBundle, Goto, Hold, OthersStay
  <2>2. QED
    BY <2>1 DEF OthersStay
<1>5. ASSUME NEW f \in Forwarders, CloseOld(f)
      PROVE  NoSessionLeaks'
  <2>1. /\ pc[f] = "closeOld" /\ OthersStay(f) /\ UNCHANGED bundle
        /\ session' = [s \in Sessions |-> IF s = held[f] THEN "closed" ELSE session[s]]
    BY <1>5 DEF CloseOld, Emit, Goto, Hold, OthersStay
  <2>2. QED
    BY <2>1 DEF OthersStay
<1>6. ASSUME NEW f \in Forwarders,
             \/ ReadPending(f) \/ Current(f) \/ Reload(f) \/ Reconnect(f)
             \/ UseSucceeds(f) \/ UseFails(f) \/ UseNil(f)
      PROVE  NoSessionLeaks'
  <2>1. /\ pc[f] \notin {"install", "closeOld", "panic"}
        /\ OthersStay(f) /\ UNCHANGED <<session, bundle>>
    BY <1>6 DEF ReadPending, Current, Reload, Reconnect, Emit, UseSucceeds, UseFails,
       UseNil, Goto, Hold, OthersStay, link
  <2>2. QED
    BY <1>1, <2>1
<1>7. ASSUME NEW f \in Forwarders,
             LoopTop(f) \/ StackRead(f) \/ StackWrite(f) \/ TunnelError(f)
      PROVE  NoSessionLeaks'
  <2>1. /\ pc[f] \notin {"install", "closeOld", "panic"}
        /\ OthersStay(f) /\ UNCHANGED <<session, bundle>>
    BY <1>7 DEF LoopTop, StackRead, StackWrite, TunnelError, Report, Goto, OthersStay, link
  <2>2. QED
    BY <1>1, <2>1
<1>8. ASSUME Establish, UNCHANGED engine
      PROVE  NoSessionLeaks'
  <2>1. /\ pc[Owner] = "install" /\ OthersStay(Owner)
        /\ bundle' = held[Owner] /\ UNCHANGED session
    BY <1>8 DEF Establish, Emit, Goto, Hold, OthersStay
  <2>2. bundle = Nil
    BY <2>1, StillRunning DEF MainKnown, TunnelOpen, Stages
  <2>3. QED
    BY <2>1, <2>2, NilAssumption DEF OthersStay
<1>9. ASSUME CloseBundle
      PROVE  NoSessionLeaks'
  <2>1. /\ pc[Owner] = "close" /\ OthersStay(Owner)
        /\ session' = [s \in Sessions |-> IF s = bundle THEN "closed" ELSE session[s]]
    BY <1>9 DEF CloseBundle, Goto, OthersStay
  <2>2. QED
    BY <2>1 DEF OthersStay
<1>10. ASSUME CloseEvents
       PROVE  NoSessionLeaks'
  <2>1. pc[Owner] = "closeEvents" /\ OthersStay(Owner) /\ UNCHANGED <<session, bundle>>
    BY <1>10 DEF CloseEvents, Goto, OthersStay, link
  <2>2. QED
    BY <1>1, <2>1
<1>11. ASSUME \/ StartFails \/ StartEngine \/ Serve \/ StopOnError \/ StopOnSignal
              \/ Cancel \/ RecordEvent
       PROVE  NoSessionLeaks'
  BY <1>11 DEF StartFails, StartEngine, Serve, StopOnError, StopOnSignal, Cancel,
     RecordEvent, tunnelVars, link, local
<1>12. ASSUME CloseStack \/ CloseAgain
       PROVE  NoSessionLeaks'
  <2>1. pc[Owner] = "ok" /\ OthersStay(Owner) /\ UNCHANGED <<session, bundle>>
    BY <1>12 DEF CloseStack, CloseAgain, At, MainKnown, Goto, OthersStay, link
  <2>2. QED
    BY <1>1, <2>1
<1>13. ASSUME NEW s \in Sessions, Break(s)
       PROVE  NoSessionLeaks'
  BY <1>13 DEF Break, local
<1>14. QED
  BY <1>3, <1>4, <1>5, <1>6, <1>7, <1>8, <1>9, <1>10, <1>11, <1>12, <1>13
     DEF Next, ForwarderNext, ForwarderStep, MainNext, OwnerStep

\* A session that has not been closed is the tunnel's, or in the hands of a
\* caller that is about to install or to close it.
THEOREM SessionsAreClosed == Spec => []NoSessionLeaks
<1>1. Init => NoSessionLeaks
  BY DEF Init, TunnelInit, NoSessionLeaks
<1>2. IInv /\ NoSessionLeaks /\ [Next]_vars => NoSessionLeaks'
  <2>1. UNCHANGED vars /\ NoSessionLeaks => NoSessionLeaks'
    BY DEF vars, tunnelVars, link, local, NoSessionLeaks
  <2>2. QED
    BY <2>1, LeakStep
<1>3. QED
  BY Invariance, <1>1, <1>2, PTL DEF Spec

-------------------------------------------------------------------------------
(* The events of a start fit the channel. *)

LEMMA StartStep ==
  ASSUME IInv, StartFits, Next
  PROVE  StartFits'
<1> SUFFICES ASSUME stage' = "starting"
             PROVE  StartFits'
  BY DEF StartFits
<1> USE OwnerApart DEF IInv, TypeOK, TunnelTypeOK, StartFits
<1> DEFINE n == Len(events)
           a == attempt[Owner]
<1>t. /\ n \in Nat /\ a \in Nat /\ a <= MaxAttempts /\ MaxAttempts \in Nat
      /\ EventsCap \in Nat /\ EventsCap >= 2 * MaxAttempts + 1
  BY CapAssumption
\* An emission into a channel that has room.
<1>e. ASSUME NEW e \in EventTypes, NEW next, Emit(Owner, e, next), stage = "starting",
             n < EventsCap
      PROVE  Len(events') = n + 1 /\ pc'[Owner] = next /\ Missed(e) = {}
  <2>1. ~eventsClosed
    BY <1>e DEF TunnelOpen
  <2>2. events' = Append(events, e)
    BY <1>t, <1>e, <2>1 DEF Emit
  <2>3. Len(events') = n + 1
    BY <2>2
  <2>4. Missed(e) = {}
    BY <1>t, <1>e DEF Missed
  <2>5. QED
    BY <1>e, <2>1, <2>3, <2>4 DEF Emit, Goto
<1>1. ASSUME DialStep(Owner), UNCHANGED engine
      PROVE  StartFits'
  <2>1. stage = "starting"
    BY <1>1 DEF engine
  <2>2. CASE Dial(Owner)
    <3>1. pc[Owner] = "dial" /\ n <= 2 * a - 2 /\ UNCHANGED <<attempt, faults>>
      BY <2>1, <2>2 DEF Dial
    <3>2. n < EventsCap /\ "info" \in EventTypes
      BY <1>t, <3>1 DEF EventTypes
    <3>3. Len(events') = n + 1 /\ pc'[Owner] = "connecting"
      BY <1>e, <2>1, <2>2, <3>2 DEF Dial
    <3>4. QED
      BY <1>t, <2>1, <3>1, <3>3
  <2>3. CASE DialFails(Owner)
    <3>1. pc[Owner] \in {"dial", "connecting"} /\ n <= 2 * a - 1 /\ UNCHANGED attempt
      BY <1>t, <2>1, <2>3 DEF DialFails
    <3>2. n < EventsCap /\ "error" \in EventTypes
      BY <1>t, <3>1 DEF EventTypes
    <3>3. CASE a = MaxAttempts
      <4>1. pc'[Owner] = "error" /\ faults' = faults \cup {"refused"}
        BY <2>3, <3>3 DEF DialFails, Goto
      <4>2. QED
        BY <2>1, <4>1
    <3>4. CASE a # MaxAttempts
      <4>1. Emit(Owner, "error", "backoff")
            /\ faults' = faults \cup {"refused"} \cup Missed("error")
        BY <2>3, <3>4 DEF DialFails
      <4>2. /\ Len(events') = n + 1 /\ pc'[Owner] = "backoff"
            /\ faults' = faults \cup {"refused"}
        BY <1>e, <2>1, <3>2, <4>1
      <4>3. QED
        BY <1>t, <2>1, <3>1, <4>2
    <3>5. QED
      BY <3>3, <3>4
  <2>4. CASE Backoff(Owner)
    <3>1. /\ pc[Owner] = "backoff" /\ pc'[Owner] = "dial" /\ n <= 2 * a
          /\ attempt'[Owner] = a + 1 /\ UNCHANGED <<events, faults>>
      BY <2>1, <2>4 DEF Backoff, Goto, channel
    <3>2. QED
      BY <1>t, <2>1, <3>1
  <2>5. CASE Connect(Owner)
    <3>1. pc[Owner] = "connecting" /\ n <= 2 * a - 1 /\ UNCHANGED <<attempt, faults>>
      BY <2>1, <2>5 DEF Connect
    <3>2. n < EventsCap /\ "info" \in EventTypes
      BY <1>t, <3>1 DEF EventTypes
    <3>3. Len(events') = n + 1 /\ pc'[Owner] = "install"
      BY <1>e, <2>1, <2>5, <3>2 DEF Connect
    <3>4. QED
      BY <1>t, <2>1, <3>1, <3>3
  <2>6. QED
    BY <1>1, <2>2, <2>3, <2>4, <2>5 DEF DialStep
<1>2. ASSUME Establish, UNCHANGED engine
      PROVE  StartFits'
  <2>1. stage = "starting"
    BY <1>2 DEF engine
  <2>2. n < EventsCap /\ "connected" \in EventTypes
    BY <1>t, <1>2, <2>1 DEF Establish, EventTypes
  <2>3. pc'[Owner] = "ok" /\ faults' = faults
    BY <1>2, <1>e, <2>1, <2>2 DEF Establish
  <2>4. QED
    BY <2>1, <2>3
<1>3. ASSUME NEW s \in Sessions, Break(s), UNCHANGED engine
      PROVE  StartFits'
  BY <1>3 DEF Break, channel, local, engine
<1>4. ASSUME NEW f \in Forwarders, ForwarderNext(f)
      PROVE  FALSE
  BY <1>4, LoopsAfterStart, LoopMoves
<1>5. QED
  <2>1. stage' \in Stages
    BY TypeStep
  <2>2. ~(CloseBundle \/ CloseEvents) \/ stage' # stage
    BY StillRunning DEF CloseBundle, CloseEvents, MainKnown, Dialing
  <2>3. QED
    BY <1>1, <1>2, <1>3, <1>4, <2>2
       DEF Next, MainNext, OwnerStep, engine, At, RecordEvent, StartFails, StartEngine,
           Serve, StopOnError, StopOnSignal, Cancel, CloseStack, CloseAgain

\* The events a start emits, with nobody receiving yet, fit the channel for any
\* number of attempts that CapAssumption allows: none is missed.
THEOREM StartReported == Spec => []StartIsReported
<1>1. Init => StartFits
  <2> SUFFICES ASSUME Init
               PROVE  StartFits
    OBVIOUS
  <2>1. pc[Owner] = "dial" /\ attempt[Owner] = 1 /\ Len(events) = 0 /\ faults = {}
    BY OwnerApart DEF Init, TunnelInit
  <2>2. QED
    BY <2>1 DEF StartFits
<1>2. IInv /\ StartFits /\ [Next]_vars => StartFits'
  <2>1. UNCHANGED vars /\ StartFits => StartFits'
    BY DEF vars, tunnelVars, channel, local, engine, StartFits
  <2>2. QED
    BY <2>1, StartStep
<1>3. StartFits => StartIsReported
  BY DEF StartFits, StartIsReported
<1>4. QED
  BY Invariance, <1>1, <1>2, <1>3, PTL DEF Spec

-------------------------------------------------------------------------------
(* One loss is survived. *)

LEMMA FaultsGrow ==
  ASSUME IInv, Next
  PROVE  faults \subseteq faults'
<1>1. ASSUME NEW c \in Callers, DialStep(c)
      PROVE  faults \subseteq faults'
  BY <1>1 DEF DialStep, Dial, DialFails, Backoff, Connect
<1>2. ASSUME NEW f \in Forwarders, ForwarderNext(f)
      PROVE  faults \subseteq faults'
  BY <1>1, <1>2, OwnerApart DEF ForwarderNext, ForwarderStep, LoopTop, StackRead,
     StackWrite, TunnelError, Report, ReadPending, Current, UseSucceeds, UseFails, UseNil,
     Reconnect, SetBundle, CloseOld, Reload
<1>3. CASE MainNext \/ StopOnSignal \/ RecordEvent
  BY <1>1, <1>3, OwnerApart DEF MainNext, OwnerStep, Establish, CloseBundle, CloseEvents,
     StartFails, StartEngine, Serve, StopOnError, StopOnSignal, Cancel, CloseStack,
     CloseAgain, RecordEvent, tunnelVars
<1>4. CASE \E s \in Sessions : Break(s)
  BY <1>4 DEF Break
<1>5. QED
  BY <1>2, <1>3, <1>4 DEF Next

\* The process is not closing after a step unless it was before, or the step is
\* one of main's.
LEMMA ClosingStays ==
  ASSUME IInv, Next, Closing
  PROVE  Closing'
<1>1. ASSUME NEW f \in Forwarders, ForwarderNext(f)
      PROVE  UNCHANGED stage
  BY <1>1, LoopMoves
<1>2. QED
  BY <1>1 DEF Next, MainNext, Closing, engine, At, RecordEvent, StartFails, StartEngine,
     Serve, StopOnError, StopOnSignal, Cancel, CloseStack, CloseAgain

LEMMA LossStep ==
  ASSUME IInv, OneLoss, Next
  PROVE  OneLoss'
<1> SUFFICES ASSUME faults' \subseteq {"loss", "missed"}, ~Closing'
             PROVE  Recovers'
  BY DEF OneLoss
<1> USE OwnerApart
<1>o. /\ Recovers /\ ~Closing /\ ~eventsClosed /\ stage \in {"starting", "preparing", "serving"}
      /\ stage # "starting" => pc[Owner] = "ok" /\ bundle # Nil
      /\ pc[Owner] \notin {"close", "closeEvents"}
      /\ \A c \in Callers : pc[c] \in {"use", "reuse"} => held[c] # Nil
  <2>1. ~Closing /\ Recovers
    BY FaultsGrow, ClosingStays DEF OneLoss
  <2>2. stage \in {"starting", "preparing", "serving"}
    BY <2>1 DEF Closing, IInv, TypeOK, Stages
  <2>3. QED
    BY <2>1, <2>2 DEF IInv, MainKnown, TunnelOpen, Dialing
<1>m. \A e : Missed(e) \subseteq {"missed"}
  BY DEF Missed
<1> USE DEF Recovers, BeforeLoss, AfterLoss, Up
<1>t. /\ pc \in [Callers -> Points] /\ held \in [Callers -> Sessions \cup {Nil}]
      /\ session \in [Sessions -> {"up", "down", "closed"}] /\ Nil \notin Sessions
      /\ bundle \in Sessions \cup {Nil}
  BY NilAssumption DEF IInv, TypeOK, TunnelTypeOK
\* A loop goes on outside the code that reconnects.
<1>1. ASSUME NEW f \in Forwarders, OthersStay(f), UNCHANGED <<session, bundle, faults>>,
             pc'[f] \in {"idle", "read", "stack", "write", "ok"}
      PROVE  Recovers'
  BY <1>o, <1>1 DEF OthersStay, Reconnecting, Dialing
\* A loop goes on in it, after the loss.
<1>2. ASSUME NEW f \in Forwarders, OthersStay(f), UNCHANGED <<session, bundle>>,
             "loss" \in faults, faults' \subseteq faults \cup {"missed"},
             pc'[f] \in {"reconnect", "dial", "connecting", "backoff"}
      PROVE  Recovers'
  <2>1. "loss" \in faults'
    BY <1>2, FaultsGrow
  <2>2. QED
    BY <1>o, <1>2, <2>1 DEF OthersStay
<1>3. ASSUME NEW f \in Forwarders, pc[f] \in Reconnecting \cup {"reload", "reuse"}
      PROVE  "loss" \in faults
  BY <1>o, <1>3
<1>4. ASSUME NEW f \in Forwarders,
             LoopTop(f) \/ StackRead(f) \/ StackWrite(f) \/ TunnelError(f)
      PROVE  Recovers'
  <2>1. ~Cancelled /\ ~StackClosed /\ pc[f] # "error"
    BY <1>o, <1>4 DEF Cancelled, StackClosed
  <2>2. /\ OthersStay(f) /\ UNCHANGED <<session, bundle, faults>>
        /\ pc'[f] \in {"idle", "read", "stack", "write"}
    BY <1>4, <1>t, <2>1 DEF LoopTop, StackRead, StackWrite, TunnelError, Goto, OthersStay,
       link
  <2>3. QED
    BY <1>1, <2>2
<1>5. ASSUME NEW f \in Forwarders, ReadPending(f) \/ UseSucceeds(f)
      PROVE  Recovers'
  <2>1. OthersStay(f) /\ UNCHANGED <<session, bundle, faults>> /\ pc'[f] = "ok"
    BY <1>5, <1>t DEF ReadPending, UseSucceeds, Goto, Hold, OthersStay
  <2>2. QED
    BY <1>1, <2>1
<1>6. ASSUME NEW f \in Forwarders, Current(f), stage # "starting"
      PROVE  Recovers'
  <2>1. /\ OthersStay(f) /\ UNCHANGED <<session, bundle, faults>>
        /\ pc'[f] = "use" /\ held'[f] = bundle
    BY <1>6, <1>t DEF Current, Goto, Hold, OthersStay, link
  <2>2. QED
    BY <1>o, <1>6, <2>1 DEF OthersStay, Reconnecting, Dialing
<1>7. ASSUME NEW f \in Forwarders, UseFails(f) \/ UseNil(f)
      PROVE  Recovers'
  <2>1. /\ pc[f] = "use" /\ "loss" \in faults /\ pc'[f] = "reconnect"
        /\ OthersStay(f) /\ UNCHANGED <<session, bundle, faults>>
    <3>1. held[f] # Nil /\ ~Up(held[f]) /\ pc[f] \in {"use", "reuse"}
      BY <1>o, <1>7 DEF UseFails, UseNil
    <3>2. pc[f] = "use" /\ "loss" \in faults
      BY <1>o, <3>1
    <3>3. QED
      BY <1>7, <1>t, <3>1, <3>2 DEF UseFails, UseNil, Goto, Hold, OthersStay, link
  <2>2. QED
    BY <1>2, <2>1
<1>8. ASSUME NEW f \in Forwarders, Reconnect(f) \/ Dial(f) \/ Backoff(f)
      PROVE  Recovers'
  <2>1. "loss" \in faults
    BY <1>3, <1>8 DEF Reconnect, Dial, Backoff, Reconnecting, Dialing
  <2>2. /\ OthersStay(f) /\ UNCHANGED <<session, bundle>>
        /\ faults' \subseteq faults \cup {"missed"}
    BY <1>8, <1>m, <1>t DEF Reconnect, Dial, Backoff, Emit, Goto, OthersStay, link
  <2>3. pc'[f] \in {"dial", "connecting"}
    BY <1>8, <1>o, <1>t DEF Reconnect, Dial, Backoff, Emit, Goto
  <2>4. QED
    BY <1>2, <2>1, <2>2, <2>3
<1>9. ASSUME NEW c \in Callers, DialFails(c)
      PROVE  FALSE
  BY <1>9 DEF DialFails
<1>10. ASSUME NEW f \in Forwarders, Connect(f)
       PROVE  Recovers'
  <2>1. "loss" \in faults
    BY <1>3, <1>10 DEF Connect, Reconnecting, Dialing
  <2>2. PICK s \in Unreferenced : session' = [session EXCEPT ![s] = "up"] /\ Hold(f, s)
    BY <1>10 DEF Connect
  <2>3. /\ pc'[f] = "install" /\ held'[f] = s /\ OthersStay(f)
        /\ UNCHANGED <<bundle, faults>>
    BY <1>10, <1>o, <1>t, <2>2 DEF Connect, Emit, Goto, Hold, OthersStay
  <2>4. s \in Sessions /\ session'[s] = "up" /\ s # bundle /\ \A c \in Callers : held[c] # s
    BY <1>t, <2>2 DEF Unreferenced
  <2>5. \A t \in Sessions \cup {Nil} : t # s => (Up(t)' <=> Up(t))
    BY <1>t, <2>2, <2>4
  <2>6. AfterLoss
    BY <1>o, <2>1
  <2>7. \A g \in Forwarders : g # f => pc'[g] = pc[g] /\ held'[g] = held[g]
    BY <2>3 DEF OthersStay
  <2>8. Up(bundle) => Up(bundle)'
    BY <2>3, <2>4, <2>5, <1>t
  <2>9. AfterLoss'
    BY <1>t, <2>3, <2>4, <2>5, <2>6, <2>7, <2>8
  <2>10. QED
    BY <1>o, <2>1, <2>3, <2>7, <2>9
<1>11. ASSUME NEW f \in Forwarders, SetBundle(f), stage # "starting"
       PROVE  Recovers'
  <2>1. "loss" \in faults
    BY <1>3, <1>11 DEF SetBundle, Reconnecting, Dialing
  <2>2. /\ pc[f] = "install" /\ pc'[f] = "closeOld" /\ OthersStay(f)
        /\ held'[f] = bundle /\ bundle' = held[f] /\ UNCHANGED session
    BY <1>11, <1>t DEF SetBundle, Goto, Hold, OthersStay
  <2>3. ~Up(bundle) /\ faults' = faults
    BY <1>o, <1>11 DEF SetBundle
  <2>4. Up(held[f])
    BY <1>o, <2>1, <2>2
  <2>5. QED
    BY <1>o, <2>1, <2>2, <2>3, <2>4 DEF OthersStay
<1>12. ASSUME NEW f \in Forwarders, CloseOld(f)
       PROVE  Recovers'
  <2>1. pc[f] = "closeOld" /\ "loss" \in faults
    BY <1>3, <1>12 DEF CloseOld, Reconnecting
  <2>2. ~Up(held[f])
    BY <1>o, <2>1
  <2>3. /\ session' = [s \in Sessions |-> IF s = held[f] THEN "closed" ELSE session[s]]
        /\ OthersStay(f) /\ UNCHANGED bundle /\ pc'[f] = "reload"
        /\ "loss" \in faults'
    BY <1>12, <1>o, <1>t, <2>1, FaultsGrow DEF CloseOld, Emit, Goto, Hold, OthersStay
  <2>4. \A t \in Sessions \cup {Nil} : Up(t)' <=> Up(t)
    BY <1>t, <2>2, <2>3
  <2>5. bundle \in Sessions \cup {Nil} /\ \A g \in Forwarders : held[g] \in Sessions \cup {Nil}
    BY <1>t DEF IInv, TypeOK, TunnelTypeOK
  <2>6. \A g \in Forwarders : g # f => pc'[g] = pc[g] /\ held'[g] = held[g]
    BY <2>3 DEF OthersStay
  <2>7. Up(bundle)'
    BY <1>o, <2>1, <2>3, <2>4, <2>5
  <2>8. QED
    BY <1>o, <2>1, <2>3, <2>4, <2>5, <2>6, <2>7
<1>13. ASSUME NEW f \in Forwarders, Reload(f)
       PROVE  Recovers'
  <2>1. pc[f] = "reload" /\ "loss" \in faults /\ Up(bundle)
    BY <1>o, <1>13 DEF Reload
  <2>2. /\ OthersStay(f) /\ UNCHANGED <<session, bundle, faults>>
        /\ pc'[f] = "reuse" /\ held'[f] = bundle
    BY <1>13, <1>t DEF Reload, Goto, Hold, OthersStay, link
  <2>3. QED
    BY <1>o, <2>1, <2>2 DEF OthersStay
\* The start.
<1>14. ASSUME DialStep(Owner) \/ Establish, UNCHANGED engine
       PROVE  Recovers'
  <2>1. stage = "starting" /\ pc[Owner] \in Dialing /\ \A f \in Forwarders : pc[f] = "idle"
    BY <1>o, <1>14 DEF DialStep, Dial, DialFails, Backoff, Connect, Establish, IInv,
       MainKnown, Dialing
  <2>2. \A f \in Forwarders : pc'[f] = "idle"
    <3>1. OthersStay(Owner)
      BY <1>14, <1>t, DialMoves DEF Establish, Emit, Goto, Hold, OthersStay
    <3>2. QED
      BY <2>1, <3>1 DEF OthersStay
  <2>3. "loss" \in faults' => Recovers'
    BY <2>2
  <2>4. ASSUME "loss" \notin faults'
        PROVE  BeforeLoss'
    <3>1. BeforeLoss
      BY <1>o, <2>4, FaultsGrow
    <3>2. CASE Dial(Owner) \/ Backoff(Owner)
      <4>1. pc'[Owner] \in {"dial", "connecting"} /\ UNCHANGED session
        BY <3>2, <1>o, <1>t DEF Dial, Backoff, Emit, Goto, link
      <4>2. QED
        BY <2>2, <3>1, <4>1 DEF Reconnecting, Dialing
    <3>3. CASE Connect(Owner)
      <4>1. PICK s \in Sessions : session' = [session EXCEPT ![s] = "up"] /\ Hold(Owner, s)
        BY <3>3 DEF Connect, Unreferenced
      <4>2. pc'[Owner] = "install" /\ held'[Owner] = s
        BY <3>3, <1>o, <1>t, <4>1 DEF Connect, Emit, Goto, Hold
      <4>3. QED
        BY <1>t, <2>2, <3>1, <4>1, <4>2 DEF Reconnecting, Dialing
    <3>4. CASE Establish
      <4>1. /\ pc[Owner] = "install" /\ pc'[Owner] = "ok"
            /\ bundle' = held[Owner] /\ UNCHANGED session
        BY <3>4, <1>o, <1>t DEF Establish, Emit, Goto
      <4>2. QED
        BY <2>2, <3>1, <4>1 DEF Reconnecting, Dialing
    <3>5. QED
      BY <1>14, <1>9, <3>2, <3>3, <3>4 DEF DialStep
  <2>5. QED
    BY <2>2, <2>3, <2>4
<1>15. ASSUME UNCHANGED <<session, bundle, pc, held, faults>>
       PROVE  Recovers'
  BY <1>o, <1>15
<1>16. ASSUME NEW s \in Sessions, Break(s)
       PROVE  Recovers'
  <2>1. "loss" \notin faults /\ "loss" \in faults'
    BY <1>16 DEF Break
  <2>2. UNCHANGED pc /\ BeforeLoss
    BY <1>o, <1>16, <2>1 DEF Break, local
  <2>3. QED
    BY <1>o, <2>1, <2>2 DEF Reconnecting, Dialing
<1>17. CASE \E f \in Forwarders : ForwarderNext(f)
  <2>1. PICK f \in Forwarders : ForwarderNext(f)
    BY <1>17
  <2>2. stage # "starting"
    BY <2>1, LoopsAfterStart
  <2>3. QED
    BY <2>1, <2>2, <1>4, <1>5, <1>6, <1>7, <1>8, <1>9, <1>10, <1>11, <1>12, <1>13
       DEF ForwarderNext, ForwarderStep, DialStep
<1>18. CASE MainNext \/ StopOnSignal \/ RecordEvent
  <2>1. CASE UNCHANGED tunnelVars \/ RecordEvent
    BY <1>15, <2>1 DEF tunnelVars, link, local, RecordEvent
  <2>2. ~CloseBundle /\ ~CloseEvents
    BY <1>o DEF CloseBundle, CloseEvents
  <2>3. ~CloseStack /\ ~CloseAgain
    BY <1>o DEF CloseStack, CloseAgain, At
  <2>4. QED
    BY <1>14, <1>18, <2>1, <2>2, <2>3
       DEF MainNext, OwnerStep, StartFails, StartEngine, Serve, StopOnError, StopOnSignal,
           Cancel
<1>19. QED
  BY <1>16, <1>17, <1>18 DEF Next

\* A session lost once, with every dial answered, costs no loop, as long as
\* nobody replaces a session that works: for any number of loops.
THEOREM OneLossSurvived == Spec => []OneLossIsSurvived
<1>1. Init => OneLoss
  <2> SUFFICES ASSUME Init
               PROVE  Recovers
    BY DEF OneLoss
  <2>1. faults = {} /\ pc[Owner] = "dial" /\ \A f \in Forwarders : pc[f] = "idle"
    BY OwnerApart DEF Init, TunnelInit
  <2>2. \A s \in Sessions : session[s] # "down"
    BY DEF Init, TunnelInit
  <2>3. QED
    BY <2>1, <2>2 DEF Recovers, BeforeLoss, Reconnecting, Dialing
<1>2. IInv /\ OneLoss /\ [Next]_vars => OneLoss'
  <2>1. UNCHANGED vars /\ OneLoss => OneLoss'
    BY DEF vars, tunnelVars, link, local, engine, OneLoss, Recovers, BeforeLoss, AfterLoss,
       Up, Closing
  <2>2. QED
    BY <2>1, LossStep
<1>3. OneLoss => OneLossIsSurvived
  BY DEF OneLoss, Recovers, OneLossIsSurvived
<1>4. QED
  BY Invariance, <1>1, <1>2, <1>3, PTL DEF Spec

-------------------------------------------------------------------------------
(* The tracker settles. *)

\* A connected event is the last word.
LEMMA ConnectedIsLast ==
  ASSUME TypeOK, events' = Append(events, "connected")
  PROVE  ~LastWordIsError'
<1>1. /\ Len(events') = Len(events) + 1 /\ Len(events) \in Nat
      /\ events'[Len(events) + 1] = "connected"
  BY DEF TypeOK, TunnelTypeOK
<1>2. ASSUME NEW i \in 1..Len(events'), events'[i] = "error"
      PROVE  Len(events) + 1 \in (i + 1)..Len(events')
  BY <1>1, <1>2
<1>3. QED
  BY <1>1, <1>2 DEF LastWordIsError

\* Recording an event does not change the last word.
LEMMA RecordingKeeps ==
  ASSUME TypeOK, RecordEvent, LastWordIsError'
  PROVE  LastWordIsError
<1>1. /\ events \in Seq(EventTypes) /\ events # <<>> /\ Len(events) \in Nat \ {0}
      /\ Head(events) = events[1] /\ events[1] \in EventTypes
  BY DEF TypeOK, TunnelTypeOK, RecordEvent
<1>2. /\ Len(events') = Len(events) - 1
      /\ \A i \in 1..Len(events') : events'[i] = events[i + 1]
  BY <1>1 DEF RecordEvent
<1>3. ASSUME NEW i \in 1..Len(events'), events'[i] = "error",
             \A j \in (i + 1)..Len(events') : events'[j] = "info"
      PROVE  LastWordIsError
  <2>1. i + 1 \in 1..Len(events) /\ events[i + 1] = "error"
    BY <1>1, <1>2, <1>3
  <2>2. ASSUME NEW j \in (i + 2)..Len(events)
        PROVE  events[j] = "info"
    <3>1. j - 1 \in (i + 1)..Len(events') /\ j - 1 \in 1..Len(events')
      BY <1>1, <1>2, <1>3
    <3>2. events'[j - 1] = "info" /\ events'[j - 1] = events[(j - 1) + 1]
      BY <1>2, <1>3, <3>1
    <3>3. (j - 1) + 1 = j
      BY <1>1
    <3>4. QED
      BY <3>2, <3>3
  <2>3. QED
    BY <2>1, <2>2 DEF LastWordIsError
<1>4. ASSUME degraded', \A i \in 1..Len(events') : events'[i] = "info"
      PROVE  LastWordIsError
  <2>1. ASSUME NEW j \in 2..Len(events)
        PROVE  events[j] = "info"
    <3>1. j - 1 \in 1..Len(events')
      BY <1>1, <1>2
    <3>2. events'[j - 1] = "info" /\ events'[j - 1] = events[(j - 1) + 1]
      BY <1>2, <1>4, <3>1
    <3>3. (j - 1) + 1 = j
      BY <1>1
    <3>4. QED
      BY <3>2, <3>3
  <2>2. CASE events[1] = "error"
    <3>1. 1 \in 1..Len(events) /\ \A j \in (1 + 1)..Len(events) : events[j] = "info"
      BY <1>1, <2>1
    <3>2. QED
      BY <2>2, <3>1 DEF LastWordIsError
  <2>3. CASE events[1] = "info"
    <3>1. degraded
      BY <1>1, <1>4, <2>3 DEF RecordEvent
    <3>2. \A j \in 1..Len(events) : events[j] = "info"
      BY <1>1, <2>1, <2>3
    <3>3. QED
      BY <3>1, <3>2 DEF LastWordIsError
  <2>4. CASE events[1] = "connected"
    BY <1>1, <1>4, <2>4 DEF RecordEvent
  <2>5. QED
    BY <1>1, <2>2, <2>3, <2>4 DEF EventTypes
<1>5. QED
  BY <1>3, <1>4 DEF LastWordIsError

LEMMA TroubleStep ==
  ASSUME IInv, ErrorIsCurrent, Next
  PROVE  ErrorIsCurrent'
<1> SUFFICES ASSUME "missed" \notin faults', ~Closing', LastWordIsError'
             PROVE  Troubled'
  BY DEF ErrorIsCurrent
<1> USE OwnerApart
<1>o. /\ LastWordIsError => Troubled
      /\ ~eventsClosed /\ stage \in {"starting", "preparing", "serving"}
      /\ stage # "starting" => pc[Owner] = "ok"
      /\ pc[Owner] \notin {"close", "closeEvents"}
      /\ TypeOK /\ pc \in [Callers -> Points]
  <2>1. ~Closing /\ (LastWordIsError => Troubled)
    BY FaultsGrow, ClosingStays DEF ErrorIsCurrent
  <2>2. stage \in {"starting", "preparing", "serving"}
    BY <2>1 DEF Closing, IInv, TypeOK, Stages
  <2>3. QED
    BY <2>1, <2>2 DEF IInv, TypeOK, TunnelTypeOK, MainKnown, TunnelOpen, Dialing
<1> USE DEF Troubled
\* Nothing is said, and who was in trouble still is.
<1>1. ASSUME NEW c \in Callers, OthersStay(c), UNCHANGED <<events, degraded, stage>>,
             c # Owner,
             pc[c] \in Dialing \cup {"closeOld"} \cup GaveUp
               => pc'[c] \in Dialing \cup {"closeOld"} \cup GaveUp
      PROVE  Troubled'
  <2>1. LastWordIsError
    BY <1>1 DEF LastWordIsError
  <2>2. QED
    BY <1>o, <1>1, <2>1 DEF OthersStay
<1>2. ASSUME NEW c \in Callers, UNCHANGED stage, pc'[c] \in Dialing \cup {"error"},
             c = Owner => stage = "starting"
      PROVE  Troubled'
  BY <1>2 DEF GaveUp, Dialing
\* A caller that says that it is connected has said the last word.
<1>3. ASSUME NEW c \in Callers, NEW next, Emit(c, "connected", next),
             Missed("connected") = {}
      PROVE  FALSE
  <2>1. Len(events) < EventsCap
    BY <1>o, <1>3, CapAssumption DEF Missed, TypeOK, TunnelTypeOK
  <2>2. events' = Append(events, "connected")
    BY <1>o, <1>3, <2>1, CapAssumption DEF Emit, TypeOK, TunnelTypeOK
  <2>3. QED
    BY <1>o, <2>2, ConnectedIsLast
<1>4. ASSUME NEW c \in Callers, DialStep(c), UNCHANGED engine, c = Owner => stage = "starting"
      PROVE  Troubled'
  BY <1>o, <1>2, <1>4, DialMoves DEF engine
<1>5. ASSUME NEW f \in Forwarders, UNCHANGED engine, Reconnect(f)
      PROVE  Troubled'
  BY <1>o, <1>2, <1>5 DEF Reconnect, Emit, Goto, engine, Dialing
<1>6. ASSUME NEW f \in Forwarders, CloseOld(f)
      PROVE  FALSE
  <2>1. Missed("connected") = {}
    BY <1>6 DEF CloseOld, Missed
  <2>2. QED
    BY <1>3, <1>6, <2>1 DEF CloseOld
<1>7. ASSUME NEW f \in Forwarders, UNCHANGED engine,
             \/ ReadPending(f) \/ Current(f) \/ Reload(f) \/ SetBundle(f)
             \/ UseSucceeds(f) \/ UseFails(f) \/ UseNil(f)
      PROVE  Troubled'
  <2>1. /\ OthersStay(f) /\ UNCHANGED <<events, degraded, stage>>
        /\ pc[f] \in {"read", "write", "use", "reuse", "reload"} \/ pc'[f] = "closeOld"
    <3>1. UNCHANGED <<events, degraded, stage>>
      BY <1>7 DEF ReadPending, Current, Reload, SetBundle, UseSucceeds, UseFails, UseNil,
         channel, engine
    <3>2. \E l \in Points :
            /\ pc' = [pc EXCEPT ![f] = l]
            /\ l = "closeOld" \/ pc[f] \in {"read", "write", "use", "reuse", "reload"}
      BY <1>7 DEF ReadPending, Current, Reload, SetBundle, UseSucceeds, UseFails, UseNil,
         Goto, Points, Reconnecting
    <3>3. \E s : held' = [held EXCEPT ![f] = s]
      <4>1. CASE ReadPending(f) \/ UseNil(f)
        BY <1>o, <4>1 DEF ReadPending, UseNil, TypeOK, TunnelTypeOK
      <4>2. QED
        BY <1>7, <4>1 DEF Current, Reload, SetBundle, UseSucceeds, UseFails, Hold
    <3>4. QED
      BY <1>o, <3>1, <3>2, <3>3 DEF OthersStay
  <2>2. QED
    BY <1>1, <2>1 DEF GaveUp, Dialing
<1>8. ASSUME NEW f \in Forwarders,
             LoopTop(f) \/ StackRead(f) \/ StackWrite(f) \/ TunnelError(f)
      PROVE  Troubled'
  <2>1. /\ OthersStay(f) /\ UNCHANGED <<events, degraded, stage>>
        /\ pc[f] \in {"idle", "ok", "stack"} \/ pc'[f] = "dead"
    BY <1>8, <1>o DEF LoopTop, StackRead, StackWrite, TunnelError, Report, Goto, OthersStay,
       channel, engine
  <2>2. QED
    BY <1>1, <2>1 DEF GaveUp, Dialing
<1>9. ASSUME Establish
      PROVE  FALSE
  <2>1. Missed("connected") = {}
    BY <1>9 DEF Establish, Missed
  <2>2. QED
    BY <1>3, <1>9, <2>1 DEF Establish
<1>10. ASSUME UNCHANGED <<pc, events, degraded>>, UNCHANGED stage \/ StartEngine \/ Serve
       PROVE  Troubled'
  <2>1. LastWordIsError
    BY <1>10 DEF LastWordIsError
  <2>2. QED
    BY <1>o, <1>10, <2>1 DEF StartEngine, Serve, At
<1>11. ASSUME RecordEvent
       PROVE  Troubled'
  <2>1. Troubled
    BY <1>o, <1>11, RecordingKeeps
  <2>2. QED
    BY <1>11, <2>1 DEF RecordEvent, local
<1>12. CASE \E f \in Forwarders : ForwarderNext(f)
  BY <1>12, <1>4, <1>5, <1>6, <1>7, <1>8 DEF ForwarderNext, ForwarderStep
<1>13. CASE MainNext \/ StopOnSignal
  <2>1. DialStep(Owner) => stage = "starting"
    BY <1>o DEF DialStep, Dial, DialFails, Backoff, Connect
  <2>2. ~CloseBundle /\ ~CloseEvents
    BY <1>o DEF CloseBundle, CloseEvents
  <2>3. ~(StartFails \/ StopOnError \/ StopOnSignal \/ Cancel \/ CloseStack \/ CloseAgain)
    BY DEF StartFails, StopOnError, StopOnSignal, Cancel, CloseStack, CloseAgain, At,
       Closing
  <2>4. StartEngine \/ Serve => UNCHANGED <<pc, events, degraded>>
    BY DEF StartEngine, Serve, tunnelVars, channel, local
  <2>5. QED
    BY <1>4, <1>9, <1>10, <1>13, <2>1, <2>2, <2>3, <2>4 DEF MainNext, OwnerStep
<1>14. CASE \E s \in Sessions : Break(s) /\ UNCHANGED engine
  BY <1>10, <1>14 DEF Break, channel, local, engine
<1>15. QED
  BY <1>11, <1>12, <1>13, <1>14 DEF Next

\* Unless an event was dropped, an error is the last word about the transport
\* only while a loop is still reconnecting, or has given up.
THEOREM TrackerFollows == Spec => []TrackerSettles
<1>1. Init => ErrorIsCurrent
  BY OwnerApart DEF Init, TunnelInit, ErrorIsCurrent, Troubled
<1>2. IInv /\ ErrorIsCurrent /\ [Next]_vars => ErrorIsCurrent'
  <2>1. UNCHANGED vars /\ ErrorIsCurrent => ErrorIsCurrent'
    BY DEF vars, tunnelVars, channel, local, engine, ErrorIsCurrent, LastWordIsError,
       Troubled, Closing
  <2>2. QED
    BY <2>1, TroubleStep
<1>3. ErrorIsCurrent => TrackerSettles
  <2> SUFFICES ASSUME ErrorIsCurrent, "missed" \notin faults, events = <<>>, ~Closing,
                      stage # "starting", degraded,
                      \A f \in Forwarders : pc[f] \notin Reconnecting \cup {"error", "dead"}
               PROVE  FALSE
    BY DEF TrackerSettles
  <2>1. LastWordIsError
    BY DEF LastWordIsError
  <2>2. QED
    BY <2>1 DEF ErrorIsCurrent, Troubled, GaveUp, Reconnecting
<1>4. QED
  BY Invariance, <1>1, <1>2, <1>3, PTL DEF Spec

===============================================================================
