----------------------------- MODULE MasqueTunnel -----------------------------
(***************************************************************************)
(* The MASQUE packet tunnel: one session at a time behind a lock, replaced *)
(* by whichever reader or writer first finds it broken, and a bounded      *)
(* channel of events.                                                      *)
(*                                                                         *)
(* A caller that finds its session broken dials a new one with a bounded   *)
(* number of attempts, installs it and tries once more.  Nothing keeps a   *)
(* second caller from doing the same.  The QUIC and CONNECT-IP libraries   *)
(* are external: a session is up, down, or closed, an operation succeeds   *)
(* exactly on one that is up, and a dial succeeds or fails.  The context   *)
(* of the native process is never done, so a back-off ends by its timer.   *)
(* Not modelled: statistics, the content of packets, the time of back-offs.*)
(***************************************************************************)
EXTENDS Naturals, Sequences

CONSTANTS Readers,      \* goroutines that call ReadPacket
          Writers,      \* goroutines that call WritePacket
          Owner,        \* the one that starts and closes the tunnel
          Sessions,     \* session bundles; one nobody refers to is used again
          Nil,          \* no session bundle
          MaxAttempts,  \* defaultStartupAttempts
          EventsCap,    \* capacity of the event channel
          PendingCap    \* capacity of pendingReads

ASSUME CallersAssumption ==
  /\ Readers \cap Writers = {}
  /\ Owner \notin Readers \cup Writers
ASSUME NilAssumption == Nil \notin Sessions
\* The code has 5 attempts, 16 events, 8 packets.
ASSUME CapAssumption ==
  /\ MaxAttempts \in Nat \ {0} /\ PendingCap \in Nat
  /\ EventsCap \in Nat /\ EventsCap >= 2 * MaxAttempts + 1

VARIABLES
  session,  \* the state of each session
  bundle,   \* the tunnel's session
  events, eventsClosed,
  pending,  \* the ICMP answers waiting for a reader
  pc,       \* where each caller is in the tunnel's code
  held,     \* the session in each caller's local variable
  attempt,  \* the attempt each caller's dialWithRetry is at
  faults    \* auxiliary: what has happened to the tunnel

link == <<session, bundle, pending>>
channel == <<events, eventsClosed>>
local == <<pc, held, attempt>>
tunnelVars == <<link, channel, local, faults>>

Forwarders == Readers \cup Writers
Callers == Forwarders \cup {Owner}
\* What the tracker tells apart: connected and reconnected; retry and
\* reconnect; endpoint_selected and dial_metrics.
EventTypes == {"connected", "error", "info"}
Dialing == {"dial", "connecting", "backoff", "install"}
Reconnecting == {"reconnect", "closeOld"} \cup Dialing
Points == {"idle", "stack", "dead", "read", "write", "use", "reload", "reuse",
           "close", "closeEvents", "ok", "error", "panic"} \cup Reconnecting
Faults == {"loss", "lossAgain", "refused", "replaced", "missed"}

TunnelInit ==
  /\ session = [s \in Sessions |-> "closed"]
  /\ bundle = Nil
  /\ events = <<>>
  /\ eventsClosed = FALSE
  /\ pending = 0
  /\ pc = [c \in Callers |-> IF c = Owner THEN "dial" ELSE "idle"]
  /\ held = [c \in Callers |-> Nil]
  /\ attempt = [c \in Callers |-> 1]
  /\ faults = {}

Goto(c, l) == pc' = [pc EXCEPT ![c] = l]
Hold(c, s) == held' = [held EXCEPT ![c] = s]

\* t.mu is held while Close runs.
Unlocked == pc[Owner] # "closeEvents"

\* A full channel drops the event, a closed one panics.
Emit(c, e, next) ==
  /\ Goto(c, IF eventsClosed THEN "panic" ELSE next)
  /\ events' = IF eventsClosed \/ Len(events) >= EventsCap THEN events
                                                          ELSE Append(events, e)
  /\ UNCHANGED eventsClosed
Missed(e) ==
  IF ~eventsClosed /\ Len(events) >= EventsCap /\ e # "info"
  THEN {"missed"} ELSE {}

-------------------------------------------------------------------------------
(* ReadPacket and WritePacket. *)

ReadPending(c) ==
  /\ pc[c] = "read"
  /\ pending > 0
  /\ pending' = pending - 1
  /\ Goto(c, "ok")
  /\ UNCHANGED <<session, bundle, channel, held, attempt, faults>>

Current(c) ==
  /\ pc[c] \in {"read", "write"}
  /\ pc[c] = "read" => pending = 0
  /\ Unlocked
  /\ Hold(c, bundle)
  /\ Goto(c, "use")
  /\ UNCHANGED <<link, channel, attempt, faults>>

\* A write may be answered by an ICMP packet, which a full pendingReads drops.
UseSucceeds(c) ==
  /\ pc[c] \in {"use", "reuse"}
  /\ held[c] # Nil /\ session[held[c]] = "up"
  /\ Goto(c, "ok")
  /\ Hold(c, Nil)
  /\ \/ UNCHANGED pending
     \/ c \in Writers /\ pending < PendingCap /\ pending' = pending + 1
  /\ UNCHANGED <<session, bundle, channel, attempt, faults>>

\* Only the first failure leads to a reconnect.
UseFails(c) ==
  /\ pc[c] \in {"use", "reuse"}
  /\ held[c] # Nil /\ session[held[c]] # "up"
  /\ Goto(c, IF pc[c] = "use" THEN "reconnect" ELSE "error")
  /\ Hold(c, Nil)
  /\ UNCHANGED <<link, channel, attempt, faults>>

\* bundle.conn of a nil bundle.
UseNil(c) ==
  /\ pc[c] \in {"use", "reuse"}
  /\ held[c] = Nil
  /\ Goto(c, "panic")
  /\ UNCHANGED <<link, channel, held, attempt, faults>>

-------------------------------------------------------------------------------
(* reconnect, dialWithRetry and dial. *)

Reconnect(c) ==
  /\ pc[c] = "reconnect"
  /\ Emit(c, "error", "dial")
  /\ attempt' = [attempt EXCEPT ![c] = 1]
  /\ faults' = faults \cup Missed("error")
  /\ UNCHANGED <<link, held>>

\* Mutant: a dial reports twice.
DialTwice(c) ==
  /\ pc[c] = "dial"
  /\ events' = IF Len(events) + 2 > EventsCap THEN events
               ELSE events \o <<"info", "info">>
  /\ Goto(c, "connecting")
  /\ UNCHANGED <<eventsClosed, link, held, attempt, faults>>

Dial(c) ==
  /\ pc[c] = "dial"
  /\ Emit(c, "info", "connecting")
  /\ UNCHANGED <<link, held, attempt, faults>>

\* Mutant: one attempt too many.
DialFailsOneMore(c) ==
  /\ pc[c] \in {"dial", "connecting"}
  /\ IF attempt[c] > MaxAttempts
     THEN Goto(c, "error") /\ UNCHANGED channel
     ELSE Emit(c, "error", "backoff")
  /\ faults' = faults \cup {"refused"}
                      \cup (IF attempt[c] > MaxAttempts THEN {} ELSE Missed("error"))
  /\ UNCHANGED <<link, held, attempt>>

\* Mutant: the last error is lost, and with it a session.
DialFailsSilently(c) ==
  /\ pc[c] \in {"dial", "connecting"}
  /\ IF attempt[c] = MaxAttempts
     THEN Goto(c, "install") /\ UNCHANGED channel
     ELSE Emit(c, "error", "backoff")
  /\ faults' = faults \cup {"refused"}
                      \cup (IF attempt[c] = MaxAttempts THEN {} ELSE Missed("error"))
  /\ UNCHANGED <<link, held, attempt>>

\* Before the event: the endpoint cannot be resolved.  After it: QUIC or
\* CONNECT-IP fails, and what was opened is closed.
DialFails(c) ==
  /\ pc[c] \in {"dial", "connecting"}
  /\ IF attempt[c] = MaxAttempts
     THEN Goto(c, "error") /\ UNCHANGED channel
     ELSE Emit(c, "error", "backoff")
  /\ faults' = faults \cup {"refused"}
                      \cup (IF attempt[c] = MaxAttempts THEN {} ELSE Missed("error"))
  /\ UNCHANGED <<link, held, attempt>>

Backoff(c) ==
  /\ pc[c] = "backoff"
  /\ attempt' = [attempt EXCEPT ![c] = @ + 1]
  /\ Goto(c, "dial")
  /\ UNCHANGED <<link, channel, held, faults>>

Unreferenced ==
  {s \in Sessions : /\ session[s] = "closed" /\ s # bundle
                     /\ \A c \in Callers : held[c] # s}

Connect(c) ==
  /\ pc[c] = "connecting"
  /\ \E s \in Unreferenced : session' = [session EXCEPT ![s] = "up"] /\ Hold(c, s)
  /\ Emit(c, "info", "install")
  /\ UNCHANGED <<bundle, pending, attempt, faults>>

\* The end of Start: nobody else has the tunnel yet.
Establish ==
  /\ pc[Owner] = "install"
  /\ bundle' = held[Owner]
  /\ Hold(Owner, Nil)
  /\ Emit(Owner, "connected", "ok")
  /\ faults' = faults \cup Missed("connected")
  /\ UNCHANGED <<session, pending, attempt>>

\* setBundle, in the lock and after it.
SetBundle(c) ==
  /\ pc[c] = "install" /\ c # Owner
  /\ Unlocked
  /\ bundle' = held[c]
  /\ Hold(c, bundle)
  /\ Goto(c, "closeOld")
  /\ faults' = faults \cup (IF bundle # Nil /\ session[bundle] = "up"
                            THEN {"replaced"} ELSE {})
  /\ UNCHANGED <<session, pending, channel, attempt>>

\* Mutant: the replaced session is not closed.
KeepOld(c) ==
  /\ pc[c] = "closeOld"
  /\ Hold(c, Nil)
  /\ Emit(c, "connected", "reload")
  /\ faults' = faults \cup Missed("connected")
  /\ UNCHANGED <<link, attempt>>

\* Mutant: the second attempt uses the session of the first.
CloseOldKeepLocal(c) ==
  /\ pc[c] = "closeOld"
  /\ session' = [s \in Sessions |-> IF s = held[c] THEN "closed" ELSE session[s]]
  /\ Emit(c, "connected", "reuse")
  /\ faults' = faults \cup Missed("connected")
  /\ UNCHANGED <<bundle, pending, held, attempt>>

\* Mutant: the end of a reconnect is not reported.
CloseOldQuietly(c) ==
  /\ pc[c] = "closeOld"
  /\ session' = [s \in Sessions |-> IF s = held[c] THEN "closed" ELSE session[s]]
  /\ Hold(c, Nil)
  /\ Goto(c, "reload")
  /\ UNCHANGED <<bundle, pending, channel, attempt, faults>>

CloseOld(c) ==
  /\ pc[c] = "closeOld"
  /\ session' = [s \in Sessions |-> IF s = held[c] THEN "closed" ELSE session[s]]
  /\ Hold(c, Nil)
  /\ Emit(c, "connected", "reload")
  /\ faults' = faults \cup Missed("connected")
  /\ UNCHANGED <<bundle, pending, attempt>>

\* t.current() after the reconnect: possibly another caller's session.
Reload(c) ==
  /\ pc[c] = "reload"
  /\ Unlocked
  /\ Hold(c, bundle)
  /\ Goto(c, "reuse")
  /\ UNCHANGED <<link, channel, attempt, faults>>

-------------------------------------------------------------------------------
(* Close. *)

CloseBundle ==
  /\ pc[Owner] = "close"
  /\ session' = [s \in Sessions |-> IF s = bundle THEN "closed" ELSE session[s]]
  /\ bundle' = Nil
  /\ Goto(Owner, "closeEvents")
  /\ UNCHANGED <<pending, channel, held, attempt, faults>>

\* One event is taken out before the channel is closed; closing it again panics.
CloseEvents ==
  /\ pc[Owner] = "closeEvents"
  /\ events' = IF events = <<>> THEN events ELSE Tail(events)
  /\ eventsClosed' = TRUE
  /\ Goto(Owner, IF eventsClosed THEN "panic" ELSE "ok")
  /\ UNCHANGED <<link, held, attempt, faults>>

\* The peer or the network ends a session.
Break(s) ==
  /\ session[s] = "up"
  /\ session' = [session EXCEPT ![s] = "down"]
  /\ faults' = faults \cup (IF "loss" \in faults THEN {"lossAgain"} ELSE {"loss"})
  /\ UNCHANGED <<bundle, pending, channel, local>>

-------------------------------------------------------------------------------
DialStep(c) == Dial(c) \/ DialFails(c) \/ Backoff(c) \/ Connect(c)

ForwarderStep(f) ==
  \/ ReadPending(f) \/ Current(f)
  \/ UseSucceeds(f) \/ UseFails(f) \/ UseNil(f)
  \/ Reconnect(f) \/ DialStep(f) \/ SetBundle(f) \/ CloseOld(f) \/ Reload(f)

OwnerStep == DialStep(Owner) \/ Establish \/ CloseBundle \/ CloseEvents

TunnelTypeOK ==
  /\ session \in [Sessions -> {"up", "down", "closed"}]
  /\ bundle \in Sessions \cup {Nil}
  /\ events \in Seq(EventTypes) /\ Len(events) <= EventsCap
  /\ eventsClosed \in BOOLEAN
  /\ pending \in 0..PendingCap
  /\ pc \in [Callers -> Points]
  /\ held \in [Callers -> Sessions \cup {Nil}]
  /\ attempt \in [Callers -> 1..MaxAttempts]
  /\ faults \in SUBSET Faults

\* A session that is not closed is the tunnel's, or a caller is about to
\* install or to close it: a reconnect leaves no socket behind.
NoSessionLeaks ==
  \A s \in Sessions : session[s] # "closed" =>
    \/ s = bundle
    \/ \E c \in Callers : pc[c] \in {"install", "closeOld", "panic"} /\ held[c] = s

===============================================================================
