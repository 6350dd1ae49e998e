----------------------------- MODULE EventSink -----------------------------
(***************************************************************************)
(* The native event sink of raw_stubs.c and event_sink.ml.  Native code    *)
(* emits named events at any time; the C callback copies them into one     *)
(* static ring of the process, which the owner of the sink polls.  An      *)
(* event that finds the ring full, or whose name or data exceeds a slot,   *)
(* is lost; a flag remembers that something was lost.                      *)
(*                                                                         *)
(* An event is named by the order of its emission.  The history of what    *)
(* the owner of the current sink was told is kept to state the property.   *)
(***************************************************************************)
EXTENDS Naturals, FiniteSets

CONSTANTS SinkCapacity,    \* OPENTUI_RAW_EVENT_QUEUE_CAPACITY
          MaxEvents,       \* bound: events ever emitted
          MaxSinks         \* bound: native sinks ever created

ASSUME SinkConstants ==
    /\ SinkCapacity \in Nat \ {0}
    /\ MaxEvents \in Nat /\ MaxSinks \in Nat

VARIABLES event_sink_handle,   \* 0, or the native sink
          event_queue, event_queue_head, event_queue_count,   \* the ring
          event_queue_overflow,
          sinks,               \* native sinks ever created
          owners,              \* the Event_sink.t objects that are open
          emitted,             \* events ever emitted
          since,               \* how many were emitted when the sink was created
          delivered,           \* events its owner has polled
          lost, reported       \* events it lost; those the owner was told of

ringVars == <<event_queue, event_queue_head, event_queue_count, event_queue_overflow>>
historyVars == <<since, delivered, lost, reported>>
sinkVars == <<event_sink_handle, ringVars, sinks, owners, emitted, historyVars>>

NoEvent == 0
Positions == 0 .. SinkCapacity - 1
SlotAt(k) == (event_queue_head + k) % SinkCapacity

reset_event_queue ==
    /\ event_queue_head' = 0 /\ event_queue_count' = 0 /\ event_queue_overflow' = FALSE
    /\ UNCHANGED event_queue            \* the slots keep what they held

StartHistory == since' = emitted /\ delivered' = {} /\ lost' = {} /\ reported' = {}

\* event_sink_create: one sink per process.  The native creation may fail,
\* after the ring was reset.
event_sink_create(created) ==
    /\ event_sink_handle = 0 /\ sinks < MaxSinks
    /\ reset_event_queue /\ StartHistory
    /\ sinks' = sinks + 1
    /\ event_sink_handle' = IF created THEN sinks + 1 ELSE 0
    /\ owners' = IF created THEN owners \cup {sinks + 1} ELSE owners
    /\ UNCHANGED emitted

\* Event_sink.close: the handle is compared, the object closed.
event_sink_destroy(h) ==
    /\ h \in owners
    /\ owners' = owners \ {h}
    /\ IF h = event_sink_handle
       THEN event_sink_handle' = 0 /\ reset_event_queue /\ StartHistory
       ELSE UNCHANGED <<event_sink_handle, ringVars, historyVars>>
    /\ UNCHANGED <<sinks, emitted>>

\* raw_event_callback; fits is FALSE for a name or data that is too long.
raw_event_callback(fits) ==
    /\ emitted < MaxEvents
    /\ emitted' = emitted + 1
    /\ IF event_sink_handle = 0 THEN UNCHANGED <<ringVars, lost>>
       ELSE IF ~fits \/ event_queue_count = SinkCapacity
       THEN event_queue_overflow' = TRUE /\ lost' = lost \cup {emitted + 1} /\ UNCHANGED <<event_queue, event_queue_head, event_queue_count>>
       ELSE /\ event_queue' = [event_queue EXCEPT ![SlotAt(event_queue_count)] = emitted + 1]
            /\ event_queue_count' = event_queue_count + 1
            /\ UNCHANGED <<event_queue_head, event_queue_overflow, lost>>
    /\ UNCHANGED <<event_sink_handle, sinks, owners, since, delivered, reported>>

MutantPollForgetsLoss(h) ==
    /\ h \in owners /\ h = event_sink_handle /\ event_queue_count > 0
    /\ delivered' = delivered \cup {event_queue[event_queue_head]}
    /\ event_queue_head' = (event_queue_head + 1) % SinkCapacity
    /\ event_queue_count' = event_queue_count - 1
    /\ event_queue_overflow' = FALSE
    /\ UNCHANGED <<event_queue, lost, reported>>

\* The poll takes the oldest event; make_status_event copies it.
PollEvent(h) ==
    /\ h \in owners /\ h = event_sink_handle /\ event_queue_count > 0
    /\ delivered' = delivered \cup {event_queue[event_queue_head]}
    /\ event_queue_head' = (event_queue_head + 1) % SinkCapacity
    /\ event_queue_count' = event_queue_count - 1
    /\ UNCHANGED <<event_queue, event_queue_overflow, lost, reported>>

\* With the ring empty, a loss is reported once, for all that was lost.
PollOverflow(h) ==
    /\ h \in owners /\ h = event_sink_handle /\ event_queue_count = 0 /\ event_queue_overflow
    /\ event_queue_overflow' = FALSE
    /\ reported' = lost
    /\ UNCHANGED <<event_queue, event_queue_head, event_queue_count, delivered, lost>>

\* The poll answers that there is nothing.
PollsEmpty(h) == h \in owners /\ h = event_sink_handle /\ event_queue_count = 0 /\ ~event_queue_overflow

event_sink_poll(h) ==
    /\ PollEvent(h) \/ PollOverflow(h)
    /\ UNCHANGED <<event_sink_handle, sinks, owners, since, emitted>>

-----------------------------------------------------------------------------
SinkInit ==
    /\ event_sink_handle = 0
    /\ event_queue = [p \in Positions |-> NoEvent] /\ event_queue_head = 0 /\ event_queue_count = 0 /\ event_queue_overflow = FALSE
    /\ sinks = 0 /\ owners = {} /\ emitted = 0
    /\ since = 0 /\ delivered = {} /\ lost = {} /\ reported = {}

SinkNext ==
    \/ \E ok \in BOOLEAN : event_sink_create(ok) \/ raw_event_callback(ok)
    \/ \E h \in owners : event_sink_destroy(h) \/ event_sink_poll(h)

SinkSpec == SinkInit /\ [][SinkNext]_sinkVars

-----------------------------------------------------------------------------
(* Properties. *)

QueuedEvents == {event_queue[SlotAt(k)] : k \in 0 .. event_queue_count - 1}

\* Every variable has its type.
SinkTypeOK ==
    /\ event_sink_handle \in 0 .. MaxSinks
    /\ event_queue \in [Positions -> 0 .. MaxEvents]
    /\ event_queue_head \in Positions /\ event_queue_count \in 0 .. SinkCapacity /\ event_queue_overflow \in BOOLEAN
    /\ owners \subseteq 1 .. MaxSinks
    /\ delivered \subseteq 1 .. emitted

\* The owner of a sink is told the truth about every event: those it polls
\* arrive in the order they were emitted, each once, none from an earlier sink,
\* and when a poll answers that there is nothing, every event was delivered or
\* is covered by a loss the owner has been told of.
EventsAccounted ==
    /\ SinkTypeOK
    /\ \A j, k \in 0 .. event_queue_count - 1 : j < k => event_queue[SlotAt(j)] < event_queue[SlotAt(k)]
    /\ \A d \in delivered, q \in QueuedEvents : d < q
    /\ lost \cap (delivered \cup QueuedEvents) = {}
    /\ event_sink_handle # 0 =>
         delivered \cup QueuedEvents \cup lost = since + 1 .. emitted
    /\ \A h \in owners : h = event_sink_handle /\ (PollsEmpty(h) => lost = reported)
=============================================================================
