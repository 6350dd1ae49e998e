------------------------------ MODULE SpanFeed ------------------------------
(***************************************************************************)
(* The span feed binding: the three static tables of span_feed_stubs.c,    *)
(* the native streams behind them, the OCaml objects of span_feed.ml that  *)
(* hold their tokens, and the renderers that write into a feed.            *)
(*                                                                         *)
(* The bindings are called from one domain, so a C function is one step.   *)
(* What makes them hard is that every value they return is allocated on    *)
(* the OCaml heap and an allocation may raise Out_of_memory: the native    *)
(* side has then already given out a span or a reservation that nobody     *)
(* received.  Such a result stays in the pending fields of the feed's slot *)
(* and the next operation on that feed returns it (cleanup_feed_pending).  *)
(*                                                                         *)
(* A call with a token that does not resolve returns Stale_handle and      *)
(* changes nothing, as does every refused argument: no step of the model.  *)
(***************************************************************************)
EXTENDS HandleTable, FiniteSets

CONSTANTS FeedCapacity,         \* OPENTUI_RAW_SPAN_FEED_CAPACITY
          SpanCapacity,         \* OPENTUI_RAW_SPAN_CAPACITY
          ReservationCapacity,  \* OPENTUI_RAW_RESERVATION_CAPACITY
          MaxStreams,           \* bound: native streams ever created
          MaxSpans              \* bound: spans a stream ever publishes

ASSUME FeedConstants ==
    /\ {FeedCapacity, SpanCapacity, ReservationCapacity} \subseteq Nat \ {0}
    /\ {MaxStreams, MaxSpans} \subseteq Nat

VARIABLES feedSlots,     \* span_feed_slots
          spanSlots,     \* span_slots
          resSlots,      \* reservation_slots
          streams,       \* the native streams, in the order of their creation
          created,       \* how many of them have been created
          feeds,         \* the open Span_feed.t objects: their tokens and streams
          held,          \* the unreleased Span.t objects
          staged,        \* the active Reservation.t objects
          renderers      \* the streams that open renderers write to

tableVars == <<feedSlots, spanSlots, resSlots>>
clientVars == <<feeds, held, staged, renderers>>
feedVars == <<tableVars, streams, created, clientVars>>

FeedIndexes == 1 .. FeedCapacity - 1
SpanIndexes == 1 .. SpanCapacity - 1
ReservationIndexes == 1 .. ReservationCapacity - 1
StreamIds == 1 .. MaxStreams
SpanInfos == 1 .. MaxSpans              \* opentui_external_span_info, the order of publication

FeedTokens == Tokens(FeedIndexes)
SpanTokens == Tokens(SpanIndexes)
ReservationTokens == Tokens(ReservationIndexes)

-----------------------------------------------------------------------------
(* The native stream (external).  It publishes spans in order, drains each *)
(* once, keeps the chunk of a drained span until it is marked consumed and *)
(* has at most one reservation.  streamMarkSpanConsumed checks the span's  *)
(* bounds and not whether it is outstanding: a second mark of a span would *)
(* release a chunk that other spans still use (overReleased).              *)

NoStream == [open |-> FALSE, published |-> 0, drained |-> 0, outstanding |-> {},
             reserved |-> FALSE, overReleased |-> FALSE]

NewStream == [NoStream EXCEPT !.open = TRUE]

Publish(s, n) == [s EXCEPT !.published = @ + n]

CanPublish(s, n) == s.published + n <= MaxSpans

streamMarkSpanConsumed(s, info) ==
    [s EXCEPT !.outstanding = @ \ {info},
              !.overReleased = @ \/ info \notin s.outstanding]

streamCancelReserved(s) == [s EXCEPT !.reserved = FALSE]

streamDrainSpan(s) ==
    [s EXCEPT !.drained = @ + 1, !.outstanding = @ \cup {s.drained + 1}]

-----------------------------------------------------------------------------
(* The tables. *)

DeadFeed == [generation |-> 0, alive |-> FALSE, stream |-> 0,
             pendingSpan |-> NoToken, pendingInfo |-> 0, pendingReservation |-> NoToken]
DeadSpan == [generation |-> 0, alive |-> FALSE, feed |-> NoToken, info |-> 0]
DeadReservation == [generation |-> 0, alive |-> FALSE, feed |-> NoToken]

span_feed_allocate(i, stream) ==
    [generation |-> ClaimGeneration(feedSlots[i]), alive |-> TRUE, stream |-> stream,
     pendingSpan |-> NoToken, pendingInfo |-> 0, pendingReservation |-> NoToken]

span_allocate(slot, feed, info) ==
    [generation |-> ClaimGeneration(slot), alive |-> TRUE, feed |-> feed, info |-> info]

\* The info of a dead slot is never read; the model forgets it.
span_release_slot(slots, token) ==
    [slots EXCEPT ![token[1]].alive = FALSE, ![token[1]].feed = NoToken, ![token[1]].info = 0]

reservation_allocate(slot, feed) ==
    [generation |-> ClaimGeneration(slot), alive |-> TRUE, feed |-> feed]

reservation_release_slot(slots, token) ==
    [slots EXCEPT ![token[1]].alive = FALSE, ![token[1]].feed = NoToken]

invalidate_feed_spans(slots, feed) ==
    [k \in DOMAIN slots |->
        IF slots[k].alive /\ slots[k].feed = feed
        THEN [DeadSpan EXCEPT !.generation = slots[k].generation] ELSE slots[k]]

release_feed_reservations(slots, feed) ==
    [k \in DOMAIN slots |->
        IF slots[k].alive /\ slots[k].feed = feed
        THEN [DeadReservation EXCEPT !.generation = slots[k].generation] ELSE slots[k]]

-----------------------------------------------------------------------------
(* cleanup_feed_pending, which every operation on the feed of slot i calls *)
(* first: the four parts of the state after it.                            *)

CleanSpans(i) ==
    LET t == feedSlots[i].pendingSpan
    IN  IF Resolves(spanSlots, t) THEN span_release_slot(spanSlots, t) ELSE spanSlots

CleanReservations(i) ==
    LET t == feedSlots[i].pendingReservation
    IN  IF Resolves(resSlots, t) THEN reservation_release_slot(resSlots, t) ELSE resSlots

\* Cleans the reservation only: the chunk of the lost span is never released.
MutantForgetsPendingSpan(i) ==
    LET f == feedSlots[i]
        s == streams[f.stream]
    IN  IF f.pendingReservation = NoToken THEN s ELSE streamCancelReserved(s)

CleanStream(i) ==
    LET f == feedSlots[i]
        s == streams[f.stream]
        s1 == IF f.pendingSpan = NoToken THEN s
              ELSE streamMarkSpanConsumed(s, f.pendingInfo)
    IN  IF f.pendingReservation = NoToken THEN s1 ELSE streamCancelReserved(s1)

CleanFeeds(i) ==
    [feedSlots EXCEPT ![i].pendingSpan = NoToken, ![i].pendingInfo = 0,
                      ![i].pendingReservation = NoToken]

\* An operation that only cleans up and leaves the stream as `result`.
CleanUp(i, result) ==
    /\ feedSlots' = CleanFeeds(i)
    /\ spanSlots' = CleanSpans(i)
    /\ resSlots' = CleanReservations(i)
    /\ streams' = [streams EXCEPT ![feedSlots[i].stream] = result]

-----------------------------------------------------------------------------
(* The operations.  f is an open feed object, s an unreleased span, r an   *)
(* active reservation.                                                     *)

FeedObject(token, stream) == [token |-> token, stream |-> stream]

\* span_feed_create.  A native failure or a full table leaves nothing behind;
\* a failed attach has used up a generation; delivered = FALSE is an allocation
\* that raises after the slot is filled, which leaves a feed nobody can name.
span_feed_create(attached, delivered) ==
    /\ created < MaxStreams
    /\ FreeIndexes(feedSlots) # {}
    /\ LET i == FirstFree(feedSlots)
           slot == span_feed_allocate(i, created + 1)
           token == make_token(i, slot.generation)
       IN  /\ feedSlots' = [feedSlots EXCEPT
                 ![i] = IF attached THEN slot ELSE [slot EXCEPT !.alive = FALSE, !.stream = 0]]
           /\ feeds' = IF attached /\ delivered
                       THEN feeds \cup {FeedObject(token, created + 1)} ELSE feeds
    /\ created' = created + 1
    /\ streams' = [streams EXCEPT ![created + 1] = IF attached THEN NewStream ELSE NoStream]
    /\ UNCHANGED <<spanSlots, resSlots, held, staged, renderers>>

\* span_feed_close: streamClose answers Busy while a reservation is active, and
\* then only the clean-up has happened.  The wrapper closes the owner, so that
\* the objects of this feed make no further call.
span_feed_close(f) ==
    LET i == f.token[1]
        s == CleanStream(i)
    IN  /\ Resolves(feedSlots, f.token)
        /\ IF s.reserved
           THEN CleanUp(i, s) /\ UNCHANGED clientVars
           ELSE /\ spanSlots' = invalidate_feed_spans(CleanSpans(i), f.token)
                /\ resSlots' = release_feed_reservations(CleanReservations(i), f.token)
                /\ streams' = [streams EXCEPT ![feedSlots[i].stream] = NoStream]
                /\ feedSlots' = [CleanFeeds(i) EXCEPT ![i].alive = FALSE, ![i].stream = 0]
                /\ feeds' = feeds \ {f}
                /\ held' = {h \in held : h.feed # f.token}
                /\ staged' = {r \in staged : r.feed # f.token}
                /\ UNCHANGED renderers
        /\ UNCHANGED created

\* span_feed_write and span_feed_commit: the stream may publish a span (a write
\* does when a chunk is full); span_feed_stats publishes nothing.
span_feed_write(f, n) ==
    LET s == CleanStream(f.token[1])
    IN  /\ Resolves(feedSlots, f.token)
        /\ CanPublish(s, n)
        /\ CleanUp(f.token[1], Publish(s, n))
        /\ UNCHANGED <<created, clientVars>>

span_feed_commit(f, n) ==
    LET s == CleanStream(f.token[1])
    IN  /\ Resolves(feedSlots, f.token)
        /\ CanPublish(s, n)
        /\ CleanUp(f.token[1], Publish(s, n))
        /\ UNCHANGED <<created, clientVars>>

span_feed_stats(f) ==
    /\ Resolves(feedSlots, f.token)
    /\ CleanUp(f.token[1], CleanStream(f.token[1]))
    /\ UNCHANGED <<created, clientVars>>

\* span_feed_reserve.  granted is the native answer, which is never yes while a
\* reservation is active; a full table cancels what the stream has granted.
span_feed_reserve(f, granted, delivered) ==
    LET i == f.token[1]
        s == CleanStream(i)
        slots == CleanReservations(i)
        k == FirstFree(slots)
        slot == reservation_allocate(slots[k], f.token)
        token == make_token(k, slot.generation)
    IN  /\ Resolves(feedSlots, f.token)
        /\ granted => ~s.reserved
        /\ IF ~granted \/ FreeIndexes(slots) = {}
           THEN CleanUp(i, s) /\ UNCHANGED staged
           ELSE /\ resSlots' = [slots EXCEPT ![k] = slot]
                /\ streams' = [streams EXCEPT ![feedSlots[i].stream] = [s EXCEPT !.reserved = TRUE]]
                /\ spanSlots' = CleanSpans(i)
                /\ feedSlots' = [CleanFeeds(i) EXCEPT
                                   ![i].pendingReservation = IF delivered THEN NoToken ELSE token]
                /\ staged' = IF delivered
                             THEN staged \cup {[token |-> token, feed |-> f.token]} ELSE staged
        /\ UNCHANGED <<created, feeds, held, renderers>>

\* The feed of a span or of a reservation, found through the token its slot keeps.
FeedOf(slots, token) == slots[token[1]].feed

\* The common ending of commit and cancel: ok is the native answer (a stream
\* without a reservation refuses both), n the spans published.
EndReservation(r, ok, n) ==
    LET feed == FeedOf(resSlots, r.token)
        i == feed[1]
        s == CleanStream(i)
    IN  /\ Resolves(resSlots, r.token)
        /\ Resolves(feedSlots, feed)
        /\ ok => s.reserved /\ CanPublish(s, n)
        /\ IF ok
           THEN /\ resSlots' = reservation_release_slot(CleanReservations(i), r.token)
                /\ streams' = [streams EXCEPT ![feedSlots[i].stream] =
                                  streamCancelReserved(Publish(s, n))]
                /\ spanSlots' = CleanSpans(i)
                /\ feedSlots' = CleanFeeds(i)
                /\ staged' = staged \ {r}
           ELSE CleanUp(i, s) /\ UNCHANGED staged
        /\ UNCHANGED <<created, feeds, held, renderers>>

span_feed_reservation_commit(r, ok, n) == EndReservation(r, ok, n)

span_feed_reservation_cancel(r) == EndReservation(r, TRUE, 0)

\* span_feed_drain takes one span.  readable is span_source; an unreadable span
\* and a full table mark it consumed at once.
span_feed_drain(f, readable, delivered) ==
    LET i == f.token[1]
        s == CleanStream(i)
        info == s.drained + 1
        slots == CleanSpans(i)
        k == FirstFree(slots)
        slot == span_allocate(slots[k], f.token, info)
        token == make_token(k, slot.generation)
    IN  /\ Resolves(feedSlots, f.token)
        /\ IF s.drained = s.published
           THEN CleanUp(i, s) /\ UNCHANGED held
           ELSE IF ~readable \/ FreeIndexes(slots) = {}
           THEN CleanUp(i, streamMarkSpanConsumed(streamDrainSpan(s), info)) /\ UNCHANGED held
           ELSE /\ spanSlots' = [slots EXCEPT ![k] = slot]
                /\ streams' = [streams EXCEPT ![feedSlots[i].stream] = streamDrainSpan(s)]
                /\ resSlots' = CleanReservations(i)
                /\ feedSlots' = [CleanFeeds(i) EXCEPT
                                   ![i].pendingSpan = IF delivered THEN NoToken ELSE token,
                                   ![i].pendingInfo = IF delivered THEN 0 ELSE info]
                /\ held' = IF delivered
                           THEN held \cup {[token |-> token, feed |-> f.token, info |-> info]}
                           ELSE held
        /\ UNCHANGED <<created, feeds, staged, renderers>>

span_release(h) ==
    LET feed == FeedOf(spanSlots, h.token)
        i == feed[1]
    IN  /\ Resolves(spanSlots, h.token)
        /\ Resolves(feedSlots, feed)
        /\ spanSlots' = span_release_slot(CleanSpans(i), h.token)
        /\ streams' = [streams EXCEPT ![feedSlots[i].stream] =
                          streamMarkSpanConsumed(CleanStream(i), spanSlots[h.token[1]].info)]
        /\ resSlots' = CleanReservations(i)
        /\ feedSlots' = CleanFeeds(i)
        /\ held' = held \ {h}
        /\ UNCHANGED <<created, feeds, staged, renderers>>

-----------------------------------------------------------------------------
(* The renderer that writes to a feed: the core creates the feed for its   *)
(* sink and then the renderer over the stream the feed's token resolves    *)
(* to.                                                                     *)

renderer_create(f) ==
    /\ Resolves(feedSlots, f.token)
    /\ renderers' = renderers \cup {feedSlots[f.token[1]].stream}
    /\ UNCHANGED <<tableVars, streams, created, feeds, held, staged>>

\* A frame of the native renderer publishes spans without a call of the feed.
renderer_render(stream) ==
    /\ CanPublish(streams[stream], 1)
    /\ streams' = [streams EXCEPT ![stream] = Publish(@, 1)]
    /\ UNCHANGED <<tableVars, created, clientVars>>

renderer_destroy(stream) ==
    /\ renderers' = renderers \ {stream}
    /\ UNCHANGED <<tableVars, streams, created, feeds, held, staged>>

MutantClosesFeedFirst(f) == span_feed_close(f)

\* Every path of the core's renderer (close, and the failures of its creation)
\* closes the feed only when the renderer over it is closed or was never created.
close_output_feed(f) == f.stream \notin renderers /\ span_feed_close(f)

-----------------------------------------------------------------------------
FeedInit ==
    /\ feedSlots = [i \in FeedIndexes |-> DeadFeed]
    /\ spanSlots = [i \in SpanIndexes |-> DeadSpan]
    /\ resSlots = [i \in ReservationIndexes |-> DeadReservation]
    /\ streams = [s \in StreamIds |-> NoStream]
    /\ created = 0
    /\ feeds = {} /\ held = {} /\ staged = {} /\ renderers = {}

FeedNext ==
    \/ \E attached, delivered \in BOOLEAN : span_feed_create(attached, delivered)
    \/ \E f \in feeds :
        \/ close_output_feed(f)
        \/ \E n \in {0, 1} : span_feed_write(f, n)
        \/ \E n \in {0, 1} : span_feed_commit(f, n)
        \/ span_feed_stats(f)
        \/ \E granted, delivered \in BOOLEAN : span_feed_reserve(f, granted, delivered)
        \/ \E readable, delivered \in BOOLEAN : span_feed_drain(f, readable, delivered)
        \/ renderer_create(f)
    \/ \E r \in staged :
        \/ \E ok \in BOOLEAN, n \in {0, 1} : span_feed_reservation_commit(r, ok, n)
        \/ span_feed_reservation_cancel(r)
    \/ \E h \in held : span_release(h)
    \/ \E s \in renderers : renderer_render(s) \/ renderer_destroy(s)

FeedSpec == FeedInit /\ [][FeedNext]_feedVars

-----------------------------------------------------------------------------
(* Properties. *)

\* Every variable has its type (the static tables and the objects of
\* span_feed.ml).
FeedTypeOK ==
    /\ feedSlots \in [FeedIndexes ->
          [generation : 0 .. MaxGeneration, alive : BOOLEAN, stream : 0 .. MaxStreams,
           pendingSpan : SpanTokens \cup {NoToken}, pendingInfo : 0 .. MaxSpans,
           pendingReservation : ReservationTokens \cup {NoToken}]]
    /\ spanSlots \in [SpanIndexes ->
          [generation : 0 .. MaxGeneration, alive : BOOLEAN,
           feed : FeedTokens \cup {NoToken}, info : 0 .. MaxSpans]]
    /\ resSlots \in [ReservationIndexes ->
          [generation : 0 .. MaxGeneration, alive : BOOLEAN, feed : FeedTokens \cup {NoToken}]]
    /\ streams \in [StreamIds ->
          [open : BOOLEAN, published : 0 .. MaxSpans, drained : 0 .. MaxSpans,
           outstanding : SUBSET SpanInfos, reserved : BOOLEAN, overReleased : BOOLEAN]]
    /\ created \in 0 .. MaxStreams
    /\ feeds \subseteq [token : FeedTokens, stream : StreamIds]
    /\ held \subseteq [token : SpanTokens, feed : FeedTokens, info : SpanInfos]
    /\ staged \subseteq [token : ReservationTokens, feed : FeedTokens]
    /\ renderers \subseteq StreamIds

LiveFeeds == {i \in FeedIndexes : feedSlots[i].alive}
FeedToken(i) == make_token(i, feedSlots[i].generation)
SpansOf(i) == {k \in SpanIndexes : spanSlots[k].alive /\ spanSlots[k].feed = FeedToken(i)}
ReservationsOf(i) ==
    {k \in ReservationIndexes : resSlots[k].alive /\ resSlots[k].feed = FeedToken(i)}

\* Every chunk the stream of a live feed keeps for a drained span is owned by
\* exactly one live slot of that feed, and no span is marked consumed twice:
\* neither an allocation that raises in the middle of span_feed_drain, nor the
\* clean-up after it, nor a release on another feed, loses or doubles a release.
SpansOwnedOnce ==
    \A i \in LiveFeeds :
        LET s == streams[feedSlots[i].stream]
        IN  /\ ~s.overReleased
            /\ s.outstanding = {spanSlots[k].info : k \in SpansOf(i)}
            /\ Cardinality(SpansOf(i)) = Cardinality(s.outstanding)

\* A stream has an active reservation exactly when one live slot stands for it,
\* so that a lost reservation never leaves span_feed_close Busy for good.
ReservationsAgree ==
    \A i \in LiveFeeds :
        /\ streams[feedSlots[i].stream].reserved <=> ReservationsOf(i) # {}
        /\ Cardinality(ReservationsOf(i)) <= 1

\* A slot that is alive belongs to a feed that is alive: closing a feed leaves
\* no span or reservation that a feed allocated later in the same slot with the
\* same generation would take for its own.
NoOrphanSlots ==
    /\ \A k \in SpanIndexes : spanSlots[k].alive => Resolves(feedSlots, spanSlots[k].feed)
    /\ \A k \in ReservationIndexes : resSlots[k].alive => Resolves(feedSlots, resSlots[k].feed)

\* What a token was issued for is what it still names: every open feed, every
\* unreleased span and every active reservation resolves to its own stream,
\* span and feed, however often slots were reused and generations wrapped.
TokensResolve ==
    /\ \A f \in feeds :
          Resolves(feedSlots, f.token) /\ feedSlots[f.token[1]].stream = f.stream
    /\ \A h \in held :
          /\ Resolves(spanSlots, h.token)
          /\ spanSlots[h.token[1]].feed = h.feed
          /\ spanSlots[h.token[1]].info = h.info
    /\ \A r \in staged :
          Resolves(resSlots, r.token) /\ resSlots[r.token[1]].feed = r.feed

\* No renderer writes to a stream that is closed and destroyed.
RenderersWriteToOpenStreams == \A s \in renderers : streams[s].open

\* The ownership protocol of the feed in one invariant, over well-typed state.
FeedOwnership ==
    /\ FeedTypeOK
    /\ SpansOwnedOnce
    /\ ReservationsAgree
    /\ NoOrphanSlots
    /\ TokensResolve
=============================================================================
