---------------------------- MODULE ImageLoading ----------------------------
(***************************************************************************)
(* Images: the native images of image_stubs.c with their OCaml owners      *)
(* (opentui-raw/image.ml, opentui-core/image.ml), and the Image renderable *)
(* (renderables/image.ml) that loads them.  A source that is a path is     *)
(* read by a fiber of its own, which later sources and destroy cancel and  *)
(* which the callbacks of a delivery may do so too.                        *)
(*                                                                         *)
(* An image object owns one native reference, opened and closed with it,   *)
(* and is named by the order of its creation.  A source, and the fiber     *)
(* that reads it, is named by the generation set_source gave it.           *)
(***************************************************************************)
EXTENDS Naturals, FiniteSets

CONSTANTS MaxImages,       \* bound: native images ever created
          MaxSources       \* bound: calls of set_source; far below max_int

ASSUME ImageConstants == MaxImages \in Nat /\ MaxSources \in Nat

VARIABLES images,          \* native images ever created
          opened,          \* the image objects that are not closed
          users,           \* the image objects the application can name
          source, image, load_state, generation, in_flight, destroyed,
          shown_from,      \* history: the source the image was loaded from
          fibers,          \* the fibers that read paths
          path_switch      \* is the switch they run under open

ownerVars == <<images, opened, users>>
widgetVars == <<source, image, load_state, generation, in_flight, destroyed, shown_from>>
imageVars == <<ownerVars, widgetVars, fibers, path_switch>>

Images == 1 .. MaxImages
Generations == 1 .. MaxSources
NoImage == 0
NoSource == 0
NoLease == 0
NoFiber == [pc |-> "none", previous |-> "empty", cancelled |-> FALSE]

\* Where a load may fail: in the native load or retain, in get_info, in setting
\* the default dimensions.
Failures == {"load", "info", "dimensions"}

-----------------------------------------------------------------------------
(* Image objects in the hands of the application. *)

NewImage == images + 1

\* decode and create_from_rgba.
image_create ==
    /\ images < MaxImages
    /\ images' = NewImage
    /\ opened' = opened \cup {NewImage} /\ users' = users \cup {NewImage}
    /\ UNCHANGED <<widgetVars, fibers, path_switch>>

image_retain(x) == x \in opened /\ image_create

\* clone, resize, extract, extend, transform and composite: every image they
\* read is open, the result is a new one.
image_operation(inputs) == inputs \subseteq opened /\ image_create

image_destroy(x) ==
    /\ x \in users \cap opened
    /\ opened' = opened \ {x}
    /\ UNCHANGED <<images, users, widgetVars, fibers, path_switch>>

\* take_raw closes the image when materialize and the copy have succeeded.
take_raw(x, copied) == copied /\ image_destroy(x)

\* Image.image hands the application the image on display.
get_image ==
    /\ image \notin users \cup {NoImage}
    /\ users' = users \cup {image}
    /\ UNCHANGED <<images, opened, widgetVars, fibers, path_switch>>

\* render_self: an image that was closed is an error, never drawn.
draw_image ==
    IF image = NoImage THEN "nothing" ELSE IF image \in opened THEN "drawn" ELSE "error"

-----------------------------------------------------------------------------
(* Delivery of a load.  Callbacks run after the state is final; what they do *)
(* is a later step.                                                          *)

MutantIgnoresGeneration(g) == ~destroyed

is_current(g) == ~destroyed /\ g = generation

deliver_error ==
    /\ load_state' = "failed"
    /\ UNCHANGED <<image, shown_from, opened>>

MutantKeepsPrevious(g) ==
    /\ images < MaxImages
    /\ images' = NewImage
    /\ image' = NewImage /\ shown_from' = g
    /\ load_state' = "ready"
    /\ opened' = opened \cup {NewImage}

\* apply_loaded of a source that is current: the previous image is closed.
apply_loaded(g) ==
    /\ images < MaxImages
    /\ images' = NewImage
    /\ image' = NewImage /\ shown_from' = g
    /\ load_state' = "ready"
    /\ opened' = (opened \ {image}) \cup {NewImage}

\* A loaded image whose delivery fails is closed at once.
apply_failed(failure) ==
    /\ IF failure = "load" THEN UNCHANGED images
       ELSE images < MaxImages /\ images' = NewImage
    /\ deliver_error

apply_load_result(g) == apply_loaded(g) \/ \E failure \in Failures : apply_failed(failure)

-----------------------------------------------------------------------------
(* set_source. *)

settled_load_state ==
    IF load_state # "loading" THEN load_state
    ELSE IF image = NoImage THEN "empty" ELSE "ready"

\* cancel_in_flight: the switch of the read in flight fails.
CancelledFibers ==
    IF in_flight = NoLease THEN fibers ELSE [fibers EXCEPT ![in_flight].cancelled = TRUE]

\* The part of set_source that does not depend on the kind of source.
Supersede ==
    /\ ~destroyed /\ generation < MaxSources
    /\ generation' = generation + 1
    /\ UNCHANGED <<users, destroyed, path_switch>>

set_source_none ==
    /\ Supersede
    /\ source' = NoSource /\ in_flight' = NoLease /\ fibers' = CancelledFibers
    /\ opened' = opened \ {image}
    /\ image' = NoImage /\ load_state' = "empty"
    /\ UNCHANGED <<images, shown_from>>

\* Encoded and Rgba: install_synchronous_source.
set_source_sync ==
    /\ Supersede
    /\ source' = generation + 1 /\ in_flight' = NoLease /\ fibers' = CancelledFibers
    /\ apply_load_result(generation + 1)

\* Native: the widget keeps a reference of its own.
set_source_native(x) ==
    /\ Supersede
    /\ source' = generation + 1 /\ in_flight' = NoLease /\ fibers' = CancelledFibers
    /\ IF x \in opened THEN apply_load_result(generation + 1) ELSE apply_failed("load")

\* Path: start_path_source.  A switch that is not open is refused before
\* anything changes, so that the fork succeeds and the fiber starts to read.
set_source_path ==
    /\ path_switch
    /\ Supersede
    /\ source' = generation + 1 /\ in_flight' = generation + 1
    /\ fibers' = [CancelledFibers EXCEPT ![generation + 1] =
                    [pc |-> "reading", previous |-> settled_load_state, cancelled |-> FALSE]]
    /\ load_state' = "loading"
    /\ UNCHANGED <<images, opened, image, shown_from>>

-----------------------------------------------------------------------------
(* The fiber of a path. *)

ReleasedLease(g) == IF in_flight = g THEN NoLease ELSE in_flight

\* read_path returns, in a cancelled fiber too when the result came first.  The
\* lease is released before the delivery and its callbacks.
fiber_read(g, failed) ==
    /\ fibers[g].pc = "reading"
    /\ fibers' = [fibers EXCEPT ![g].pc = "delivering"]
    /\ in_flight' = ReleasedLease(g)
    /\ IF ~is_current(g) THEN UNCHANGED <<images, opened, image, load_state, shown_from>>
       ELSE IF failed THEN deliver_error /\ UNCHANGED images
       ELSE apply_load_result(g)
    /\ UNCHANGED <<users, source, generation, destroyed, path_switch>>

restore_path_state(g) ==
    load_state' = IF is_current(g) /\ load_state = "loading" THEN fibers[g].previous ELSE load_state

\* finalize, after the callbacks of the delivery.
fiber_finalize(g) ==
    /\ fibers[g].pc = "delivering"
    /\ restore_path_state(g)
    /\ in_flight' = ReleasedLease(g)
    /\ fibers' = [fibers EXCEPT ![g].pc = "ended"]
    /\ UNCHANGED <<ownerVars, source, image, generation, destroyed, shown_from, path_switch>>

\* The read is cancelled, or the read or a callback raises: the same finalize.
\* Only Path_request_cancelled is caught; another exception fails the switch.
fiber_raise(g) ==
    /\ fibers[g].pc \in {"reading", "delivering"}
    /\ restore_path_state(g)
    /\ in_flight' = ReleasedLease(g)
    /\ fibers' = [fibers EXCEPT ![g].pc = "ended"]
    /\ path_switch' = (path_switch /\ fibers[g].pc = "reading" /\ fibers[g].cancelled)
    /\ UNCHANGED <<ownerVars, source, image, generation, destroyed, shown_from>>

\* The owner of the switch ends it.
path_switch_fail == path_switch /\ path_switch' = FALSE /\ UNCHANGED <<ownerVars, widgetVars, fibers>>

\* cleanup, when the renderable is destroyed.
cleanup ==
    /\ ~destroyed
    /\ destroyed' = TRUE
    /\ in_flight' = NoLease /\ fibers' = CancelledFibers
    /\ source' = NoSource /\ load_state' = "empty"
    /\ opened' = opened \ {image} /\ image' = NoImage
    /\ UNCHANGED <<images, users, generation, shown_from, path_switch>>

-----------------------------------------------------------------------------
ImageInit ==
    /\ images = 0 /\ opened = {} /\ users = {}
    /\ source = NoSource /\ image = NoImage /\ load_state = "empty"
    /\ generation = 0 /\ in_flight = NoLease /\ destroyed = FALSE /\ shown_from = NoSource
    /\ fibers = [g \in Generations |-> NoFiber]
    /\ path_switch = TRUE

ImageNext ==
    \/ image_create \/ get_image
    \/ \E x \in users : image_retain(x) \/ image_destroy(x) \/ set_source_native(x)
    \/ \E x \in users, copied \in BOOLEAN : take_raw(x, copied)
    \/ \E inputs \in SUBSET users : Cardinality(inputs) \in 1 .. 2 /\ image_operation(inputs)
    \/ set_source_none \/ set_source_sync \/ set_source_path
    \/ \E g \in Generations :
        \/ \E failed \in BOOLEAN : fiber_read(g, failed)
        \/ fiber_finalize(g)
        \/ fiber_raise(g)
    \/ path_switch_fail
    \/ cleanup

ImageSpec == ImageInit /\ [][ImageNext]_imageVars

-----------------------------------------------------------------------------
(* Properties. *)

\* Every variable has its type.
ImageTypeOK ==
    /\ images \in 0 .. MaxImages
    /\ opened \subseteq 1 .. images /\ users \subseteq 1 .. images
    /\ image \in 0 .. images
    /\ source \in 0 .. generation /\ shown_from \in 0 .. generation /\ generation \in 0 .. MaxSources
    /\ load_state \in {"empty", "loading", "ready", "failed"}
    /\ in_flight \in 0 .. generation
    /\ fibers \in [Generations -> [pc : {"none", "reading", "delivering", "ended"},
                     previous : {"empty", "ready", "failed"}, cancelled : BOOLEAN]]
    /\ destroyed \in BOOLEAN /\ path_switch \in BOOLEAN

\* No native image is lost or closed behind its owner, in whatever order loads
\* are superseded, cancelled, fail or finish: an open image is in the hands of
\* the application or on display, and what is on display is open unless the
\* application closed it.
ImagesOwned ==
    /\ ImageTypeOK
    /\ opened \subseteq users \cup {image}
    /\ draw_image = "error" => image \in users

\* What the widget says of itself is true: it is loading exactly while the
\* fiber of the current source reads, uncancelled; ready means that the image
\* of the current source, and of no superseded one, is on display (or that the
\* switch of the paths ended under a load, which leaves the previous image).
LatestSourceShown ==
    /\ load_state = "loading" <=> in_flight # NoLease
    /\ in_flight # NoLease =>
          in_flight = generation /\ fibers[in_flight].pc = "reading" /\ ~fibers[in_flight].cancelled
    /\ load_state = "empty" => image = NoImage
    /\ load_state = "ready" => image # NoImage /\ (shown_from = source \/ ~path_switch)
=============================================================================
