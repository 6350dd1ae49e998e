---------------------------- MODULE Highlighting ----------------------------
(* Syntax highlighting of one Code renderable (renderables/code.ml) through  *)
(* Background: generations, one running and one pending request, the         *)
(* owner-domain callbacks and what the text buffer shows meanwhile.          *)
(*                                                                           *)
(* The code record is one variable whose fields are the fields of Code.t;    *)
(* the operators below map a record to a record the way the functions of     *)
(* code.ml update it.  on_highlight and on_chunks run on the owner domain    *)
(* and may call every setter again: each callback in progress is a frame of  *)
(* the stack frames, and calls made while a frame is open are nested.        *)
EXTENDS Naturals, Sequences, SequencesExt

CONSTANTS
    MaxGenerations,     \* bound on the calls of refresh
    MaxDepth,           \* bound on nested callbacks
    Workers             \* worker domains of the pool

ASSUME HighlightingAssumption ==
    /\ MaxGenerations \in Nat \ {0}
    /\ MaxDepth \in Nat
    /\ Workers \in Nat \ {0}

Generations == 1 .. MaxGenerations

VARIABLES
    code,       \* the fields of Code.t
    request,    \* the request each generation made
    frames,     \* callbacks in progress, innermost last
    job, work, fiber, open      \* Background

highlightingVars == <<code, request, frames, job, work, fiber, open>>

Bg == INSTANCE Background WITH Jobs <- Generations

(* A request is Plain, Fallback, or Highlight with a parser that runs on the *)
(* owner domain or on a worker; a Code without a submitter makes only the    *)
(* first three.                                                              *)
Kinds == {"plain", "fallback", "owner", "worker"}
Highlights == {"owner", "worker"}

(* What the text buffer holds: nothing, the unstyled source while it is      *)
(* being highlighted, or a settled result of a generation.                   *)
Shown(g, how) == [generation |-> g, how |-> how]
Settled == {"plain", "fallback", "styled"}

HighlightingInit ==
    /\ code = [generation |-> 0,
               state |-> "idle", settledState |-> "idle", done |-> FALSE,
               running |-> 0, pending |-> 0,
               shown |-> Shown(0, "empty"), hasSettled |-> FALSE,
               lineSources |-> 0,
               streaming |-> FALSE, drawUnstyled |-> TRUE,
               destroyed |-> FALSE]
    /\ request = [g \in Generations |-> "none"]
    /\ frames = <<>>
    /\ Bg!BackgroundInit

-----------------------------------------------------------------------------
(* The functions of code.ml on the record.                                   *)

MutantIsCurrent(c, g) == ~c.destroyed

IsCurrent(c, g) == ~c.destroyed /\ g = c.generation

SettledState(how) ==
    CASE how = "plain" -> "idle"
      [] how = "fallback" -> "fallback"
      [] how = "styled" -> "applied"

MutantApplyKeepsLines(c, g, how) ==
    IF ~IsCurrent(c, g) THEN c
    ELSE [c EXCEPT !.shown = Shown(g, how),
                   !.hasSettled = TRUE,
                   !.lineSources = IF how = "styled" THEN g ELSE @,
                   !.state = SettledState(how),
                   !.settledState = SettledState(how),
                   !.done = TRUE]

(* apply_plain, apply_fallback and apply_highlights, when the text buffer    *)
(* accepts the text.                                                         *)
Apply(c, g, how) ==
    IF ~IsCurrent(c, g) THEN c
    ELSE [c EXCEPT !.shown = Shown(g, how),
                   !.hasSettled = TRUE,
                   !.lineSources = IF how = "styled" THEN g ELSE 0,
                   !.state = SettledState(how),
                   !.settledState = SettledState(how),
                   !.done = TRUE]

MutantAbortKeepsDone(c) ==
    IF c.destroyed THEN c
    ELSE [c EXCEPT !.pending = 0, !.state = c.settledState]

AbortInflight(c) ==
    IF c.destroyed THEN c
    ELSE [c EXCEPT !.pending = 0, !.state = c.settledState, !.done = TRUE]

SettleAfterApplicationError(c, g) ==
    IF ~IsCurrent(c, g) THEN c
    ELSE [c EXCEPT !.state = c.settledState, !.done = TRUE]

Retains(c) == c.streaming /\ c.hasSettled

(* prepare_highlight_visibility, when the text buffer accepts the text.      *)
PrepareHighlightVisibility(c) ==
    IF Retains(c) THEN c
    ELSE [c EXCEPT !.shown = IF c.drawUnstyled THEN Shown(c.generation, "raw")
                                               ELSE Shown(c.generation, "empty"),
                   !.hasSettled = FALSE]

(* start_pending: the record afterwards, and the generation whose callbacks  *)
(* now run on the owner domain (0 when none).  A worker-safe request that    *)
(* the closed submitter refuses also runs on the owner domain.               *)
StartPending(c) ==
    LET g == c.pending
        taken == [c EXCEPT !.pending = 0]
    IN  IF c.destroyed \/ c.running # 0 \/ g = 0 THEN [code |-> c, owner |-> 0]
        ELSE IF ~IsCurrent(taken, g) THEN [code |-> taken, owner |-> 0]
        ELSE IF request[g] = "worker" /\ open
             THEN [code |-> [taken EXCEPT !.running = g, !.state = "pending"],
                   owner |-> 0]
             ELSE [code |-> taken, owner |-> g]

Cleanup(c) == [c EXCEPT !.destroyed = TRUE, !.pending = 0, !.running = 0,
                        !.done = TRUE]

(* create destroys the renderable when its first refresh fails.              *)
Failed(c) == IF c.generation = 1 THEN Cleanup(c) ELSE c

-----------------------------------------------------------------------------
(* A callback of generation g in progress on the owner domain: entered from  *)
(* refresh, from a job's completion or from start_pending.  callback says    *)
(* that user code holding the Code may run in it: an obsolete completion     *)
(* calls none, and during create nobody has the Code yet (a create that      *)
(* raises returns none).                                                     *)
Frame(g, from, callback) ==
    [generation |-> g, from |-> from, callback |-> callback]

(* The owner domain is idle, or user code called from a frame has control.   *)
Callable ==
    /\ ~code.destroyed
    /\ IF frames = <<>> THEN \A g \in Generations : fiber[g] # "callback"
                        ELSE Last(frames).callback

(* Background.submit for the request the record newly runs, if any.          *)
SubmitRunning ==
    IF code'.running \notin {0, code.running}
    THEN Bg!Submit(code'.running)
    ELSE UNCHANGED <<job, work, fiber, open>>

(* The record when refresh has taken the next generation: the previous       *)
(* settlement is resolved and a new one made.                                *)
NextGeneration(kind, streaming, drawUnstyled) ==
    LET c == [code EXCEPT !.generation = code.generation + 1,
                          !.done = FALSE,
                          !.streaming = streaming,
                          !.drawUnstyled = drawUnstyled]
    IN  [c EXCEPT !.lineSources = IF kind \in Highlights /\ Retains(c) THEN @ ELSE 0]

(* refresh for a plain or a fallback request, applied at once even while an  *)
(* older highlight is running; the text buffer may refuse the text.          *)
RefreshPlain(c, kind) ==
    /\ kind \in {"plain", "fallback"}
    /\ \/ code' = Apply(c, c.generation, kind)
       \/ code' = Failed(AbortInflight(c))
    /\ UNCHANGED <<frames, job, work, fiber, open>>

(* refresh for a highlight: preparing what is visible fails.                 *)
RefreshFails(c, kind) ==
    /\ kind \in Highlights
    /\ ~Retains(c)
    /\ code' = Failed(AbortInflight([c EXCEPT !.hasSettled = FALSE]))
    /\ UNCHANGED <<frames, job, work, fiber, open>>

(* refresh for a highlight behind a running one: it becomes the one pending  *)
(* request, whoever runs its parser.                                         *)
RefreshQueued(c, kind) ==
    /\ kind \in Highlights
    /\ c.running # 0
    /\ code' = [PrepareHighlightVisibility(c) EXCEPT
                    !.pending = c.generation, !.state = "pending"]
    /\ UNCHANGED <<frames, job, work, fiber, open>>

MutantRunningLate(c, kind) ==
    /\ kind = "worker"
    /\ open
    /\ code' = [PrepareHighlightVisibility(c) EXCEPT
                    !.running = c.generation, !.state = "pending"]
    /\ UNCHANGED frames
    /\ SubmitRunning

(* refresh for a highlight with nothing running: submit it, or report the    *)
(* closed submitter, or call the parser and the callbacks right here.        *)
RefreshSubmits(c, kind) ==
    /\ kind = "worker"
    /\ c.running = 0
    /\ IF open
       THEN code' = [PrepareHighlightVisibility(c) EXCEPT
                         !.running = c.generation, !.state = "pending"]
       ELSE code' = Failed(AbortInflight(PrepareHighlightVisibility(c)))
    /\ UNCHANGED frames
    /\ SubmitRunning

RefreshOnOwner(c, kind) ==
    /\ kind = "owner"
    /\ c.running = 0
    /\ Len(frames) < MaxDepth
    /\ code' = PrepareHighlightVisibility(c)
    /\ frames' = Append(frames, Frame(c.generation, "refresh", c.generation # 1))
    /\ UNCHANGED <<job, work, fiber, open>>

(* create, set_content, set_filetype, set_syntax_style, set_conceal,         *)
(* set_tree_sitter_client, set_draw_unstyled_text and set_streaming.         *)
Refresh ==
    /\ Callable
    /\ code.generation < MaxGenerations
    /\ \E kind \in Kinds, streaming \in BOOLEAN, drawUnstyled \in BOOLEAN :
         /\ \/ streaming = code.streaming
            \/ drawUnstyled = code.drawUnstyled
            \/ code.generation = 0
         /\ LET c == NextGeneration(kind, streaming, drawUnstyled)
            IN
             /\ request' = [request EXCEPT ![c.generation] = kind]
             /\ \/ RefreshPlain(c, kind)
                \/ RefreshFails(c, kind)
                \/ RefreshQueued(c, kind)
                \/ RefreshSubmits(c, kind)
                \/ RefreshOnOwner(c, kind)

(* destroy, through Code or through its renderable: cleanup cancels the      *)
(* running job.                                                              *)
Destroy ==
    /\ Callable
    /\ code.generation # 0
    /\ code' = Cleanup(code)
    /\ IF code.running # 0 /\ job[code.running] = "pending"
       THEN Bg!Cancel(code.running)
       ELSE UNCHANGED <<job, work, fiber, open>>
    /\ UNCHANGED <<request, frames>>

(* finish_request, the on_complete of generation g's job, up to its first    *)
(* callback.  running is released before the result is applied.              *)
FinishRequest(g) ==
    /\ frames = <<>>
    /\ \A h \in Generations : fiber[h] # "callback"
    /\ Bg!BeginDelivery(g)
    /\ IF fiber'[g] = "callback"
       THEN /\ code' = [code EXCEPT !.running = 0]
            /\ frames' = <<Frame(g, "finish", IsCurrent(code, g))>>
       ELSE UNCHANGED <<code, frames>>
    /\ UNCHANGED request

(* The record when the callbacks of frame f have returned: the styled text   *)
(* is applied, a typed error falls back, or the text buffer refuses.         *)
Applied(f, outcome) ==
    IF outcome # "refused" THEN Apply(code, f.generation, outcome)
    ELSE IF ~IsCurrent(code, f.generation) THEN code
    ELSE IF f.from = "refresh" THEN AbortInflight(code)
    ELSE SettleAfterApplicationError(code, f.generation)

(* The innermost frame returns; a completion then starts the pending         *)
(* request.                                                                  *)
FrameReturns ==
    /\ frames # <<>>
    /\ \E outcome \in {"styled", "fallback", "refused"} :
         LET f == Last(frames)
             c == Applied(f, outcome)
             r == IF f.from = "finish" THEN StartPending(c)
                                       ELSE [code |-> c, owner |-> 0]
         IN  /\ code' = r.code
             /\ frames' = IF r.owner = 0 THEN Front(frames)
                          ELSE Append(Front(frames), Frame(r.owner, "pending", TRUE))
    /\ SubmitRunning
    /\ UNCHANGED request

(* A callback or an owner-domain parser raises: the innermost frame unwinds  *)
(* through abort_inflight into the call that made it.  Out of a completion   *)
(* the exception fails the submitter's switch.                               *)
FrameRaises ==
    /\ frames # <<>>
    /\ Last(frames).callback
    /\ code' = AbortInflight(code)
    /\ frames' = Front(frames)
    /\ IF Last(frames).from = "refresh"
       THEN UNCHANGED <<job, work, fiber, open>>
       ELSE \E g \in Generations : Bg!RaiseDelivery(g)
    /\ UNCHANGED request

(* on_complete has returned to the delivery fiber.                           *)
CompletionReturns ==
    /\ frames = <<>>
    /\ \E g \in Generations : Bg!EndDelivery(g)
    /\ UNCHANGED <<code, request, frames>>

BackgroundRuns ==
    /\ \/ \E g \in Generations : Bg!BackgroundStep(g)
       \/ Bg!CloseSwitch
    /\ UNCHANGED <<code, request, frames>>

HighlightingNext ==
    \/ Refresh
    \/ Destroy
    \/ \E g \in Generations : FinishRequest(g)
    \/ FrameReturns
    \/ FrameRaises
    \/ CompletionReturns
    \/ BackgroundRuns

HighlightingSpec ==
    HighlightingInit /\ [][HighlightingNext]_highlightingVars

(* Workers finish, Eio runs every runnable fiber, callbacks return or raise. *)
HighlightingFairness ==
    /\ \A g \in Generations :
         /\ WF_highlightingVars(Bg!BackgroundStep(g)
                                   /\ UNCHANGED <<code, request, frames>>)
         /\ WF_highlightingVars(FinishRequest(g))
    /\ WF_highlightingVars(FrameReturns \/ FrameRaises)
    /\ WF_highlightingVars(CompletionReturns)

HighlightingFairSpec == HighlightingSpec /\ HighlightingFairness

-----------------------------------------------------------------------------
(* Type invariant. *)
HighlightingTypeOK ==
    /\ code \in [generation : 0 .. MaxGenerations,
                 state : {"idle", "pending", "applied", "fallback"},
                 settledState : {"idle", "applied", "fallback"},
                 done : BOOLEAN,
                 running : 0 .. MaxGenerations,
                 pending : 0 .. MaxGenerations,
                 shown : [generation : 0 .. MaxGenerations,
                          how : Settled \cup {"empty", "raw"}],
                 hasSettled : BOOLEAN,
                 lineSources : 0 .. MaxGenerations,
                 streaming : BOOLEAN,
                 drawUnstyled : BOOLEAN,
                 destroyed : BOOLEAN]
    /\ request \in [Generations -> Kinds \cup {"none"}]
    /\ frames \in Seq([generation : Generations,
                       from : {"refresh", "finish", "pending"},
                       callback : BOOLEAN])
    /\ Bg!BackgroundTypeOK

(* The jobs that may still deliver to this Code. *)
Live == {g \in Generations : job[g] = "pending"}

(* At most one request runs for a Code: every job that can still deliver is  *)
(* the one in running, however refreshes, completions and their nested calls *)
(* interleave, and none is left after destroy.                               *)
OneRunning == Live \subseteq {code.running}

(* pending is never a false promise while the submitter is open: the current *)
(* generation is the running job, or it is queued behind a running job, or a *)
(* completion on the stack is going to settle it or to start it.             *)
PendingIsAdmitted ==
    (open /\ code.state = "pending" /\ ~code.destroyed) =>
        \/ code.running = code.generation
        \/ /\ code.pending = code.generation
           /\ code.running # 0 \/ \E i \in DOMAIN frames : frames[i].from = "finish"
        \/ \E i \in DOMAIN frames : frames[i].generation = code.generation

(* The admission of jobs in one invariant, over well-typed state: one job can
   deliver, and Pending always has a job or a frame that will settle it. *)
OneAdmittedJob == HighlightingTypeOK /\ OneRunning /\ PendingIsAdmitted

(* While a highlight is pending the buffer shows nothing, the unstyled       *)
(* source of this very generation if drawing it is allowed, or - streaming - *)
(* the last settled result: never raw or stale source.                       *)
VisibleWhilePending ==
    code.state = "pending" =>
        \/ ~code.drawUnstyled /\ code.shown.how = "empty"
        \/ code.drawUnstyled /\ code.shown = Shown(code.generation, "raw")
        \/ code.streaming /\ code.hasSettled /\ code.shown.how \in Settled

(* The line mapping always belongs to the text it is applied to: line_info   *)
(* never renumbers a text by the concealed lines of another.                 *)
LineSourcesMatch ==
    code.lineSources # 0 => code.shown = Shown(code.lineSources, "styled")

(* What the buffer shows is what the state and the line mapping say it is,
   in every interleaving of settings, results and nested callbacks. *)
ShownTextMatches == VisibleWhilePending /\ LineSourcesMatch

(* Obsolete results are inert: whatever a job or a nested call brings, the   *)
(* buffer changes only to the current generation of a living Code.           *)
ObsoleteIsInert ==
    [][code'.shown # code.shown =>
         ~code.destroyed /\ code'.shown.generation = code'.generation]_highlightingVars

(* Every highlighting_done promise is resolved in the end, unless the        *)
(* submitter is closed under it.                                             *)
HighlightingDone ==
    (code.generation # 0 /\ ~code.done) ~> (code.done \/ ~open)

=============================================================================
