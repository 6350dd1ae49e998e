------------------------- MODULE HighlightingProofs -------------------------
(* Proofs about the highlighting of a Code, for any number of refreshes, any *)
(* nesting of callbacks and any number of workers.  A highlight meets its    *)
(* executor only through submit, cancel and the delivery of a result, so     *)
(* every behaviour of Highlighting is one of Background and inherits what is *)
(* proved there.                                                             *)
EXTENDS Highlighting, FiniteSetTheorems, TLAPS

(* The types of the record and of a callback in progress. *)
CodeType ==
    [generation : 0 .. MaxGenerations,
     state : {"idle", "pending", "applied", "fallback"},
     settledState : {"idle", "applied", "fallback"},
     done : BOOLEAN,
     running : 0 .. MaxGenerations,
     pending : 0 .. MaxGenerations,
     shown : [generation : 0 .. MaxGenerations,
              how : Settled \cup {"empty", "raw"}],
     hasSettled : BOOLEAN,
     lineSources : 0 .. MaxGenerations,
     streaming : BOOLEAN,
     drawUnstyled : BOOLEAN,
     destroyed : BOOLEAN]

FrameType ==
    [generation : Generations, from : {"refresh", "finish", "pending"},
     callback : BOOLEAN]

(* Nothing the Code remembers is younger than its generation. *)
Ages(c, fs) ==
    /\ c.running <= c.generation
    /\ c.pending <= c.generation
    /\ \A i \in DOMAIN fs : fs[i].generation <= c.generation

(* Only a settled result is retained while streaming. *)
RetainsSettled(c) == c.hasSettled => c.shown.how \in Settled

(* A request waits in one place: while the current generation is queued, no  *)
(* job and no callback of it can settle it, so starting it later finds the   *)
(* buffer as refresh has prepared it.                                        *)
QueuedOnce(c, fs) ==
    c.pending # 0 /\ c.pending = c.generation =>
        /\ c.state = "pending"
        /\ c.running # c.pending
        /\ \A i \in DOMAIN fs : fs[i].generation # c.pending

(* PendingIsAdmitted, VisibleWhilePending and LineSourcesMatch of a record.  *)
Admitted(c, fs, live) ==
    (live /\ c.state = "pending" /\ ~c.destroyed) =>
        \/ c.running = c.generation
        \/ /\ c.pending = c.generation
           /\ c.running # 0 \/ \E i \in DOMAIN fs : fs[i].from = "finish"
        \/ \E i \in DOMAIN fs : fs[i].generation = c.generation

ShownRight(c) ==
    /\ c.state = "pending" =>
          \/ ~c.drawUnstyled /\ c.shown.how = "empty"
          \/ c.drawUnstyled /\ c.shown = Shown(c.generation, "raw")
          \/ c.streaming /\ c.hasSettled /\ c.shown.how \in Settled
    /\ c.lineSources # 0 => c.shown = Shown(c.lineSources, "styled")

(* The invariant of the record and the callbacks in progress. *)
CodePart(c, fs, live) ==
    /\ c \in CodeType
    /\ fs \in Seq(FrameType)
    /\ Ages(c, fs)
    /\ RetainsSettled(c)
    /\ QueuedOnce(c, fs)
    /\ Admitted(c, fs, live)
    /\ ShownRight(c)

(* The inductive invariant; of the executor it needs only the types. *)
HighlightingInv ==
    /\ CodePart(code, frames, open)
    /\ request \in [Generations -> Kinds \cup {"none"}]
    /\ OneRunning
    /\ Bg!BackgroundTypeOK

LEMMA ZeroInRange == 0 \in 0 .. MaxGenerations
  BY HighlightingAssumption

(* What the functions of code.ml do to a record, field by field. *)
LEMMA ApplyFields ==
    ASSUME NEW c \in CodeType, NEW g \in 0 .. MaxGenerations, NEW how \in Settled,
           IsCurrent(c, g), NEW d, d = Apply(c, g, how)
    PROVE  /\ d \in CodeType
           /\ d.generation = c.generation /\ d.running = c.running
           /\ d.pending = c.pending /\ d.streaming = c.streaming
           /\ d.drawUnstyled = c.drawUnstyled /\ d.destroyed = c.destroyed
           /\ d.state # "pending" /\ d.hasSettled
           /\ d.shown = Shown(g, how) /\ d.shown.how = how
           /\ d.shown.generation = c.generation
           /\ d.lineSources # 0 => d.lineSources = g /\ how = "styled"
  BY ZeroInRange, ZenonT(60) DEF CodeType, Apply, IsCurrent, SettledState, Settled, Shown

LEMMA AbortFields ==
    ASSUME NEW c \in CodeType, ~c.destroyed, NEW d, d = AbortInflight(c)
    PROVE  /\ d \in CodeType
           /\ d.generation = c.generation /\ d.running = c.running
           /\ d.pending = 0 /\ d.streaming = c.streaming
           /\ d.drawUnstyled = c.drawUnstyled /\ d.destroyed = c.destroyed
           /\ d.state # "pending" /\ d.hasSettled = c.hasSettled
           /\ d.shown = c.shown /\ d.lineSources = c.lineSources
  BY ZeroInRange DEF CodeType, AbortInflight

LEMMA SettleFields ==
    ASSUME NEW c \in CodeType, NEW g, IsCurrent(c, g),
           NEW d, d = SettleAfterApplicationError(c, g)
    PROVE  /\ d \in CodeType
           /\ d.generation = c.generation /\ d.running = c.running
           /\ d.pending = c.pending /\ d.streaming = c.streaming
           /\ d.drawUnstyled = c.drawUnstyled /\ d.destroyed = c.destroyed
           /\ d.state # "pending" /\ d.hasSettled = c.hasSettled
           /\ d.shown = c.shown /\ d.lineSources = c.lineSources
  BY DEF CodeType, SettleAfterApplicationError

LEMMA CleanupFields ==
    ASSUME NEW c \in CodeType, NEW d, d = Cleanup(c)
    PROVE  /\ d \in CodeType
           /\ d.generation = c.generation /\ d.running = 0
           /\ d.pending = 0 /\ d.streaming = c.streaming
           /\ d.drawUnstyled = c.drawUnstyled /\ d.destroyed
           /\ d.state = c.state /\ d.hasSettled = c.hasSettled
           /\ d.shown = c.shown /\ d.lineSources = c.lineSources
  BY ZeroInRange DEF CodeType, Cleanup

LEMMA PrepareFields ==
    ASSUME NEW c \in CodeType, NEW d, d = PrepareHighlightVisibility(c)
    PROVE  /\ d \in CodeType
           /\ d.generation = c.generation /\ d.running = c.running
           /\ d.pending = c.pending /\ d.streaming = c.streaming
           /\ d.drawUnstyled = c.drawUnstyled /\ d.destroyed = c.destroyed
           /\ d.state = c.state /\ d.lineSources = c.lineSources
           /\ Retains(c) => d.hasSettled = c.hasSettled /\ d.shown = c.shown
           /\ ~Retains(c) =>
                 /\ ~d.hasSettled
                 /\ d.shown = Shown(c.generation, IF c.drawUnstyled THEN "raw" ELSE "empty")
                 /\ d.shown.how = IF c.drawUnstyled THEN "raw" ELSE "empty"
                 /\ d.shown.generation = c.generation
  BY DEF CodeType, PrepareHighlightVisibility, Shown

LEMMA FailedFields ==
    ASSUME NEW c \in CodeType, NEW d, d = Failed(c)
    PROVE  /\ d \in CodeType
           /\ d.generation = c.generation
           /\ d.running = c.running \/ (d.running = 0 /\ c.generation = 1)
           /\ d.pending = c.pending \/ d.pending = 0
           /\ d.streaming = c.streaming
           /\ d.drawUnstyled = c.drawUnstyled
           /\ d.state = c.state /\ d.hasSettled = c.hasSettled
           /\ d.shown = c.shown /\ d.lineSources = c.lineSources
  BY CleanupFields DEF Failed

LEMMA NextFields ==
    ASSUME code \in CodeType, code.generation < MaxGenerations, NEW kind \in Kinds,
           NEW streaming \in BOOLEAN, NEW drawUnstyled \in BOOLEAN,
           NEW d, d = NextGeneration(kind, streaming, drawUnstyled)
    PROVE  /\ d \in CodeType
           /\ d.generation = code.generation + 1
           /\ d.running = code.running /\ d.pending = code.pending
           /\ d.streaming = streaming /\ d.drawUnstyled = drawUnstyled
           /\ d.state = code.state /\ d.destroyed = code.destroyed
           /\ d.hasSettled = code.hasSettled /\ d.shown = code.shown
           /\ d.lineSources = code.lineSources \/ d.lineSources = 0
           /\ d.lineSources # 0 => kind \in Highlights /\ Retains(d)
<1> DEFINE c == [code EXCEPT !.generation = code.generation + 1,
                             !.done = FALSE,
                             !.streaming = streaming,
                             !.drawUnstyled = drawUnstyled]
<1>1. code.generation + 1 \in 0 .. MaxGenerations
  BY HighlightingAssumption DEF CodeType
<1>2. /\ c \in CodeType
      /\ c.generation = code.generation + 1
      /\ c.running = code.running /\ c.pending = code.pending
      /\ c.streaming = streaming /\ c.drawUnstyled = drawUnstyled
      /\ c.state = code.state /\ c.destroyed = code.destroyed
      /\ c.hasSettled = code.hasSettled /\ c.shown = code.shown
      /\ c.lineSources = code.lineSources
  BY <1>1 DEF CodeType
<1>3. d = [c EXCEPT !.lineSources = IF kind \in Highlights /\ Retains(c) THEN @ ELSE 0]
  BY DEF NextGeneration
<1> HIDE DEF c
<1>4. /\ d \in CodeType
      /\ d.generation = c.generation
      /\ d.running = c.running /\ d.pending = c.pending
      /\ d.streaming = c.streaming /\ d.drawUnstyled = c.drawUnstyled
      /\ d.state = c.state /\ d.destroyed = c.destroyed
      /\ d.hasSettled = c.hasSettled /\ d.shown = c.shown
      /\ d.lineSources = IF kind \in Highlights /\ Retains(c) THEN c.lineSources ELSE 0
  BY <1>2, <1>3, ZeroInRange DEF CodeType
<1> QED BY <1>2, <1>4 DEF Retains

(* The frames below the innermost one. *)
LEMMA BelowInnermost ==
    ASSUME NEW fs \in Seq(FrameType), fs # <<>>
    PROVE  /\ Last(fs) \in FrameType
           /\ \E i \in DOMAIN fs : fs[i] = Last(fs)
           /\ Front(fs) \in Seq(FrameType)
           /\ \A i \in DOMAIN Front(fs) : i \in DOMAIN fs /\ Front(fs)[i] = fs[i]
           /\ \A i \in DOMAIN fs : fs[i] = Last(fs) \/ i \in DOMAIN Front(fs)
<1>1. Len(fs) \in Nat \ {0} /\ DOMAIN fs = 1 .. Len(fs)
  OBVIOUS
<1>2. Last(fs) = fs[Len(fs)] /\ Front(fs) = SubSeq(fs, 1, Len(fs) - 1)
  BY DEF Last, Front
<1>3. /\ Front(fs) \in Seq(FrameType)
      /\ DOMAIN Front(fs) = 1 .. (Len(fs) - 1)
      /\ \A i \in 1 .. (Len(fs) - 1) : Front(fs)[i] = fs[i]
  BY <1>1, <1>2
<1> QED BY <1>1, <1>2, <1>3

LEMMA OneMore ==
    ASSUME NEW fs \in Seq(FrameType), NEW f \in FrameType, NEW gs, gs = Append(fs, f)
    PROVE  /\ gs \in Seq(FrameType)
           /\ \E i \in DOMAIN gs : gs[i] = f
           /\ \A i \in DOMAIN fs : i \in DOMAIN gs /\ gs[i] = fs[i]
           /\ \A i \in DOMAIN gs : gs[i] = f \/ (i \in DOMAIN fs /\ gs[i] = fs[i])
<1>1. Len(fs) \in Nat /\ DOMAIN fs = 1 .. Len(fs)
  OBVIOUS
<1>2. gs \in Seq(FrameType) /\ DOMAIN gs = 1 .. (Len(fs) + 1)
  OBVIOUS
<1>3. gs[Len(fs) + 1] = f /\ \A i \in 1 .. Len(fs) : gs[i] = fs[i]
  OBVIOUS
<1> QED BY <1>1, <1>2, <1>3

LEMMA NumericFields ==
    ASSUME NEW c \in CodeType, NEW fs \in Seq(FrameType)
    PROVE  /\ c.generation \in Nat /\ c.running \in Nat /\ c.pending \in Nat
           /\ \A i \in DOMAIN fs : fs[i].generation \in Nat \ {0}
<1>1. c.generation \in Nat /\ c.running \in Nat /\ c.pending \in Nat
  BY HighlightingAssumption DEF CodeType
<1>2. ASSUME NEW i \in DOMAIN fs PROVE fs[i].generation \in Nat \ {0}
  <2>1. fs[i] \in FrameType
    OBVIOUS
  <2> QED BY <2>1, HighlightingAssumption DEF FrameType, Generations
<1> QED BY <1>1, <1>2

(* A record that has just taken its generation: nothing of it is as young.   *)
Fresh(c, fs, kind) ==
    /\ c \in CodeType
    /\ fs \in Seq(FrameType)
    /\ ~c.destroyed
    /\ c.generation # 0
    /\ c.running < c.generation
    /\ c.pending < c.generation
    /\ \A i \in DOMAIN fs : fs[i].generation < c.generation
    /\ RetainsSettled(c)
    /\ c.lineSources # 0 =>
          kind \in Highlights /\ Retains(c) /\ c.shown = Shown(c.lineSources, "styled")

LEMMA NextIsFresh ==
    ASSUME CodePart(code, frames, open), ~code.destroyed,
           code.generation < MaxGenerations, NEW kind \in Kinds,
           NEW streaming \in BOOLEAN, NEW drawUnstyled \in BOOLEAN
    PROVE  Fresh(NextGeneration(kind, streaming, drawUnstyled), frames, kind)
<1> DEFINE c == NextGeneration(kind, streaming, drawUnstyled)
<1>1. code \in CodeType /\ frames \in Seq(FrameType)
  BY DEF CodePart
<1>2. /\ c \in CodeType
      /\ c.generation = code.generation + 1
      /\ c.running = code.running /\ c.pending = code.pending
      /\ c.destroyed = code.destroyed
      /\ c.hasSettled = code.hasSettled /\ c.shown = code.shown
      /\ c.lineSources = code.lineSources \/ c.lineSources = 0
      /\ c.lineSources # 0 => kind \in Highlights /\ Retains(c)
  BY <1>1, NextFields
<1> HIDE DEF c
<1>3. /\ code.generation \in Nat /\ code.running \in Nat /\ code.pending \in Nat
      /\ \A i \in DOMAIN frames : frames[i].generation \in Nat
  BY <1>1, NumericFields
<1>4. Fresh(c, frames, kind)
  BY <1>1, <1>2, <1>3 DEF Fresh, CodePart, Ages, RetainsSettled, ShownRight
<1> QED BY <1>4 DEF c

(* A settled record, whatever set it: no request of its generation is left.  *)
LEMMA SettledFresh ==
    ASSUME NEW c, NEW fs, NEW kind, Fresh(c, fs, kind), NEW live,
           NEW d \in CodeType, d.generation = c.generation, d.state # "pending",
           d.running = c.running \/ d.running = 0,
           d.pending = c.pending \/ d.pending = 0,
           RetainsSettled(d),
           d.lineSources # 0 => d.shown = Shown(d.lineSources, "styled")
    PROVE  CodePart(d, fs, live)
<1>1. /\ c.generation \in Nat /\ c.running \in Nat /\ c.pending \in Nat
      /\ \A i \in DOMAIN fs : fs[i].generation \in Nat
  BY NumericFields DEF Fresh
<1> QED BY <1>1 DEF Fresh, CodePart, Ages, QueuedOnce, Admitted, ShownRight

LEMMA RefreshPlainKeeps ==
    ASSUME NEW c, NEW kind, Fresh(c, frames, kind), RefreshPlain(c, kind)
    PROVE  /\ CodePart(code', frames', open')
           /\ code'.shown # c.shown => code'.shown.generation = code'.generation
           /\ code'.running = c.running \/ (code'.running = 0 /\ c.generation = 1)
           /\ code'.generation = c.generation
<1>1. c \in CodeType /\ c.generation \in 0 .. MaxGenerations /\ ~c.destroyed
      /\ c.lineSources = 0 /\ RetainsSettled(c)
  BY DEF Fresh, CodeType, RefreshPlain, Highlights
<1>2. kind \in Settled /\ IsCurrent(c, c.generation)
  BY <1>1 DEF RefreshPlain, Settled, IsCurrent
<1>3. frames' = frames
  BY DEF RefreshPlain
<1>4. CASE code' = Apply(c, c.generation, kind)
  <2>1. /\ code' \in CodeType
        /\ code'.generation = c.generation /\ code'.running = c.running
        /\ code'.pending = c.pending
        /\ code'.state # "pending"
        /\ code'.shown = Shown(c.generation, kind) /\ code'.shown.how = kind
        /\ code'.shown.generation = c.generation
        /\ code'.lineSources # 0 => code'.lineSources = c.generation /\ kind = "styled"
    BY <1>1, <1>2, <1>4, ApplyFields
  <2>2. RetainsSettled(code') /\ code'.lineSources = 0
    BY <1>2, <2>1 DEF RetainsSettled, RefreshPlain
  <2> QED BY <1>3, <2>1, <2>2, SettledFresh
<1>5. CASE code' = Failed(AbortInflight(c))
  <2> DEFINE a == AbortInflight(c)
  <2>1. /\ a \in CodeType
        /\ a.generation = c.generation /\ a.running = c.running
        /\ a.pending = 0 /\ a.state # "pending" /\ a.hasSettled = c.hasSettled
        /\ a.shown = c.shown /\ a.lineSources = c.lineSources
    BY <1>1, AbortFields
  <2> HIDE DEF a
  <2>2. /\ code' \in CodeType
        /\ code'.generation = a.generation
        /\ code'.running = a.running \/ (code'.running = 0 /\ a.generation = 1)
        /\ code'.pending = a.pending \/ code'.pending = 0
        /\ code'.state = a.state /\ code'.hasSettled = a.hasSettled
        /\ code'.shown = a.shown /\ code'.lineSources = a.lineSources
    BY <1>5, <2>1, FailedFields DEF a
  <2>3. RetainsSettled(code') /\ code'.lineSources = 0
    BY <1>1, <2>1, <2>2 DEF RetainsSettled
  <2> QED BY <1>3, <2>1, <2>2, <2>3, SettledFresh
<1> QED BY <1>4, <1>5 DEF RefreshPlain

LEMMA RefreshFailsKeeps ==
    ASSUME NEW c, NEW kind, Fresh(c, frames, kind), RefreshFails(c, kind)
    PROVE  /\ CodePart(code', frames', open')
           /\ code'.shown = c.shown
           /\ code'.running = c.running \/ (code'.running = 0 /\ c.generation = 1)
           /\ code'.generation = c.generation
<1> DEFINE b == [c EXCEPT !.hasSettled = FALSE]
           a == AbortInflight(b)
<1>1. c \in CodeType /\ ~c.destroyed /\ c.lineSources = 0 /\ frames' = frames
  BY DEF Fresh, RefreshFails
<1>2. /\ b \in CodeType
      /\ b.generation = c.generation /\ b.running = c.running
      /\ ~b.hasSettled /\ b.destroyed = c.destroyed
      /\ b.shown = c.shown /\ b.lineSources = c.lineSources
  BY <1>1 DEF CodeType
<1> HIDE DEF b
<1>3. /\ a \in CodeType
      /\ a.generation = b.generation /\ a.running = b.running
      /\ a.pending = 0 /\ a.state # "pending" /\ a.hasSettled = b.hasSettled
      /\ a.shown = b.shown /\ a.lineSources = b.lineSources
  BY <1>1, <1>2, AbortFields
<1>4. code' = Failed(a)
  BY DEF RefreshFails, b
<1> HIDE DEF a
<1>5. /\ code' \in CodeType
      /\ code'.generation = a.generation
      /\ code'.running = a.running \/ (code'.running = 0 /\ a.generation = 1)
      /\ code'.pending = a.pending \/ code'.pending = 0
      /\ code'.state = a.state /\ code'.hasSettled = a.hasSettled
      /\ code'.shown = a.shown /\ code'.lineSources = a.lineSources
  BY <1>3, <1>4, FailedFields
<1>6. RetainsSettled(code') /\ code'.lineSources = 0
  BY <1>1, <1>2, <1>3, <1>5 DEF RetainsSettled
<1> QED BY <1>1, <1>2, <1>3, <1>5, <1>6, SettledFresh

(* What refresh prepares to be visible is right for the time the highlight   *)
(* is pending.                                                               *)
LEMMA PreparedShown ==
    ASSUME NEW c, NEW kind, Fresh(c, frames, kind), kind \in Highlights,
           NEW p, p = PrepareHighlightVisibility(c), NEW d \in CodeType,
           d.generation = c.generation, d.shown = p.shown,
           d.hasSettled = p.hasSettled, d.lineSources = c.lineSources,
           d.streaming = c.streaming, d.drawUnstyled = c.drawUnstyled
    PROVE  /\ RetainsSettled(d)
           /\ ShownRight(d)
           /\ d.shown # c.shown => d.shown.generation = d.generation
<1>1. /\ p \in CodeType
      /\ Retains(c) => p.hasSettled = c.hasSettled /\ p.shown = c.shown
      /\ ~Retains(c) =>
            /\ ~p.hasSettled
            /\ p.shown = Shown(c.generation, IF c.drawUnstyled THEN "raw" ELSE "empty")
            /\ p.shown.how = IF c.drawUnstyled THEN "raw" ELSE "empty"
            /\ p.shown.generation = c.generation
  BY PrepareFields DEF Fresh
<1>2. CASE Retains(c)
  BY <1>1, <1>2 DEF Fresh, RetainsSettled, ShownRight, Retains
<1>3. CASE ~Retains(c)
  BY <1>1, <1>3 DEF Fresh, RetainsSettled, ShownRight
<1> QED BY <1>2, <1>3

LEMMA RefreshQueuedKeeps ==
    ASSUME NEW c, NEW kind, Fresh(c, frames, kind), RefreshQueued(c, kind)
    PROVE  /\ CodePart(code', frames', open')
           /\ code'.shown # c.shown => code'.shown.generation = code'.generation
           /\ code'.running = c.running
           /\ code'.generation = c.generation
<1> DEFINE p == PrepareHighlightVisibility(c)
<1>1. /\ c \in CodeType /\ kind \in Highlights /\ c.running # 0
      /\ frames' = frames /\ frames \in Seq(FrameType)
  BY DEF Fresh, RefreshQueued
<1>2. /\ p \in CodeType
      /\ p.generation = c.generation /\ p.running = c.running
      /\ p.streaming = c.streaming /\ p.drawUnstyled = c.drawUnstyled
      /\ p.lineSources = c.lineSources
  BY <1>1, PrepareFields
<1>3. code' = [p EXCEPT !.pending = c.generation, !.state = "pending"]
  BY DEF RefreshQueued
<1> HIDE DEF p
<1>4. /\ code' \in CodeType
      /\ code'.generation = c.generation /\ code'.running = c.running
      /\ code'.pending = c.generation /\ code'.state = "pending"
      /\ code'.shown = p.shown /\ code'.hasSettled = p.hasSettled
      /\ code'.lineSources = c.lineSources
      /\ code'.streaming = c.streaming /\ code'.drawUnstyled = c.drawUnstyled
  BY <1>1, <1>2, <1>3 DEF CodeType
<1>5. /\ RetainsSettled(code') /\ ShownRight(code')
      /\ code'.shown # c.shown => code'.shown.generation = code'.generation
  BY <1>1, <1>4, PreparedShown DEF p
<1>6. Ages(code', frames') /\ QueuedOnce(code', frames')
  BY <1>1, <1>4, NumericFields DEF Fresh, Ages, QueuedOnce
<1>7. Admitted(code', frames', open')
  BY <1>1, <1>4 DEF Admitted
<1> QED BY <1>1, <1>4, <1>5, <1>6, <1>7 DEF CodePart

LEMMA RefreshSubmitsKeeps ==
    ASSUME NEW c, NEW kind, Fresh(c, frames, kind), RefreshSubmits(c, kind)
    PROVE  /\ CodePart(code', frames', open')
           /\ code'.shown # c.shown => code'.shown.generation = code'.generation
           /\ code'.running = 0 \/ (code'.running = c.generation /\ open)
           /\ code'.generation = c.generation
<1> DEFINE p == PrepareHighlightVisibility(c)
<1>1. /\ c \in CodeType /\ kind \in Highlights /\ c.running = 0 /\ ~c.destroyed
      /\ frames' = frames /\ frames \in Seq(FrameType)
  BY DEF Fresh, RefreshSubmits, Highlights
<1>2. /\ p \in CodeType
      /\ p.generation = c.generation /\ p.running = c.running
      /\ p.streaming = c.streaming /\ p.drawUnstyled = c.drawUnstyled
      /\ p.lineSources = c.lineSources /\ p.destroyed = c.destroyed
      /\ p.pending = c.pending
  BY <1>1, PrepareFields
<1>3. CASE open
  <2>1. code' = [p EXCEPT !.running = c.generation, !.state = "pending"]
    BY <1>3 DEF RefreshSubmits
  <2> HIDE DEF p
  <2>2. /\ code' \in CodeType
        /\ code'.generation = c.generation /\ code'.running = c.generation
        /\ code'.pending = c.pending /\ code'.state = "pending"
        /\ code'.shown = p.shown /\ code'.hasSettled = p.hasSettled
        /\ code'.lineSources = c.lineSources
        /\ code'.streaming = c.streaming /\ code'.drawUnstyled = c.drawUnstyled
    BY <1>1, <1>2, <2>1 DEF CodeType
  <2>3. /\ RetainsSettled(code') /\ ShownRight(code')
        /\ code'.shown # c.shown => code'.shown.generation = code'.generation
    BY <1>1, <2>2, PreparedShown DEF p
  <2>4. Ages(code', frames') /\ QueuedOnce(code', frames')
    BY <1>1, <2>2, NumericFields DEF Fresh, Ages, QueuedOnce
  <2>5. Admitted(code', frames', open')
    BY <2>2 DEF Admitted
  <2> QED BY <1>1, <1>3, <2>2, <2>3, <2>4, <2>5 DEF CodePart
<1>4. CASE ~open
  <2> DEFINE a == AbortInflight(p)
  <2>1. code' = Failed(a)
    BY <1>4 DEF RefreshSubmits
  <2> HIDE DEF p
  <2>2. /\ a \in CodeType
        /\ a.generation = p.generation /\ a.running = p.running
        /\ a.pending = 0 /\ a.state # "pending" /\ a.hasSettled = p.hasSettled
        /\ a.shown = p.shown /\ a.lineSources = p.lineSources
        /\ a.streaming = p.streaming /\ a.drawUnstyled = p.drawUnstyled
    BY <1>1, <1>2, AbortFields
  <2> HIDE DEF a
  <2>3. /\ code' \in CodeType
        /\ code'.generation = a.generation
        /\ code'.running = a.running \/ code'.running = 0
        /\ code'.pending = a.pending \/ code'.pending = 0
        /\ code'.state = a.state /\ code'.hasSettled = a.hasSettled
        /\ code'.shown = a.shown /\ code'.lineSources = a.lineSources
        /\ code'.streaming = a.streaming /\ code'.drawUnstyled = a.drawUnstyled
    BY <2>1, <2>2, FailedFields
  <2>4. /\ RetainsSettled(code') /\ ShownRight(code')
        /\ code'.shown # c.shown => code'.shown.generation = code'.generation
    BY <1>1, <1>2, <2>2, <2>3, PreparedShown DEF p
  <2>5. CodePart(code', frames', open')
    BY <1>1, <1>2, <2>2, <2>3, <2>4, SettledFresh DEF ShownRight
  <2> QED BY <1>1, <1>2, <2>2, <2>3, <2>4, <2>5
<1> QED BY <1>3, <1>4

LEMMA RefreshOnOwnerKeeps ==
    ASSUME NEW c, NEW kind, Fresh(c, frames, kind), RefreshOnOwner(c, kind)
    PROVE  /\ CodePart(code', frames', open')
           /\ code'.shown # c.shown => code'.shown.generation = code'.generation
           /\ code'.running = c.running
           /\ code'.generation = c.generation
<1> DEFINE f == Frame(c.generation, "refresh", c.generation # 1)
<1>1. c \in CodeType /\ kind \in Highlights /\ frames \in Seq(FrameType)
  BY DEF Fresh, RefreshOnOwner, Highlights
<1>2. /\ code' \in CodeType
      /\ code'.generation = c.generation /\ code'.running = c.running
      /\ code'.streaming = c.streaming /\ code'.drawUnstyled = c.drawUnstyled
      /\ code'.lineSources = c.lineSources /\ code'.pending = c.pending
  BY <1>1, PrepareFields DEF RefreshOnOwner
<1>3. /\ RetainsSettled(code') /\ ShownRight(code')
      /\ code'.shown # c.shown => code'.shown.generation = code'.generation
  BY <1>1, <1>2, PreparedShown DEF RefreshOnOwner
<1>4. f \in FrameType /\ f.generation = c.generation
  BY <1>1, HighlightingAssumption DEF Fresh, CodeType, FrameType, Frame, Generations
<1>5. frames' = Append(frames, f)
  BY DEF RefreshOnOwner
<1> HIDE DEF f
<1>6. /\ frames' \in Seq(FrameType)
      /\ \E i \in DOMAIN frames' : frames'[i] = f
      /\ \A i \in DOMAIN frames' :
            frames'[i] = f \/ (i \in DOMAIN frames /\ frames'[i] = frames[i])
  BY <1>1, <1>4, <1>5, OneMore
<1>7. Ages(code', frames') /\ QueuedOnce(code', frames')
  BY <1>1, <1>2, <1>4, <1>6, NumericFields DEF Fresh, Ages, QueuedOnce
<1>8. Admitted(code', frames', open')
  BY <1>2, <1>4, <1>6 DEF Admitted
<1> QED BY <1>2, <1>3, <1>6, <1>7, <1>8 DEF CodePart

(* refresh, in each of its ways. *)
LEMMA RefreshKeeps ==
    ASSUME HighlightingInv, Refresh
    PROVE  /\ CodePart(code', frames', open')
           /\ request' \in [Generations -> Kinds \cup {"none"}]
           /\ OneRunning'
           /\ ~code.destroyed
           /\ code'.shown # code.shown => code'.shown.generation = code'.generation
<1>1. PICK kind \in Kinds, streaming \in BOOLEAN, drawUnstyled \in BOOLEAN :
        LET c == NextGeneration(kind, streaming, drawUnstyled)
        IN  /\ request' = [request EXCEPT ![c.generation] = kind]
            /\ \/ RefreshPlain(c, kind)
               \/ RefreshFails(c, kind)
               \/ RefreshQueued(c, kind)
               \/ RefreshSubmits(c, kind)
               \/ RefreshOnOwner(c, kind)
  BY ZenonT(60) DEF Refresh
<1> DEFINE c == NextGeneration(kind, streaming, drawUnstyled)
<1>2. ~code.destroyed /\ code.generation < MaxGenerations /\ CodePart(code, frames, open)
  BY DEF Refresh, Callable, HighlightingInv
<1>3. Fresh(c, frames, kind)
  BY <1>2, NextIsFresh
<1>4. c.shown = code.shown /\ c.running = code.running
  BY <1>2, NextFields DEF CodePart
<1>5. /\ request' = [request EXCEPT ![c.generation] = kind]
      /\ \/ RefreshPlain(c, kind)
         \/ RefreshFails(c, kind)
         \/ RefreshQueued(c, kind)
         \/ RefreshSubmits(c, kind)
         \/ RefreshOnOwner(c, kind)
  BY <1>1
<1> HIDE DEF c
<1>6. request' \in [Generations -> Kinds \cup {"none"}]
  BY <1>5 DEF HighlightingInv
<1>7. c.generation \in Generations /\ c.running \in Nat /\ c.running < c.generation
  BY <1>3, HighlightingAssumption DEF Fresh, CodeType, Generations
<1>8. CASE RefreshPlain(c, kind)
  <2>1. /\ CodePart(code', frames', open')
        /\ code'.shown # c.shown => code'.shown.generation = code'.generation
        /\ code'.running = c.running \/ (code'.running = 0 /\ c.generation = 1)
    BY <1>3, <1>8, RefreshPlainKeeps
  <2>2. job' = job
    BY <1>8 DEF RefreshPlain
  <2> QED BY <1>2, <1>4, <1>6, <1>7, <2>1, <2>2 DEF HighlightingInv, OneRunning, Live
<1>9. CASE RefreshFails(c, kind)
  <2>1. /\ CodePart(code', frames', open')
        /\ code'.shown = c.shown
        /\ code'.running = c.running \/ (code'.running = 0 /\ c.generation = 1)
    BY <1>3, <1>9, RefreshFailsKeeps
  <2>2. job' = job
    BY <1>9 DEF RefreshFails
  <2> QED BY <1>2, <1>4, <1>6, <1>7, <2>1, <2>2 DEF HighlightingInv, OneRunning, Live
<1>10. CASE RefreshQueued(c, kind)
  <2>1. /\ CodePart(code', frames', open')
        /\ code'.shown # c.shown => code'.shown.generation = code'.generation
        /\ code'.running = c.running
    BY <1>3, <1>10, RefreshQueuedKeeps
  <2>2. job' = job
    BY <1>10 DEF RefreshQueued
  <2> QED BY <1>2, <1>4, <1>6, <2>1, <2>2 DEF HighlightingInv, OneRunning, Live
<1>11. CASE RefreshSubmits(c, kind)
  <2>1. /\ CodePart(code', frames', open')
        /\ code'.shown # c.shown => code'.shown.generation = code'.generation
        /\ code'.running = 0 \/ code'.running = c.generation
    BY <1>3, <1>11, RefreshSubmitsKeeps
  <2>2. code.running = 0 /\ SubmitRunning
    BY <1>4, <1>11 DEF RefreshSubmits
  <2>3. Live = {}
    BY <2>2 DEF HighlightingInv, OneRunning, Live, Generations
  <2>4. Live' \subseteq {code'.running}
    <3>1. CASE code'.running = 0
      BY <2>2, <2>3, <3>1 DEF SubmitRunning, Live
    <3>2. CASE code'.running = c.generation
      <4>1. Bg!Submit(c.generation)
        BY <1>7, <2>2, <3>2 DEF SubmitRunning, Generations
      <4>2. \A g \in Generations : g # c.generation => job'[g] = job[g]
        BY <1>7, <4>1 DEF Bg!Submit, HighlightingInv, Bg!BackgroundTypeOK
      <4> QED BY <2>3, <3>2, <4>2 DEF Live
    <3> QED BY <2>1, <3>1, <3>2
  <2> QED BY <1>2, <1>4, <1>6, <2>1, <2>4 DEF OneRunning
<1>12. CASE RefreshOnOwner(c, kind)
  <2>1. /\ CodePart(code', frames', open')
        /\ code'.shown # c.shown => code'.shown.generation = code'.generation
        /\ code'.running = c.running
    BY <1>3, <1>12, RefreshOnOwnerKeeps
  <2>2. job' = job
    BY <1>12 DEF RefreshOnOwner
  <2> QED BY <1>2, <1>4, <1>6, <2>1, <2>2 DEF HighlightingInv, OneRunning, Live
<1> QED BY <1>5, <1>8, <1>9, <1>10, <1>11, <1>12

LEMMA DestroyKeeps ==
    ASSUME HighlightingInv, Destroy
    PROVE  /\ CodePart(code', frames', open')
           /\ OneRunning'
           /\ code'.shown = code.shown
<1>1. code \in CodeType /\ code' = Cleanup(code) /\ frames' = frames
  BY DEF HighlightingInv, CodePart, Destroy
<1>2. /\ code' \in CodeType
      /\ code'.generation = code.generation /\ code'.running = 0
      /\ code'.pending = 0 /\ code'.streaming = code.streaming
      /\ code'.drawUnstyled = code.drawUnstyled /\ code'.destroyed
      /\ code'.state = code.state /\ code'.hasSettled = code.hasSettled
      /\ code'.shown = code.shown /\ code'.lineSources = code.lineSources
  BY <1>1, CleanupFields
<1>3. CodePart(code', frames', open')
  BY <1>1, <1>2, NumericFields
     DEF HighlightingInv, CodePart, Ages, RetainsSettled, QueuedOnce, Admitted, ShownRight
<1>4. Live' = {}
  <2>1. ASSUME NEW g \in Generations PROVE job'[g] # "pending"
    <3>1. CASE code.running # 0 /\ job[code.running] = "pending"
      BY <3>1 DEF Destroy, Bg!Cancel, HighlightingInv, OneRunning, Live, Bg!BackgroundTypeOK
    <3>2. CASE ~(code.running # 0 /\ job[code.running] = "pending")
      BY <3>2 DEF Destroy, HighlightingInv, OneRunning, Live, Generations
    <3> QED BY <3>1, <3>2
  <2> QED BY <2>1 DEF Live
<1> QED BY <1>2, <1>3, <1>4 DEF OneRunning

(* A result is delivered: the job that was running runs no more.             *)
LEMMA FinishKeeps ==
    ASSUME HighlightingInv, NEW g \in Generations, FinishRequest(g)
    PROVE  /\ CodePart(code', frames', open')
           /\ OneRunning'
           /\ code'.shown = code.shown
<1>1. code \in CodeType /\ frames = <<>> /\ Bg!BeginDelivery(g)
  BY DEF HighlightingInv, CodePart, FinishRequest
<1>2. fiber \in [Generations -> Bg!FiberStates] /\ job \in [Generations -> Bg!JobStates]
  BY DEF HighlightingInv, Bg!BackgroundTypeOK
<1>3. \A h \in Generations : job'[h] = "pending" => job[h] = "pending" /\ h # g
  BY <1>1, <1>2 DEF Bg!BeginDelivery
<1>4. CASE fiber'[g] = "callback"
  <2> DEFINE f == Frame(g, "finish", IsCurrent(code, g))
  <2>1. code' = [code EXCEPT !.running = 0] /\ frames' = <<f>>
    BY <1>4 DEF FinishRequest
  <2>2. job[g] = "pending" /\ code.running = g
    <3>1. job[g] = "pending"
      BY <1>1, <1>2, <1>4 DEF Bg!BeginDelivery
    <3> QED BY <3>1 DEF HighlightingInv, OneRunning, Live
  <2>3. /\ code' \in CodeType
        /\ code'.generation = code.generation /\ code'.running = 0
        /\ code'.pending = code.pending /\ code'.streaming = code.streaming
        /\ code'.drawUnstyled = code.drawUnstyled /\ code'.destroyed = code.destroyed
        /\ code'.state = code.state /\ code'.hasSettled = code.hasSettled
        /\ code'.shown = code.shown /\ code'.lineSources = code.lineSources
    BY <1>1, <2>1, ZeroInRange DEF CodeType
  <2>4. f \in FrameType /\ f.generation = g /\ f.from = "finish"
    <3>1. IsCurrent(code, g) \in BOOLEAN
      BY DEF IsCurrent
    <3> QED BY <3>1 DEF FrameType, Frame
  <2> HIDE DEF f
  <2>5. /\ frames' \in Seq(FrameType) /\ DOMAIN frames' = {1}
        /\ frames'[1] = f
    BY <2>1, <2>4
  <2>6. Ages(code', frames') /\ RetainsSettled(code') /\ ShownRight(code')
    BY <1>1, <2>2, <2>3, <2>4, <2>5, NumericFields
       DEF HighlightingInv, CodePart, Ages, RetainsSettled, ShownRight
  <2>7. QueuedOnce(code', frames')
    BY <2>2, <2>3, <2>4, <2>5 DEF HighlightingInv, CodePart, QueuedOnce
  <2>8. Admitted(code', frames', open')
    <3>1. open' = open
      BY <1>1 DEF Bg!BeginDelivery
    <3>2. Admitted(code, <<>>, open)
      BY <1>1 DEF HighlightingInv, CodePart
    <3> QED BY <2>2, <2>3, <2>4, <2>5, <3>1, <3>2 DEF Admitted
  <2>9. OneRunning'
    BY <1>3, <2>2 DEF HighlightingInv, OneRunning, Live
  <2> QED BY <2>3, <2>5, <2>6, <2>7, <2>8, <2>9 DEF CodePart
<1>5. CASE fiber'[g] # "callback"
  <2>1. code' = code /\ frames' = frames /\ open' = open
    BY <1>1, <1>5 DEF FinishRequest, Bg!BeginDelivery
  <2>2. OneRunning'
    BY <1>3, <2>1 DEF HighlightingInv, OneRunning, Live
  <2> QED BY <2>1, <2>2 DEF HighlightingInv
<1> QED BY <1>4, <1>5

(* The callbacks of the innermost frame have returned: an obsolete result    *)
(* changes nothing, a current one settles a generation that is not queued.   *)
Returned(c) ==
    /\ c \in CodeType
    /\ c.generation = code.generation /\ c.running = code.running
    /\ c.destroyed = code.destroyed
    /\ RetainsSettled(c)
    /\ ShownRight(c)
    /\ c.shown # code.shown => ~code.destroyed /\ c.shown.generation = c.generation
    /\ \/ c = code /\ ~IsCurrent(code, Last(frames).generation)
       \/ /\ c.state # "pending"
          /\ c.pending # c.generation \/ c.pending = 0
          /\ c.pending = code.pending \/ c.pending = 0

LEMMA AppliedReturned ==
    ASSUME HighlightingInv, frames # <<>>,
           NEW outcome \in {"styled", "fallback", "refused"}
    PROVE  Returned(Applied(Last(frames), outcome))
<1> DEFINE f == Last(frames)
           c == Applied(f, outcome)
<1>1. code \in CodeType /\ frames \in Seq(FrameType) /\ CodePart(code, frames, open)
  BY DEF HighlightingInv, CodePart
<1>2. f \in FrameType /\ \E i \in DOMAIN frames : frames[i] = f
  BY <1>1, BelowInnermost
<1>3. f.generation \in Generations /\ f.generation \in 0 .. MaxGenerations
  BY <1>2, HighlightingAssumption DEF FrameType, Generations
<1> HIDE DEF f
<1>4. CASE ~IsCurrent(code, f.generation)
  <2>1. c = code
    BY <1>4 DEF Applied, Apply
  <2> QED BY <1>1, <1>4, <2>1 DEF Returned, CodePart, f
<1>5. CASE IsCurrent(code, f.generation)
  <2>1. /\ ~code.destroyed /\ f.generation = code.generation
        /\ code.pending # code.generation \/ code.pending = 0
    BY <1>1, <1>2, <1>5 DEF IsCurrent, CodePart, QueuedOnce
  <2>2. CASE outcome # "refused"
    <3>1. c = Apply(code, f.generation, outcome) /\ outcome \in Settled
      BY <2>2 DEF Applied, Settled
    <3> HIDE DEF c
    <3>2. /\ c \in CodeType
          /\ c.generation = code.generation /\ c.running = code.running
          /\ c.pending = code.pending /\ c.destroyed = code.destroyed
          /\ c.state # "pending" /\ c.hasSettled
          /\ c.shown = Shown(f.generation, outcome) /\ c.shown.how = outcome
          /\ c.shown.generation = code.generation
          /\ c.lineSources # 0 => c.lineSources = f.generation /\ outcome = "styled"
      BY <1>1, <1>3, <1>5, <3>1, ApplyFields
    <3>3. RetainsSettled(c) /\ ShownRight(c)
      BY <3>1, <3>2 DEF RetainsSettled, ShownRight
    <3>4. Returned(c)
      BY <2>1, <3>2, <3>3 DEF Returned
    <3> QED BY <3>4 DEF c, f
  <2>3. CASE outcome = "refused"
    <3>1. c = AbortInflight(code) \/ c = SettleAfterApplicationError(code, f.generation)
      BY <1>5, <2>3 DEF Applied
    <3> HIDE DEF c
    <3>2. /\ c \in CodeType
          /\ c.generation = code.generation /\ c.running = code.running
          /\ c.pending = code.pending \/ c.pending = 0
          /\ c.destroyed = code.destroyed
          /\ c.state # "pending" /\ c.hasSettled = code.hasSettled
          /\ c.shown = code.shown /\ c.lineSources = code.lineSources
      BY <1>1, <1>5, <2>1, <3>1, AbortFields, SettleFields
    <3>3. RetainsSettled(c) /\ ShownRight(c)
      BY <1>1, <3>2 DEF CodePart, RetainsSettled, ShownRight
    <3>4. Returned(c)
      BY <2>1, <3>2, <3>3 DEF Returned
    <3> QED BY <3>4 DEF c, f
  <2> QED BY <2>2, <2>3
<1> QED BY <1>4, <1>5

(* The frame is gone and the record is as its callbacks left it, but for a   *)
(* queued request that is obsolete.                                          *)
LEMMA FrameGone ==
    ASSUME HighlightingInv, frames # <<>>, NEW c, Returned(c),
           NEW d \in CodeType, d.generation = c.generation, d.running = c.running,
           d.destroyed = c.destroyed, d.state = c.state, d.shown = c.shown,
           d.hasSettled = c.hasSettled, d.lineSources = c.lineSources,
           d.drawUnstyled = c.drawUnstyled, d.streaming = c.streaming,
           \/ /\ d.pending = c.pending
              /\ c.pending # 0 /\ c.running = 0 => Last(frames).from # "finish" \/ c.destroyed
           \/ d.pending = 0 /\ c.pending # c.generation
    PROVE  CodePart(d, Front(frames), open)
<1> DEFINE f == Last(frames)
           fs == Front(frames)
<1>1. code \in CodeType /\ frames \in Seq(FrameType) /\ CodePart(code, frames, open)
  BY DEF HighlightingInv, CodePart
<1>2. /\ f \in FrameType
      /\ \E i \in DOMAIN frames : frames[i] = f
      /\ fs \in Seq(FrameType)
      /\ \A i \in DOMAIN fs : i \in DOMAIN frames /\ fs[i] = frames[i]
      /\ \A i \in DOMAIN frames : frames[i] = f \/ i \in DOMAIN fs
  BY <1>1, BelowInnermost
<1>3. /\ code.generation \in Nat \ {0} /\ code.running \in Nat /\ code.pending \in Nat
      /\ \A i \in DOMAIN frames : frames[i].generation \in Nat \ {0}
  BY <1>1, <1>2, NumericFields DEF CodePart, Ages
<1> HIDE DEF f, fs
<1>4. RetainsSettled(d) /\ ShownRight(d)
  BY DEF Returned, RetainsSettled, ShownRight
<1>5. Ages(d, fs) /\ QueuedOnce(d, fs)
  BY <1>1, <1>2, <1>3 DEF CodePart, Ages, QueuedOnce, Returned
<1>6. Admitted(d, fs, open)
  <2>1. CASE c.state # "pending"
    BY <2>1 DEF Admitted
  <2>2. CASE c.state = "pending" /\ c = code /\ ~IsCurrent(code, f.generation)
    BY <1>1, <1>2, <1>3, <2>2, SMTT(40) DEF CodePart, Admitted, IsCurrent, f
  <2> QED BY <2>1, <2>2 DEF Returned, f
<1> QED BY <1>2, <1>4, <1>5, <1>6 DEF CodePart, fs

(* A frame returns, and out of a completion the queued request is started.   *)
LEMMA FrameReturnsKeeps ==
    ASSUME HighlightingInv, FrameReturns
    PROVE  /\ CodePart(code', frames', open')
           /\ OneRunning'
           /\ code'.shown # code.shown =>
                 ~code.destroyed /\ code'.shown.generation = code'.generation
<1>1. PICK outcome \in {"styled", "fallback", "refused"} :
        LET f == Last(frames)
            c == Applied(f, outcome)
            r == IF f.from = "finish" THEN StartPending(c)
                                      ELSE [code |-> c, owner |-> 0]
        IN  /\ code' = r.code
            /\ frames' = IF r.owner = 0 THEN Front(frames)
                         ELSE Append(Front(frames), Frame(r.owner, "pending", TRUE))
  BY DEF FrameReturns
<1> DEFINE f == Last(frames)
           c == Applied(f, outcome)
           fs == Front(frames)
           taken == [c EXCEPT !.pending = 0]
<1>2. frames # <<>> /\ SubmitRunning
  BY DEF FrameReturns
<1>3. Returned(c)
  BY <1>2, AppliedReturned
<1>4. c \in CodeType /\ c.running = code.running /\ c.destroyed = code.destroyed
  BY <1>3 DEF Returned
<1>5. /\ taken \in CodeType
      /\ taken.generation = c.generation /\ taken.running = c.running
      /\ taken.pending = 0 /\ taken.streaming = c.streaming
      /\ taken.drawUnstyled = c.drawUnstyled /\ taken.destroyed = c.destroyed
      /\ taken.state = c.state /\ taken.hasSettled = c.hasSettled
      /\ taken.shown = c.shown /\ taken.lineSources = c.lineSources
  BY <1>4, ZeroInRange DEF CodeType
<1>6. fs \in Seq(FrameType)
  BY <1>2, BelowInnermost DEF HighlightingInv, CodePart
<1>7. open' = open
  BY <1>2 DEF SubmitRunning, Bg!Submit
<1>8. CASE f.from # "finish" \/ c.destroyed \/ c.running # 0 \/ c.pending = 0
  <2>1. code' = c /\ frames' = fs
    BY <1>1, <1>8 DEF StartPending
  <2> HIDE DEF c, fs, taken
  <2>2. c.pending # 0 /\ c.running = 0 => Last(frames).from # "finish" \/ c.destroyed
    BY <1>8 DEF f
  <2>3. CodePart(c, fs, open)
    BY <1>2, <1>3, <1>4, <2>2, FrameGone DEF fs
  <2>4. job' = job
    BY <1>2, <1>4, <2>1 DEF SubmitRunning
  <2>5. OneRunning'
    BY <1>4, <2>1, <2>4 DEF HighlightingInv, OneRunning, Live
  <2> QED BY <1>3, <1>7, <2>1, <2>3, <2>5 DEF Returned
<1>9. CASE f.from = "finish" /\ ~c.destroyed /\ c.running = 0 /\ c.pending # 0
  <2>1. CASE ~IsCurrent(taken, c.pending)
    <3>1. code' = taken /\ frames' = fs
      BY <1>1, <1>9, <2>1 DEF StartPending
    <3> HIDE DEF c, fs, taken
    <3>2. c.pending # c.generation
      BY <1>5, <1>9, <2>1 DEF IsCurrent
    <3>3. CodePart(taken, fs, open)
      BY <1>2, <1>3, <1>4, <1>5, <3>2, FrameGone DEF fs
    <3>4. job' = job
      BY <1>2, <1>4, <1>5, <3>1 DEF SubmitRunning
    <3>5. OneRunning'
      BY <1>4, <1>5, <3>1, <3>4 DEF HighlightingInv, OneRunning, Live
    <3> QED BY <1>3, <1>5, <1>7, <3>1, <3>3, <3>5 DEF Returned
  <2>2. CASE IsCurrent(taken, c.pending)
    <3>1. c.pending = c.generation
      BY <1>5, <2>2 DEF IsCurrent
    <3>2. c = code /\ c.pending \in Generations
      <4>1. c = code
        BY <1>3, <1>9, <3>1 DEF Returned
      <4>2. c.pending \in Generations
        BY <1>4, <1>9, HighlightingAssumption DEF CodeType, Generations
      <4> QED BY <4>1, <4>2
    <3>3. /\ code.state = "pending" /\ ShownRight(code) /\ RetainsSettled(code)
          /\ \A i \in DOMAIN frames : frames[i].generation # code.generation
      BY <1>9, <3>1, <3>2 DEF HighlightingInv, CodePart, QueuedOnce
    <3>4. /\ \A i \in DOMAIN fs : i \in DOMAIN frames /\ fs[i] = frames[i]
          /\ \A i \in DOMAIN fs : fs[i].generation <= code.generation
      <4>1. \A i \in DOMAIN fs : i \in DOMAIN frames /\ fs[i] = frames[i]
        BY <1>2, BelowInnermost DEF HighlightingInv, CodePart
      <4> HIDE DEF fs
      <4> QED BY <4>1 DEF HighlightingInv, CodePart, Ages
    <3>5. CASE request[c.pending] = "worker" /\ open
      <4>1. code' = [taken EXCEPT !.running = c.pending, !.state = "pending"] /\ frames' = fs
        BY <1>1, <1>9, <2>2, <3>5 DEF StartPending
      <4> HIDE DEF c, fs, taken
      <4>2. /\ code' \in CodeType
            /\ code'.generation = c.generation /\ code'.running = c.pending
            /\ code'.pending = 0 /\ code'.state = "pending"
            /\ code'.streaming = c.streaming
            /\ code'.drawUnstyled = c.drawUnstyled /\ code'.destroyed = c.destroyed
            /\ code'.hasSettled = c.hasSettled
            /\ code'.shown = c.shown /\ code'.lineSources = c.lineSources
        BY <1>4, <1>5, <4>1 DEF CodeType
      <4>3. RetainsSettled(code') /\ ShownRight(code')
        BY <3>2, <3>3, <4>2 DEF RetainsSettled, ShownRight
      <4>4. Ages(code', frames') /\ QueuedOnce(code', frames')
        BY <1>4, <1>6, <3>1, <3>2, <3>4, <4>1, <4>2, NumericFields DEF Ages, QueuedOnce
      <4>5. Admitted(code', frames', open')
        BY <3>1, <4>2 DEF Admitted
      <4>6. Live = {}
        BY <1>4, <1>9 DEF HighlightingInv, OneRunning, Live, Generations
      <4>7. Bg!Submit(c.pending)
        BY <1>2, <1>4, <1>9, <4>2 DEF SubmitRunning
      <4>8. \A g \in Generations : g # c.pending => job'[g] = job[g]
        BY <3>2, <4>7 DEF Bg!Submit, HighlightingInv, Bg!BackgroundTypeOK
      <4>9. OneRunning'
        BY <4>2, <4>6, <4>8 DEF OneRunning, Live
      <4> QED BY <1>6, <3>2, <4>1, <4>2, <4>3, <4>4, <4>5, <4>9 DEF CodePart
    <3>6. CASE ~(request[c.pending] = "worker" /\ open)
      <4> DEFINE h == Frame(c.pending, "pending", TRUE)
      <4>1. code' = taken /\ frames' = Append(fs, h)
        BY <1>1, <1>9, <2>2, <3>6 DEF StartPending
      <4> HIDE DEF c, fs, taken
      <4>2. h \in FrameType /\ h.generation = c.pending
        BY <3>2 DEF FrameType, Frame
      <4> HIDE DEF h
      <4>3. /\ frames' \in Seq(FrameType)
            /\ \E i \in DOMAIN frames' : frames'[i] = h
            /\ \A i \in DOMAIN frames' :
                  frames'[i] = h \/ (i \in DOMAIN fs /\ frames'[i] = fs[i])
        BY <1>6, <4>1, <4>2, OneMore
      <4>4. RetainsSettled(code') /\ ShownRight(code')
        BY <1>5, <3>2, <3>3, <4>1 DEF RetainsSettled, ShownRight
      <4>5. Ages(code', frames') /\ QueuedOnce(code', frames')
        BY <1>4, <1>5, <1>9, <3>1, <3>2, <3>4, <4>1, <4>2, <4>3, NumericFields
           DEF Ages, QueuedOnce
      <4>6. Admitted(code', frames', open')
        BY <1>5, <3>1, <4>1, <4>2, <4>3 DEF Admitted
      <4>7. job' = job
        BY <1>2, <1>4, <1>5, <4>1 DEF SubmitRunning
      <4>8. OneRunning'
        BY <1>4, <1>5, <4>1, <4>7 DEF HighlightingInv, OneRunning, Live
      <4> QED BY <1>5, <3>2, <4>1, <4>3, <4>4, <4>5, <4>6, <4>8 DEF CodePart
    <3> QED BY <3>5, <3>6
  <2> QED BY <2>1, <2>2
<1> QED BY <1>8, <1>9

LEMMA FrameRaisesKeeps ==
    ASSUME HighlightingInv, FrameRaises
    PROVE  /\ CodePart(code', frames', open')
           /\ OneRunning'
           /\ code'.shown = code.shown
<1>1. /\ code \in CodeType /\ frames \in Seq(FrameType) /\ frames # <<>>
      /\ code' = AbortInflight(code) /\ frames' = Front(frames)
  BY DEF HighlightingInv, CodePart, FrameRaises
<1>2. /\ frames' \in Seq(FrameType)
      /\ \A i \in DOMAIN frames' : i \in DOMAIN frames /\ frames'[i] = frames[i]
  BY <1>1, BelowInnermost
<1>3. job' = job
  BY DEF FrameRaises, Bg!RaiseDelivery
<1>4. CASE code.destroyed
  <2>1. code' = code
    BY <1>1, <1>4 DEF AbortInflight
  <2>2. CodePart(code', frames', open')
    BY <1>2, <1>4, <2>1
       DEF HighlightingInv, CodePart, Ages, QueuedOnce, Admitted
  <2> QED BY <1>3, <2>1, <2>2 DEF HighlightingInv, OneRunning, Live
<1>5. CASE ~code.destroyed
  <2>1. /\ code' \in CodeType
        /\ code'.generation = code.generation /\ code'.running = code.running
        /\ code'.pending = 0 /\ code'.streaming = code.streaming
        /\ code'.drawUnstyled = code.drawUnstyled
        /\ code'.state # "pending" /\ code'.hasSettled = code.hasSettled
        /\ code'.shown = code.shown /\ code'.lineSources = code.lineSources
    BY <1>1, <1>5, AbortFields
  <2>2. CodePart(code', frames', open')
    BY <1>1, <1>2, <2>1, NumericFields
       DEF HighlightingInv, CodePart, Ages, RetainsSettled, QueuedOnce, Admitted, ShownRight
  <2> QED BY <1>3, <2>1, <2>2 DEF HighlightingInv, OneRunning, Live
<1> QED BY <1>4, <1>5

(* The executor's own steps, and on_complete's return, leave the Code alone. *)
LEMMA BackgroundStepKeeps ==
    ASSUME HighlightingInv, CompletionReturns \/ BackgroundRuns \/ UNCHANGED highlightingVars
    PROVE  /\ CodePart(code', frames', open')
           /\ OneRunning'
           /\ code' = code
<1>1. code' = code /\ frames' = frames
  BY DEF CompletionReturns, BackgroundRuns, highlightingVars
<1>2. \A g \in Generations : job'[g] = "pending" => job[g] = "pending"
  BY DEF CompletionReturns, BackgroundRuns, highlightingVars, HighlightingInv,
     Bg!BackgroundTypeOK, Bg!EndDelivery, Bg!CloseSwitch, Bg!BackgroundStep,
     Bg!PoolStart, Bg!PoolFinish, Bg!HelperResumes, Bg!FirstReturns
<1>3. open' => open
  BY DEF CompletionReturns, BackgroundRuns, highlightingVars, Bg!EndDelivery,
     Bg!CloseSwitch, Bg!BackgroundStep, Bg!PoolStart, Bg!PoolFinish,
     Bg!HelperResumes, Bg!FirstReturns
<1>4. CodePart(code', frames', open')
  BY <1>1, <1>3 DEF HighlightingInv, CodePart, Admitted
<1> QED BY <1>1, <1>2, <1>4 DEF HighlightingInv, OneRunning, Live

(* Whatever the Code does, its executor sees a submission, a cancellation, a *)
(* delivery, or nothing.                                                     *)
LEMMA StepOfBackground ==
    ASSUME HighlightingInv, [HighlightingNext]_highlightingVars
    PROVE  [Bg!BackgroundNext]_(Bg!backgroundVars)
<1> USE DEF Bg!backgroundVars
<1>1. code \in CodeType
  BY DEF HighlightingInv, CodePart
<1>2. ASSUME SubmitRunning, code' \in CodeType PROVE [Bg!BackgroundNext]_(Bg!backgroundVars)
  <2>1. code'.running # 0 => code'.running \in Generations
    BY <1>2, HighlightingAssumption DEF CodeType, Generations
  <2> QED BY <1>2, <2>1 DEF SubmitRunning, Bg!BackgroundNext
<1>3. CASE Refresh
  <2>1. code' \in CodeType
    BY <1>3, RefreshKeeps DEF CodePart
  <2>2. SubmitRunning \/ UNCHANGED <<job, work, fiber, open>>
    BY <1>3 DEF Refresh, RefreshPlain, RefreshFails, RefreshQueued, RefreshSubmits,
       RefreshOnOwner
  <2> QED BY <1>2, <2>1, <2>2
<1>4. CASE Destroy
  <2>1. code.running # 0 => code.running \in Generations
    BY <1>1, HighlightingAssumption DEF CodeType, Generations
  <2> QED BY <1>4, <2>1 DEF Destroy, Bg!BackgroundNext
<1>5. ASSUME NEW g \in Generations, FinishRequest(g)
      PROVE  [Bg!BackgroundNext]_(Bg!backgroundVars)
  BY <1>5 DEF FinishRequest, Bg!BackgroundNext
<1>6. CASE FrameReturns
  <2>1. code' \in CodeType /\ SubmitRunning
    BY <1>6, FrameReturnsKeeps DEF CodePart, FrameReturns
  <2> QED BY <1>2, <2>1
<1>7. CASE FrameRaises
  BY <1>7 DEF FrameRaises, Bg!BackgroundNext
<1>8. CASE CompletionReturns \/ BackgroundRuns \/ UNCHANGED highlightingVars
  BY <1>8 DEF CompletionReturns, BackgroundRuns, highlightingVars, Bg!BackgroundNext
<1> QED BY <1>3, <1>4, <1>5, <1>6, <1>7, <1>8 DEF HighlightingNext

(* The instance counts with the Cardinality of FiniteSets. *)
LEMMA SameCardinality == \A S : Bg!Cardinality(S) = Cardinality(S)
  BY DEF Bg!Cardinality, Cardinality

(* The executor keeps its types, and starts no more jobs than it has workers.*)
LEMMA ExecutorTypes ==
    ASSUME Bg!BackgroundTypeOK, [Bg!BackgroundNext]_(Bg!backgroundVars)
    PROVE  Bg!BackgroundTypeOK'
<1> USE DEF Bg!BackgroundTypeOK, Bg!JobStates, Bg!WorkStates, Bg!FiberStates
<1>1. /\ job' \in [Generations -> Bg!JobStates]
      /\ work' \in [Generations -> Bg!WorkStates]
      /\ fiber' \in [Generations -> Bg!FiberStates]
      /\ open' \in BOOLEAN
  BY ZenonT(60) DEF Bg!BackgroundNext, Bg!backgroundVars, Bg!Submit, Bg!Cancel, Bg!BackgroundStep,
     Bg!PoolStart, Bg!PoolFinish, Bg!HelperResumes, Bg!FirstReturns, Bg!BeginDelivery,
     Bg!EndDelivery, Bg!RaiseDelivery, Bg!CloseSwitch
<1>2. IsFiniteSet(Bg!Running)
  <2>1. IsFiniteSet(Generations)
    BY FS_Interval, HighlightingAssumption DEF Generations
  <2> QED BY <2>1, FS_Subset DEF Bg!Running
<1>3. Cardinality(Bg!Running) \in Nat /\ Cardinality(Bg!Running) <= Workers
  BY <1>2, FS_CardinalityType, SameCardinality
<1>4. Cardinality(Bg!Running') <= Workers
  <2>1. ASSUME NEW j \in Generations, Bg!PoolStart(j)
        PROVE  Cardinality(Bg!Running') <= Workers
    <3>1. Bg!Running' = Bg!Running \cup {j} /\ j \notin Bg!Running
      BY <2>1 DEF Bg!PoolStart, Bg!Running
    <3>2. Cardinality(Bg!Running') = Cardinality(Bg!Running) + 1
      BY <1>2, <3>1, FS_AddElement
    <3>3. Cardinality(Bg!Running) < Workers
      BY <2>1, SameCardinality DEF Bg!PoolStart
    <3> QED BY <1>3, <3>2, <3>3, HighlightingAssumption
  <2>2. CASE ~ \E j \in Generations : Bg!PoolStart(j)
    <3>1. Bg!Running' \subseteq Bg!Running
      BY <2>2 DEF Bg!BackgroundNext, Bg!BackgroundStep, Bg!Submit, Bg!Cancel,
         Bg!PoolFinish, Bg!HelperResumes, Bg!FirstReturns, Bg!BeginDelivery,
         Bg!EndDelivery, Bg!RaiseDelivery, Bg!CloseSwitch, Bg!backgroundVars, Bg!Running
    <3>2. /\ Cardinality(Bg!Running') <= Cardinality(Bg!Running)
          /\ Cardinality(Bg!Running') \in Nat
      BY <1>2, <3>1, FS_Subset, FS_CardinalityType
    <3> QED BY <1>3, <3>2, HighlightingAssumption
  <2> QED BY <2>1, <2>2
<1>5. Bg!Cardinality(Bg!Running') <= Workers
  BY <1>4, SameCardinality
<1> QED BY <1>1, <1>5

LEMMA HighlightingInvInit == HighlightingInit => HighlightingInv
<1> SUFFICES ASSUME HighlightingInit PROVE HighlightingInv
  OBVIOUS
<1>1. code \in CodeType
  BY ZeroInRange DEF HighlightingInit, CodeType, Shown
<1>2. CodePart(code, frames, open)
  BY <1>1 DEF HighlightingInit, CodePart, Ages, RetainsSettled, QueuedOnce, Admitted,
     ShownRight
<1>3. request \in [Generations -> Kinds \cup {"none"}] /\ OneRunning
  BY DEF HighlightingInit, OneRunning, Live, Bg!BackgroundInit
<1>4. Bg!Running = {}
  BY DEF HighlightingInit, Bg!BackgroundInit, Bg!Running
<1>5. Bg!Cardinality(Bg!Running) <= Workers
  BY <1>4, FS_EmptySet, SameCardinality, HighlightingAssumption
<1>6. Bg!BackgroundTypeOK
  BY <1>5 DEF HighlightingInit, Bg!BackgroundInit, Bg!BackgroundTypeOK, Bg!JobStates,
     Bg!WorkStates, Bg!FiberStates
<1> QED BY <1>2, <1>3, <1>6 DEF HighlightingInv

LEMMA HighlightingInvStep ==
    HighlightingInv /\ [HighlightingNext]_highlightingVars => HighlightingInv'
<1> SUFFICES ASSUME HighlightingInv, [HighlightingNext]_highlightingVars
             PROVE  HighlightingInv'
  OBVIOUS
<1>1. Bg!BackgroundTypeOK'
  BY StepOfBackground, ExecutorTypes DEF HighlightingInv
<1>2. request' \in [Generations -> Kinds \cup {"none"}]
  BY RefreshKeeps DEF HighlightingNext, HighlightingInv, Destroy, FinishRequest,
     FrameReturns, FrameRaises, CompletionReturns, BackgroundRuns, highlightingVars
<1>3. CodePart(code', frames', open') /\ OneRunning'
  BY RefreshKeeps, DestroyKeeps, FinishKeeps, FrameReturnsKeeps, FrameRaisesKeeps,
     BackgroundStepKeeps DEF HighlightingNext
<1> QED BY <1>1, <1>2, <1>3 DEF HighlightingInv

(* The inductive invariant holds in every reachable state. *)
THEOREM HighlightingKeepsInv == HighlightingSpec => []HighlightingInv
  BY HighlightingInvInit, HighlightingInvStep, PTL DEF HighlightingSpec

(* One request runs and one waits: every job that can still deliver is the   *)
(* one in running, no job outlives destroy, and Pending always has a job or  *)
(* a callback that will settle it - for any number of refreshes nested to    *)
(* any depth in the callbacks of any others.                                 *)
THEOREM HighlightingAdmitsOneJob == HighlightingSpec => []OneAdmittedJob
<1>1. HighlightingInv => OneAdmittedJob
  BY DEF HighlightingInv, CodePart, CodeType, FrameType, Admitted, OneAdmittedJob,
     HighlightingTypeOK, PendingIsAdmitted
<1> QED BY <1>1, HighlightingKeepsInv, PTL

(* While a highlight is pending the buffer shows its own raw source, nothing *)
(* or the last settled result, as draw_unstyled_text and streaming say, and  *)
(* the concealed-line mapping always belongs to the text that is shown.      *)
THEOREM HighlightingShowsItsText == HighlightingSpec => []ShownTextMatches
<1>1. HighlightingInv => ShownTextMatches
  BY DEF HighlightingInv, CodePart, ShownRight, ShownTextMatches, VisibleWhilePending,
     LineSourcesMatch
<1> QED BY <1>1, HighlightingKeepsInv, PTL

(* The results of superseded generations, and of a destroyed Code, never     *)
(* reach the buffer.                                                         *)
THEOREM HighlightingIgnoresObsolete == HighlightingSpec => ObsoleteIsInert
<1>1. HighlightingInv /\ [HighlightingNext]_highlightingVars =>
        [code'.shown # code.shown =>
           ~code.destroyed /\ code'.shown.generation = code'.generation]_highlightingVars
  <2> SUFFICES ASSUME HighlightingInv, HighlightingNext, code'.shown # code.shown
               PROVE  ~code.destroyed /\ code'.shown.generation = code'.generation
    BY DEF highlightingVars
  <2> QED BY RefreshKeeps, DestroyKeeps, FinishKeeps, FrameReturnsKeeps,
             FrameRaisesKeeps, BackgroundStepKeeps DEF HighlightingNext
<1> QED BY <1>1, HighlightingKeepsInv, PTL DEF HighlightingSpec, ObsoleteIsInert

(* Highlighting uses the executor only through its interface: each of its    *)
(* behaviours is a behaviour of Background over the generations as jobs, so  *)
(* that a cancelled highlight is never delivered and a delivered one never   *)
(* delivered again.                                                          *)
THEOREM HighlightingImplementsBackground == HighlightingSpec => Bg!BackgroundSpec
<1>1. HighlightingInit => Bg!BackgroundInit
  BY DEF HighlightingInit
<1>2. HighlightingInv /\ [HighlightingNext]_highlightingVars =>
        [Bg!BackgroundNext]_(Bg!backgroundVars)
  BY StepOfBackground
<1> QED BY <1>1, <1>2, HighlightingKeepsInv, PTL DEF HighlightingSpec, Bg!BackgroundSpec

=============================================================================
