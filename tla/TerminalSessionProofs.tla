------------------------ MODULE TerminalSessionProofs -----------------------
(* Proofs about TerminalSession and the output adapter under it: the         *)
(* terminal is in the modes the adapter tracks, a failed write silences it   *)
(* for good, and a restored session is cooked.                               *)
EXTENDS TerminalSession, SequenceTheorems, TLAPS

(* The DEC private modes the adapter switches, and the items it writes.      *)
PrivateModes == {25, 1000, 1002, 1003, 1006, 1049, 2004}
Items == (PrivateModes \X BOOLEAN) \cup {Data}

(* The modes a sequence of items turns on and off.                           *)
On(s) == {s[k][1] : k \in {j \in DOMAIN s : s[j] # Data /\ s[j][2]}}
Off(s) == {s[k][1] : k \in {j \in DOMAIN s : s[j] # Data /\ ~s[j][2]}}

(* No mode is turned both on and off in one transition, so the order of the  *)
(* items does not matter.                                                    *)
Consistent(s) == s \in Seq(Items) /\ On(s) \cap Off(s) = {}

(* The modes of a terminal in modes T once it has received all of s.         *)
Written(T, s) == (T \cup On(s)) \ Off(s)

Requests == ModeRequests \cup {Write}

(* The states of Terminal_modes.                                             *)
TrackedModes == [screen : {"main", "alternate"}, cursor : BOOLEAN,
                 mouse : {"disabled", "buttons", "motion"},
                 mouseWasEnabled : BOOLEAN, paste : BOOLEAN]

Calls == [request : Requests \cup {None}, phase : Phases, rest : Seq(Items)]

OutputTypes ==
    /\ modes \in TrackedModes
    /\ status \in {"healthy", "poisoned"}
    /\ terminal \subseteq PrivateModes
    /\ holder \in Fibers \cup {None}
    /\ call \in [Fibers -> Calls]

(* The mutex is held by the fiber that writes.                               *)
HolderWrites == \A f \in Fibers : call[f].phase = "write" <=> holder = f

(* A fiber in a call has a request; one that writes has something left to    *)
(* write, and no mode is in it twice.                                        *)
CallsHaveRequests ==
    \A f \in Fibers :
        /\ call[f].phase \in {"lock", "write"} => call[f].request \in Requests
        /\ call[f].phase = "write" => call[f].rest # <<>> /\ Consistent(call[f].rest)

(* The rest of a transition, if it is written, takes the terminal to the     *)
(* modes the adapter will then track.                                        *)
RestCompletes ==
    \A f \in Fibers :
        holder = f =>
            Written(terminal, call[f].rest) = Expected(NextModes(modes, call[f].request))

(* The reset turns the mouse off when it was ever on.                        *)
MouseRemembered == modes.mouse # "disabled" => modes.mouseWasEnabled

(* A poisoned adapter writes nothing, and only a poisoned one fails a call.  *)
PoisonStops ==
    /\ status = "poisoned" => holder = None
    /\ \A f \in Fibers : call[f].phase = "error" => status = "poisoned"

(* The second part of ModesAgree.                                            *)
Agrees == (status = "healthy" /\ holder = None) => terminal = Expected(modes)

(* What the adapter keeps, whoever calls it.                                 *)
OutputInv ==
    /\ OutputTypes
    /\ HolderWrites
    /\ CallsHaveRequests
    /\ RestCompletes
    /\ MouseRemembered
    /\ PoisonStops
    /\ Agrees

OwnerTypes ==
    /\ session \in [lifecycle : {"ready", "entered", "restored"},
                    outputRestored : BOOLEAN,
                    terminalRestored : BOOLEAN,
                    queries : SUBSET Queries]
    /\ tty \in {"original", "raw"}
    /\ doing \in [op : {"none", "setup", "paste", "query", "restore"},
                  arg : Queries \cup BOOLEAN \cup {None}]

(* The owner is in a call of the output exactly during its operations.       *)
OwnerInCall ==
    /\ doing.op = "none" <=> call[Owner].phase = "idle"
    /\ doing.op = "setup" => doing.arg \in BOOLEAN
    /\ doing.op = "query" => doing.arg \in Queries

(* A session that was not entered is cooked and its output not restored.     *)
(* When the attributes count as restored although they are not (a restore    *)
(* that failed before enter), the adapter was poisoned before, and no reset  *)
(* will ever succeed.                                                        *)
RestoreProgress ==
    /\ session.lifecycle = "ready" => tty = "original" /\ ~session.outputRestored
    /\ session.terminalRestored /\ (session.lifecycle = "ready" \/ tty = "raw") =>
         /\ status = "poisoned"
         /\ ~session.outputRestored
         /\ ~(doing.op = "restore" /\ call[Owner].phase = "ok")

(* What the session keeps.                                                   *)
OwnerInv ==
    /\ OwnerTypes
    /\ OwnerInCall
    /\ RestoreProgress
    /\ RestoredIsCooked

(* The inductive invariant.                                                  *)
SessionInv == OutputInv /\ OwnerInv

(* What the empty sequence and one item turn on and off.                     *)
LEMMA OnOffShort ==
    ASSUME NEW x \in Items
    PROVE  /\ On(<<>>) = {} /\ Off(<<>>) = {}
           /\ On(<<x>>) = IF x # Data /\ x[2] THEN {x[1]} ELSE {}
           /\ Off(<<x>>) = IF x # Data /\ ~x[2] THEN {x[1]} ELSE {}
  BY DEF On, Off

(* One piece of output after the other turns on, and off, what either does.  *)
LEMMA OnOffConcat ==
    ASSUME NEW s \in Seq(Items), NEW t \in Seq(Items)
    PROVE  /\ On(s \o t) = On(s) \cup On(t)
           /\ Off(s \o t) = Off(s) \cup Off(t)
  <1> DEFINE u == s \o t
  <1>1. /\ u \in Seq(Items) /\ Len(u) = Len(s) + Len(t)
        /\ \A k \in 1 .. Len(s) : u[k] = s[k]
        /\ \A k \in 1 .. Len(t) : u[Len(s) + k] = t[k]
    OBVIOUS
  <1>2. \A k \in DOMAIN u : k \in DOMAIN s \/ (k - Len(s) \in DOMAIN t /\ u[k] = t[k - Len(s)])
    <2>0. DOMAIN u = 1 .. Len(s) + Len(t) /\ DOMAIN s = 1 .. Len(s) /\ DOMAIN t = 1 .. Len(t)
      BY <1>1
    <2> HIDE DEF u
    <2> SUFFICES ASSUME NEW k \in DOMAIN u, k \notin DOMAIN s
                 PROVE  k - Len(s) \in DOMAIN t /\ u[k] = t[k - Len(s)]
      OBVIOUS
    <2>1. k \in 1 .. Len(s) + Len(t) /\ k \notin 1 .. Len(s)
      BY <2>0
    <2>2. k - Len(s) \in 1 .. Len(t) /\ Len(s) + (k - Len(s)) = k
      BY <2>1
    <2> QED
      BY <1>1, <2>0, <2>2
  <1>3. \A k \in DOMAIN s : k \in DOMAIN u /\ u[k] = s[k]
    BY <1>1
  <1>4. \A k \in DOMAIN t : k + Len(s) \in DOMAIN u /\ u[k + Len(s)] = t[k]
    BY <1>1
  <1> HIDE DEF u
  <1>5. On(u) = On(s) \cup On(t)
    <2>1. \A m \in On(u) : m \in On(s) \cup On(t)
      BY <1>2, <1>3 DEF On
    <2>2. \A m \in On(s) : m \in On(u)
      BY <1>3 DEF On
    <2>3. \A m \in On(t) : m \in On(u)
      BY <1>4 DEF On
    <2> QED
      BY <2>1, <2>2, <2>3
  <1>6. Off(u) = Off(s) \cup Off(t)
    <2>1. \A m \in Off(u) : m \in Off(s) \cup Off(t)
      BY <1>2, <1>3 DEF Off
    <2>2. \A m \in Off(s) : m \in Off(u)
      BY <1>3 DEF Off
    <2>3. \A m \in Off(t) : m \in Off(u)
      BY <1>4 DEF Off
    <2> QED
      BY <2>1, <2>2, <2>3
  <1> QED
    BY <1>5, <1>6 DEF u

(* The modes of a sequence are those of its head and of its tail.            *)
LEMMA OnOffTail ==
    ASSUME NEW s \in Seq(Items), s # <<>>
    PROVE  /\ Head(s) \in Items /\ Tail(s) \in Seq(Items)
           /\ On(s) = On(<<Head(s)>>) \cup On(Tail(s))
           /\ Off(s) = Off(<<Head(s)>>) \cup Off(Tail(s))
  <1>1. Head(s) \in Items /\ Tail(s) \in Seq(Items) /\ s = <<Head(s)>> \o Tail(s)
    OBVIOUS
  <1>2. <<Head(s)>> \in Seq(Items)
    BY <1>1
  <1> QED
    BY <1>1, <1>2, OnOffConcat

(* The sink's acceptance of the first item of a consistent transition leaves *)
(* a consistent one, and the rest takes the terminal where the whole would   *)
(* have.                                                                     *)
LEMMA ReceiveRest ==
    ASSUME NEW s, Consistent(s), s # <<>>
    PROVE  /\ Consistent(Tail(s))
           /\ Written(Received(Head(s)), Tail(s)) = Written(terminal, s)
  <1>1. /\ Head(s) \in Items /\ Tail(s) \in Seq(Items)
        /\ On(s) = On(<<Head(s)>>) \cup On(Tail(s))
        /\ Off(s) = Off(<<Head(s)>>) \cup Off(Tail(s))
        /\ On(s) \cap Off(s) = {}
    BY OnOffTail DEF Consistent
  <1>2. /\ On(<<Head(s)>>) = IF Head(s) # Data /\ Head(s)[2] THEN {Head(s)[1]} ELSE {}
        /\ Off(<<Head(s)>>) = IF Head(s) # Data /\ ~Head(s)[2] THEN {Head(s)[1]} ELSE {}
    BY <1>1, OnOffShort
  <1> QED
    BY <1>1, <1>2 DEF Consistent, Written, Received

(* A mode switch is an item, and not data.                                   *)
LEMMA ItemOfMode ==
    ASSUME NEW n \in PrivateModes, NEW on \in BOOLEAN
    PROVE  /\ <<n, on>> \in Items /\ <<n, on>> # Data
           /\ <<n, on>>[1] = n /\ <<n, on>>[2] = on
  <1>1. <<n, on>> \in PrivateModes \X BOOLEAN
    OBVIOUS
  <1>2. n # 0
    BY DEF PrivateModes
  <1>3. <<n, on>> # Data
    BY <1>2 DEF Data
  <1> QED
    BY <1>1, <1>3 DEF Items

(* The output of one switch.                                                 *)
LEMMA OutputOfOne ==
    ASSUME NEW n \in PrivateModes, NEW on \in BOOLEAN
    PROVE  /\ <<<<n, on>>>> \in Seq(Items)
           /\ On(<<<<n, on>>>>) = IF on THEN {n} ELSE {}
           /\ Off(<<<<n, on>>>>) = IF on THEN {} ELSE {n}
           /\ Consistent(<<<<n, on>>>>)
  <1> DEFINE x == <<n, on>>
  <1>1. x \in Items /\ x # Data /\ x[1] = n /\ x[2] = on
    BY ItemOfMode
  <1> HIDE DEF x
  <1>2. /\ On(<<x>>) = IF on THEN {n} ELSE {}
        /\ Off(<<x>>) = IF on THEN {} ELSE {n}
    BY <1>1, OnOffShort
  <1>3. <<x>> \in Seq(Items)
    BY <1>1
  <1> QED
    BY <1>2, <1>3 DEF Consistent, x

(* Plain data, and no output at all, switch nothing.                         *)
LEMMA OutputOfData ==
    /\ <<Data>> \in Seq(Items) /\ On(<<Data>>) = {} /\ Off(<<Data>>) = {} /\ Consistent(<<Data>>)
    /\ <<>> \in Seq(Items) /\ On(<<>>) = {} /\ Off(<<>>) = {} /\ Consistent(<<>>)
  <1>1. Data \in Items
    BY DEF Items
  <1>2. On(<<Data>>) = {} /\ Off(<<Data>>) = {} /\ On(<<>>) = {} /\ Off(<<>>) = {}
    BY <1>1, OnOffShort
  <1>3. <<Data>> \in Seq(Items) /\ <<>> \in Seq(Items)
    BY <1>1
  <1> QED
    BY <1>2, <1>3 DEF Consistent

(* One mode turned on.                                                       *)
LEMMA OutputOfSet ==
    ASSUME NEW n \in PrivateModes
    PROVE  /\ <<n, TRUE>> \in Items
           /\ On(<<<<n, TRUE>>>>) = {n} /\ Off(<<<<n, TRUE>>>>) = {}
           /\ Consistent(<<<<n, TRUE>>>>)
  <1>1. \A b \in BOOLEAN :
            b => /\ On(<<<<n, b>>>>) = {n} /\ Off(<<<<n, b>>>>) = {}
                 /\ Consistent(<<<<n, b>>>>) /\ <<n, b>> \in Items
    BY OutputOfOne, ItemOfMode
  <1> QED
    BY <1>1

(* One mode turned off.                                                      *)
LEMMA OutputOfReset ==
    ASSUME NEW n \in PrivateModes
    PROVE  /\ <<n, FALSE>> \in Items
           /\ On(<<<<n, FALSE>>>>) = {} /\ Off(<<<<n, FALSE>>>>) = {n}
           /\ Consistent(<<<<n, FALSE>>>>)
  <1>1. \A b \in BOOLEAN :
            ~b => /\ On(<<<<n, b>>>>) = {} /\ Off(<<<<n, b>>>>) = {n}
                  /\ Consistent(<<<<n, b>>>>) /\ <<n, b>> \in Items
    BY OutputOfOne, ItemOfMode
  <1> QED
    BY <1>1

(* Turning a mode on is an item.                                             *)
LEMMA SetItems == \A n \in PrivateModes : <<n, TRUE>> \in Items
  BY DEF Items

(* Turning a mode off is an item.                                            *)
LEMMA ResetItems == \A n \in PrivateModes : <<n, FALSE>> \in Items
  BY DEF Items

(* The sequence that turns the mouse off turns all four of its modes off.    *)
LEMMA OutputOfMouseDisable ==
    /\ MouseDisable \in Seq(Items)
    /\ On(MouseDisable) = {}
    /\ Off(MouseDisable) = {1000, 1002, 1003, 1006}
  <1> DEFINE s == MouseDisable
  <1>2. /\ <<1000, FALSE>> \in Items /\ <<1002, FALSE>> \in Items
        /\ <<1003, FALSE>> \in Items /\ <<1006, FALSE>> \in Items
    BY ResetItems DEF PrivateModes
  <1>3. /\ s[1] = <<1003, FALSE>> /\ s[2] = <<1002, FALSE>>
        /\ s[3] = <<1000, FALSE>> /\ s[4] = <<1006, FALSE>>
    BY ZenonT(60) DEF MouseDisable
  <1>4. s \in Seq(Items) /\ DOMAIN s = 1 .. 4
    BY <1>2 DEF MouseDisable
  <1>5. /\ s[1] # Data /\ s[1][1] = 1003 /\ ~s[1][2]
        /\ s[2] # Data /\ s[2][1] = 1002 /\ ~s[2][2]
        /\ s[3] # Data /\ s[3][1] = 1000 /\ ~s[3][2]
        /\ s[4] # Data /\ s[4][1] = 1006 /\ ~s[4][2]
    BY <1>3 DEF Data
  <1> HIDE DEF s
  <1>6. On(s) = {} /\ Off(s) = {1000, 1002, 1003, 1006}
    BY <1>4, <1>5 DEF On, Off
  <1> QED
    BY <1>4, <1>6 DEF s

(* The sequence for buttons turns three of them on and motion off.           *)
LEMMA OutputOfButtons ==
    LET s == <<<<1003, FALSE>>, <<1000, TRUE>>, <<1002, TRUE>>, <<1006, TRUE>>>>
    IN  s \in Seq(Items) /\ On(s) = {1000, 1002, 1006} /\ Off(s) = {1003}
  <1> DEFINE s == <<<<1003, FALSE>>, <<1000, TRUE>>, <<1002, TRUE>>, <<1006, TRUE>>>>
  <1>2. /\ <<1000, TRUE>> \in Items /\ <<1002, TRUE>> \in Items
        /\ <<1003, FALSE>> \in Items /\ <<1006, TRUE>> \in Items
    BY SetItems, ResetItems DEF PrivateModes
  <1>3. /\ s[1] = <<1003, FALSE>> /\ s[2] = <<1000, TRUE>>
        /\ s[3] = <<1002, TRUE>> /\ s[4] = <<1006, TRUE>>
    BY ZenonT(60)
  <1>4. s \in Seq(Items) /\ DOMAIN s = 1 .. 4
    BY <1>2
  <1> HIDE DEF s
  <1>5. /\ s[1] # Data /\ s[1][1] = 1003 /\ ~s[1][2]
        /\ s[2] # Data /\ s[2][1] = 1000 /\ s[2][2]
        /\ s[3] # Data /\ s[3][1] = 1002 /\ s[3][2]
        /\ s[4] # Data /\ s[4][1] = 1006 /\ s[4][2]
    BY <1>3 DEF Data
  <1>6. On(s) = {1000, 1002, 1006} /\ Off(s) = {1003}
    BY <1>4, <1>5 DEF On, Off
  <1> QED
    BY <1>4, <1>6 DEF s

(* The sequence for motion turns all four of them on.                        *)
LEMMA OutputOfMotion ==
    LET s == <<<<1000, TRUE>>, <<1002, TRUE>>, <<1003, TRUE>>, <<1006, TRUE>>>>
    IN  s \in Seq(Items) /\ On(s) = {1000, 1002, 1003, 1006} /\ Off(s) = {}
  <1> DEFINE s == <<<<1000, TRUE>>, <<1002, TRUE>>, <<1003, TRUE>>, <<1006, TRUE>>>>
  <1>2. /\ <<1000, TRUE>> \in Items /\ <<1002, TRUE>> \in Items
        /\ <<1003, TRUE>> \in Items /\ <<1006, TRUE>> \in Items
    BY SetItems DEF PrivateModes
  <1>3. /\ s[1] = <<1000, TRUE>> /\ s[2] = <<1002, TRUE>>
        /\ s[3] = <<1003, TRUE>> /\ s[4] = <<1006, TRUE>>
    BY ZenonT(60)
  <1>4. s \in Seq(Items) /\ DOMAIN s = 1 .. 4
    BY <1>2
  <1> HIDE DEF s
  <1>5. /\ s[1] # Data /\ s[1][1] = 1000 /\ s[1][2]
        /\ s[2] # Data /\ s[2][1] = 1002 /\ s[2][2]
        /\ s[3] # Data /\ s[3][1] = 1003 /\ s[3][2]
        /\ s[4] # Data /\ s[4][1] = 1006 /\ s[4][2]
    BY <1>3 DEF Data
  <1>6. On(s) = {1000, 1002, 1003, 1006} /\ Off(s) = {}
    BY <1>4, <1>5 DEF On, Off
  <1> QED
    BY <1>4, <1>6 DEF s

(* The requests by their kind.                                               *)
LEMMA RequestCases ==
    ASSUME NEW r \in Requests
    PROVE  \/ r.kind = "screen" /\ r.to \in {"main", "alternate"}
           \/ r.kind = "cursor" /\ r.to \in BOOLEAN
           \/ r.kind = "paste" /\ r.to \in BOOLEAN
           \/ r.kind = "mouse" /\ r.to \in {"buttons", "motion", "disabled"}
           \/ r.kind = "reset"
           \/ r.kind = "write"
  BY DEF Requests, ModeRequests, Write, Request

(* The tracked state after a request is one the adapter can be in.           *)
LEMMA NextModesTracked ==
    ASSUME NEW m \in TrackedModes, NEW r \in Requests,
           m.mouse # "disabled" => m.mouseWasEnabled
    PROVE  /\ NextModes(m, r) \in TrackedModes
           /\ NextModes(m, r).mouse # "disabled" => NextModes(m, r).mouseWasEnabled
  <1>1. CASE r.kind = "screen" /\ r.to \in {"main", "alternate"}
    BY <1>1 DEF NextModes, TrackedModes
  <1>2. CASE r.kind = "cursor" /\ r.to \in BOOLEAN
    BY <1>2 DEF NextModes, TrackedModes
  <1>3. CASE r.kind = "paste" /\ r.to \in BOOLEAN
    BY <1>3 DEF NextModes, TrackedModes
  <1>4. CASE r.kind = "mouse" /\ r.to \in {"buttons", "motion", "disabled"}
    BY <1>4 DEF NextModes, TrackedModes
  <1>5. CASE r.kind = "reset"
    BY <1>5 DEF NextModes, TrackedModes, InitialModes
  <1>6. CASE r.kind = "write"
    BY <1>6 DEF NextModes, TrackedModes
  <1> QED
    BY <1>1, <1>2, <1>3, <1>4, <1>5, <1>6, RequestCases

(* What a request writes takes a terminal in the tracked modes to the modes  *)
(* tracked after it.                                                         *)
Reaches(m, s, n) == Consistent(s) /\ Written(Expected(m), s) = Expected(n)

(* set_screen_mode.                                                          *)
LEMMA ScreenReaches ==
    ASSUME NEW m \in TrackedModes, NEW r, r.kind = "screen", r.to \in {"main", "alternate"}
    PROVE  Reaches(m, Output(m, r), NextModes(m, r))
  <1> DEFINE n == NextModes(m, r)
  <1>1. n.screen = r.to /\ n.cursor = m.cursor /\ n.paste = m.paste /\ n.mouse = m.mouse
    BY DEF NextModes, TrackedModes
  <1>2. m.screen \in {"main", "alternate"} /\ m.mouse \in {"disabled", "buttons", "motion"}
    BY DEF TrackedModes
  <1> HIDE DEF n
  <1>3. CASE m.screen = r.to
    <2>1. Output(m, r) = <<>>
      BY <1>3 DEF Output
    <2>2. On(Output(m, r)) = {} /\ Off(Output(m, r)) = {} /\ Consistent(Output(m, r))
      BY <2>1, OutputOfData
    <2> QED
      BY <1>1, <1>3, <2>2 DEF Reaches, Written, Expected, n
  <1>4. CASE m.screen # r.to
    <2> DEFINE on == r.to = "alternate"
    <2>1. Output(m, r) = <<<<1049, on>>>>
      BY <1>4 DEF Output
    <2>2. 1049 \in PrivateModes /\ on \in BOOLEAN /\ (on <=> r.to = "alternate")
      BY DEF PrivateModes
    <2> HIDE DEF on
    <2>3. /\ On(Output(m, r)) = IF on THEN {1049} ELSE {}
          /\ Off(Output(m, r)) = IF on THEN {} ELSE {1049}
          /\ Consistent(Output(m, r))
      BY <2>1, <2>2, OutputOfOne
    <2> QED
      BY <1>1, <1>2, <1>4, <2>2, <2>3 DEF Reaches, Written, Expected, n
  <1> QED
    BY <1>3, <1>4

(* set_cursor_visible.                                                       *)
LEMMA CursorReaches ==
    ASSUME NEW m \in TrackedModes, NEW r, r.kind = "cursor", r.to \in BOOLEAN
    PROVE  Reaches(m, Output(m, r), NextModes(m, r))
  <1> DEFINE n == NextModes(m, r)
  <1>1. n.screen = m.screen /\ n.cursor = r.to /\ n.paste = m.paste /\ n.mouse = m.mouse
    BY DEF NextModes, TrackedModes
  <1>2. m.cursor \in BOOLEAN /\ m.mouse \in {"disabled", "buttons", "motion"}
    BY DEF TrackedModes
  <1> HIDE DEF n
  <1>3. CASE m.cursor = r.to
    <2>1. Output(m, r) = <<>>
      BY <1>3 DEF Output
    <2>2. On(Output(m, r)) = {} /\ Off(Output(m, r)) = {} /\ Consistent(Output(m, r))
      BY <2>1, OutputOfData
    <2> QED
      BY <1>1, <1>3, <2>2 DEF Reaches, Written, Expected, n
  <1>4. CASE m.cursor # r.to
    <2>1. Output(m, r) = <<<<25, r.to>>>>
      BY <1>4 DEF Output
    <2>2. 25 \in PrivateModes
      BY DEF PrivateModes
    <2>3. /\ On(Output(m, r)) = IF r.to THEN {25} ELSE {}
          /\ Off(Output(m, r)) = IF r.to THEN {} ELSE {25}
          /\ Consistent(Output(m, r))
      BY <2>1, <2>2, OutputOfOne
    <2> QED
      BY <1>1, <1>2, <1>4, <2>3 DEF Reaches, Written, Expected, n
  <1> QED
    BY <1>3, <1>4

(* set_bracketed_paste.                                                      *)
LEMMA PasteReaches ==
    ASSUME NEW m \in TrackedModes, NEW r, r.kind = "paste", r.to \in BOOLEAN
    PROVE  Reaches(m, Output(m, r), NextModes(m, r))
  <1> DEFINE n == NextModes(m, r)
  <1>1. n.screen = m.screen /\ n.cursor = m.cursor /\ n.paste = r.to /\ n.mouse = m.mouse
    BY DEF NextModes, TrackedModes
  <1>2. m.paste \in BOOLEAN /\ m.mouse \in {"disabled", "buttons", "motion"}
    BY DEF TrackedModes
  <1> HIDE DEF n
  <1>3. CASE m.paste = r.to
    <2>1. Output(m, r) = <<>>
      BY <1>3 DEF Output
    <2>2. On(Output(m, r)) = {} /\ Off(Output(m, r)) = {} /\ Consistent(Output(m, r))
      BY <2>1, OutputOfData
    <2> QED
      BY <1>1, <1>3, <2>2 DEF Reaches, Written, Expected, n
  <1>4. CASE m.paste # r.to
    <2>1. Output(m, r) = <<<<2004, r.to>>>>
      BY <1>4 DEF Output
    <2>2. 2004 \in PrivateModes
      BY DEF PrivateModes
    <2>3. /\ On(Output(m, r)) = IF r.to THEN {2004} ELSE {}
          /\ Off(Output(m, r)) = IF r.to THEN {} ELSE {2004}
          /\ Consistent(Output(m, r))
      BY <2>1, <2>2, OutputOfOne
    <2> QED
      BY <1>1, <1>2, <1>4, <2>3 DEF Reaches, Written, Expected, n
  <1> QED
    BY <1>3, <1>4

(* set_mouse_mode and disable_mouse, from any mouse mode to any other.       *)
LEMMA MouseReaches ==
    ASSUME NEW m \in TrackedModes, NEW r, r.kind = "mouse",
           r.to \in {"buttons", "motion", "disabled"}
    PROVE  Reaches(m, Output(m, r), NextModes(m, r))
  <1> DEFINE n == NextModes(m, r)
             s == Output(m, r)
             buttons == <<<<1003, FALSE>>, <<1000, TRUE>>, <<1002, TRUE>>, <<1006, TRUE>>>>
             motion == <<<<1000, TRUE>>, <<1002, TRUE>>, <<1003, TRUE>>, <<1006, TRUE>>>>
             none == <<>>
  <1>1. n.screen = m.screen /\ n.cursor = m.cursor /\ n.paste = m.paste /\ n.mouse = r.to
    BY DEF NextModes, TrackedModes
  <1>2. m.mouse \in {"disabled", "buttons", "motion"}
    BY DEF TrackedModes
  <1>3. s = MouseOutput(m, r.to)
    BY DEF Output
  <1>4. s = IF m.mouse = r.to THEN none
            ELSE CASE r.to = "disabled" -> MouseDisable
                   [] r.to = "buttons" -> buttons
                   [] r.to = "motion" -> motion
    BY <1>3 DEF MouseOutput
  <1>5. buttons \in Seq(Items) /\ On(buttons) = {1000, 1002, 1006} /\ Off(buttons) = {1003}
    BY OutputOfButtons
  <1>6. motion \in Seq(Items) /\ On(motion) = {1000, 1002, 1003, 1006} /\ Off(motion) = {}
    BY OutputOfMotion
  <1>7. none \in Seq(Items) /\ On(none) = {} /\ Off(none) = {}
    BY OutputOfData
  <1> HIDE DEF n, s, buttons, motion, none
  <1>8. CASE m.mouse = r.to
    <2>1. s = none
      BY <1>4, <1>8
    <2> QED
      BY <1>1, <1>7, <1>8, <2>1 DEF Reaches, Consistent, Written, Expected, n, s
  <1>9. CASE m.mouse # r.to /\ r.to = "disabled"
    <2>1. s = MouseDisable
      BY <1>4, <1>9
    <2>2. s \in Seq(Items) /\ On(s) = {} /\ Off(s) = {1000, 1002, 1003, 1006}
      BY <2>1, OutputOfMouseDisable
    <2> QED
      BY <1>1, <1>2, <1>9, <2>2 DEF Reaches, Consistent, Written, Expected, n, s
  <1>10. CASE m.mouse # r.to /\ r.to = "buttons"
    <2>1. s = buttons
      BY <1>4, <1>10
    <2> QED
      BY <1>1, <1>2, <1>5, <1>10, <2>1 DEF Reaches, Consistent, Written, Expected, n, s
  <1>11. CASE m.mouse # r.to /\ r.to = "motion"
    <2>1. s = motion
      BY <1>4, <1>11
    <2> QED
      BY <1>1, <1>2, <1>6, <1>11, <2>1 DEF Reaches, Consistent, Written, Expected, n, s
  <1> QED
    BY <1>8, <1>9, <1>10, <1>11

(* reset turns off what was turned on, in one sequence of up to five pieces; *)
(* it relies on mouseWasEnabled for the mouse.                               *)
LEMMA ResetReaches ==
    ASSUME NEW m \in TrackedModes, m.mouse # "disabled" => m.mouseWasEnabled
    PROVE  Reaches(m, ResetOutput(m), InitialModes)
  <1> DEFINE a == IF m.cursor THEN <<>> ELSE <<<<25, TRUE>>>>
             d == <<Data>>
             b == IF m.mouseWasEnabled THEN MouseDisable ELSE <<>>
             p == IF m.paste THEN <<<<2004, FALSE>>>> ELSE <<>>
             c == IF m.screen = "main" THEN <<>> ELSE <<<<1049, FALSE>>>>
             ad == a \o d
             adb == ad \o b
             adbp == adb \o p
             s == adbp \o c
  <1>0. s = ResetOutput(m)
    BY DEF ResetOutput
  <1>1. /\ m.screen \in {"main", "alternate"} /\ m.cursor \in BOOLEAN /\ m.paste \in BOOLEAN
        /\ m.mouse \in {"disabled", "buttons", "motion"} /\ m.mouseWasEnabled \in BOOLEAN
    BY DEF TrackedModes
  <1>2. a \in Seq(Items) /\ On(a) = (IF m.cursor THEN {} ELSE {25}) /\ Off(a) = {}
    <2>1. CASE m.cursor
      BY <2>1, OutputOfData
    <2>2. CASE ~m.cursor
      BY <2>2, OutputOfSet DEF PrivateModes, Consistent
    <2> QED
      BY <2>1, <2>2
  <1>3. d \in Seq(Items) /\ On(d) = {} /\ Off(d) = {}
    BY OutputOfData
  <1>4. /\ b \in Seq(Items) /\ On(b) = {}
        /\ Off(b) = (IF m.mouseWasEnabled THEN {1000, 1002, 1003, 1006} ELSE {})
    <2>1. CASE m.mouseWasEnabled
      BY <2>1, OutputOfMouseDisable
    <2>2. CASE ~m.mouseWasEnabled
      BY <2>2, OutputOfData
    <2> QED
      BY <2>1, <2>2
  <1>5. p \in Seq(Items) /\ On(p) = {} /\ Off(p) = (IF m.paste THEN {2004} ELSE {})
    <2>1. CASE m.paste
      BY <2>1, OutputOfReset DEF PrivateModes, Consistent
    <2>2. CASE ~m.paste
      BY <2>2, OutputOfData
    <2> QED
      BY <2>1, <2>2
  <1>6. c \in Seq(Items) /\ On(c) = {} /\ Off(c) = (IF m.screen = "main" THEN {} ELSE {1049})
    <2>1. CASE m.screen = "main"
      BY <2>1, OutputOfData
    <2>2. CASE m.screen # "main"
      BY <2>2, OutputOfReset DEF PrivateModes, Consistent
    <2> QED
      BY <2>1, <2>2
  <1> HIDE DEF a, b, p, c, d
  <1>7. ad \in Seq(Items) /\ On(ad) = On(a) \cup On(d) /\ Off(ad) = Off(a) \cup Off(d)
    BY <1>2, <1>3, OnOffConcat
  <1> HIDE DEF ad
  <1>8. adb \in Seq(Items) /\ On(adb) = On(ad) \cup On(b) /\ Off(adb) = Off(ad) \cup Off(b)
    BY <1>4, <1>7, OnOffConcat
  <1> HIDE DEF adb
  <1>9. adbp \in Seq(Items) /\ On(adbp) = On(adb) \cup On(p) /\ Off(adbp) = Off(adb) \cup Off(p)
    BY <1>5, <1>8, OnOffConcat
  <1> HIDE DEF adbp
  <1>10. s \in Seq(Items) /\ On(s) = On(adbp) \cup On(c) /\ Off(s) = Off(adbp) \cup Off(c)
    BY <1>6, <1>9, OnOffConcat
  <1> HIDE DEF s
  <1>11. /\ On(s) = (IF m.cursor THEN {} ELSE {25})
         /\ Off(s) = (IF m.mouseWasEnabled THEN {1000, 1002, 1003, 1006} ELSE {})
                        \cup (IF m.paste THEN {2004} ELSE {})
                        \cup (IF m.screen = "main" THEN {} ELSE {1049})
    BY <1>2, <1>3, <1>4, <1>5, <1>6, <1>7, <1>8, <1>9, <1>10
  <1>12. Consistent(s)
    BY <1>10, <1>11 DEF Consistent
  <1>13. Written(Expected(m), s) = {25}
    BY <1>1, <1>11 DEF Written, Expected
  <1>14. Expected(InitialModes) = {25}
    BY DEF Expected, InitialModes
  <1> QED
    BY <1>0, <1>12, <1>13, <1>14 DEF Reaches

(* Every request, from every state the adapter can be in.                    *)
LEMMA OutputReaches ==
    ASSUME NEW m \in TrackedModes, NEW r \in Requests,
           m.mouse # "disabled" => m.mouseWasEnabled
    PROVE  Reaches(m, Output(m, r), NextModes(m, r))
  <1>1. CASE r.kind = "reset"
    <2>1. Output(m, r) = ResetOutput(m) /\ NextModes(m, r) = InitialModes
      BY <1>1 DEF Output, NextModes
    <2> QED
      BY <2>1, ResetReaches
  <1>2. CASE r.kind = "write"
    <2>1. Output(m, r) = <<Data>> /\ NextModes(m, r) = m
      BY <1>2 DEF Output, NextModes
    <2> QED
      BY <2>1, OutputOfData DEF Reaches, Written
  <1> QED
    BY <1>1, <1>2, RequestCases, ScreenReaches, CursorReaches, PasteReaches, MouseReaches

-----------------------------------------------------------------------------
(* The adapter starts with the terminal in its initial modes.                *)
LEMMA OutputInvInit == OutputInit => OutputInv
  <1> SUFFICES ASSUME OutputInit PROVE OutputInv
    OBVIOUS
  <1>1. modes \in TrackedModes /\ MouseRemembered
    BY DEF OutputInit, InitialModes, TrackedModes, MouseRemembered
  <1>2. status \in {"healthy", "poisoned"} /\ holder \in Fibers \cup {None}
    BY DEF OutputInit
  <1>3. terminal \subseteq PrivateModes /\ Agrees
    BY DEF OutputInit, InitialModes, PrivateModes, Agrees, Expected
  <1>4. Idle \in Calls
    BY OutputOfData DEF Idle, Calls, Phases
  <1>5. call \in [Fibers -> Calls] /\ \A f \in Fibers : call[f] = Idle
    BY <1>4 DEF OutputInit
  <1>6. \A f \in Fibers : call[f].phase = "idle" /\ holder # f
    BY <1>5, SessionAssumption DEF Idle, OutputInit
  <1> QED
    BY <1>1, <1>2, <1>3, <1>5, <1>6
    DEF OutputInv, OutputTypes, HolderWrites, CallsHaveRequests, RestCompletes,
        PoisonStops, OutputInit

(* A fiber that is not writing makes a call or leaves one.                   *)
LEMMA CallOfOne ==
    ASSUME OutputInv, NEW f \in Fibers, call[f].phase \in {"idle", "ok", "error"},
           NEW x \in Calls, x.phase \in {"idle", "lock"},
           x.phase = "lock" => x.request \in Requests,
           call' = [call EXCEPT ![f] = x],
           UNCHANGED <<modes, status, terminal, holder>>
    PROVE  OutputInv'
  <1> USE DEF OutputInv
  <1>1. /\ call' \in [Fibers -> Calls]
        /\ call'[f] = x
        /\ \A g \in Fibers : g # f => call'[g] = call[g]
    BY DEF OutputTypes
  <1>2. OutputTypes'
    BY <1>1 DEF OutputTypes
  <1>3. holder # f
    BY DEF HolderWrites
  <1>4. HolderWrites'
    BY <1>1, <1>3 DEF HolderWrites
  <1>5. CallsHaveRequests'
    BY <1>1 DEF CallsHaveRequests
  <1>6. RestCompletes'
    BY <1>1, <1>3 DEF RestCompletes
  <1>7. PoisonStops'
    BY <1>1 DEF PoisonStops
  <1>8. MouseRemembered' /\ Agrees'
    BY DEF MouseRemembered, Agrees
  <1> QED
    BY <1>2, <1>4, <1>5, <1>6, <1>7, <1>8

(* A fiber that gets the mutex finds the terminal in the tracked modes, so   *)
(* the transition it computes takes it to the next ones.                     *)
LEMMA OutputInvAcquire ==
    ASSUME OutputInv, NEW f \in Fibers, Acquire(f)
    PROVE  OutputInv'
  <1> USE DEF OutputInv
  <1> DEFINE items == Output(modes, call[f].request)
  <1>0. /\ call[f] \in Calls /\ call[f].phase = "lock" /\ holder = None
        /\ UNCHANGED <<modes, status, terminal>>
        /\ call[f].request \in Requests
    BY DEF Acquire, OutputTypes, CallsHaveRequests
  <1>1. Reaches(modes, items, NextModes(modes, call[f].request))
    BY <1>0, OutputReaches DEF OutputTypes, MouseRemembered
  <1>2. MouseRemembered'
    BY <1>0 DEF MouseRemembered
  <1>3. CASE UNCHANGED holder /\ \E p \in {"ok", "error"} :
                /\ p = "error" => status = "poisoned"
                /\ call' = [call EXCEPT ![f].phase = p]
    <2>1. PICK p \in {"ok", "error"} : /\ p = "error" => status = "poisoned"
                                       /\ call' = [call EXCEPT ![f].phase = p]
      BY <1>3
    <2>2. /\ call' \in [Fibers -> Calls]
          /\ call'[f].phase = p
          /\ \A g \in Fibers : g # f => call'[g] = call[g]
      BY <2>1 DEF OutputTypes, Calls, Phases
    <2>3. OutputTypes'
      BY <1>0, <1>3, <2>2 DEF OutputTypes
    <2>4. HolderWrites'
      BY <1>0, <1>3, <2>1, <2>2, SessionAssumption DEF HolderWrites
    <2>5. CallsHaveRequests'
      BY <2>1, <2>2 DEF CallsHaveRequests
    <2>6. RestCompletes'
      BY <1>0, <1>3, SessionAssumption DEF RestCompletes
    <2>7. PoisonStops'
      BY <1>0, <1>3, <2>1, <2>2 DEF PoisonStops
    <2>8. Agrees'
      BY <1>0, <1>3 DEF Agrees
    <2> QED
      BY <1>2, <2>3, <2>4, <2>5, <2>6, <2>7, <2>8
  <1>4. CASE /\ status = "healthy"
             /\ items # <<>>
             /\ call' = [call EXCEPT ![f].phase = "write", ![f].rest = items]
             /\ holder' = f
    <2> HIDE DEF items
    <2>1. Consistent(items) /\ items \in Seq(Items)
      BY <1>1 DEF Reaches, Consistent
    <2>2. Written(terminal, items) = Expected(NextModes(modes, call[f].request))
      BY <1>0, <1>1, <1>4 DEF Reaches, Agrees
    <2>3. /\ call' \in [Fibers -> Calls]
          /\ call'[f].phase = "write" /\ call'[f].rest = items
          /\ call'[f].request = call[f].request
          /\ \A g \in Fibers : g # f => call'[g] = call[g]
      BY <1>4, <2>1 DEF OutputTypes, Calls, Phases
    <2>4. OutputTypes'
      BY <1>0, <1>4, <2>3 DEF OutputTypes
    <2>5. HolderWrites'
      BY <1>0, <1>4, <2>3, SessionAssumption DEF HolderWrites
    <2>6. CallsHaveRequests'
      BY <1>0, <1>4, <2>1, <2>3 DEF CallsHaveRequests
    <2>7. RestCompletes'
      BY <1>0, <1>4, <2>2, <2>3 DEF RestCompletes
    <2>8. PoisonStops'
      BY <1>0, <1>4, <2>3 DEF PoisonStops
    <2>9. Agrees'
      BY <1>4, SessionAssumption DEF Agrees
    <2> QED
      BY <1>2, <2>4, <2>5, <2>6, <2>7, <2>8, <2>9
  <1> QED
    BY <1>3, <1>4 DEF Acquire

(* The terminal's modes stay the ones the adapter knows.                     *)
LEMMA ReceivedIsPrivate ==
    ASSUME NEW x \in Items, terminal \subseteq PrivateModes
    PROVE  Received(x) \subseteq PrivateModes
  BY DEF Received, Items

(* The last item is the one with nothing after it.                           *)
LEMMA LastItem ==
    ASSUME NEW s \in Seq(Items), s # <<>>
    PROVE  Tail(s) \in Seq(Items) /\ (Len(s) = 1 <=> Tail(s) = <<>>)
  <1>1. /\ Tail(s) \in Seq(Items) /\ Len(Tail(s)) = Len(s) - 1 /\ Len(s) \in Nat
    BY HeadTailProperties, LenProperties
  <1>2. Tail(s) = <<>> <=> Len(Tail(s)) = 0
    BY <1>1, EmptySeq
  <1> QED
    BY <1>1, <1>2

(* An item is accepted: the transition is committed with its last.           *)
LEMMA OutputInvAccepts ==
    ASSUME OutputInv, NEW f \in Fibers, SinkAccepts(f)
    PROVE  OutputInv'
  <1> USE DEF OutputInv
  <1> DEFINE rest == call[f].rest
             after == NextModes(modes, call[f].request)
  <1>1. /\ call[f] \in Calls /\ call[f].phase = "write" /\ holder = f
        /\ call[f].request \in Requests
        /\ rest # <<>> /\ rest \in Seq(Items) /\ Consistent(rest)
        /\ status = "healthy" /\ UNCHANGED status /\ terminal' = Received(Head(rest))
    BY SessionAssumption
    DEF SinkAccepts, OutputTypes, Calls, HolderWrites, CallsHaveRequests, PoisonStops
  <1>2. Consistent(Tail(rest)) /\ Written(terminal', Tail(rest)) = Expected(after)
    BY <1>1, ReceiveRest DEF RestCompletes
  <1>3. terminal' \subseteq PrivateModes
    <2>1. Head(rest) \in Items
      BY <1>1
    <2> QED
      BY <1>1, <2>1, ReceivedIsPrivate DEF OutputTypes
  <1>4. CASE Len(rest) = 1
    <2>1. /\ call' = [call EXCEPT ![f].phase = "ok", ![f].rest = <<>>]
          /\ modes' = after /\ holder' = None
      BY <1>4 DEF SinkAccepts
    <2>2. after \in TrackedModes /\ (after.mouse # "disabled" => after.mouseWasEnabled)
      BY <1>1, NextModesTracked DEF OutputTypes, MouseRemembered
    <2>3. terminal' = Expected(after)
      <3>1. Tail(rest) = <<>>
        BY <1>1, <1>4, LastItem
      <3>2. On(Tail(rest)) = {} /\ Off(Tail(rest)) = {}
        BY <3>1, OutputOfData
      <3> QED
        BY <1>2, <3>2 DEF Written
    <2> HIDE DEF after
    <2>4. /\ call' \in [Fibers -> Calls]
          /\ call'[f].phase = "ok"
          /\ \A g \in Fibers : g # f => call'[g] = call[g]
      BY <2>1, OutputOfData DEF OutputTypes, Calls, Phases
    <2>5. OutputTypes'
      BY <1>1, <1>3, <2>1, <2>2, <2>4 DEF OutputTypes
    <2>6. HolderWrites'
      BY <1>1, <2>1, <2>4, SessionAssumption DEF HolderWrites
    <2>7. CallsHaveRequests'
      BY <2>4 DEF CallsHaveRequests
    <2>8. RestCompletes'
      BY <2>1, SessionAssumption DEF RestCompletes
    <2>9. PoisonStops'
      BY <1>1, <2>1, <2>4 DEF PoisonStops
    <2>10. Agrees' /\ MouseRemembered'
      BY <2>1, <2>2, <2>3 DEF Agrees, MouseRemembered
    <2> QED
      BY <2>5, <2>6, <2>7, <2>8, <2>9, <2>10
  <1>5. CASE Len(rest) # 1
    <2>1. /\ call' = [call EXCEPT ![f].rest = Tail(@)]
          /\ UNCHANGED <<modes, holder>>
      BY <1>5 DEF SinkAccepts
    <2>2. Tail(rest) # <<>> /\ Tail(rest) \in Seq(Items)
      BY <1>1, <1>5, LastItem
    <2>3. /\ call' \in [Fibers -> Calls]
          /\ call'[f].phase = "write" /\ call'[f].rest = Tail(rest)
          /\ call'[f].request = call[f].request
          /\ \A g \in Fibers : g # f => call'[g] = call[g]
      BY <1>1, <2>1, <2>2 DEF OutputTypes, Calls, Phases
    <2>4. OutputTypes'
      BY <1>1, <1>3, <2>1, <2>3 DEF OutputTypes
    <2>5. HolderWrites'
      BY <1>1, <2>1, <2>3 DEF HolderWrites
    <2>6. CallsHaveRequests'
      BY <1>1, <1>2, <2>2, <2>3 DEF CallsHaveRequests
    <2>7. RestCompletes'
      BY <1>1, <1>2, <2>1, <2>3 DEF RestCompletes
    <2>8. PoisonStops'
      BY <1>1, <2>1, <2>3 DEF PoisonStops
    <2>9. Agrees' /\ MouseRemembered'
      BY <1>1, <2>1, SessionAssumption DEF Agrees, MouseRemembered
    <2> QED
      BY <2>4, <2>5, <2>6, <2>7, <2>8, <2>9
  <1> QED
    BY <1>4, <1>5

(* An item fails: the adapter is poisoned and nothing is claimed of the      *)
(* terminal any more.                                                        *)
LEMMA OutputInvFails ==
    ASSUME OutputInv, NEW f \in Fibers, SinkFails(f)
    PROVE  OutputInv'
  <1> USE DEF OutputInv
  <1>1. /\ call[f] \in Calls /\ call[f].phase = "write" /\ holder = f
        /\ call[f].rest # <<>> /\ call[f].rest \in Seq(Items)
        /\ status' = "poisoned" /\ holder' = None /\ UNCHANGED modes
        /\ call' = [call EXCEPT ![f].phase = "error", ![f].rest = <<>>]
    BY DEF SinkFails, OutputTypes, Calls, HolderWrites, CallsHaveRequests
  <1>2. terminal' \subseteq PrivateModes
    <2>1. Head(call[f].rest) \in Items
      BY <1>1
    <2>2. Received(Head(call[f].rest)) \subseteq PrivateModes
      BY <2>1, ReceivedIsPrivate DEF OutputTypes
    <2> QED
      BY <2>2 DEF OutputTypes, SinkFails
  <1>3. /\ call' \in [Fibers -> Calls]
        /\ call'[f].phase = "error"
        /\ \A g \in Fibers : g # f => call'[g] = call[g]
    BY <1>1, OutputOfData DEF OutputTypes, Calls, Phases
  <1>4. OutputTypes'
    BY <1>1, <1>2, <1>3 DEF OutputTypes
  <1>5. HolderWrites'
    BY <1>1, <1>3, SessionAssumption DEF HolderWrites
  <1>6. CallsHaveRequests'
    BY <1>3 DEF CallsHaveRequests
  <1>7. RestCompletes'
    BY <1>1, SessionAssumption DEF RestCompletes
  <1>8. PoisonStops' /\ Agrees' /\ MouseRemembered'
    BY <1>1 DEF PoisonStops, Agrees, MouseRemembered
  <1> QED
    BY <1>4, <1>5, <1>6, <1>7, <1>8

-----------------------------------------------------------------------------
(* The call a fiber makes and the call it leaves.                            *)
LEMMA AsksIsCall ==
    ASSUME NEW r \in Requests
    PROVE  LET x == [request |-> r, phase |-> "lock", rest |-> <<>>]
           IN  x \in Calls /\ x.phase = "lock" /\ x.request = r
  BY OutputOfData DEF Calls, Phases

(* The call record of a fiber outside any call.                              *)
LEMMA IdleIsCall == Idle \in Calls /\ Idle.phase = "idle"
  BY OutputOfData DEF Idle, Calls, Phases

(* A call of the output.                                                     *)
LEMMA OutputInvAsks ==
    ASSUME OutputInv, NEW f \in Fibers, call[f].phase \in {"idle", "ok", "error"},
           NEW r \in Requests, Asks(f, r),
           UNCHANGED <<modes, status, terminal, holder>>
    PROVE  /\ OutputInv'
           /\ call'[f].phase = "lock"
           /\ \A g \in Fibers : g # f => call'[g] = call[g]
  <1> DEFINE x == [request |-> r, phase |-> "lock", rest |-> <<>>]
  <1>1. x \in Calls /\ x.phase = "lock" /\ x.request = r
    BY AsksIsCall
  <1>2. call' = [call EXCEPT ![f] = x]
    BY DEF Asks
  <1> HIDE DEF x
  <1>3. OutputInv'
    BY <1>1, <1>2, CallOfOne
  <1>4. call \in [Fibers -> Calls]
    BY DEF OutputInv, OutputTypes
  <1> QED
    BY <1>1, <1>2, <1>3, <1>4

(* A return from the output.                                                 *)
LEMMA OutputInvReturns ==
    ASSUME OutputInv, NEW f \in Fibers, call[f].phase \in {"ok", "error"},
           call' = [call EXCEPT ![f] = Idle],
           UNCHANGED <<modes, status, terminal, holder>>
    PROVE  /\ OutputInv'
           /\ call'[f].phase = "idle"
           /\ \A g \in Fibers : g # f => call'[g] = call[g]
  <1>1. OutputInv'
    BY IdleIsCall, CallOfOne
  <1>2. call \in [Fibers -> Calls]
    BY DEF OutputInv, OutputTypes
  <1> QED
    BY <1>1, <1>2, IdleIsCall

(* A step that leaves the output alone.                                      *)
LEMMA OutputInvKept ==
    ASSUME OutputInv, UNCHANGED outputVars
    PROVE  OutputInv'
  BY DEF OutputInv, outputVars, OutputTypes, HolderWrites, CallsHaveRequests, RestCompletes,
         MouseRemembered, PoisonStops, Agrees

-----------------------------------------------------------------------------
(* A writer's call concerns the output only.                                 *)
LEMMA SessionInvWriterCalls ==
    ASSUME SessionInv, NEW f \in Fibers, WriterCalls(f)
    PROVE  SessionInv'
  <1>1. PICK r \in Requests : Asks(f, r)
    BY SessionAssumption DEF WriterCalls, Requests
  <1>2. /\ f # Owner /\ call[f].phase = "idle"
        /\ UNCHANGED <<modes, status, terminal, holder, sessionVars>>
    BY DEF WriterCalls
  <1>3. OutputInv' /\ call'[Owner] = call[Owner]
    BY <1>1, <1>2, OutputInvAsks, SessionAssumption DEF SessionInv
  <1>4. OwnerInv'
    BY <1>2, <1>3
    DEF SessionInv, OwnerInv, OwnerTypes, OwnerInCall, RestoreProgress,
        RestoredIsCooked, sessionVars
  <1> QED
    BY <1>3, <1>4 DEF SessionInv

(* So does its return.                                                       *)
LEMMA SessionInvWriterReturns ==
    ASSUME SessionInv, NEW f \in Fibers, WriterReturns(f)
    PROVE  SessionInv'
  <1>1. /\ f # Owner /\ call[f].phase \in {"ok", "error"}
        /\ call' = [call EXCEPT ![f] = Idle]
        /\ UNCHANGED <<modes, status, terminal, holder, sessionVars>>
    BY DEF WriterReturns
  <1>2. OutputInv' /\ call'[Owner] = call[Owner]
    BY <1>1, OutputInvReturns, SessionAssumption DEF SessionInv
  <1>3. OwnerInv'
    BY <1>1, <1>2
    DEF SessionInv, OwnerInv, OwnerTypes, OwnerInCall, RestoreProgress,
        RestoredIsCooked, sessionVars
  <1> QED
    BY <1>2, <1>3 DEF SessionInv

(* The adapter, once poisoned, stays so, fails every call, and sends nothing.*)
LEMMA PoisonedRuns ==
    ASSUME OutputInv, NEW f \in Fibers, OutputStep(f), status = "poisoned"
    PROVE  /\ UNCHANGED <<status, terminal>>
           /\ call' = [call EXCEPT ![f].phase = "error"]
  <1>1. call[f].phase # "write"
    BY SessionAssumption DEF OutputInv, PoisonStops, HolderWrites
  <1>2. Acquire(f)
    BY <1>1 DEF OutputStep, SinkAccepts, SinkFails
  <1> QED
    BY <1>2 DEF Acquire

(* The output runs: the owner stays in its call, and a restore that cannot   *)
(* succeed any more (RestoreProgress) is not answered ok.                    *)
LEMMA SessionInvOutputRuns ==
    ASSUME SessionInv, NEW f \in Fibers, OutputRuns(f)
    PROVE  SessionInv'
  <1>1. OutputInv' /\ OutputStep(f) /\ UNCHANGED sessionVars
    BY OutputInvAcquire, OutputInvAccepts, OutputInvFails DEF OutputRuns, OutputStep, SessionInv
  <1>2. OwnerInCall'
    <2>1. call \in [Fibers -> Calls] /\ \A g \in Fibers : call[g] \in Calls
      BY DEF SessionInv, OutputInv, OutputTypes
    <2>2. call[f].phase # "idle" /\ call'[f].phase # "idle"
      BY <1>1, <2>1 DEF OutputStep, Acquire, SinkAccepts, SinkFails, Calls
    <2>3. \A g \in Fibers : g # f => call'[g] = call[g]
      BY <1>1, <2>1 DEF OutputStep, Acquire, SinkAccepts, SinkFails
    <2> QED
      BY <1>1, <2>2, <2>3, SessionAssumption DEF SessionInv, OwnerInv, OwnerInCall, sessionVars
  <1>3. RestoreProgress'
    <2>1. CASE status = "poisoned"
      <3>1. UNCHANGED status /\ call' = [call EXCEPT ![f].phase = "error"]
        BY <1>1, <2>1, PoisonedRuns DEF SessionInv
      <3>2. call \in [Fibers -> Calls]
        BY DEF SessionInv, OutputInv, OutputTypes
      <3>3. call'[Owner].phase = "ok" => call[Owner].phase = "ok"
        BY <3>1, <3>2, SessionAssumption DEF Calls
      <3> QED
        BY <1>1, <3>1, <3>3 DEF SessionInv, OwnerInv, RestoreProgress, sessionVars
    <2>2. CASE status # "poisoned"
      BY <1>1, <2>2 DEF SessionInv, OwnerInv, RestoreProgress, sessionVars
    <2> QED
      BY <2>1, <2>2
  <1>4. OwnerTypes' /\ RestoredIsCooked'
    BY <1>1 DEF SessionInv, OwnerInv, OwnerTypes, RestoredIsCooked, sessionVars
  <1> QED
    BY <1>1, <1>2, <1>3, <1>4 DEF SessionInv, OwnerInv

(* enter.                                                                    *)
LEMMA SessionInvEnter ==
    ASSUME SessionInv, Enter
    PROVE  SessionInv'
  <1>1. OutputInv'
    BY OutputInvKept DEF Enter, SessionInv
  <1>2. /\ doing.op = "none" /\ session.lifecycle = "ready"
        /\ session' = [session EXCEPT !.lifecycle = "entered"]
        /\ tty' = "raw" /\ UNCHANGED <<status, call, doing>>
    BY DEF Enter, OwnerFree, outputVars
  <1>3. OwnerTypes'
    BY <1>2 DEF SessionInv, OwnerInv, OwnerTypes
  <1>4. OwnerInCall' /\ RestoreProgress' /\ RestoredIsCooked'
    BY <1>2 DEF SessionInv, OwnerInv, OwnerTypes, OwnerInCall, RestoreProgress, RestoredIsCooked
  <1> QED
    BY <1>1, <1>3, <1>4 DEF SessionInv, OwnerInv

(* The owner starts or continues an operation that calls the output.         *)
LEMMA SessionInvOwnerAsks ==
    ASSUME SessionInv, call[Owner].phase \in {"idle", "ok"},
           NEW r \in Requests, Asks(Owner, r),
           NEW op \in {"setup", "paste", "query", "restore"},
           NEW arg, doing' = [op |-> op, arg |-> arg],
           arg \in Queries \cup BOOLEAN \cup {None},
           op = "setup" => arg \in BOOLEAN, op = "query" => arg \in Queries,
           UNCHANGED <<modes, status, terminal, holder, session, tty>>
    PROVE  SessionInv'
  <1>1. OutputInv' /\ call'[Owner].phase = "lock"
    BY OutputInvAsks, SessionAssumption DEF SessionInv
  <1>2. OwnerTypes'
    BY DEF SessionInv, OwnerInv, OwnerTypes
  <1>3. OwnerInCall' /\ RestoreProgress' /\ RestoredIsCooked'
    BY <1>1 DEF SessionInv, OwnerInv, OwnerInCall, RestoreProgress, RestoredIsCooked
  <1> QED
    BY <1>1, <1>2, <1>3 DEF SessionInv, OwnerInv

(* What the session asks of the output are requests.                         *)
LEMMA RequestsMade ==
    /\ \A screen \in {"main", "alternate"} : Request("screen", screen) \in Requests
    /\ \A paste \in BOOLEAN : Request("paste", paste) \in Requests
    /\ Request("reset", "initial") \in Requests
    /\ Write \in Requests
  BY DEF Requests, ModeRequests

(* setup_output with its second write, schedule_query, restore.              *)
LEMMA SessionInvStarts ==
    ASSUME SessionInv, SetupOutput \/ SetupContinues \/ ScheduleQuery \/ Restore
    PROVE  SessionInv'
  <1>0. /\ OwnerFree => call[Owner].phase = "idle"
        /\ doing.op = "setup" => doing.arg \in BOOLEAN
    BY DEF OwnerFree, SessionInv, OwnerInv, OwnerInCall
  <1>1. CASE SetupOutput
    <2>1. PICK screen \in {"main", "alternate"}, paste \in BOOLEAN :
            /\ doing' = [op |-> "setup", arg |-> paste]
            /\ Asks(Owner, Request("screen", screen))
      BY <1>1 DEF SetupOutput
    <2>2. Request("screen", screen) \in Requests
      BY RequestsMade
    <2> QED
      BY <1>0, <1>1, <2>1, <2>2, SessionInvOwnerAsks DEF SetupOutput
  <1>2. CASE SetupContinues
    <2>1. Request("paste", doing.arg) \in Requests
      BY <1>0, <1>2, RequestsMade DEF SetupContinues
    <2> QED
      BY <1>0, <1>2, <2>1, SessionInvOwnerAsks DEF SetupContinues
  <1>3. CASE ScheduleQuery
    <2>1. PICK q \in Queries : doing' = [op |-> "query", arg |-> q]
      BY <1>3 DEF ScheduleQuery
    <2> QED
      BY <1>0, <1>3, <2>1, RequestsMade, SessionInvOwnerAsks DEF ScheduleQuery
  <1>4. CASE Restore
    BY <1>0, <1>4, RequestsMade, SessionInvOwnerAsks DEF Restore
  <1> QED
    BY <1>1, <1>2, <1>3, <1>4

(* setup_output and schedule_query return.                                   *)
LEMMA SessionInvReturns ==
    ASSUME SessionInv, SetupReturns \/ QueryReturns
    PROVE  SessionInv'
  <1>1. /\ call[Owner].phase \in {"ok", "error"}
        /\ call' = [call EXCEPT ![Owner] = Idle]
        /\ doing' = NotDoing
        /\ UNCHANGED <<modes, status, terminal, holder, tty>>
    BY DEF SetupReturns, QueryReturns
  <1>2. OutputInv' /\ call'[Owner].phase = "idle"
    BY <1>1, OutputInvReturns, SessionAssumption DEF SessionInv
  <1>3. /\ session' \in [lifecycle : {"ready", "entered", "restored"},
                         outputRestored : BOOLEAN, terminalRestored : BOOLEAN,
                         queries : SUBSET Queries]
        /\ session'.lifecycle = session.lifecycle
        /\ session'.outputRestored = session.outputRestored
        /\ session'.terminalRestored = session.terminalRestored
    BY DEF SetupReturns, QueryReturns, SessionInv, OwnerInv, OwnerTypes, OwnerInCall
  <1>4. OwnerTypes'
    BY <1>1, <1>3 DEF SessionInv, OwnerInv, OwnerTypes, NotDoing
  <1>5. OwnerInCall' /\ RestoreProgress' /\ RestoredIsCooked'
    BY <1>1, <1>2, <1>3
    DEF SessionInv, OwnerInv, OwnerInCall, RestoreProgress, RestoredIsCooked, NotDoing
  <1> QED
    BY <1>2, <1>4, <1>5 DEF SessionInv, OwnerInv

(* A query is acknowledged.                                                  *)
LEMMA SessionInvAcknowledge ==
    ASSUME SessionInv, AcknowledgeQuery
    PROVE  SessionInv'
  <1>1. OutputInv'
    BY OutputInvKept DEF AcknowledgeQuery, SessionInv
  <1>2. PICK q \in session.queries : session' = [session EXCEPT !.queries = @ \ {q}]
    BY DEF AcknowledgeQuery
  <1>3. UNCHANGED <<status, call, tty, doing>>
    BY DEF AcknowledgeQuery, outputVars
  <1>4. OwnerTypes'
    BY <1>2, <1>3 DEF SessionInv, OwnerInv, OwnerTypes
  <1>5. OwnerInCall' /\ RestoreProgress' /\ RestoredIsCooked'
    BY <1>2, <1>3
    DEF SessionInv, OwnerInv, OwnerTypes, OwnerInCall, RestoreProgress, RestoredIsCooked
  <1> QED
    BY <1>1, <1>4, <1>5 DEF SessionInv, OwnerInv

(* What the rest of restore leaves, with its output reset or not.            *)
LEMMA RestoreLeaves ==
    ASSUME OwnerInv, NEW outputRestored \in BOOLEAN, NEW setattr \in BOOLEAN,
           session' = Restored(outputRestored, setattr),
           tty' = IF session.lifecycle = "entered" /\ ~session.terminalRestored /\ setattr
                  THEN "original" ELSE tty
    PROVE  /\ session' \in [lifecycle : {"ready", "entered", "restored"},
                           outputRestored : BOOLEAN, terminalRestored : BOOLEAN,
                           queries : SUBSET Queries]
           /\ tty' \in {"original", "raw"}
           /\ session'.outputRestored = outputRestored
           /\ session'.terminalRestored <=>
                session.lifecycle = "ready" \/ session.terminalRestored \/ setattr
           /\ session'.lifecycle = IF outputRestored /\ session'.terminalRestored
                                  THEN "restored" ELSE session.lifecycle
  <1>1. session \in [lifecycle : {"ready", "entered", "restored"},
                     outputRestored : BOOLEAN, terminalRestored : BOOLEAN,
                     queries : SUBSET Queries] /\ tty \in {"original", "raw"}
    BY DEF OwnerInv, OwnerTypes
  <1> QED
    BY <1>1 DEF Restored

(* restore returns: an output that was reset was not poisoned, so attributes *)
(* that count as restored really are.                                        *)
LEMMA SessionInvRestoreReturns ==
    ASSUME SessionInv, RestoreReturns
    PROVE  SessionInv'
  <1>1. /\ doing.op = "restore" /\ call[Owner].phase \in {"ok", "error"}
        /\ call' = [call EXCEPT ![Owner] = Idle]
        /\ doing' = NotDoing
        /\ UNCHANGED <<modes, status, terminal, holder>>
    BY DEF RestoreReturns
  <1>2. OutputInv' /\ call'[Owner].phase = "idle"
    BY <1>1, OutputInvReturns, SessionAssumption DEF SessionInv
  <1> DEFINE ok == call[Owner].phase = "ok"
  <1>3. PICK setattr \in BOOLEAN :
            /\ session' = Restored(ok, setattr)
            /\ tty' = IF session.lifecycle = "entered" /\ ~session.terminalRestored /\ setattr
                      THEN "original" ELSE tty
    BY DEF RestoreReturns, RestoreTerminal
  <1>4. ~ok => status = "poisoned"
    BY <1>1, SessionAssumption DEF SessionInv, OutputInv, PoisonStops
  <1>5. /\ session' \in [lifecycle : {"ready", "entered", "restored"},
                         outputRestored : BOOLEAN, terminalRestored : BOOLEAN,
                         queries : SUBSET Queries]
        /\ tty' \in {"original", "raw"}
        /\ session'.outputRestored <=> ok
        /\ session'.terminalRestored <=>
             session.lifecycle = "ready" \/ session.terminalRestored \/ setattr
        /\ session'.lifecycle = IF ok /\ session'.terminalRestored
                               THEN "restored" ELSE session.lifecycle
    BY <1>3, RestoreLeaves DEF SessionInv
  <1>6. OwnerTypes'
    BY <1>1, <1>5 DEF SessionInv, OwnerInv, OwnerTypes, NotDoing
  <1>7. OwnerInCall'
    BY <1>1, <1>2 DEF OwnerInCall, NotDoing
  <1>8. RestoreProgress'
    BY <1>1, <1>3, <1>4, <1>5
    DEF SessionInv, OwnerInv, OwnerTypes, RestoreProgress, RestoredIsCooked, NotDoing
  <1>9. RestoredIsCooked'
    BY <1>1, <1>3, <1>5 DEF SessionInv, OwnerInv, OwnerTypes, RestoreProgress, RestoredIsCooked
  <1> QED
    BY <1>2, <1>6, <1>7, <1>8, <1>9 DEF SessionInv, OwnerInv

(* A second restore after setattr failed: the output was reset, so the       *)
(* attributes that count as restored really are.                             *)
LEMMA SessionInvRestoreRetries ==
    ASSUME SessionInv, RestoreRetries
    PROVE  SessionInv'
  <1>1. /\ doing.op = "none" /\ session.lifecycle # "restored" /\ session.outputRestored
        /\ UNCHANGED <<status, call, doing>>
    BY DEF RestoreRetries, OwnerFree, outputVars
  <1>2. OutputInv'
    BY OutputInvKept DEF RestoreRetries, SessionInv
  <1>3. PICK setattr \in BOOLEAN :
            /\ session' = Restored(TRUE, setattr)
            /\ tty' = IF session.lifecycle = "entered" /\ ~session.terminalRestored /\ setattr
                      THEN "original" ELSE tty
    BY DEF RestoreRetries, RestoreTerminal
  <1>5. /\ session' \in [lifecycle : {"ready", "entered", "restored"},
                         outputRestored : BOOLEAN, terminalRestored : BOOLEAN,
                         queries : SUBSET Queries]
        /\ tty' \in {"original", "raw"}
        /\ session'.outputRestored
        /\ session'.terminalRestored <=>
             session.lifecycle = "ready" \/ session.terminalRestored \/ setattr
        /\ session'.lifecycle = IF session'.terminalRestored
                               THEN "restored" ELSE session.lifecycle
    BY <1>3, RestoreLeaves DEF SessionInv
  <1>6. OwnerTypes'
    BY <1>1, <1>5 DEF SessionInv, OwnerInv, OwnerTypes
  <1>7. OwnerInCall'
    BY <1>1 DEF SessionInv, OwnerInv, OwnerInCall
  <1>8. RestoreProgress'
    BY <1>1, <1>3, <1>5
    DEF SessionInv, OwnerInv, OwnerTypes, RestoreProgress, RestoredIsCooked
  <1>9. RestoredIsCooked'
    BY <1>1, <1>3, <1>5 DEF SessionInv, OwnerInv, OwnerTypes, RestoreProgress, RestoredIsCooked
  <1> QED
    BY <1>2, <1>6, <1>7, <1>8, <1>9 DEF SessionInv, OwnerInv

-----------------------------------------------------------------------------
(* The initial state.                                                        *)
LEMMA SessionInvInit == SessionInit => SessionInv
  <1> SUFFICES ASSUME SessionInit PROVE SessionInv
    OBVIOUS
  <1>1. OutputInv
    BY OutputInvInit DEF SessionInit
  <1>2. call[Owner].phase = "idle"
    BY SessionAssumption DEF SessionInit, OutputInit, Idle
  <1>3. OwnerTypes
    BY DEF SessionInit, OwnerTypes, NotDoing
  <1>4. OwnerInCall /\ RestoreProgress /\ RestoredIsCooked
    BY <1>2 DEF SessionInit, OwnerInCall, RestoreProgress, RestoredIsCooked, NotDoing
  <1> QED
    BY <1>1, <1>3, <1>4 DEF SessionInv, OwnerInv

(* Every step keeps the invariant.                                           *)
LEMMA SessionInvNext == SessionInv /\ [SessionNext]_terminalVars => SessionInv'
  <1> SUFFICES ASSUME SessionInv, [SessionNext]_terminalVars PROVE SessionInv'
    OBVIOUS
  <1>1. CASE UNCHANGED terminalVars
    <2>1. OutputInv'
      BY <1>1, OutputInvKept DEF terminalVars, SessionInv
    <2>2. OwnerInv'
      BY <1>1 DEF terminalVars, sessionVars, outputVars, SessionInv, OwnerInv, OwnerTypes,
                  OwnerInCall, RestoreProgress, RestoredIsCooked
    <2> QED
      BY <2>1, <2>2 DEF SessionInv
  <1>2. CASE \E f \in Fibers : WriterCalls(f) \/ WriterReturns(f) \/ OutputRuns(f)
    BY <1>2, SessionInvWriterCalls, SessionInvWriterReturns, SessionInvOutputRuns
  <1>3. CASE SetupOutput \/ SetupContinues \/ ScheduleQuery \/ Restore
    BY <1>3, SessionInvStarts
  <1>4. CASE SetupReturns \/ QueryReturns
    BY <1>4, SessionInvReturns
  <1> QED
    BY <1>1, <1>2, <1>3, <1>4, SessionInvEnter, SessionInvAcknowledge,
       SessionInvRestoreReturns, SessionInvRestoreRetries DEF SessionNext

(* The invariant holds in every state of every behaviour.                    *)
THEOREM SessionKeepsInv == SessionSpec => []SessionInv
  BY SessionInvInit, SessionInvNext, PTL DEF SessionSpec

(* ModesAgree for any number of fibers and any requests: whenever no write   *)
(* is under way and none has failed, the terminal is in exactly the modes    *)
(* Output_flow tracks, so the difference the next transition writes is the   *)
(* right one.                                                                *)
THEOREM TrackedModesAgree == SessionSpec => []ModesAgree
  <1>1. SessionInv => ModesAgree
    <2> SUFFICES ASSUME SessionInv PROVE ModesAgree
      OBVIOUS
    <2>1. /\ \A f \in Fibers : call[f] \in Calls
          /\ modes \in TrackedModes /\ status \in {"healthy", "poisoned"}
          /\ terminal \subseteq PrivateModes /\ holder \in Fibers \cup {None}
      BY DEF SessionInv, OutputInv, OutputTypes
    <2>2. \A f \in Fibers :
             /\ call[f].request \in ModeRequests \cup {Write, None}
             /\ call[f].phase \in Phases
             /\ call[f].phase = "write" <=> holder = f
      BY <2>1 DEF SessionInv, OutputInv, HolderWrites, Calls, Requests
    <2>3. SessionTypeOK
      BY <2>1, <2>2
      DEF SessionTypeOK, SessionInv, OwnerInv, OwnerTypes, TrackedModes, PrivateModes
    <2> QED
      BY <2>3 DEF ModesAgree, SessionInv, OutputInv, Agrees
  <1> QED
    BY <1>1, SessionKeepsInv, PTL

(* RestoredIsCooked: a session that counts as restored has the original line *)
(* discipline back, whatever restores failed before and in whatever order.   *)
THEOREM RestoredSessionIsCooked == SessionSpec => []RestoredIsCooked
  <1>1. SessionInv => RestoredIsCooked
    BY DEF SessionInv, OwnerInv
  <1> QED
    BY <1>1, SessionKeepsInv, PTL

(* PoisonIsFinal: after a failed write no fiber, not even one that was       *)
(* already waiting for the mutex, sends anything more to the terminal.       *)
THEOREM PoisonedStaysSilent == SessionSpec => PoisonIsFinal
  <1>1. SessionInv /\ [SessionNext]_terminalVars =>
          [status = "poisoned" => status' = "poisoned" /\ terminal' = terminal]_terminalVars
    <2> SUFFICES ASSUME SessionInv, SessionNext, status = "poisoned"
                 PROVE  status' = "poisoned" /\ terminal' = terminal
      OBVIOUS
    <2>1. CASE \E f \in Fibers : OutputRuns(f)
      BY <2>1, PoisonedRuns DEF OutputRuns, SessionInv
    <2>2. CASE ~\E f \in Fibers : OutputRuns(f)
      BY <2>2 DEF SessionNext, WriterCalls, WriterReturns, Enter, SetupOutput, SetupContinues,
                  SetupReturns, ScheduleQuery, QueryReturns, AcknowledgeQuery, Restore,
                  RestoreReturns, RestoreRetries, outputVars
    <2> QED
      BY <2>1, <2>2
  <1> QED
    BY <1>1, SessionKeepsInv, PTL DEF SessionSpec, PoisonIsFinal

=============================================================================
