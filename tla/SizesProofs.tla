---------------------------- MODULE SizesProofs -----------------------------
(***************************************************************************)
(* Proofs about the sizes of windows, for any windows, sizes and clients.  *)
(*                                                                         *)
(* WindowSizes: the state keeps its type, no commit is lost, and it        *)
(* implements AtomicResize: windows are resized together.  None of the     *)
(* three is inductive by itself.  A window is told its target by the       *)
(* initial configure, so the type needs that a live window has one         *)
(* (HasTarget).  For the refinement a window that is gone must have        *)
(* nothing to see (Empty); and a frame applies what is staged at once if   *)
(* there is no deadline, so there has to be one whenever a live window is  *)
(* being resized (Timed).                                                  *)
(*                                                                         *)
(* Layers: the space that is reserved at an edge is that of a surface      *)
(* which is there, and a surface that never had to share its edge has its  *)
(* zone reserved.  What is on screen fits what is left (FitInv); that the  *)
(* hidden layers of each view fit too, and the fullscreen window, is what  *)
(* makes it inductive: a switch of the view resizes nothing by itself.     *)
(***************************************************************************)
EXTENDS WindowSizes, Layers, TLAPS, SequenceTheorems

----------------------------------------------------------------------------
(* WindowSizes. *)

HasTarget(r) == Alive(r) => Target(r) \in Sizes

Kept(r) == r.texture # r.drawn => r.dirty

\* A window that is gone, or not there yet, has no size and no picture.
Empty(r) == ~Alive(r) => r.size = NoSize /\ r.texture = NoSize /\ r.staged = NoSize

Sound(r) ==
    r \in Window /\ Len(r.sent) <= MaxSent /\ HasTarget(r) /\ Kept(r) /\ Empty(r)

Idle(r) == Alive(r) => r.staged = NoSize

Timed == timer = "off" => \A w \in Windows : Idle(windows[w])

IInv ==
    /\ windows \in [Windows -> Window]
    /\ \A w \in Windows : Sound(windows[w])
    /\ timer \in {"off", "running", "late"}
    /\ Timed

\* What there is to see of a window stays the same, and what is staged is not
\* taken back.
SameView(r, t) ==
    t.size = r.size /\ t.texture = r.texture /\ (r.staged # NoSize => t.staged # NoSize)

SameSight(r, t) == t.status = r.status /\ SameView(r, t)

----------------------------------------------------------------------------
(* The operations on one window. *)

LEMMA GoneSound ==
    ASSUME NEW status \in {"absent", "dead"}
    PROVE  Sound(Gone(status)) /\ ~Alive(Gone(status))
<1>1. <<>> \in Seq(Sizes) /\ Len(<<>>) = 0
  BY EmptySeq
<1> QED
  BY <1>1, MaxSentPositive
     DEF Gone, Sound, Empty, Window, SizeOrNone, HasTarget, Kept, Alive

\* The queue of a client keeps its bound.
LEMMA ToldSound ==
    ASSUME NEW r, Sound(r), NEW s \in Sizes
    PROVE  /\ Sound(Told(r, s))
           /\ SameSight(r, Told(r, s))
           /\ Told(r, s).staged = r.staged
<1> DEFINE kept == IF Len(r.sent) < MaxSent THEN r.sent ELSE Tail(r.sent)
           queue == Append(kept, s)
<1>1. r \in Window /\ r.sent \in Seq(Sizes) /\ Len(r.sent) \in Nat /\ Len(r.sent) <= MaxSent
  BY LenProperties DEF Sound, Empty, Window
<1>2. kept \in Seq(Sizes) /\ Len(kept) + 1 <= MaxSent
  <2>1. CASE Len(r.sent) < MaxSent
    BY <2>1, <1>1, MaxSentPositive
  <2>2. CASE ~(Len(r.sent) < MaxSent)
    <3>1. r.sent # <<>>
      BY <2>2, <1>1, MaxSentPositive
    <3>2. Tail(r.sent) \in Seq(Sizes) /\ Len(Tail(r.sent)) = Len(r.sent) - 1
      BY <1>1, <3>1, HeadTailProperties
    <3> QED BY <2>2, <3>2, <1>1, MaxSentPositive
  <2> QED BY <2>1, <2>2
<1> HIDE DEF kept
<1>3. queue \in Seq(Sizes) /\ Len(queue) <= MaxSent
  BY <1>2, AppendProperties
<1>4. Told(r, s) = IF ~r.configured THEN r ELSE [r EXCEPT !.sent = queue]
  BY DEF Told, kept
<1> HIDE DEF queue
<1> QED
  BY <1>1, <1>3, <1>4
     DEF Sound, Empty, Window, HasTarget, Target, Alive, Kept, SameSight, SameView

LEMMA SetDimensionsSound ==
    ASSUME NEW r, Sound(r), NEW s \in Sizes
    PROVE  LET t == SetDimensions(r, s)
           IN Sound(t) /\ SameSight(r, t)
<1> DEFINE resized == [r EXCEPT !.staged = s]
<1>1. Alive(r) => Sound(resized) /\ SameSight(r, resized)
  BY NoSizeIsNone
     DEF Sound, Empty, Window, SizeOrNone, HasTarget, Target, Alive, Kept, SameSight, SameView
<1>2. SetDimensions(r, s) = r \/ (Alive(r) /\ SetDimensions(r, s) = Told(resized, s))
  BY DEF SetDimensions
<1> HIDE DEF resized
<1>3. Alive(r) => Sound(Told(resized, s)) /\ SameSight(resized, Told(resized, s))
  BY <1>1, ToldSound
<1> QED BY <1>1, <1>2, <1>3 DEF SameSight, SameView

LEMMA CommitSound ==
    ASSUME NEW w \in Windows, NEW r, Sound(r), Alive(r), NEW n \in 0 .. Len(r.sent)
    PROVE  LET t == SurfaceCommit(w, Answered(r, n))
           IN Sound(t) /\ SameSight(r, t)
<1> DEFINE rest == SubSeq(r.sent, n + 1, Len(r.sent))
           shown == IF n = 0 THEN r.drawn ELSE r.sent[n]
           a == Answered(r, n)
           acked == AckedSize(w, a)
           b == [a EXCEPT !.acked = acked, !.locked = FALSE, !.dirty = TRUE]
           c == [b EXCEPT !.configured = TRUE]
<1>1. r \in Window /\ r.sent \in Seq(Sizes) /\ Len(r.sent) \in Nat /\ Len(r.sent) <= MaxSent
  BY LenProperties DEF Sound, Empty, Window
<1>2. rest \in Seq(Sizes) /\ Len(rest) <= MaxSent /\ Len(rest) \in Nat
  <2>1. \A i \in n + 1 .. Len(r.sent) : r.sent[i] \in Sizes
    BY <1>1, ElementOfSeq
  <2>2. /\ rest \in Seq(Sizes)
        /\ Len(rest) = IF n + 1 <= Len(r.sent) THEN Len(r.sent) - (n + 1) + 1 ELSE 0
    BY <2>1, <1>1, SubSeqProperties
  <2> QED BY <2>2, <1>1, MaxSentPositive
<1>3. shown \in SizeOrNone
  BY <1>1, ElementOfSeq DEF Window, SizeOrNone
<1>4. a = [r EXCEPT !.drawn = shown, !.sent = rest]
  BY DEF Answered
<1> HIDE DEF rest, shown
<1>5. /\ a \in Window /\ Len(a.sent) <= MaxSent /\ a.sent \in Seq(Sizes)
      /\ a.drawn \in SizeOrNone
      /\ HasTarget(a) /\ SameSight(r, a) /\ Alive(a)
  BY <1>1, <1>2, <1>3, <1>4 DEF Sound, Empty, Window, HasTarget, Target, Alive, SameSight, SameView
<1> HIDE DEF a
<1>6. acked \in SizeOrNone
  <2>1. a.sent # <<>> => Last(a.sent) \in Sizes
    BY <1>5, EmptySeq, ElementOfSeq DEF Last
  <2> QED BY <2>1, <1>5 DEF AckedSize, SizeOrNone
<1> HIDE DEF acked
<1>7. /\ Sound(b) /\ SameSight(r, b) /\ Alive(b)
      /\ Sound(c) /\ SameSight(r, c) /\ Target(c) = Target(b)
  BY <1>5, <1>6 DEF Sound, Empty, Window, HasTarget, Target, Alive, Kept, SameSight, SameView
<1>8. Target(b) \in Sizes
  BY <1>7 DEF Sound, HasTarget
<1>9. SurfaceCommit(w, a) = IF b.configured THEN b ELSE Told(c, Target(b))
  BY DEF SurfaceCommit, InitialConfigure, acked
<1> HIDE DEF b, c
<1>10. Sound(Told(c, Target(b))) /\ SameSight(c, Told(c, Target(b)))
  BY <1>7, <1>8, ToldSound
<1> QED BY <1>7, <1>9, <1>10 DEF SameSight, SameView, a

\* After a frame has applied the transaction, nothing is staged.
LEMMA PassedSound ==
    ASSUME NEW r, Sound(r), NEW leaves \in BOOLEAN
    PROVE  LET t == Passed(r, leaves)
           IN  /\ Sound(t) /\ t.staged = NoSize
               /\ t.size = IF r.staged # NoSize THEN r.staged ELSE r.size
<1> DEFINE b == Blacklisted(r)
           v == [b EXCEPT !.visible = @ /\ ~leaves]
           fails == v.ignored /\ (v.locked \/ v.staged # v.acked)
           locked == v.locked \/ fails
           done == [v EXCEPT !.size = v.staged, !.staged = NoSize,
                             !.ignored = fails, !.locked = locked]
<1>1. CASE ~Alive(r)
  <2>1. Sound(Gone("absent")) /\ r.size = NoSize /\ r.staged = NoSize
    BY <1>1, GoneSound DEF Sound, Empty
  <2>2. Gone("absent").size = NoSize /\ Gone("absent").staged = NoSize
    BY DEF Gone
  <2> QED BY <1>1, <2>1, <2>2 DEF Passed
<1>2. CASE Alive(r)
  <2>1. Sound(b) /\ Alive(b) /\ b.size = r.size /\ b.staged = r.staged
    BY <1>2 DEF Blacklisted, Sound, Empty, Window, HasTarget, Target, Alive, Kept
  <2> HIDE DEF b
  <2>2. Sound(v) /\ Alive(v) /\ v.size = r.size /\ v.staged = r.staged
    BY <2>1 DEF Sound, Empty, Window, HasTarget, Target, Alive, Kept
  <2>3. Passed(r, leaves) = ApplyTransaction(v)
    BY <1>2 DEF Passed, b
  <2> HIDE DEF v
  <2>4. ApplyTransaction(v) = IF v.staged = NoSize THEN v ELSE done
    BY DEF ApplyTransaction
  <2>5. CASE v.staged = NoSize
    BY <2>2, <2>3, <2>4, <2>5
  <2>6. CASE v.staged # NoSize
    <3>1. fails \in BOOLEAN /\ locked \in BOOLEAN
      BY <2>2 DEF Sound, Window
    <3> HIDE DEF fails, locked
    <3>2. v \in Window
      BY <2>2 DEF Sound
    <3>5. done \in Window
      BY <3>1, <3>2 DEF Window, SizeOrNone
    <3>6. /\ done.staged = NoSize /\ done.size = v.staged
          /\ done.sent = v.sent /\ done.texture = v.texture
          /\ done.drawn = v.drawn /\ done.dirty = v.dirty /\ done.status = v.status
      BY <3>2 DEF Window
    <3>3. v.staged \in Sizes /\ Alive(v) /\ Kept(v) /\ Len(v.sent) <= MaxSent
      BY <2>2, <2>6 DEF Sound, Window, SizeOrNone
    <3> HIDE DEF done
    <3>4. Sound(done)
      BY <3>3, <3>5, <3>6 DEF Sound, Empty, HasTarget, Target, Alive, Kept
    <3> QED BY <2>2, <2>3, <2>4, <2>6, <3>4, <3>6
  <2> QED BY <2>5, <2>6
<1> QED BY <1>1, <1>2

LEMMA ImportSound ==
    ASSUME NEW r, Sound(r)
    PROVE  LET t == ImportBuffers(r)
           IN /\ Sound(t)
              /\ t.status = r.status /\ t.size = r.size /\ t.staged = r.staged
              /\ r.staged # NoSize => t = r
<1> DEFINE t == [r EXCEPT !.dirty = FALSE, !.texture = r.drawn]
<1>1. Alive(r) => /\ Sound(t) /\ t.status = r.status
                  /\ t.size = r.size /\ t.staged = r.staged
  BY DEF Sound, Empty, Window, SizeOrNone, HasTarget, Target, Alive, Kept
<1>2. \/ ImportBuffers(r) = r
      \/ Alive(r) /\ r.staged = NoSize /\ ImportBuffers(r) = t
  BY DEF ImportBuffers
<1> QED BY <1>1, <1>2

----------------------------------------------------------------------------
(* The steps. *)

LEMMA InitIInv == Init => IInv
<1> SUFFICES ASSUME Init PROVE IInv
  OBVIOUS
<1>1. \A w \in Windows : windows[w] = Gone("absent")
  BY DEF Init
<1>2. Sound(Gone("absent")) /\ Idle(Gone("absent"))
  BY GoneSound DEF Idle
<1>3. windows \in [Windows -> Window]
  BY <1>2 DEF Init, Sound
<1> QED
  BY <1>1, <1>2, <1>3 DEF IInv, Timed, Init

\* Some windows are told a size, and the deadline is set if one is.
LEMMA ResizingsSound ==
    ASSUME IInv, NEW told \in SUBSET Windows, NEW s \in Sizes, NEW ws,
           ws = [w \in Windows |-> IF w \in told THEN SetDimensions(windows[w], s)
                                                 ELSE windows[w]]
    PROVE  /\ ws \in [Windows -> Window]
           /\ \A w \in Windows : Sound(ws[w]) /\ SameSight(windows[w], ws[w])
<1>1. \A w \in Windows : Sound(ws[w]) /\ SameSight(windows[w], ws[w])
  <2> TAKE w \in Windows
  <2>1. Sound(windows[w])
    BY DEF IInv
  <2>2. /\ Sound(SetDimensions(windows[w], s))
        /\ SameSight(windows[w], SetDimensions(windows[w], s))
    BY <2>1, SetDimensionsSound
  <2> QED BY <2>1, <2>2 DEF SameSight, SameView
<1> QED BY <1>1 DEF Sound

\* One window changes and the others do not.
LEMMA OneWindow ==
    ASSUME IInv, NEW w \in Windows, NEW r, Sound(r), windows' = [windows EXCEPT ![w] = r]
    PROVE  /\ windows' \in [Windows -> Window]
           /\ \A v \in Windows : Sound(windows'[v])
           /\ windows'[w] = r
           /\ \A v \in Windows \ {w} : windows'[v] = windows[v]
BY DEF IInv, Sound

LEMMA StartedTimer ==
    ASSUME IInv
    PROVE  /\ Started \in {"running", "late"}
           /\ Started = timer \/ (timer = "off" /\ Started = "running")
BY DEF IInv, Started

\* What the requests have in common: there is nothing new to see of a window
\* unless it dies, and the timer runs if a window is being resized.
Request ==
    /\ IInv'
    /\ \A w \in Windows : Alive(windows'[w]) => SameView(windows[w], windows'[w])
    /\ timer' = timer \/ (timer = "off" /\ timer' = "running")

LEMMA AddStep ==
    ASSUME IInv, NEW w \in Windows, NEW s \in Sizes, Add(w, s)
    PROVE  Request
<1> DEFINE told == w \in X11Windows
           base == Gone("alive")
           new == [base EXCEPT !.visible = TRUE, !.configured = told]
           ready == [new EXCEPT !.staged = s]
<1>1. <<>> \in Seq(Sizes) /\ Len(<<>>) = 0 /\ told \in BOOLEAN
  BY EmptySeq
<1>2. /\ base \in Window /\ base.status = "alive" /\ Len(base.sent) <= MaxSent
      /\ base.size = NoSize /\ base.staged = NoSize /\ base.texture = NoSize
      /\ base.drawn = NoSize
  BY <1>1, MaxSentPositive DEF Gone, Window, SizeOrNone
<1> HIDE DEF told, base
<1>3. Sound(ready) /\ ready.size = NoSize /\ ready.texture = NoSize
  BY <1>1, <1>2, NoSizeIsNone
     DEF Sound, Empty, Window, SizeOrNone, HasTarget, Target, Kept, Alive
<1>4. SetDimensions(new, s) = Told(ready, s)
  BY <1>1, <1>2, NoSizeIsNone DEF SetDimensions, Alive, Target, Window
<1> HIDE DEF new, ready
<1>5. LET t == SetDimensions(new, s)
      IN Sound(t) /\ t.size = NoSize /\ t.texture = NoSize
  BY <1>3, <1>4, ToldSound DEF SameSight, SameView
<1>6. /\ windows' = [windows EXCEPT ![w] = SetDimensions(new, s)]
      /\ timer' = Started /\ ~Alive(windows[w])
  BY DEF Add, new, base, told, Alive
<1>7. windows[w].size = NoSize /\ windows[w].texture = NoSize /\ windows[w].staged = NoSize
  BY <1>6 DEF IInv, Sound, Empty
<1> HIDE DEF ready, new
<1>8. \A v \in Windows : Sound(windows'[v]) /\ SameView(windows[v], windows'[v])
  BY <1>5, <1>6, <1>7, OneWindow DEF SameView
<1> QED
  BY <1>5, <1>6, <1>8, OneWindow, StartedTimer DEF Request, IInv, Timed

LEMMA EnterStep ==
    ASSUME IInv, NEW w \in Windows, NEW s \in Sizes, Enter(w, s)
    PROVE  Request
<1> DEFINE shown == [windows[w] EXCEPT !.visible = TRUE]
<1>1. Sound(windows[w])
  BY DEF IInv
<1>2. Sound(shown) /\ SameSight(windows[w], shown)
  BY <1>1 DEF Sound, Empty, Window, HasTarget, Target, Alive, Kept, SameSight, SameView
<1>3. windows' = [windows EXCEPT ![w] = SetDimensions(shown, s)] /\ timer' = Started
  BY DEF Enter
<1> HIDE DEF shown
<1>4. Sound(SetDimensions(shown, s)) /\ SameSight(shown, SetDimensions(shown, s))
  BY <1>2, SetDimensionsSound
<1> QED
  BY <1>2, <1>3, <1>4, OneWindow, StartedTimer DEF Request, IInv, Timed, SameSight, SameView

LEMMA MapStep ==
    ASSUME IInv, NEW w \in Windows, UnmapX11(w) \/ MapX11(w)
    PROVE  Request
<1> PICK seen \in BOOLEAN :
      /\ windows' = [windows EXCEPT ![w] = [windows[w] EXCEPT !.visible = seen]]
      /\ timer' = Started \/ timer' = timer
  BY DEF UnmapX11, MapX11, IInv
<1> DEFINE r == [windows[w] EXCEPT !.visible = seen]
<1>1. Sound(windows[w])
  BY DEF IInv
<1>2. Sound(r) /\ SameSight(windows[w], r) /\ (Idle(windows[w]) => Idle(r))
  BY <1>1 DEF Sound, Empty, Window, HasTarget, Target, Alive, Kept, SameSight, SameView, Idle
<1> HIDE DEF r
<1> QED
  BY <1>2, OneWindow, StartedTimer DEF Request, IInv, Timed, SameSight, SameView, r

\* A deadline is set with what is staged.
LEMMA BecomeStep ==
    ASSUME IInv, NEW ws \in [Windows -> Window], Become(ws),
           \A w \in Windows : Sound(ws[w]) /\ SameSight(windows[w], ws[w])
    PROVE  Request
<1>1. windows' = ws /\ timer' \in {"off", "running", "late"}
  BY StartedTimer DEF Become, IInv
<1>2. Timed'
  <2> SUFFICES ASSUME timer' = "off", NEW w \in Windows PROVE Idle(ws[w])
    BY <1>1 DEF Timed
  <2>1. timer = "off" /\ ws[w].staged = windows[w].staged
    BY StartedTimer DEF Become
  <2>2. Idle(windows[w]) /\ ws[w].status = windows[w].status
    BY <2>1 DEF IInv, Timed, SameSight, SameView
  <2> QED BY <2>1, <2>2 DEF Idle, Alive
<1>3. timer' = timer \/ (timer = "off" /\ timer' = "running")
  BY StartedTimer DEF Become
<1> QED BY <1>1, <1>2, <1>3 DEF Request, IInv, SameSight

LEMMA ResizeStep ==
    ASSUME IInv, Resize
    PROVE  Request
<1> PICK told \in SUBSET Windows, s \in Sizes :
      Become([w \in Windows |-> IF w \in told THEN SetDimensions(windows[w], s)
                                              ELSE windows[w]])
  BY DEF Resize, Resizings
<1> QED BY ResizingsSound, BecomeStep

LEMMA CommitStep ==
    ASSUME IInv, NEW w \in Windows, NEW n \in 0 .. Len(windows[w].sent), Commit(w, n)
    PROVE  Request
<1> DEFINE t == SurfaceCommit(w, Answered(windows[w], n))
<1>1. Sound(windows[w]) /\ Alive(windows[w]) /\ windows \in [Windows -> Window]
  BY DEF IInv, Commit
<1>2. Sound(t) /\ SameSight(windows[w], t)
  BY <1>1, CommitSound
<1>3. PICK r \in Rescaled(w, t) : Become([windows EXCEPT ![w] = r])
  BY DEF Commit
<1> HIDE DEF t
<1>4. r = t \/ \E s \in Sizes : r = SetDimensions(t, s)
  BY <1>3 DEF Rescaled
<1>5. Sound(r) /\ SameSight(windows[w], r)
  BY <1>2, <1>4, SetDimensionsSound DEF SameSight, SameView
<1> DEFINE ws == [windows EXCEPT ![w] = r]
<1>6. ws \in [Windows -> Window]
  BY <1>1, <1>5 DEF Sound
<1>7. \A v \in Windows : Sound(ws[v]) /\ SameSight(windows[v], ws[v])
  BY <1>1, <1>5 DEF IInv, SameSight, SameView
<1> HIDE DEF ws
<1>8. Become(ws)
  BY <1>3 DEF ws
<1> QED BY <1>6, <1>7, <1>8, BecomeStep

LEMMA CloseStep ==
    ASSUME IInv, NEW w \in Windows, Close(w)
    PROVE  Request
<1> PICK ws \in Resizings(Windows \ {w}) : windows' = [ws EXCEPT ![w] = Gone("dead")]
  BY DEF Close
<1> PICK told \in SUBSET (Windows \ {w}), s \in Sizes :
      ws = [v \in Windows |-> IF v \in told THEN SetDimensions(windows[v], s)
                                            ELSE windows[v]]
  BY DEF Resizings
<1>1. ws \in [Windows -> Window] /\ \A v \in Windows : Sound(ws[v]) /\ SameSight(windows[v], ws[v])
  BY ResizingsSound
<1>2. windows' = [ws EXCEPT ![w] = Gone("dead")] /\ timer' = Started
  BY DEF Close
<1>3. Sound(Gone("dead")) /\ ~Alive(Gone("dead"))
  BY GoneSound
<1>4. /\ windows' \in [Windows -> Window]
      /\ \A v \in Windows : /\ Sound(windows'[v])
                            /\ Alive(windows'[v]) => SameView(windows[v], windows'[v])
  BY <1>1, <1>2, <1>3 DEF Sound, SameSight
<1>5. /\ timer' \in {"running", "late"}
      /\ timer' = timer \/ (timer = "off" /\ timer' = "running")
  BY <1>2, StartedTimer
<1>6. IInv'
  BY <1>4, <1>5 DEF IInv, Timed
<1> QED
  BY <1>4, <1>5, <1>6 DEF Request

LEMMA CloseAppStep ==
    ASSUME IInv, NEW ws \in SUBSET Windows, CloseApp(ws)
    PROVE  Request
<1>1. /\ windows' = [w \in Windows |-> IF w \in ws THEN Gone("dead") ELSE windows[w]]
      /\ timer' = timer
  BY DEF CloseApp
<1>2. Sound(Gone("dead")) /\ ~Alive(Gone("dead"))
  BY GoneSound
<1> QED
  BY <1>1, <1>2 DEF Request, IInv, Timed, Idle, SameSight, SameView, Sound

LEMMA StartStep ==
    ASSUME IInv, StartTransaction
    PROVE  Request
<1>1. windows' = windows /\ timer' = Started
  BY DEF StartTransaction
<1> QED BY <1>1, StartedTimer DEF Request, IInv, Timed, SameView

\* The deadline is the one thing that Tick changes.
LEMMA TickStep ==
    ASSUME IInv, Tick
    PROVE  IInv'
BY DEF Tick, IInv, Timed

\* Windows that wait keep their place and their picture while they are resized.
LEMMA WaitsStep ==
    ASSUME IInv, Waits
    PROVE  /\ IInv'
           /\ \A w \in Windows : /\ windows'[w].size = windows[w].size
                                 /\ windows'[w].staged = windows[w].staged
                                 /\ windows[w].staged # NoSize => windows'[w] = windows[w]
<1>1. /\ \A w \in Windows : windows'[w] = ImportBuffers(windows[w])
      /\ DOMAIN windows' = Windows /\ timer' = timer
      /\ windows' = [w \in Windows |-> ImportBuffers(windows[w])]
  BY DEF Waits, ImportAll
<1>2. \A w \in Windows :
        /\ Sound(windows'[w]) /\ (Idle(windows[w]) => Idle(windows'[w]))
        /\ windows'[w].size = windows[w].size
        /\ windows'[w].staged = windows[w].staged
        /\ windows[w].staged # NoSize => windows'[w] = windows[w]
  <2> TAKE w \in Windows
  <2>1. Sound(windows[w])
    BY DEF IInv
  <2> QED BY <2>1, <1>1, ImportSound DEF Idle, Alive
<1>3. windows' \in [Windows -> Window]
  BY <1>1, <1>2 DEF Sound
<1> QED BY <1>1, <1>2, <1>3 DEF IInv, Timed

LEMMA UpdatedStep ==
    ASSUME IInv, NEW leaving \in SUBSET Windows, Updated(leaving)
    PROVE  /\ IInv'
           /\ \A w \in Windows :
                /\ windows'[w].staged = NoSize
                /\ windows'[w].size = IF windows[w].staged # NoSize
                                      THEN windows[w].staged ELSE windows[w].size
<1> DEFINE passed == [w \in Windows |-> Passed(windows[w], w \in leaving)]
           size(w) == IF windows[w].staged # NoSize
                      THEN windows[w].staged ELSE windows[w].size
<1>1. \A w \in Windows : Sound(passed[w]) /\ passed[w].staged = NoSize
                         /\ passed[w].size = size(w)
  <2> TAKE w \in Windows
  <2>1. Sound(windows[w])
    BY DEF IInv
  <2>2. (w \in leaving) \in BOOLEAN
    OBVIOUS
  <2>3. LET t == Passed(windows[w], w \in leaving)
        IN Sound(t) /\ t.staged = NoSize /\ t.size = size(w)
    BY <2>1, <2>2, PassedSound
  <2> QED BY <2>3
<1>2. windows' = ImportAll(passed) /\ timer' \in {"off", "running"}
  BY DEF Updated
<1> HIDE DEF passed, size
<1>3. \A w \in Windows : windows'[w] = ImportBuffers(passed[w])
  BY <1>2 DEF ImportAll
<1>4. \A w \in Windows : Sound(windows'[w]) /\ windows'[w].staged = NoSize
                         /\ windows'[w].size = size(w)
  <2> TAKE w \in Windows
  <2>1. Sound(passed[w]) /\ passed[w].staged = NoSize /\ passed[w].size = size(w)
    BY <1>1
  <2> QED BY <2>1, <1>3, ImportSound
<1>5. windows' \in [Windows -> Window]
  BY <1>2, <1>4 DEF ImportAll, Sound
<1>6. IInv'
  BY <1>2, <1>4, <1>5 DEF IInv, Timed, Idle
<1> QED BY <1>4, <1>6 DEF size

LEMMA FrameStep ==
    ASSUME IInv, Frame
    PROVE  IInv'
<1>1. ASSUME NEW leaving \in SUBSET MayLeave, Updated(leaving) PROVE IInv'
  <2>1. leaving \in SUBSET Windows
    BY DEF MayLeave
  <2> QED BY <1>1, <2>1, UpdatedStep
<1> QED BY <1>1, WaitsStep DEF Frame

LEMMA NextStep ==
    ASSUME IInv, Next
    PROVE  Request \/ Tick \/ Frame
<1>1. CASE \E w \in Windows, s \in Sizes : Add(w, s) \/ Enter(w, s)
  BY <1>1, AddStep, EnterStep
<1>2. CASE \E w \in Windows :
             \/ Close(w) \/ UnmapX11(w) \/ MapX11(w)
             \/ \E n \in 0 .. Len(windows[w].sent) : Commit(w, n)
  BY <1>2, CloseStep, MapStep, CommitStep
<1>3. CASE \E ws \in SUBSET Windows : CloseApp(ws)
  BY <1>3, CloseAppStep
<1>4. CASE Resize
  BY <1>4, ResizeStep
<1>5. CASE StartTransaction
  BY <1>5, StartStep
<1> QED BY <1>1, <1>2, <1>3, <1>4, <1>5 DEF Next

LEMMA NextIInv == IInv /\ [Next]_vars => IInv'
<1> SUFFICES ASSUME IInv, [Next]_vars PROVE IInv'
  OBVIOUS
<1>1. CASE Next
  BY <1>1, NextStep, TickStep, FrameStep DEF Request
<1>2. CASE UNCHANGED vars
  BY <1>2 DEF vars, IInv, Timed
<1> QED BY <1>1, <1>2

LEMMA Invariance == Spec => []IInv
BY InitIInv, NextIInv, PTL DEF Spec

----------------------------------------------------------------------------
(* The theorems. *)

\* Windows and the timer keep their types: no client has more than MaxSent sizes
\* to answer, and the initial configure always has a size to send.
THEOREM TypeCorrect == Spec => []TypeOK
<1>1. IInv => TypeOK
  BY DEF IInv, TypeOK, Sound
<1> QED BY <1>1, Invariance, PTL

\* No commit is lost, for any number of windows: surface_commit marks the window,
\* and import_buffers takes the mark away only with the buffer.
THEOREM CommitsAreKept == Spec => []CommitsKept
<1>1. IInv => CommitsKept
  BY DEF IInv, CommitsKept, Sound, Kept
<1> QED BY <1>1, Invariance, PTL

\* A request asks for sizes, or takes a window away, and changes nothing else
\* that there is to see.
LEMMA RequestAsks ==
    ASSUME IInv, Request
    PROVE  Transactions!Ask
<1> DEFINE dying == {w \in Windows : ~Alive(windows'[w])}
           size == [w \in Windows |-> windows[w].size]
           texture == [w \in Windows |-> windows[w].texture]
<1>1. \A w \in Windows : Sound(windows'[w])
  BY DEF Request, IInv
<1>2. \A w \in Windows \ dying : SameView(windows[w], windows'[w])
  BY DEF Request
<1>3. \A w \in dying : windows'[w].size = NoSize /\ windows'[w].texture = NoSize
                       /\ windows'[w].staged = NoSize
  BY <1>1 DEF Sound, Empty
<1>4. [w \in Windows |-> windows'[w].size]
        = [w \in Windows |-> IF w \in dying THEN NoSize ELSE size[w]]
  BY <1>2, <1>3 DEF SameView
<1>5. [w \in Windows |-> windows'[w].texture]
        = [w \in Windows |-> IF w \in dying THEN NoSize ELSE texture[w]]
  BY <1>2, <1>3 DEF SameView
<1>6. \A w \in Windows \ dying :
        [v \in Windows |-> windows[v].staged][w] # NoSize
          => [v \in Windows |-> windows'[v].staged][w] # NoSize
  BY <1>2 DEF SameView
<1>7. [w \in Windows |-> windows'[w].staged] \in [Windows -> Sizes \cup {NoSize}]
  BY <1>1 DEF Sound, Window, SizeOrNone
<1>8. \A w \in Windows : AwaitsAck(w)' => windows'[w].staged # NoSize
  BY DEF AwaitsAck
<1>9. \/ [w \in Windows |-> windows'[w].staged] = Transactions!Nowhere
      \/ timer' # "off"
  <2> SUFFICES ASSUME timer' = "off", NEW w \in Windows
               PROVE  windows'[w].staged = NoSize
    BY DEF Transactions!Nowhere
  <2>1. Idle(windows'[w]) /\ Empty(windows'[w])
    BY <1>1 DEF Request, IInv, Timed, Sound
  <2> QED BY <2>1 DEF Idle, Empty
<1>10. timer' = timer \/ (timer = "off" /\ timer' = "running")
  BY DEF Request
<1>11. dying \in SUBSET Windows
  OBVIOUS
<1> HIDE DEF dying
<1> QED
  BY <1>4, <1>5, <1>6, <1>7, <1>8, <1>9, <1>10, <1>11
     DEF Transactions!Ask, Transactions!OwingNext

\* A frame applies the transaction to all windows or, before the deadline and
\* while some client owes its buffer, to none.
LEMMA FrameAppliesOrDraws ==
    ASSUME IInv, Frame
    PROVE  Transactions!Apply \/ Transactions!Draw
<1>1. CASE Waits
  <2>1. \A w \in Windows : /\ windows'[w].size = windows[w].size
                           /\ windows'[w].staged = windows[w].staged
                           /\ windows[w].staged # NoSize => windows'[w] = windows[w]
    BY <1>1, WaitsStep
  <2>2. \A w \in Windows : AwaitsAck(w)' <=> AwaitsAck(w)
    BY <2>1 DEF AwaitsAck, Alive
  <2>3. timer' = timer
    BY <1>1 DEF Waits
  <2> QED
    BY <2>1, <2>2, <2>3 DEF Transactions!Draw
<1>2. ASSUME Applies, NEW leaving \in SUBSET Windows, Updated(leaving)
      PROVE  Transactions!Apply
  <2> DEFINE next == [w \in Windows |-> windows[w].staged]
             size == [w \in Windows |-> windows[w].size]
  <2>1. \A w \in Windows :
          /\ windows'[w].staged = NoSize
          /\ windows'[w].size = IF windows[w].staged # NoSize
                                THEN windows[w].staged ELSE windows[w].size
    BY <1>2, UpdatedStep
  <2>2. timer' \in {"off", "running"}
    BY <1>2 DEF Updated
  <2>3. {w \in Windows : AwaitsAck(w)} = {} \/ timer = "late"
    <3>1. CASE \A w \in Windows : TransactionDone(windows[w])
      BY <3>1 DEF TransactionDone, AwaitsAck
    <3>2. CASE timer = "off"
      BY <3>2 DEF IInv, Timed, Idle, AwaitsAck
    <3> QED BY <1>2, <3>1, <3>2 DEF Applies, IInv
  <2>4. {w \in Windows : AwaitsAck(w)'} = {}
    BY <2>1 DEF AwaitsAck
  <2>5. [w \in Windows |-> windows'[w].staged] = Transactions!Nowhere
    BY <2>1 DEF Transactions!Nowhere
  <2>6. [w \in Windows |-> windows'[w].size]
          = [w \in Windows |-> IF next[w] # NoSize THEN next[w] ELSE size[w]]
    BY <2>1
  <2> QED
    BY <2>2, <2>3, <2>4, <2>5, <2>6 DEF Transactions!Apply
<1>3. MayLeave \in SUBSET Windows
  BY DEF MayLeave
<1> QED BY <1>1, <1>2, <1>3 DEF Frame

\* WindowSizes implements AtomicResize: windows are resized together or not at
\* all, and before the deadline only when no client still has to draw.
THEOREM ResizesAreAtomic == Spec => ResizedTogether
<1>1. Init => Transactions!Init
  <2> SUFFICES ASSUME Init PROVE Transactions!Init
    OBVIOUS
  <2>1. \A w \in Windows : /\ windows[w].size = NoSize /\ windows[w].texture = NoSize
                           /\ windows[w].staged = NoSize /\ ~AwaitsAck(w)
    BY DEF Init, Gone, AwaitsAck
  <2> QED BY <2>1 DEF Init, Transactions!Init, Transactions!Nowhere
<1>2. IInv /\ [Next]_vars => [Transactions!Next]_(Transactions!vars)
  <2> SUFFICES ASSUME IInv, [Next]_vars
               PROVE  [Transactions!Next]_(Transactions!vars)
    OBVIOUS
  <2>1. CASE UNCHANGED vars
    BY <2>1 DEF vars, Transactions!vars, AwaitsAck
  <2>2. CASE Request
    BY <2>2, RequestAsks DEF Transactions!Next
  <2>3. CASE Tick
    BY <2>3 DEF Tick, Transactions!Next, Transactions!Expire, AwaitsAck
  <2>4. CASE Frame
    BY <2>4, FrameAppliesOrDraws DEF Transactions!Next
  <2> QED BY <2>1, <2>2, <2>3, <2>4, NextStep
<1> QED BY <1>1, <1>2, Invariance, PTL DEF Spec, ResizedTogether, Transactions!Spec

----------------------------------------------------------------------------
(* Layers.                                                                 *)

----------------------------------------------------------------------------
(* The invariant: what ReservationsMatch says, and that two surfaces claim  *)
(* an edge only while it is contested.  Without the latter the death of one *)
(* would take the zone of another away unseen.                              *)

Reserved ==
    /\ layer \in [LayerSurfaces -> Layer \cup {NoLayer}]
    /\ space \in [Edges -> Reservation]

SoleClaims == \A e \in Edges \ contested : \A k, l \in Claims(layer, e) : k = l

LayersInv == Reserved /\ SoleClaims /\ ReservationsOwned /\ SoleZoneReserved

\* What the other actions leave alone.
LEMMA Untouched ==
    ASSUME LayersInv, UNCHANGED <<layer, space, contested>>
    PROVE  LayersInv'
<1>1. \A e : Claims(layer', e) = Claims(layer, e)
  BY DEF Claims, Live
<1>2. \A e : Claims(layer, e)' = Claims(layer', e)
  BY DEF Claims, Live
<1> QED
  BY <1>1, <1>2 DEF LayersInv, Reserved, SoleClaims, ReservationsOwned, SoleZoneReserved

\* Reading and writing reservations.
LEMMA ReserveType ==
    ASSUME NEW sp \in [Edges -> Reservation], NEW anchor, NEW level \in Levels,
           NEW zone \in Zones \cup {0, Neutral, DontCare}
    PROVE  /\ Reserve(sp, anchor, zone, level) \in [Edges -> Reservation]
           /\ \A e \in Edges : Reserve(sp, anchor, zone, level)[e] =
                IF e = anchor /\ zone >= 0
                THEN [level |-> level, reserved |-> zone] ELSE sp[e]
<1>1. zone >= 0 => zone \in Zones \cup {0}
  BY LayersAssumption DEF Neutral, DontCare
<1> DEFINE r == [level |-> level, reserved |-> zone]
<1>2. Reserve(sp, anchor, zone, level) =
        [e \in Edges |-> IF e = anchor /\ zone >= 0 THEN r ELSE sp[e]]
  BY DEF Reserve
<1>3. zone >= 0 => r \in Reservation
  BY <1>1 DEF Reservation
<1> HIDE DEF r
<1>4. Reserve(sp, anchor, zone, level) \in [Edges -> Reservation]
  BY <1>2, <1>3
<1>5. \A e \in Edges : Reserve(sp, anchor, zone, level)[e] =
        IF e = anchor /\ zone >= 0 THEN r ELSE sp[e]
  BY <1>2
<1> QED BY <1>4, <1>5 DEF r

LEMMA ReleaseType ==
    ASSUME NEW sp \in [Edges -> Reservation], Reserved, NEW l \in LayerSurfaces
    PROVE  /\ Release(sp, l) \in [Edges -> Reservation]
           /\ \A e \in Edges : Release(sp, l)[e] =
                IF e = layer[l].anchor /\ layer[l].zone >= 0
                THEN [level |-> "bottom", reserved |-> 0] ELSE sp[e]
<1>1. layer[l] \in Layer \cup {NoLayer}
  BY DEF Reserved
<1>2. layer[l].zone \in Zones \cup {Neutral, DontCare}
  BY <1>1 DEF Layer, NoLayer
<1>3. layer[l].zone \in Int
  <2>1. \A zone \in Zones : zone \in Int
    BY LayersAssumption
  <2>2. Neutral \in Int /\ DontCare \in Int
    BY DEF Neutral, DontCare
  <2> QED BY <1>2, <2>1, <2>2
<1>4. "bottom" \in Levels
  BY LayersAssumption
<1>5. CASE layer[l].zone < 0
  BY <1>3, <1>5 DEF Release
<1>6. CASE ~(layer[l].zone < 0)
  <2>1. Release(sp, l) = Reserve(sp, layer[l].anchor, 0, "bottom")
    BY <1>6 DEF Release
  <2>2. layer[l].zone >= 0
    BY <1>3, <1>6
  <2> QED BY <1>4, <2>1, <2>2, ReserveType
<1> QED BY <1>5, <1>6

----------------------------------------------------------------------------
(* The three steps. *)

\* A new surface has no zone yet.
LEMMA AddKeeps ==
    ASSUME LayersInv, NEW l \in LayerSurfaces, NEW level \in Levels, AddLayer(l, level)
    PROVE  LayersInv'
<1>1. /\ layer[l] = NoLayer
      /\ layer' = [layer EXCEPT ![l] = [NoLayer EXCEPT !.level = level]]
  BY DEF AddLayer, Live
<1>2. Reserved'
  BY <1>1 DEF LayersInv, Reserved, AddLayer, NoLayer, Layer
<1>3. \A k \in LayerSurfaces : k # l => layer'[k] = layer[k]
  BY <1>1 DEF LayersInv, Reserved
<1>4. layer'[l].zone = Neutral /\ layer[l].zone = Neutral
  BY <1>1 DEF LayersInv, Reserved, NoLayer
<1>5. \A e : Claims(layer, e)' = Claims(layer, e) /\ l \notin Claims(layer, e)
  BY <1>3, <1>4 DEF Claims, Live, Neutral
<1>6. \A e : \A k \in Claims(layer, e) : layer'[k] = layer[k]
  BY <1>3, <1>5 DEF Claims
<1>7. UNCHANGED <<space, contested>>
  BY DEF AddLayer
<1>8. SoleClaims'
  BY <1>5, <1>7 DEF LayersInv, SoleClaims
<1>9. ReservationsOwned'
  BY <1>5, <1>6, <1>7 DEF LayersInv, ReservationsOwned
<1>10. SoleZoneReserved'
  BY <1>5, <1>6, <1>7 DEF LayersInv, SoleZoneReserved
<1> QED BY <1>2, <1>8, <1>9, <1>10 DEF LayersInv

\* A surface moves, changes its zone, or goes away: its old reservation is given
\* back, and its new one made.
LEMMA MoveKeeps ==
    ASSUME LayersInv, Reserved', NEW l \in LayerSurfaces,
           \A k \in LayerSurfaces \ {l} : layer'[k] = layer[k],
           NEW gets \in SUBSET Edges,
           \A e \in Edges : l \in Claims(layer, e)' <=> e \in gets,
           \A e \in gets : space'[e] = [level |-> layer'[l].level,
                                        reserved |-> layer'[l].zone],
           \A e \in Edges \ gets :
             space'[e] = IF l \in Claims(layer, e)
                         THEN [level |-> "bottom", reserved |-> 0] ELSE space[e],
           contested' = Contested(layer')
    PROVE  LayersInv'
<1>1. \A e \in Edges : \A k \in LayerSurfaces \ {l} :
        k \in Claims(layer, e)' <=> k \in Claims(layer, e)
  BY DEF Claims, Live
<1>2. \A e : Claims(layer, e)' = Claims(layer', e)
  BY DEF Claims, Live
<1>3. \A e : Claims(layer, e) \subseteq LayerSurfaces /\ Claims(layer', e) \subseteq LayerSurfaces
  BY DEF Claims
<1>4. \A e \in Edges \ contested' :
        /\ \A k, m \in Claims(layer, e)' : k = m
        /\ Claims(layer, e)' # {} => e \notin contested
  BY <1>2 DEF Contested
<1>5. SoleClaims'
  BY <1>4 DEF SoleClaims
<1>6. ReservationsOwned'
  <2> SUFFICES ASSUME NEW e \in Edges, space'[e].reserved > 0
               PROVE  \E k \in Claims(layer, e)' :
                        space'[e] = [level |-> layer'[k].level, reserved |-> layer'[k].zone]
    BY DEF ReservationsOwned
  <2>1. CASE e \in gets
    BY <2>1
  <2>2. CASE e \notin gets
    <3>1. l \notin Claims(layer, e) /\ space'[e] = space[e]
      BY <2>2
    <3>2. PICK k \in Claims(layer, e) :
            space[e] = [level |-> layer[k].level, reserved |-> layer[k].zone]
      BY <3>1 DEF LayersInv, ReservationsOwned
    <3>3. k \in LayerSurfaces \ {l}
      BY <1>3, <3>1
    <3> QED BY <1>1, <3>1, <3>2, <3>3
  <2> QED BY <2>1, <2>2
<1>7. SoleZoneReserved'
  <2> SUFFICES ASSUME NEW e \in Edges \ contested', NEW k \in Claims(layer, e)'
               PROVE  space'[e] = [level |-> layer'[k].level, reserved |-> layer'[k].zone]
    BY DEF SoleZoneReserved
  <2>1. CASE k = l
    BY <2>1
  <2>2. CASE k # l
    <3>1. k \in LayerSurfaces \ {l} /\ k \in Claims(layer, e) /\ layer'[k] = layer[k]
      BY <1>1, <1>2, <1>3, <2>2
    <3>2. e \notin gets /\ e \notin contested
      BY <1>4, <2>2
    <3>3. l \notin Claims(layer, e)
      BY <2>2, <3>1, <3>2 DEF LayersInv, SoleClaims
    <3>4. space[e] = [level |-> layer[k].level, reserved |-> layer[k].zone]
      BY <3>1, <3>2 DEF LayersInv, SoleZoneReserved
    <3> QED BY <3>1, <3>2, <3>3, <3>4
  <2> QED BY <2>1, <2>2
<1> QED BY <1>5, <1>6, <1>7 DEF LayersInv

LEMMA CommitKeeps ==
    ASSUME LayersInv, NEW l \in LayerSurfaces, NEW anchor \in Edges \cup {NoEdge},
           NEW zone \in Zones \cup {Neutral, DontCare}, CommitLayer(l, anchor, zone)
    PROVE  LayersInv'
<1> DEFINE gets == {e \in Edges : e = anchor /\ zone >= 0}
<1>1. Reserved /\ layer[l] \in Layer /\ layer[l] # NoLayer
  BY DEF LayersInv, Reserved, CommitLayer, Live
<1>2. layer' = [layer EXCEPT ![l] = [layer[l] EXCEPT !.anchor = anchor, !.zone = zone]]
  BY <1>1 DEF CommitLayer, Reserved
<1>3. /\ layer'[l] \in Layer /\ layer'[l].anchor = anchor /\ layer'[l].zone = zone
      /\ layer'[l].level = layer[l].level /\ layer[l].level \in Levels
      /\ layer[l].level # "none" => layer'[l] # NoLayer
  BY <1>1, <1>2 DEF Reserved, Layer, NoLayer
<1>4. \A k \in LayerSurfaces \ {l} : layer'[k] = layer[k]
  BY <1>1, <1>2 DEF Reserved
<1>5. layer' \in [LayerSurfaces -> Layer \cup {NoLayer}]
  BY <1>1, <1>2, <1>3 DEF Reserved
<1> DEFINE given == Release(space, l)
<1>6. /\ given \in [Edges -> Reservation]
      /\ \A e \in Edges : given[e] =
           IF e = layer[l].anchor /\ layer[l].zone >= 0
           THEN [level |-> "bottom", reserved |-> 0] ELSE space[e]
  BY <1>1, ReleaseType DEF Reserved
<1>7. space' = Reserve(given, anchor, zone, layer[l].level)
  BY DEF CommitLayer, Rezone
<1> HIDE DEF given
<1>8. /\ space' \in [Edges -> Reservation]
      /\ \A e \in Edges : space'[e] =
           IF e = anchor /\ zone >= 0
           THEN [level |-> layer[l].level, reserved |-> zone] ELSE given[e]
  BY <1>3, <1>6, <1>7, ReserveType
<1>9. Reserved'
  BY <1>5, <1>8 DEF Reserved
<1>10. \A e \in Edges : l \in Claims(layer, e) <=> e = layer[l].anchor /\ layer[l].zone >= 0
  BY <1>1 DEF Claims, Live
<1>11. zone >= 0 => layer'[l] # NoLayer
  BY <1>3 DEF NoLayer, Neutral
<1>12. \A e \in Edges : l \in Claims(layer, e)' <=> e \in gets
  BY <1>3, <1>11 DEF Claims, Live
<1>13. \A e \in gets : space'[e] = [level |-> layer'[l].level, reserved |-> layer'[l].zone]
  BY <1>3, <1>8
<1>14. \A e \in Edges \ gets :
         space'[e] = IF l \in Claims(layer, e)
                     THEN [level |-> "bottom", reserved |-> 0] ELSE space[e]
  BY <1>6, <1>8, <1>10
<1>15. contested' = Contested(layer')
  BY DEF CommitLayer
<1> HIDE DEF gets
<1>16. gets \in SUBSET Edges
  BY DEF gets
<1> QED BY <1>4, <1>9, <1>12, <1>13, <1>14, <1>15, <1>16, MoveKeeps

LEMMA DestroyKeeps ==
    ASSUME LayersInv, NEW l \in LayerSurfaces, DestroyLayer(l)
    PROVE  LayersInv'
<1>1. Reserved /\ layer[l] \in Layer /\ layer[l] # NoLayer
  BY DEF LayersInv, Reserved, DestroyLayer, Live
<1>2. layer' = [layer EXCEPT ![l] = NoLayer]
  BY DEF DestroyLayer
<1>3. layer'[l] = NoLayer /\ \A k \in LayerSurfaces \ {l} : layer'[k] = layer[k]
  BY <1>1, <1>2 DEF Reserved
<1>4. space' = Release(space, l)
  BY DEF DestroyLayer
<1>5. /\ space' \in [Edges -> Reservation]
      /\ \A e \in Edges : space'[e] =
           IF e = layer[l].anchor /\ layer[l].zone >= 0
           THEN [level |-> "bottom", reserved |-> 0] ELSE space[e]
  BY <1>1, <1>4, ReleaseType DEF Reserved
<1>6. Reserved'
  BY <1>1, <1>2, <1>5 DEF Reserved
<1>7. \A e \in Edges : l \in Claims(layer, e) <=> e = layer[l].anchor /\ layer[l].zone >= 0
  BY <1>1 DEF Claims, Live
<1> DEFINE gets == {e \in Edges : FALSE}
<1>8. \A e \in Edges : l \in Claims(layer, e)' <=> e \in gets
  BY <1>3 DEF Claims, Live
<1>9. \A e \in Edges \ gets :
        space'[e] = IF l \in Claims(layer, e)
                    THEN [level |-> "bottom", reserved |-> 0] ELSE space[e]
  BY <1>5, <1>7
<1>10. contested' = Contested(layer')
  BY DEF DestroyLayer
<1>11. /\ gets \in SUBSET Edges
       /\ \A e \in gets : space'[e] = [level |-> layer'[l].level,
                                       reserved |-> layer'[l].zone]
  OBVIOUS
<1> HIDE DEF gets
<1> QED BY <1>3, <1>6, <1>8, <1>9, <1>10, <1>11, MoveKeeps

----------------------------------------------------------------------------
(* The theorem. *)

LEMMA InitLayersInv == LayersInit => LayersInv
<1> SUFFICES ASSUME LayersInit PROVE LayersInv
  OBVIOUS
<1>1. "background" \in Levels
  BY LayersAssumption
<1>2. Reserved
  BY <1>1 DEF LayersInit, Reserved, Reservation
<1>3. \A e : Claims(layer, e) = {}
  BY DEF LayersInit, Claims, Live
<1>4. \A e \in Edges : space[e].reserved = 0
  BY DEF LayersInit
<1> QED
  BY <1>2, <1>3, <1>4 DEF LayersInv, SoleClaims, ReservationsOwned, SoleZoneReserved

LEMMA NextLayersInv == LayersInv /\ [LayersNext]_layersVars => LayersInv'
<1> SUFFICES ASSUME LayersInv, [LayersNext]_layersVars PROVE LayersInv'
  OBVIOUS
<1>1. ASSUME NEW l \in LayerSurfaces, NEW level \in Levels, AddLayer(l, level)
      PROVE  LayersInv'
  BY <1>1, AddKeeps
<1>2. ASSUME NEW l \in LayerSurfaces, NEW anchor \in Edges \cup {NoEdge},
             NEW zone \in Zones \cup {Neutral, DontCare}, CommitLayer(l, anchor, zone)
      PROVE  LayersInv'
  BY <1>2, CommitKeeps
<1>3. ASSUME NEW l \in LayerSurfaces, DestroyLayer(l)
      PROVE  LayersInv'
  BY <1>3, DestroyKeeps
<1>4. ASSUME NEW w \in Toplevels, AddToplevel(w) \/ Activate(w) \/ FullscreenRequest(w)
      PROVE  LayersInv'
  BY <1>4, Untouched DEF AddToplevel, Activate, FullscreenRequest, SwitchAndResize
<1>5. CASE LeaveFullscreen
  BY <1>5, Untouched DEF LeaveFullscreen, SwitchAndResize
<1>6. CASE LockSession \/ SetLockSurface \/ Unlock
  BY <1>6, Untouched DEF LockSession, SetLockSurface, Unlock
<1>7. CASE Update
  BY <1>7, Untouched DEF Update
<1>8. CASE UNCHANGED layersVars
  BY <1>8, Untouched DEF layersVars
<1> QED
  BY <1>1, <1>2, <1>3, <1>4, <1>5, <1>6, <1>7, <1>8 DEF LayersNext

\* Whatever panels share an edge, move between edges, change their zones and go
\* away, ExclusiveSpace and the zones of the layer surfaces belong together.
THEOREM ReservationsAgree == LayersSpec => []ReservationsMatch
<1>1. LayersSpec => []LayersInv
  BY InitLayersInv, NextLayersInv, PTL DEF LayersSpec
<1>2. LayersInv => ReservationsMatch
  BY DEF LayersInv, ReservationsMatch
<1> QED BY <1>1, <1>2, PTL

----------------------------------------------------------------------------
(* The sizes.  What is on screen fits because what the pending view will    *)
(* show fits already.  An overlay is seen in fullscreen too and fits always,*)
(* the other layers and the toplevel of the layout that is active next fit  *)
(* when the workspace is next, a fullscreen toplevel when it is next.  A    *)
(* toplevel without the visible flag is not resized, and is sized when it   *)
(* gets the flag.                                                           *)

LayerInsets(l) == IF layer[l].zone = Neutral THEN Available(space) ELSE NoInsets

LayerFits(l) == fit[l] \in {Misfit, LayerInsets(l)}

DeadUnsized == \A l \in LayerSurfaces : ~Live(layer, l) => fit[l] = Misfit

OverlaysFit ==
    \A l \in LayerSurfaces : Live(layer, l) /\ layer[l].level = "overlay" => LayerFits(l)

WorkspaceFits ==
    PendingView = Workspace =>
        /\ PendingActive \in visible => fit[PendingActive] \in {Misfit, Available(space)}
        /\ \A l \in LayerSurfaces : Live(layer, l) => LayerFits(l)

FullscreenFits ==
    \A w \in visible :
        PendingView = Fullscreen(w) => fit[w] \in {Misfit, AvailableFullscreen(space)}

FitInv ==
    /\ LayersTypeOK
    /\ DeadUnsized /\ OverlaysFit /\ WorkspaceFits /\ FullscreenFits

LEMMA ViewKinds ==
    /\ Workspace \in Views /\ Lock \in Views /\ LockSurface \in Views /\ NoView \notin Views
    /\ Workspace # Lock /\ Workspace # LockSurface /\ NoView # Workspace
    /\ \A w \in Toplevels : /\ Fullscreen(w) \in Views
                            /\ Fullscreen(w) # Workspace /\ Fullscreen(w) # NoView
                            /\ Fullscreen(w).kind = "fullscreen" /\ Fullscreen(w).window = w
    /\ Workspace.kind = "workspace" /\ Lock.kind = "lock" /\ LockSurface.kind = "lock surface"
    /\ \A v \in Views : v.kind = "fullscreen" =>
         v.window \in Toplevels /\ v = Fullscreen(v.window)
    /\ \A v \in Views : v \in {Workspace, Lock, LockSurface} \/ v.kind = "fullscreen"
<1>1. /\ Workspace.kind = "workspace" /\ Lock.kind = "lock"
      /\ LockSurface.kind = "lock surface" /\ NoView.kind = "none"
      /\ \A w \in Toplevels : Fullscreen(w).kind = "fullscreen" /\ Fullscreen(w).window = w
  BY DEF View, Workspace, Lock, LockSurface, NoView, Fullscreen
<1>2. \A v \in Views : \/ v \in {Workspace, Lock, LockSurface}
                      \/ \E w \in Toplevels : v = Fullscreen(w)
  BY Zenon DEF Views
<1>3. /\ Workspace \in Views /\ Lock \in Views /\ LockSurface \in Views
      /\ \A w \in Toplevels : Fullscreen(w) \in Views
  BY Zenon DEF Views
<1>4. \A v \in Views : v.kind = "fullscreen" =>
        v.window \in Toplevels /\ v = Fullscreen(v.window)
  BY <1>1, <1>2
<1>5. \A v \in Views : v \in {Workspace, Lock, LockSurface} \/ v.kind = "fullscreen"
  BY <1>1, <1>2
<1>6. NoView \notin Views
  BY <1>1, <1>2
<1> QED BY <1>1, <1>3, <1>4, <1>5, <1>6

LEMMA InsetsType ==
    ASSUME NEW sp \in [Edges -> Reservation]
    PROVE  /\ Available(sp) \in Insets /\ AvailableFullscreen(sp) \in Insets
           /\ NoInsets \in Insets
BY DEF Available, AvailableFullscreen, Insets, NoInsets, Reservation

LEMMA SizedLemma ==
    ASSUME NEW f \in Fit, NEW layers, NEW targets, NEW insets \in Insets
    PROVE  /\ Sized(f, layers, targets, insets) \in Fit
           /\ \A s \in Surfaces : Sized(f, layers, targets, insets)[s] =
                IF /\ s \in targets
                   /\ (IF s \in LayerSurfaces THEN Live(layers, s) ELSE s \in visible)
                THEN insets ELSE f[s]
BY DEF Sized, Fit

LEMMA PlacedLemma ==
    ASSUME NEW f \in Fit, NEW layers, NEW which \in SUBSET LayerSurfaces,
           NEW sp \in [Edges -> Reservation]
    PROVE  /\ Placed(f, layers, which, sp) \in Fit
           /\ \A s \in Surfaces : Placed(f, layers, which, sp)[s] =
                IF s \in which /\ Live(layers, s)
                THEN (IF layers[s].zone = Neutral THEN Available(sp) ELSE NoInsets)
                ELSE f[s]
<1> DEFINE neutral == {l \in which : layers[l].zone = Neutral}
           first == Sized(f, layers, neutral, Available(sp))
<1>1. /\ first \in Fit
      /\ \A s \in Surfaces : first[s] =
           IF /\ s \in neutral
              /\ (IF s \in LayerSurfaces THEN Live(layers, s) ELSE s \in visible)
           THEN Available(sp) ELSE f[s]
  BY InsetsType, SizedLemma
<1>2. Placed(f, layers, which, sp) = Sized(first, layers, which \ neutral, NoInsets)
  BY DEF Placed
<1> HIDE DEF first
<1>3. /\ Placed(f, layers, which, sp) \in Fit
      /\ \A s \in Surfaces : Placed(f, layers, which, sp)[s] =
           IF /\ s \in which \ neutral
              /\ (IF s \in LayerSurfaces THEN Live(layers, s) ELSE s \in visible)
           THEN NoInsets ELSE first[s]
  BY <1>1, <1>2, InsetsType, SizedLemma
<1> QED BY <1>1, <1>3

\* What resize_visible leaves, for each pending view.
Resized(g, f, layers, sp, v) ==
    /\ g \in Fit
    /\ \A l \in LayerSurfaces : ~Live(layers, l) => g[l] \in {f[l], Misfit}
    /\ \A l \in LayerSurfaces :
         Live(layers, l) /\ (v.kind = "fullscreen" => layers[l].level = "overlay")
         => g[l] \in {Misfit, IF layers[l].zone = Neutral THEN Available(sp) ELSE NoInsets}
    /\ \A w \in visible : v = Fullscreen(w) => g[w] = AvailableFullscreen(sp)
    /\ v = Workspace /\ PendingActive \in visible => g[PendingActive] = Available(sp)

LEMMA ResizeLemma ==
    ASSUME LayersTypeOK, NEW f \in Fit, NEW layers, NEW sp \in [Edges -> Reservation],
           NEW v \in Views
    PROVE  Resized(ResizeVisible(f, layers, sp, v), f, layers, sp, v)
<1> DEFINE g == ResizeVisible(f, layers, sp, v)
<1> SUFFICES Resized(g, f, layers, sp, v)
  OBVIOUS
<1>0. g = ResizeVisible(f, layers, sp, v)
  OBVIOUS
<1> HIDE DEF g
<1>1. /\ \A w \in visible : w \in Toplevels /\ w \in Surfaces /\ w \notin LayerSurfaces
      /\ \A l \in LayerSurfaces : l \in Surfaces
      /\ NoSurface \notin visible
  BY LayersAssumption DEF LayersTypeOK, Surfaces
<1>2. CASE v.kind = "fullscreen"
  <2> DEFINE overlays == {l \in LayerSurfaces : layers[l].level = "overlay"}
             first == Sized(f, layers, {v.window}, AvailableFullscreen(sp))
  <2>1. g = Placed(first, layers, overlays, sp)
    BY <1>0, <1>2 DEF ResizeVisible
  <2>2. v.window \notin LayerSurfaces
    BY <1>2, ViewKinds, LayersAssumption
  <2>3. /\ first \in Fit
        /\ \A s \in Surfaces : s # v.window => first[s] = f[s]
        /\ v.window \in visible => first[v.window] = AvailableFullscreen(sp)
    <3>1. AvailableFullscreen(sp) \in Insets
      BY InsetsType
    <3>2. /\ first \in Fit
          /\ \A s \in Surfaces : first[s] =
               IF /\ s \in {v.window}
                  /\ (IF s \in LayerSurfaces THEN Live(layers, s) ELSE s \in visible)
               THEN AvailableFullscreen(sp) ELSE f[s]
      BY <3>1, SizedLemma
    <3> QED BY <1>1, <2>2, <3>2
  <2> HIDE DEF first
  <2>4. /\ g \in Fit
        /\ \A s \in Surfaces : g[s] =
             IF s \in overlays /\ Live(layers, s)
             THEN (IF layers[s].zone = Neutral THEN Available(sp) ELSE NoInsets)
             ELSE first[s]
    BY <2>1, <2>3, PlacedLemma, SMTT(30)
  <2>5. \A w \in visible : v = Fullscreen(w) => w = v.window
    BY <1>1, ViewKinds
  <2>6. v # Workspace
    BY <1>2, ViewKinds
  <2>7. \A l \in LayerSurfaces : ~Live(layers, l) => g[l] = f[l]
    BY <1>1, <2>2, <2>3, <2>4
  <2>8. \A w \in visible : v = Fullscreen(w) => g[w] = AvailableFullscreen(sp)
    BY <1>1, <2>2, <2>3, <2>4, <2>5
  <2> QED BY <1>1, <1>2, <2>4, <2>6, <2>7, <2>8 DEF Resized
<1>3. CASE v.kind = "lock surface"
  <2>1. g = [s \in Surfaces |-> Misfit]
    BY <1>0, <1>3 DEF ResizeVisible
  <2>2. v # Workspace /\ \A w \in visible : v # Fullscreen(w)
    BY <1>1, <1>3, ViewKinds
  <2> QED BY <1>1, <2>1, <2>2 DEF Fit, Resized
<1>4. CASE v.kind # "fullscreen" /\ v.kind # "lock surface"
  <2> DEFINE target == {PendingActive} \ {NoSurface}
             first == Sized(f, layers, target, Available(sp))
  <2>1. g = Placed(first, layers, LayerSurfaces, sp)
    BY <1>0, <1>4 DEF ResizeVisible
  <2>2. PendingActive \notin LayerSurfaces
    BY LayersAssumption DEF LayersTypeOK, PendingActive, Last
  <2>3. /\ first \in Fit
        /\ \A l \in LayerSurfaces : first[l] = f[l]
        /\ PendingActive \in visible => first[PendingActive] = Available(sp)
    BY <1>1, <2>2, InsetsType, SizedLemma
  <2> HIDE DEF first
  <2>4. /\ g \in Fit
        /\ \A s \in Surfaces : g[s] =
             IF s \in LayerSurfaces /\ Live(layers, s)
             THEN (IF layers[s].zone = Neutral THEN Available(sp) ELSE NoInsets)
             ELSE first[s]
    BY <2>1, <2>3, PlacedLemma
  <2>5. \A w \in visible : v # Fullscreen(w)
    BY <1>1, <1>4, ViewKinds
  <2> QED BY <1>1, <2>2, <2>3, <2>4, <2>5 DEF Resized
<1> QED BY <1>2, <1>3, <1>4

----------------------------------------------------------------------------
(* The types, step by step. *)

LEMMA InitFitInv == LayersInit => FitInv
<1> SUFFICES ASSUME LayersInit PROVE FitInv
  OBVIOUS
<1>1. Reserved
  BY InitLayersInv DEF LayersInv
<1>2. LayersTypeOK
  <2>1. /\ open = {} /\ visible = {} /\ active = NoSurface /\ staged = <<>>
        /\ view = Workspace /\ pending = NoView /\ contested = {}
    BY DEF LayersInit
  <2>2. fit \in Fit
    BY DEF LayersInit, Fit
  <2>3. staged \in Seq(open)
    BY <2>1
  <2> QED BY <1>1, <2>1, <2>2, <2>3, ViewKinds DEF LayersTypeOK, Reserved
<1>3. DeadUnsized
  BY DEF LayersInit, DeadUnsized, Surfaces
<1>4. \A l \in LayerSurfaces : ~Live(layer, l)
  BY DEF LayersInit, Live
<1>5. visible = {}
  BY DEF LayersInit
<1>6. OverlaysFit /\ WorkspaceFits /\ FullscreenFits
  BY <1>4, <1>5 DEF OverlaysFit, WorkspaceFits, FullscreenFits
<1> QED BY <1>2, <1>3, <1>6 DEF FitInv

\* A layer surface comes, moves or goes: what depends on the reserved space is
\* sized again when that has changed.
LEMMA ChangedFits ==
    ASSUME LayersInv', FitInv, UNCHANGED <<layouts, views>>, contested' \subseteq Edges,
           NEW l \in LayerSurfaces,
           \A k \in LayerSurfaces \ {l} : layer'[k] = layer[k],
           NEW f \in Fit, \A s \in Surfaces \ {l} : f[s] = fit[s],
           ~Live(layer', l) => f[l] = Misfit,
           Live(layer', l) => f[l] \in {Misfit, LayerInsets(l)'},
           fit' = ResizeIfChanged(f, layer', space')
    PROVE  FitInv'
<1>1. /\ layer' \in [LayerSurfaces -> Layer \cup {NoLayer}]
      /\ space' \in [Edges -> Reservation]
  BY DEF LayersInv, Reserved
<1>2. UNCHANGED <<open, visible, active, staged, view, pending>>
  BY DEF layouts, views
<1>3. PendingView' = PendingView /\ PendingActive' = PendingActive /\ PendingView \in Views
  BY <1>2 DEF PendingView, PendingActive, FitInv, LayersTypeOK
<1>4. /\ \A w \in visible : w \in Toplevels /\ w \in Surfaces /\ w # l
      /\ l \in Surfaces /\ LayerSurfaces \subseteq Surfaces
  BY LayersAssumption DEF FitInv, LayersTypeOK, Surfaces
<1>5. \A k \in LayerSurfaces : (Live(layer, k)' <=> Live(layer', k))
                              /\ (k # l => (Live(layer', k) <=> Live(layer, k)))
  BY DEF Live
<1>6. ASSUME fit' \in Fit PROVE LayersTypeOK'
  BY <1>1, <1>2, <1>6 DEF FitInv, LayersTypeOK
<1>7. CASE space' = space
  <2>1. fit' = f
    BY <1>7 DEF ResizeIfChanged
  <2>2. \A k \in LayerSurfaces \ {l} : LayerFits(k)' <=> LayerFits(k)
    BY <1>4, <1>7, <2>1 DEF LayerFits, LayerInsets
  <2>3. Live(layer', l) => LayerFits(l)'
    BY <2>1 DEF LayerFits
  <2>4. DeadUnsized'
    BY <1>4, <1>5, <2>1 DEF FitInv, DeadUnsized
  <2>5. OverlaysFit'
    BY <1>5, <2>2, <2>3 DEF FitInv, OverlaysFit
  <2>6. WorkspaceFits'
    <3> SUFFICES ASSUME PendingView = Workspace
                 PROVE  /\ PendingActive \in visible
                             => fit'[PendingActive] \in {Misfit, Available(space)}
                        /\ \A k \in LayerSurfaces : Live(layer', k) => LayerFits(k)'
      BY <1>2, <1>3, <1>5, <1>7 DEF WorkspaceFits
    <3>1. PendingActive \in visible => fit'[PendingActive] = fit[PendingActive]
      BY <1>4, <2>1
    <3> QED BY <1>5, <2>2, <2>3, <3>1 DEF FitInv, WorkspaceFits
  <2>7. FullscreenFits'
    BY <1>2, <1>3, <1>4, <1>7, <2>1 DEF FitInv, FullscreenFits
  <2> QED BY <1>6, <2>1, <2>4, <2>5, <2>6, <2>7 DEF FitInv
<1>8. CASE space' # space
  <2>1. fit' = ResizeVisible(f, layer', space', PendingView)
    BY <1>8 DEF ResizeIfChanged
  <2>2. /\ fit' \in Fit
        /\ \A k \in LayerSurfaces : ~Live(layer', k) => fit'[k] \in {f[k], Misfit}
        /\ \A k \in LayerSurfaces :
             Live(layer', k) /\ (PendingView.kind = "fullscreen" => layer'[k].level = "overlay")
             => LayerFits(k)'
        /\ \A w \in visible :
             PendingView = Fullscreen(w) => fit'[w] = AvailableFullscreen(space')
        /\ PendingView = Workspace /\ PendingActive \in visible
             => fit'[PendingActive] = Available(space')
    <3>1. LayersTypeOK
      BY DEF FitInv
    <3>2. Resized(fit', f, layer', space', PendingView)
      BY <1>1, <1>3, <2>1, <3>1, ResizeLemma
    <3>3. \A k : LayerInsets(k)' = IF layer'[k].zone = Neutral THEN Available(space')
                                                             ELSE NoInsets
      BY DEF LayerInsets, Available, NoInsets
    <3> QED BY <3>2, <3>3 DEF LayerFits, Resized
  <2>3. DeadUnsized'
    BY <1>4, <1>5, <2>2 DEF FitInv, DeadUnsized
  <2>4. OverlaysFit'
    BY <1>5, <2>2 DEF OverlaysFit
  <2>5. WorkspaceFits'
    BY <1>2, <1>3, <1>5, <2>2, ViewKinds DEF WorkspaceFits
  <2>6. FullscreenFits'
    BY <1>2, <1>3, <2>2 DEF FullscreenFits
  <2> QED BY <1>6, <2>2, <2>3, <2>4, <2>5, <2>6 DEF FitInv
<1> QED BY <1>7, <1>8

LEMMA AddLayerFits ==
    ASSUME LayersInv', FitInv, NEW l \in LayerSurfaces, NEW level \in Levels,
           AddLayer(l, level)
    PROVE  FitInv'
<1>1. /\ layer[l] = NoLayer /\ UNCHANGED <<layouts, views>> /\ fit' = fit /\ space' = space
      /\ contested' = contested
      /\ layer' = [layer EXCEPT ![l] = [NoLayer EXCEPT !.level = level]]
  BY DEF AddLayer, Live
<1>2. \A k \in LayerSurfaces \ {l} : layer'[k] = layer[k]
  BY <1>1 DEF FitInv, LayersTypeOK
<1>3. fit[l] = Misfit
  BY <1>1 DEF FitInv, DeadUnsized, Live
<1>4. fit' = ResizeIfChanged(fit, layer', space')
  BY <1>1 DEF ResizeIfChanged
<1> QED BY <1>1, <1>2, <1>3, <1>4, ChangedFits DEF FitInv, LayersTypeOK

LEMMA CommitLayerFits ==
    ASSUME LayersInv', FitInv, NEW l \in LayerSurfaces, NEW anchor, NEW zone,
           CommitLayer(l, anchor, zone)
    PROVE  FitInv'
<1> DEFINE f == Placed(fit, layer', {l}, space')
<1>1. /\ UNCHANGED <<layouts, views>> /\ contested' = Contested(layer')
      /\ fit' = ResizeIfChanged(f, layer', space')
  BY DEF CommitLayer
<1>2. \A k \in LayerSurfaces \ {l} : layer'[k] = layer[k]
  BY DEF CommitLayer, FitInv, LayersTypeOK
<1>3. layer[l] # NoLayer /\ layer[l] \in Layer
  BY DEF CommitLayer, Live, FitInv, LayersTypeOK
<1>4. space' \in [Edges -> Reservation] /\ fit \in Fit
  BY DEF LayersInv, Reserved, FitInv, LayersTypeOK
<1>5. /\ f \in Fit
      /\ \A s \in Surfaces : f[s] =
           IF s \in {l} /\ Live(layer', s)
           THEN (IF layer'[s].zone = Neutral THEN Available(space') ELSE NoInsets)
           ELSE fit[s]
  BY <1>4, PlacedLemma
<1> HIDE DEF f
<1>6. l \in Surfaces
  BY DEF Surfaces
<1>7. layer'[l] # NoLayer
  <2>1. layer' = [layer EXCEPT ![l] = [layer[l] EXCEPT !.anchor = anchor, !.zone = zone]]
    BY <1>3 DEF CommitLayer, FitInv, LayersTypeOK, Layer
  <2>2. layer'[l].level = layer[l].level
    BY <1>3, <2>1 DEF FitInv, LayersTypeOK, Layer
  <2>3. layer[l].level \in Levels /\ NoLayer.level = "none"
    BY <1>3 DEF Layer, NoLayer
  <2> QED BY <2>2, <2>3, LayersAssumption
<1>8. Live(layer', l) /\ f[l] = LayerInsets(l)'
  BY <1>5, <1>6, <1>7 DEF Live, LayerInsets
<1>9. contested' \subseteq Edges
  BY <1>1 DEF Contested
<1> QED BY <1>1, <1>2, <1>5, <1>8, <1>9, ChangedFits

LEMMA DestroyLayerFits ==
    ASSUME LayersInv', FitInv, NEW l \in LayerSurfaces, DestroyLayer(l)
    PROVE  FitInv'
<1> DEFINE f == [fit EXCEPT ![l] = Misfit]
<1>1. /\ UNCHANGED <<layouts, views>> /\ contested' = Contested(layer')
      /\ fit' = ResizeIfChanged(f, layer', space')
      /\ layer' = [layer EXCEPT ![l] = NoLayer]
  BY DEF DestroyLayer
<1>2. layer'[l] = NoLayer /\ \A k \in LayerSurfaces \ {l} : layer'[k] = layer[k]
  BY <1>1 DEF FitInv, LayersTypeOK
<1>3. f \in Fit /\ f[l] = Misfit /\ \A s \in Surfaces \ {l} : f[s] = fit[s]
  BY DEF FitInv, LayersTypeOK, Fit, Surfaces
<1> HIDE DEF f
<1>4. contested' \subseteq Edges
  BY <1>1 DEF Contested
<1> QED BY <1>1, <1>2, <1>3, <1>4, ChangedFits

\* A toplevel is sized for the workspace, and becomes the active one of the next
\* update, if it is not to be fullscreen.
LEMMA EnteredFits ==
    ASSUME LayersInv', FitInv, NEW w \in open', NEW v,
           open' \in {open, open \cup {w}}, open' \subseteq Toplevels,
           visible' = visible \cup {w}, staged' = Append(staged, w),
           fit' = Entered(w, v), PendingView' = Fullscreen(w) => v = Fullscreen(w),
           view' \in {view, Fullscreen(w)},
           PendingView' \in {PendingView, Fullscreen(w)},
           UNCHANGED <<layer, space, active, pending, contested>>
    PROVE  FitInv'
<1>1. w \in Toplevels /\ w \in Surfaces /\ w \notin LayerSurfaces
      /\ LayerSurfaces \subseteq Surfaces /\ visible \subseteq Surfaces
  BY LayersAssumption DEF FitInv, LayersTypeOK, Surfaces
<1>2. /\ fit' \in Fit
      /\ fit'[w] = IF v = Fullscreen(w) THEN Misfit ELSE Available(space)
      /\ \A s \in Surfaces \ {w} : fit'[s] = fit[s]
  BY <1>1, InsetsType DEF Entered, FitInv, LayersTypeOK, Fit
<1>3. staged \in Seq(open') /\ staged' \in Seq(open') /\ PendingActive' = w
  BY DEF FitInv, LayersTypeOK, PendingActive, Last
<1>4. LayersTypeOK'
  BY <1>1, <1>2, <1>3, ViewKinds DEF FitInv, LayersTypeOK
<1>5. /\ \A l \in LayerSurfaces : fit'[l] = fit[l]
      /\ \A l : Live(layer, l)' <=> Live(layer, l)
      /\ \A l \in LayerSurfaces : LayerFits(l)' <=> LayerFits(l)
  BY <1>1, <1>2 DEF Live, LayerFits, LayerInsets
<1>6. DeadUnsized' /\ OverlaysFit'
  BY <1>5 DEF FitInv, DeadUnsized, OverlaysFit
<1>7. WorkspaceFits'
  <2> SUFFICES ASSUME PendingView' = Workspace
               PROVE  /\ fit'[w] \in {Misfit, Available(space)}
                      /\ \A l \in LayerSurfaces : Live(layer, l) => LayerFits(l)'
    BY <1>3, <1>5 DEF WorkspaceFits
  <2>1. PendingView = Workspace
    BY <1>1, ViewKinds
  <2> QED BY <1>2, <1>5, <2>1 DEF FitInv, WorkspaceFits
<1>8. FullscreenFits'
  <2> SUFFICES ASSUME NEW x \in visible', PendingView' = Fullscreen(x)
               PROVE  fit'[x] \in {Misfit, AvailableFullscreen(space)}
    BY DEF FullscreenFits
  <2>1. x \in Toplevels
    BY <1>1 DEF FitInv, LayersTypeOK
  <2>2. CASE x = w
    BY <1>2, <2>2
  <2>3. CASE x # w
    <3>1. PendingView = Fullscreen(x)
      BY <1>1, <2>1, <2>3, ViewKinds, ZenonT(30)
    <3>2. fit[x] \in {Misfit, AvailableFullscreen(space)}
      BY <2>3, <3>1 DEF FitInv, FullscreenFits
    <3> QED BY <1>1, <1>2, <2>3, <3>2
  <2> QED BY <2>2, <2>3
<1> QED BY <1>4, <1>6, <1>7, <1>8 DEF FitInv

LEMMA AddToplevelFits ==
    ASSUME LayersInv', FitInv, NEW w \in Toplevels, AddToplevel(w)
    PROVE  FitInv'
<1>1. /\ open' = open \cup {w} /\ visible' = visible \cup {w} /\ staged' = Append(staged, w)
      /\ view' = Fullscreen(w) /\ fit' = Entered(w, Fullscreen(w))
      /\ UNCHANGED <<layer, space, active, pending, contested>>
  BY DEF AddToplevel
<1>2. PendingView' \in {PendingView, Fullscreen(w)}
  BY <1>1 DEF PendingView
<1>3. open' \subseteq Toplevels
  BY <1>1 DEF FitInv, LayersTypeOK
<1> QED BY <1>1, <1>2, <1>3, EnteredFits

LEMMA ActivateFits ==
    ASSUME LayersInv', FitInv, NEW w \in Toplevels, Activate(w)
    PROVE  FitInv'
<1>1. /\ w \in open' /\ open' = open /\ visible' = visible \cup {w}
      /\ staged' = Append(staged, w) /\ fit' = Entered(w, PendingView)
      /\ UNCHANGED <<layer, space, active, view, pending, contested>>
  BY DEF Activate, views
<1>2. PendingView' = PendingView
  BY <1>1 DEF PendingView
<1>3. open' \subseteq Toplevels
  BY <1>1 DEF FitInv, LayersTypeOK
<1> QED BY <1>1, <1>2, <1>3, EnteredFits

LEMMA SwitchFits ==
    ASSUME LayersInv', FitInv, NEW v \in Views, SwitchAndResize(v)
    PROVE  FitInv'
<1>1. /\ pending' = Switched(v)
      /\ fit' = ResizeVisible(fit, layer, space, IF pending' = NoView THEN view ELSE pending')
      /\ UNCHANGED <<layer, space, open, visible, active, staged, view, contested>>
  BY DEF SwitchAndResize, layouts
<1>2. pending' \in Views \cup {NoView}
  BY <1>1 DEF Switched, FitInv, LayersTypeOK
<1>3. /\ PendingView' = IF pending' = NoView THEN view ELSE pending'
      /\ PendingView' \in Views /\ PendingActive' = PendingActive
  BY <1>1, <1>2 DEF PendingView, PendingActive, FitInv, LayersTypeOK
<1> DEFINE u == IF pending' = NoView THEN view ELSE pending'
<1>4. u \in Views /\ PendingView' = u
  BY <1>3
<1> HIDE DEF u
<1>5. fit' = ResizeVisible(fit, layer, space, u)
  BY <1>1 DEF u
<1>6. LayersTypeOK /\ space \in [Edges -> Reservation] /\ fit \in Fit
  BY DEF FitInv, LayersTypeOK
<1>7. Resized(fit', fit, layer, space, u)
  BY <1>4, <1>5, <1>6, ResizeLemma
<1>8. /\ \A l : Live(layer, l)' <=> Live(layer, l)
      /\ \A l : LayerInsets(l)' = LayerInsets(l)
      /\ Available(space)' = Available(space)
      /\ AvailableFullscreen(space)' = AvailableFullscreen(space)
  BY <1>1 DEF Live, LayerInsets
<1>9. LayersTypeOK'
  BY <1>1, <1>2, <1>7 DEF FitInv, LayersTypeOK, Resized
<1>10. DeadUnsized'
  BY <1>7, <1>8 DEF FitInv, DeadUnsized, Resized
<1>11. OverlaysFit'
  <2> SUFFICES ASSUME NEW l \in LayerSurfaces, Live(layer, l), layer[l].level = "overlay"
               PROVE  fit'[l] \in {Misfit, LayerInsets(l)}
    BY <1>1, <1>8 DEF OverlaysFit, LayerFits
  <2> QED BY <1>7 DEF Resized, LayerInsets
<1>12. WorkspaceFits'
  <2> SUFFICES ASSUME u = Workspace
               PROVE  /\ PendingActive \in visible
                           => fit'[PendingActive] \in {Misfit, Available(space)}
                      /\ \A l \in LayerSurfaces :
                           Live(layer, l) => fit'[l] \in {Misfit, LayerInsets(l)}
    BY <1>1, <1>3, <1>4, <1>8 DEF WorkspaceFits, LayerFits
  <2>1. u.kind # "fullscreen"
    BY ViewKinds
  <2> QED BY <1>7, <2>1 DEF Resized, LayerInsets
<1>13. FullscreenFits'
  BY <1>1, <1>4, <1>7, <1>8 DEF FullscreenFits, Resized
<1> QED BY <1>9, <1>10, <1>11, <1>12, <1>13 DEF FitInv

\* Under a lock only the overlays count.
LEMMA LockFits ==
    ASSUME FitInv, LockSession \/ SetLockSurface \/ Unlock
    PROVE  FitInv'
<1>1. /\ UNCHANGED <<layer, space, open, visible, active, staged, contested>>
      /\ \A l : Live(layer, l)' <=> Live(layer, l)
      /\ \A l : LayerInsets(l)' = LayerInsets(l)
  BY DEF LockSession, SetLockSurface, Unlock, layouts, Live, LayerInsets
<1>2. /\ \A l \in LayerSurfaces : l \in Surfaces
      /\ \A w \in visible : w \in Surfaces
      /\ \A w \in visible : w \in Toplevels
  BY DEF Surfaces, FitInv, LayersTypeOK
<1>3. CASE Unlock
  <2>1. /\ fit' = [s \in Surfaces |-> Misfit] /\ pending' = Workspace /\ view' = view
    BY <1>3 DEF Unlock
  <2>2. LayersTypeOK'
    BY <1>1, <2>1, ViewKinds DEF FitInv, LayersTypeOK, Fit
  <2>3. PendingActive' = PendingActive
    BY <1>1 DEF PendingActive
  <2>4. \A l \in LayerSurfaces : fit'[l] = Misfit
    BY <1>2, <2>1
  <2>5. \A w \in visible : fit'[w] = Misfit
    BY <1>2, <2>1
  <2>6. DeadUnsized' /\ OverlaysFit'
    BY <1>1, <2>4 DEF DeadUnsized, OverlaysFit, LayerFits
  <2>7. WorkspaceFits'
    BY <1>1, <2>3, <2>4, <2>5 DEF WorkspaceFits, LayerFits
  <2>8. FullscreenFits'
    BY <1>1, <2>5 DEF FullscreenFits
  <2> QED BY <2>2, <2>6, <2>7, <2>8 DEF FitInv
<1>4. CASE LockSession \/ SetLockSurface
  <2>1. /\ fit' = fit /\ view' \in Views /\ pending' \in Views \cup {NoView}
        /\ PendingView' \in {PendingView, Lock, LockSurface}
    BY <1>4, ViewKinds
       DEF LockSession, SetLockSurface, Switched, PendingView, FitInv, LayersTypeOK, views
  <2>2. LayersTypeOK'
    BY <1>1, <2>1 DEF FitInv, LayersTypeOK
  <2>3. PendingActive' = PendingActive /\ Available(space)' = Available(space)
        /\ AvailableFullscreen(space)' = AvailableFullscreen(space)
    BY <1>1 DEF PendingActive
  <2>4. DeadUnsized' /\ OverlaysFit'
    BY <1>1, <2>1 DEF FitInv, DeadUnsized, OverlaysFit, LayerFits
  <2>5. WorkspaceFits'
    <3> SUFFICES ASSUME PendingView' = Workspace
                 PROVE  /\ PendingActive \in visible
                             => fit[PendingActive] \in {Misfit, Available(space)}
                        /\ \A l \in LayerSurfaces : Live(layer, l) => LayerFits(l)
      BY <1>1, <2>1, <2>3 DEF WorkspaceFits, LayerFits
    <3>1. PendingView = Workspace
      BY <2>1, ViewKinds
    <3> QED BY <3>1 DEF FitInv, WorkspaceFits
  <2>6. FullscreenFits'
    <3> SUFFICES ASSUME NEW w \in visible, PendingView' = Fullscreen(w)
                 PROVE  fit[w] \in {Misfit, AvailableFullscreen(space)}
      BY <1>1, <2>1, <2>3 DEF FullscreenFits
    <3>1. PendingView = Fullscreen(w)
      BY <1>2, <2>1, ViewKinds
    <3> QED BY <3>1 DEF FitInv, FullscreenFits
  <2> QED BY <2>2, <2>4, <2>5, <2>6 DEF FitInv
<1> QED BY <1>3, <1>4

\* Nothing is resized when what was pending is shown.
LEMMA UpdateFits ==
    ASSUME FitInv, Update
    PROVE  FitInv'
<1>1. /\ view' = PendingView /\ pending' = NoView /\ UNCHANGED <<layer, space, fit, contested>>
      /\ active' = PendingActive /\ visible' \subseteq visible /\ staged' = <<>> /\ open' = open
  BY DEF Update, SwitchLayouts
<1>2. PendingView' = PendingView /\ PendingView \in Views /\ PendingActive' = PendingActive
  BY <1>1 DEF PendingView, PendingActive, FitInv, LayersTypeOK
<1>3. PendingActive \in open \cup {NoSurface}
  BY DEF PendingActive, Last, FitInv, LayersTypeOK
<1>4. staged' \in Seq(open')
  BY <1>1
<1>5. LayersTypeOK'
  BY <1>1, <1>2, <1>3, <1>4 DEF FitInv, LayersTypeOK
<1>6. /\ \A l : Live(layer, l)' <=> Live(layer, l)
      /\ \A l : LayerFits(l)' <=> LayerFits(l)
      /\ Available(space)' = Available(space)
      /\ AvailableFullscreen(space)' = AvailableFullscreen(space)
  BY <1>1 DEF Live, LayerFits, LayerInsets
<1>7. DeadUnsized' /\ OverlaysFit'
  BY <1>1, <1>6 DEF FitInv, DeadUnsized, OverlaysFit
<1>8. WorkspaceFits'
  BY <1>1, <1>2, <1>6 DEF FitInv, WorkspaceFits
<1>9. FullscreenFits'
  BY <1>1, <1>2, <1>6 DEF FitInv, FullscreenFits
<1> QED BY <1>5, <1>7, <1>8, <1>9 DEF FitInv

LEMMA NextFitInv == LayersInv /\ FitInv /\ [LayersNext]_layersVars => FitInv'
<1> SUFFICES ASSUME LayersInv, FitInv, [LayersNext]_layersVars PROVE FitInv'
  OBVIOUS
<1>0. LayersInv'
  BY NextLayersInv
<1>1. ASSUME NEW l \in LayerSurfaces, NEW level \in Levels, AddLayer(l, level)
      PROVE  FitInv'
  BY <1>0, <1>1, AddLayerFits
<1>2. ASSUME NEW l \in LayerSurfaces, NEW anchor \in Edges \cup {NoEdge},
             NEW zone \in Zones \cup {Neutral, DontCare}, CommitLayer(l, anchor, zone)
      PROVE  FitInv'
  BY <1>0, <1>2, CommitLayerFits
<1>3. ASSUME NEW l \in LayerSurfaces, DestroyLayer(l)
      PROVE  FitInv'
  BY <1>0, <1>3, DestroyLayerFits
<1>4. ASSUME NEW w \in Toplevels, AddToplevel(w) \/ Activate(w)
      PROVE  FitInv'
  BY <1>0, <1>4, AddToplevelFits, ActivateFits
<1>5. ASSUME NEW w \in Toplevels, FullscreenRequest(w)
      PROVE  FitInv'
  BY <1>0, <1>5, SwitchFits, ViewKinds DEF FullscreenRequest
<1>6. CASE LeaveFullscreen
  BY <1>0, <1>6, SwitchFits, ViewKinds DEF LeaveFullscreen
<1>7. CASE LockSession \/ SetLockSurface \/ Unlock
  BY <1>7, LockFits
<1>8. CASE Update
  BY <1>8, UpdateFits
<1>9. CASE UNCHANGED layersVars
  <2>1. UNCHANGED <<layer, space, fit, open, visible, active, staged, view, pending, contested>>
    BY <1>9 DEF layersVars
  <2>2. (LayersTypeOK /\ DeadUnsized /\ OverlaysFit)'
    BY <2>1 DEF FitInv, LayersTypeOK, DeadUnsized, OverlaysFit, LayerFits, LayerInsets, Live
  <2>3. PendingView' = PendingView /\ PendingActive' = PendingActive
    BY <2>1 DEF PendingView, PendingActive
  <2>4. (WorkspaceFits /\ FullscreenFits)'
    BY <2>1, <2>3
       DEF FitInv, WorkspaceFits, FullscreenFits, LayerFits, LayerInsets, Live
  <2> QED BY <2>2, <2>4 DEF FitInv
<1> QED
  BY <1>1, <1>2, <1>3, <1>4, <1>5, <1>6, <1>7, <1>8, <1>9 DEF LayersNext

LEMMA AlwaysFitInv == LayersSpec => []FitInv
BY InitLayersInv, NextLayersInv, InitFitInv, NextFitInv, PTL DEF LayersSpec

\* Layers, reservations and sizes keep their types: reservations are zones of
\* layers, and a visible toplevel is one that was created.
THEOREM LayersTypeCorrect == LayersSpec => []LayersTypeOK
<1>1. FitInv => LayersTypeOK
  BY DEF FitInv
<1> QED BY <1>1, AlwaysFitInv, PTL

\* Whatever order panels, toplevels, views and locks change in, what is on screen
\* when nothing is pending has the size that the reserved space leaves it.
THEOREM ShownAlwaysFits == LayersSpec => []ShownFits
<1>1. ASSUME FitInv PROVE ShownFits
  <2> SUFFICES ASSUME pending = NoView, staged = <<>>, NEW s \in Shown
               PROVE  fit[s] \in {Misfit, ExpectedInsets(s)}
    BY DEF ShownFits
  <2>1. PendingView = view /\ PendingActive = active /\ view \in Views
    BY <1>1 DEF PendingView, PendingActive, FitInv, LayersTypeOK
  <2>2. \A w \in visible : w \in Toplevels /\ w \notin LayerSurfaces
    BY <1>1, LayersAssumption DEF FitInv, LayersTypeOK
  <2>3. \A l \in LayerSurfaces : l \notin Toplevels
    BY LayersAssumption
  <2>4. ASSUME NEW l \in LayerSurfaces PROVE ExpectedInsets(l) = LayerInsets(l)
    BY <2>3 DEF ExpectedInsets, LayerInsets
  <2>5. CASE view = Workspace
    <3>1. \/ s = active /\ active \in visible
          \/ s \in LayerSurfaces /\ Live(layer, s)
      <4>1. Shown = ({active} \cap visible) \cup {l \in LayerSurfaces : Live(layer, l)}
        BY <2>5, ViewKinds DEF Shown
      <4> QED BY <4>1
    <3>2. ASSUME s = active, active \in visible PROVE ExpectedInsets(s) = Available(space)
      BY <2>2, <2>5, <3>2 DEF ExpectedInsets
    <3> QED BY <1>1, <2>1, <2>4, <2>5, <3>1, <3>2 DEF FitInv, WorkspaceFits, LayerFits
  <2>6. CASE view.kind = "fullscreen"
    <3>1. view # Workspace /\ view = Fullscreen(view.window)
      BY <2>1, <2>6, ViewKinds
    <3>2. \/ s = view.window /\ s \in visible
          \/ s \in LayerSurfaces /\ Live(layer, s) /\ layer[s].level = "overlay"
      BY <2>6, <3>1 DEF Shown
    <3>3. ASSUME s \in visible PROVE ExpectedInsets(s) = AvailableFullscreen(space)
      BY <2>2, <3>1, <3>3 DEF ExpectedInsets
    <3> QED BY <1>1, <2>1, <2>4, <3>1, <3>2, <3>3
            DEF FitInv, OverlaysFit, FullscreenFits, LayerFits
  <2>7. CASE view # Workspace /\ view.kind # "fullscreen"
    BY <2>7 DEF Shown
  <2> QED BY <2>5, <2>6, <2>7
<1> QED BY <1>1, AlwaysFitInv, PTL

=============================================================================
