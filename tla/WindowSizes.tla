---------------------------- MODULE WindowSizes ----------------------------
(***************************************************************************)
(* How windows get a new size: the transaction of every window             *)
(* (src/shell/windows/window.rs), the surfaces that pass sizes on to       *)
(* clients and report what they acked (surface.rs), the common deadline    *)
(* and the blacklist of windows that miss it (update_transaction in        *)
(* windows/mod.rs), and the textures imported for drawing.  Module Shell   *)
(* has only the set `unacked` of all this.                                 *)
(*                                                                         *)
(* The windows are those of the layouts, toplevels and X11 windows; a size *)
(* stands for a rectangle together with the size at the window's scale.    *)
(*                                                                         *)
(* `windows[w]` is a record:                                               *)
(*   status      "absent", "alive", or "dead": to be reaped                *)
(*   visible     between enter and leave                                   *)
(*   size        the applied size                                          *)
(*   staged      the size of its transaction, or NoSize                    *)
(*   acked       the surface's acked size at its last commit               *)
(*   ignored     on the blacklist: no update waits for the window          *)
(*   locked      it did not commit since it failed a transaction           *)
(*   dirty       a commit has yet to be imported                           *)
(*   texture     the size of the imported buffer, NoSize without one       *)
(*   configured  the initial configure was sent                            *)
(*   sent        the client's part: sizes sent and not answered yet        *)
(*   drawn       the client's part: the size its last buffer was drawn     *)
(*               for, NoSize before it was sent one                        *)
(* `timer` is the deadline of the transaction: "off", "running" or "late". *)
(***************************************************************************)
EXTENDS Naturals, Sequences, SequencesExt

CONSTANTS Windows,      \* the windows there may be
          X11Windows,   \* those of them that belong to XWayland
          Sizes,        \* the sizes the layouts ask for
          NoSize,       \* no size
          MaxSent       \* bound: how many of the sizes it was sent last a
                        \* client may still answer

ASSUME X11Subset == X11Windows \subseteq Windows
ASSUME NoSizeIsNone == NoSize \notin Sizes
ASSUME MaxSentPositive == MaxSent \in Nat \ {0}

VARIABLES windows, timer

vars == <<windows, timer>>

SizeOrNone == Sizes \cup {NoSize}

Window == [status : {"absent", "alive", "dead"}, visible : BOOLEAN,
           size : SizeOrNone, staged : SizeOrNone, acked : SizeOrNone,
           ignored : BOOLEAN, locked : BOOLEAN, dirty : BOOLEAN,
           texture : SizeOrNone, configured : BOOLEAN,
           sent : Seq(Sizes), drawn : SizeOrNone]

\* Nothing reads the rest of a window that is absent or dead.
Gone(status) ==
    [status |-> status, visible |-> FALSE, size |-> NoSize, staged |-> NoSize,
     acked |-> NoSize, ignored |-> FALSE, locked |-> FALSE, dirty |-> FALSE,
     texture |-> NoSize, configured |-> FALSE, sent |-> <<>>, drawn |-> NoSize]

Init ==
    /\ windows = [w \in Windows |-> Gone("absent")]
    /\ timer = "off"

Alive(r) == r.status = "alive"

Started == IF timer = "off" THEN "running" ELSE timer

----------------------------------------------------------------------------
(* One window. *)

\* The size the window has or is about to have.
Target(r) == IF r.staged = NoSize THEN r.size ELSE r.staged

\* The surface passes a size on, or keeps it for the initial configure.
Told(r, s) ==
    IF ~r.configured THEN r
    ELSE [r EXCEPT !.sent = Append(IF Len(@) < MaxSent THEN @ ELSE Tail(@), s)]

SetDimensions(r, s) ==
    IF ~Alive(r) \/ ~r.visible \/ Target(r) = s THEN r
    ELSE Told([r EXCEPT !.staged = s], s)

\* Slip: a window at its size is not waited for, whatever is staged.
DoneAtSize(r) == r.ignored \/ ~Alive(r) \/ r.staged = NoSize \/ r.size = r.acked

TransactionDone(r) ==
    r.ignored \/ ~Alive(r) \/ r.staged = NoSize \/ r.staged = r.acked

\* A window leaves the blacklist with a size that it has acked, if it committed
\* since it was put there or failed again.
ApplyTransaction(r) ==
    LET fails == r.ignored /\ (r.locked \/ r.staged # r.acked)
    IN  IF r.staged = NoSize THEN r
        ELSE [r EXCEPT !.size = r.staged, !.staged = NoSize,
                       !.ignored = fails, !.locked = @ \/ fails]

\* Slip: the dirty flag is taken before the transaction is looked at.
ImportForgets(r) ==
    IF ~Alive(r) \/ ~r.visible \/ ~r.dirty THEN r
    ELSE [r EXCEPT !.dirty = FALSE, !.texture = IF r.staged = NoSize THEN r.drawn ELSE @]

ImportBuffers(r) ==
    IF ~Alive(r) \/ ~r.visible \/ r.staged # NoSize \/ ~r.dirty THEN r
    ELSE [r EXCEPT !.dirty = FALSE, !.texture = r.drawn]

\* The client answers the first n of its sizes.
Answered(r, n) ==
    [r EXCEPT !.drawn = IF n = 0 THEN @ ELSE r.sent[n],
              !.sent = SubSeq(@, n + 1, Len(@))]

\* An X11 surface has the size it was sent last, answered or not.
AckedSize(w, r) ==
    IF w \in X11Windows /\ r.sent # <<>> THEN Last(r.sent) ELSE r.drawn

\* Slip: the initial configure is not sent.
NeverConfigured(r) == [r EXCEPT !.configured = TRUE]

\* Slip: the initial configure has the applied size.
ConfiguredAtSize(r) ==
    IF r.configured THEN r ELSE Told([r EXCEPT !.configured = TRUE], r.size)

InitialConfigure(r) ==
    IF r.configured THEN r ELSE Told([r EXCEPT !.configured = TRUE], Target(r))

SurfaceCommit(w, r) ==
    InitialConfigure([r EXCEPT !.acked = AckedSize(w, r), !.locked = FALSE, !.dirty = TRUE])

----------------------------------------------------------------------------
(* Handlers. *)

Become(ws) ==
    /\ windows' = ws
    /\ timer' = IF \E w \in Windows : ws[w].staged # windows[w].staged
                THEN Started ELSE timer

\* Some of the windows ws, maybe none, are told a size.
Resizings(ws) ==
    {[w \in Windows |-> IF w \in told THEN SetDimensions(windows[w], s) ELSE windows[w]]
     : told \in SUBSET ws, s \in Sizes}

\* A layout with the new window is staged: the window enters and is resized.
\* X11 windows need no initial configure.
Add(w, s) ==
    /\ windows[w].status = "absent"
    /\ LET new == [Gone("alive") EXCEPT !.visible = TRUE, !.configured = w \in X11Windows]
       IN  windows' = [windows EXCEPT ![w] = SetDimensions(new, s)]
    /\ timer' = Started

\* A layout that shows the window again is staged.
Enter(w, s) ==
    /\ Alive(windows[w])
    /\ ~windows[w].visible
    /\ windows' = [windows EXCEPT ![w] = SetDimensions([@ EXCEPT !.visible = TRUE], s)]
    /\ timer' = Started

\* handle_unmap_x11
UnmapX11(w) ==
    /\ w \in X11Windows
    /\ Alive(windows[w])
    /\ windows' = [windows EXCEPT ![w].visible = FALSE]
    /\ timer' = Started

\* handle_map_x11
MapX11(w) ==
    /\ w \in X11Windows
    /\ Alive(windows[w])
    /\ windows' = [windows EXCEPT ![w].visible = TRUE]
    /\ UNCHANGED timer

\* Windows are resized: tiling, exclusive zones, orientation, window scales.
Resize == \E ws \in Resizings(Windows) \ {windows} : Become(ws)

\* Whatever else a transaction is started for.
StartTransaction ==
    /\ timer' = Started
    /\ UNCHANGED windows

\* A changed app ID may come with another window scale, that is, another size.
\* X11 surfaces have no such ID.
Rescaled(w, r) ==
    IF w \in X11Windows THEN {r} ELSE {r} \cup {SetDimensions(r, s) : s \in Sizes}

\* A client commits, for the first n of the sizes it was sent.
Commit(w, n) ==
    /\ Alive(windows[w])
    /\ \E r \in Rescaled(w, SurfaceCommit(w, Answered(windows[w], n))) :
         Become([windows EXCEPT ![w] = r])

\* A window is closed or destroyed; its sibling, if any, gets its space.
Close(w) ==
    /\ Alive(windows[w])
    /\ \E ws \in Resizings(Windows \ {w}) :
         windows' = [ws EXCEPT ![w] = Gone("dead")]
    /\ timer' = Started

\* close_app: clients are asked to close, and their windows count as dead.
CloseApp(ws) ==
    /\ \A w \in ws : Alive(windows[w])
    /\ windows' = [w \in Windows |-> IF w \in ws THEN Gone("dead") ELSE windows[w]]
    /\ UNCHANGED timer

Tick ==
    /\ timer = "running"
    /\ timer' = "late"
    /\ UNCHANGED windows

----------------------------------------------------------------------------
(* create_frame: update_transaction and import_buffers. *)

Applies == timer # "running" \/ \A w \in Windows : TransactionDone(windows[w])

Blacklisted(r) ==
    IF timer = "late" /\ ~TransactionDone(r)
    THEN [r EXCEPT !.ignored = TRUE, !.locked = TRUE] ELSE r

\* One window passes the transaction, and leaves with its layout if that is
\* switched away from.
Passed(r, leaves) ==
    IF Alive(r)
    THEN ApplyTransaction([Blacklisted(r) EXCEPT !.visible = @ /\ ~leaves])
    ELSE Gone("absent")

ImportAll(ws) == [w \in Windows |-> ImportBuffers(ws[w])]

\* A layout is left by a switch that was staged, and the view staged for a
\* fullscreen window that is gone starts the next transaction.
Updated(leaving) ==
    /\ \/ timer' = "off"
       \/ /\ \E w \in Windows : windows[w].status = "dead"
          /\ timer' = "running"
    /\ windows' = ImportAll([w \in Windows |-> Passed(windows[w], w \in leaving)])

\* Windows that wait for others, or for a layer or the lock surface, are drawn as
\* they are, windows that have nothing staged as they come.
Waits ==
    /\ timer = "running"
    /\ UNCHANGED timer
    /\ windows' = ImportAll(windows)

MayLeave == IF timer = "off" THEN {} ELSE {w \in Windows : windows[w].visible}

Frame ==
    \/ /\ Applies
       /\ \E leaving \in SUBSET MayLeave : Updated(leaving)
    \/ Waits

Next ==
    \/ \E w \in Windows, s \in Sizes :
         \/ Add(w, s)
         \/ Enter(w, s)
    \/ \E w \in Windows :
         \/ Close(w)
         \/ UnmapX11(w)
         \/ MapX11(w)
         \/ \E n \in 0 .. Len(windows[w].sent) : Commit(w, n)
    \/ \E ws \in SUBSET Windows : CloseApp(ws)
    \/ Resize
    \/ StartTransaction
    \/ Tick
    \/ Frame

\* Commits and deadlines bring frames, as module RenderLoop shows, and time
\* passes.
Spec == Init /\ [][Next]_vars /\ WF_vars(Frame) /\ WF_vars(Tick)

----------------------------------------------------------------------------
(* Properties. *)

\* Windows and timer have their types.
TypeOK ==
    /\ windows \in [Windows -> Window]
    /\ \A w \in Windows : Len(windows[w].sent) <= MaxSent
    /\ timer \in {"off", "running", "late"}

AwaitsAck(w) ==
    /\ Alive(windows[w]) /\ ~windows[w].ignored
    /\ windows[w].staged # NoSize /\ windows[w].staged # windows[w].acked

\* What there is to see of the windows, and who is waited for.
Transactions == INSTANCE AtomicResize WITH
    shown <- [w \in Windows |-> windows[w].size],
    picture <- [w \in Windows |-> windows[w].texture],
    wanted <- [w \in Windows |-> windows[w].staged],
    owing <- {w \in Windows : AwaitsAck(w)},
    deadline <- timer

\* Windows are resized together: in one step or not at all, and not while some
\* client has yet to draw at its new size and has the time to.  Configures that
\* cross, clients that answer late, hidden, dying and blacklisted windows do not
\* let a window change its size or its picture ahead of the others.
ResizedTogether == Transactions!Spec

\* No commit is lost: a window that does not show what its client has drawn knows
\* that it has to import it, whatever transactions the commit came in between and
\* however often the window was hidden.
CommitsKept ==
    \A w \in Windows : windows[w].texture # windows[w].drawn => windows[w].dirty

Responds(w) ==
    Alive(windows[w]) => windows[w].configured /\ windows[w].sent = <<>>

Disturbed(w) ==
    \/ Target(windows[w])' # Target(windows[w])
    \/ windows'[w].visible # windows[w].visible
    \/ windows'[w].status # windows[w].status

Fits(w) ==
    Alive(windows[w]) /\ windows[w].visible =>
        windows[w].staged = NoSize /\ windows[w].texture = windows[w].size

\* A client that answers gets its window right in the end, whatever other
\* clients do, and also after it was late once or more: either it is resized
\* over and over, or its window is drawn at its size.  X11 clients may choose
\* another size for themselves.
Converges ==
    \A w \in Windows \ X11Windows :
        []<>Responds(w) => []<>Fits(w) \/ []<><<Disturbed(w)>>_vars

============================================================================
