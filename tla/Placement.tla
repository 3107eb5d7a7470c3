----------------------------- MODULE Placement ------------------------------
(***************************************************************************)
(* Where a popup is put: `PopupConstrainer`, and when it is used.  A       *)
(* commit or a reposition request computes the location of the popup from  *)
(* its positioner, its size and the size of its parent; the size is that   *)
(* of the textures, which a frame imports after the commit.                *)
(*                                                                         *)
(* Locations are relative to the parent; the scales of the window and of   *)
(* the output agree.  The popup is in the tree of a toplevel (module       *)
(* Popups).                                                                *)
(***************************************************************************)
EXTENDS Integers

CONSTANTS
    Positioners,      \* the positioners clients use
    Sizes,            \* the sizes of popups and parents
    NoSize            \* the size of a popup without a buffer

Axes == {"x", "y"}

\* What a positioner says about one axis.  The anchor rectangle begins at `base`,
\* the offset included; anchor and gravity are -1 for left and top, 1 for right
\* and bottom, 0 for neither; `size` is rect_size; flip and slide are the bits of
\* constraint_adjustment.
Positioner == [base : Int, extent : Nat, anchor : -1..1, gravity : -1..1,
               size : Nat, flip : BOOLEAN, slide : BOOLEAN]

ASSUME PlacementAssumption ==
    /\ Positioners \subseteq [Axes -> Positioner]
    /\ Sizes \subseteq [Axes -> Nat]
    /\ NoSize \in Sizes
    /\ \A axis \in Axes : NoSize[axis] = 0

VARIABLES
    positioner,       \* of the pending state, flipped by the constrainer
    cached,           \* size of the imported textures
    committed,        \* size of the last committed buffer
    parent,           \* size of the parent
    nested,           \* whether the parent is a popup itself
    location,         \* of the popup
    stale             \* history: what has changed since the location was computed;
                      \* "new": it was not computed yet

placingVars == <<positioner, cached, committed, parent, nested, location, stale>>

\* Popups are given a location and never a size, so the bounds of a popup that is
\* a parent are empty.
Bounds(size) == IF nested THEN NoSize ELSE size

Unplaced ==
    /\ positioner \in Positioners
    /\ cached = NoSize
    /\ committed = NoSize
    /\ parent \in Sizes
    /\ nested \in BOOLEAN
    /\ location = [axis \in Axes |-> 0]
    /\ stale = {"new"}

----------------------------------------------------------------------------
(* PopupConstrainer. *)

\* The part of `extent` an edge stands for.
Along(extent, edge) ==
    CASE edge = -1 -> 0 [] edge = 0 -> extent \div 2 [] OTHER -> extent

\* PositionerState::get_geometry.
Geometry(p) ==
    [axis \in Axes |-> p[axis].base + Along(p[axis].extent, p[axis].anchor)
                         - Along(p[axis].size, -p[axis].gravity)]

Fits(at, size, bounds) == 0 <= at /\ at + size <= bounds

\* Rectangle::contains_rect.
Inside(loc, size, bounds) ==
    \A axis \in Axes : Fits(loc[axis], size[axis], bounds[axis])

\* flip, on the axes where the popup does not fit.
Flipped(p, size, bounds) ==
    [axis \in Axes |->
        IF p[axis].flip /\ ~Fits(Geometry(p)[axis], size[axis], bounds[axis])
        THEN [p[axis] EXCEPT !.anchor = -@, !.gravity = -@]
        ELSE p[axis]]

Least(a, b) == IF a <= b THEN a ELSE b
Greatest(a, b) == IF a <= b THEN b ELSE a

\* Slip: the near edge is moved to the far end of the bounds.
SlideToBounds(at, size, bounds) ==
    IF at < 0 /\ at + size < bounds THEN Least(bounds - size, 0)
    ELSE IF at > 0 /\ at + size > bounds THEN Greatest(bounds, 0)
    ELSE at

\* slide, on one axis.
Slide(at, size, bounds) ==
    IF at < 0 /\ at + size < bounds THEN Least(bounds - size, 0)
    ELSE IF at > 0 /\ at + size > bounds THEN Greatest(bounds - size, 0)
    ELSE at

Slid(p, size, bounds) ==
    [axis \in Axes |-> IF p[axis].slide
                       THEN Slide(Geometry(p)[axis], size[axis], bounds[axis])
                       ELSE Geometry(p)[axis]]

Placed(p, loc) == [positioner |-> p, location |-> loc]

\* constrained_location: as it is, flipped, or slid.
Constrained(p, size, bounds) ==
    LET flipped == Flipped(p, size, bounds)
    IN  IF Inside(Geometry(p), size, bounds) THEN Placed(p, Geometry(p))
        ELSE IF Inside(Geometry(flipped), size, bounds)
        THEN Placed(flipped, Geometry(flipped))
        ELSE Placed(p, Slid(p, size, bounds))

----------------------------------------------------------------------------
(* The operations. *)

PlacePopup(p) ==
    LET placed == Constrained(p, cached, Bounds(parent))
    IN  /\ positioner' = placed.positioner
        /\ location' = placed.location
        /\ stale' = {}
        /\ UNCHANGED <<cached, parent, nested>>

\* popup_surface_commit; the first commit has no buffer, the buffers of others are
\* imported later.
CommitPopup(size) ==
    /\ "new" \in stale => size = NoSize
    /\ PlacePopup(positioner)
    /\ committed' = size

\* reposition_request and reposition_popup; an orphan is not found.
RepositionPopup(p) ==
    /\ "new" \notin stale
    /\ PlacePopup(p)
    /\ UNCHANGED committed

\* import_buffers, in the next frame.
Import ==
    /\ cached' = committed
    /\ stale' = IF cached = committed THEN stale ELSE stale \cup {"size"}
    /\ UNCHANGED <<positioner, committed, parent, nested, location>>

\* The parent gets another size; its popups stay where they are.
ResizeParent(size) ==
    /\ parent' = size
    /\ stale' = IF size = parent THEN stale ELSE stale \cup {"parent"}
    /\ UNCHANGED <<positioner, cached, committed, nested, location>>

PlacingNext ==
    \/ \E size \in Sizes : CommitPopup(size)
    \/ \E p \in Positioners : RepositionPopup(p)
    \/ Import
    \/ \E size \in Sizes : ResizeParent(size)

PlacingSpec == Unplaced /\ [][PlacingNext]_placingVars
----------------------------------------------------------------------------
(* Properties. *)

\* The variables have their types.
PlacingTypeOK ==
    /\ positioner \in [Axes -> Positioner]
    /\ cached \in Sizes
    /\ committed \in Sizes
    /\ parent \in Sizes
    /\ nested \in BOOLEAN
    /\ location \in [Axes -> Int]
    /\ stale \subseteq {"new", "size", "parent"}

\* The popup may slide wherever it has to, and there is room for it.
CanSlide ==
    \A axis \in Axes :
        positioner[axis].slide /\ cached[axis] <= Bounds(parent)[axis]

\* A location that is up to date is inside of the parent when sliding can bring it
\* there, whichever edges stick out, by how much, and whatever was flipped before.
SlidInside == stale = {} /\ CanSlide => Inside(location, cached, Bounds(parent))

\* The constrainer writes its flips to the positioner it reads the next time: a
\* popup that commits again, with nothing changed, does not jump back and forth.
Stable ==
    stale = {} => Constrained(positioner, cached, Bounds(parent))
                 = Placed(positioner, location)

\* A popup stays where it was put, and that is inside if it can be.
Settled == SlidInside /\ Stable

============================================================================
