---------------------------- MODULE AtomicResize ----------------------------
(***************************************************************************)
(* What the window manager promises about resizing: all windows that were  *)
(* asked to change their size do so in one step, as soon as the client of  *)
(* the last of them has drawn at its new size, or at a deadline.  Until    *)
(* then each keeps the size and the picture it has.  Module WindowSizes    *)
(* implements this with a transaction in every window, configure events,   *)
(* a shared start time and a blacklist (src/shell/windows/mod.rs).         *)
(***************************************************************************)
CONSTANTS Windows, Sizes, NoSize

VARIABLES
    shown,      \* the size each window has, NoSize if it has none
    picture,    \* the size at which the picture of each window was drawn
    wanted,     \* the size each window was asked to have, or NoSize
    owing,      \* the windows whose clients have yet to draw at the wanted size
    deadline    \* "off", "running" or "late"

vars == <<shown, picture, wanted, owing, deadline>>

Nowhere == [w \in Windows |-> NoSize]

Init ==
    /\ shown = Nowhere
    /\ picture = Nowhere
    /\ wanted = Nowhere
    /\ owing = {}
    /\ deadline = "off"

OwingNext == owing' \subseteq {w \in Windows : wanted'[w] # NoSize}

\* Windows are asked for sizes, clients draw, and some windows die: the others
\* keep size and picture, and nobody is asked without a deadline.
Ask ==
    /\ \E dying \in SUBSET Windows :
         /\ shown' = [w \in Windows |-> IF w \in dying THEN NoSize ELSE shown[w]]
         /\ picture' = [w \in Windows |-> IF w \in dying THEN NoSize ELSE picture[w]]
         /\ \A w \in Windows \ dying : wanted[w] # NoSize => wanted'[w] # NoSize
    /\ wanted' \in [Windows -> Sizes \cup {NoSize}]
    /\ OwingNext
    /\ \/ deadline' = deadline
       \/ deadline = "off" /\ deadline' = "running"
    /\ wanted' = Nowhere \/ deadline' # "off"

\* Time is up for whoever is owing.
Expire ==
    /\ deadline = "running"
    /\ deadline' = "late"
    /\ UNCHANGED <<shown, picture, wanted, owing>>

\* A frame in between: only windows that keep their size get a new picture.
Draw ==
    /\ \A w \in Windows : wanted[w] # NoSize => picture'[w] = picture[w]
    /\ UNCHANGED <<shown, wanted, owing, deadline>>

\* A frame that applies the transaction, to all windows or to none.
Apply ==
    /\ owing = {} \/ deadline = "late"
    /\ shown' = [w \in Windows |-> IF wanted[w] # NoSize THEN wanted[w] ELSE shown[w]]
    /\ wanted' = Nowhere
    /\ owing' = {}
    /\ deadline' \in {"off", "running"}

Next == Ask \/ Expire \/ Draw \/ Apply

Spec == Init /\ [][Next]_vars
=============================================================================
