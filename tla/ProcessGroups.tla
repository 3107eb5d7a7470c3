--------------------------- MODULE ProcessGroups ---------------------------
(***************************************************************************)
(* Suspending and resuming applications: `Windows::focus`,                 *)
(* `update_pending_state` and the first lines of `update_transaction`      *)
(* (src/shell/windows/mod.rs).  When the activated window changes, the     *)
(* process group of the old one gets SIGSTOP after a delay, and that of    *)
(* the new one SIGCONT, at once or after a delay when it is reached from   *)
(* the home or navigation application.  One slot holds the delayed stop    *)
(* and one the delayed continue; the gamepad poll and frames look at them. *)
(***************************************************************************)
EXTENDS Integers, FiniteSets

CONSTANTS
    Windows, NoWindow,
    Groups, NoGroup,     \* process groups, and that of windows without one: those
                         \* not launched from here, and further ones of a process
    GroupOf,             \* the process group recorded for each window
    RoleOf,              \* the system role of each window: home, nav or none
    Delay                \* the delay of both slots, in ticks

ASSUME GroupsAssumption ==
    /\ NoWindow \notin Windows
    /\ NoGroup \notin Groups
    /\ GroupOf \in [Windows -> Groups \cup {NoGroup}]
    /\ RoleOf \in [Windows -> {"home", "nav", "none"}]
    /\ Delay \in Nat

VARIABLES
    open,        \* windows in the layouts
    focus,       \* the focused toplevel, as focus() will find it
    activated,   \* the window with the activated flag
    role,        \* active_role
    suspend,     \* pending_suspend
    resume,      \* pending_resume
    stopped,     \* groups that got SIGSTOP last
    raced        \* history: a frame resumed a group whose stop was due as well

groupsVars == <<open, focus, activated, role, suspend, resume, stopped, raced>>

Nothing == [group |-> NoGroup, left |-> 0]

Slots == [group : Groups, left : 0..Delay] \cup {Nothing}

After(group) == [group |-> group, left |-> Delay]

Due(slot) == slot # Nothing /\ slot.left = 0

GroupsInit == /\ open = Windows
        /\ focus = NoWindow
        /\ activated = NoWindow
        /\ role = "none"
        /\ suspend = Nothing
        /\ resume = Nothing
        /\ stopped = {}
        /\ raced = FALSE

----------------------------------------------------------------------------

Group(w) == IF w = NoWindow THEN NoGroup ELSE GroupOf[w]

\* Touches, IPC messages and new windows move the focus.
SetFocus(w) ==
    /\ focus' = w
    /\ UNCHANGED <<open, activated, role, suspend, resume, stopped, raced>>

\* Slip: a stop is scheduled for whatever had the flag, a window or nothing.
SuspendAny == After(Group(activated))

\* The old group is stopped later, unless its window is gone.
SuspendOld ==
    IF activated \in open /\ Group(activated) # NoGroup
    THEN After(Group(activated)) ELSE suspend

\* Coming from home or navigation, other windows than home are resumed later.
Delayed == role \in {"home", "nav"} /\ RoleOf[focus] # "home"

\* Slip: resuming a group does not cancel its pending stop.
ActivateKeepingStop ==
    /\ role' = RoleOf[focus]
    /\ suspend' = SuspendOld
    /\ resume' = IF Group(focus) # NoGroup /\ Delayed THEN After(Group(focus)) ELSE Nothing
    /\ stopped' = IF Delayed THEN stopped ELSE stopped \ {Group(focus)}

\* The activated window changes to another window.
Activate ==
    /\ role' = RoleOf[focus]
    /\ IF Group(focus) = NoGroup
       THEN /\ suspend' = SuspendOld
            /\ resume' = Nothing
            /\ stopped' = stopped
       ELSE IF Delayed
       THEN /\ suspend' = SuspendOld
            /\ resume' = After(Group(focus))
            /\ stopped' = stopped
       ELSE /\ suspend' = IF SuspendOld.group = Group(focus) THEN Nothing ELSE SuspendOld
            /\ resume' = Nothing
            /\ stopped' = stopped \ {Group(focus)}

\* No toplevel has the focus any more; a focused layer surface lends its role.
Deactivate ==
    /\ role' \in {"home", "nav", "none"}
    /\ suspend' = SuspendOld
    /\ UNCHANGED <<resume, stopped>>

\* focus(), as a frame or a tap calls it.
UpdateFocus ==
    /\ activated # focus
    /\ IF focus = NoWindow THEN Deactivate ELSE Activate
    /\ activated' = focus
    /\ UNCHANGED <<open, focus, raced>>

\* Slip: only the stop is polled for.
PollStops ==
    /\ Due(suspend)
    /\ stopped' = stopped \cup {suspend.group}
    /\ suspend' = Nothing
    /\ UNCHANGED <<open, focus, activated, role, resume, raced>>

\* update_pending_state, from poll_gamepad: the stop first, then the continue.
Poll ==
    /\ Due(suspend) \/ Due(resume)
    /\ LET stops == IF Due(suspend) THEN {suspend.group} ELSE {}
           continues == IF Due(resume) THEN {resume.group} ELSE {}
       IN  stopped' = (stopped \cup stops) \ continues
    /\ suspend' = IF Due(suspend) THEN Nothing ELSE suspend
    /\ resume' = IF Due(resume) THEN Nothing ELSE resume
    /\ UNCHANGED <<open, focus, activated, role, raced>>

\* update_transaction only looks at the continue.
UpdateTransaction ==
    /\ Due(resume)
    /\ stopped' = stopped \ {resume.group}
    /\ resume' = Nothing
    /\ raced' = (raced \/ suspend.group = resume.group)
    /\ UNCHANGED <<open, focus, activated, role, suspend>>

\* close_app kills a window; the next frame drops it and finds another focus.
Close(w) ==
    /\ w \in open
    /\ open' = open \ {w}
    /\ focus' \in IF focus = w THEN open' \cup {NoWindow} ELSE {focus}
    /\ UNCHANGED <<activated, role, suspend, resume, stopped, raced>>

Tick ==
    /\ suspend.left > 0 \/ resume.left > 0
    /\ suspend' = IF suspend.left > 0 THEN [suspend EXCEPT !.left = @ - 1] ELSE suspend
    /\ resume' = IF resume.left > 0 THEN [resume EXCEPT !.left = @ - 1] ELSE resume
    /\ UNCHANGED <<open, focus, activated, role, stopped, raced>>

GroupsNext ==
    \/ \E w \in open \cup {NoWindow} : SetFocus(w)
    \/ UpdateFocus
    \/ Poll
    \/ UpdateTransaction
    \/ \E w \in Windows : Close(w)
    \/ Tick

\* The poll timer fires every 16 ms.
GroupsSpec == GroupsInit /\ [][GroupsNext]_groupsVars /\ WF_groupsVars(Tick) /\ WF_groupsVars(Poll)
----------------------------------------------------------------------------
(* Properties. *)

\* The variables have their types.
GroupsTypeOK ==
    /\ open \subseteq Windows
    /\ focus \in open \cup {NoWindow}
    /\ activated \in Windows \cup {NoWindow}
    /\ role \in {"home", "nav", "none"}
    /\ suspend \in Slots
    /\ resume \in Slots
    /\ stopped \subseteq Groups
    /\ raced \in BOOLEAN

\* However fast the focus moves and whichever delayed signals overwrite or overtake
\* each other, the group recorded for the window the user works with is stopped only
\* while its continue is pending.  A frame that resumes a group whose stop is still
\* pending is the exception.  Of a window without a recorded group nothing is said:
\* when it is the further window of a launched process (see OwnGroup of Launch), its
\* process is stopped with the group of the first one and stays so.
FocusedRuns ==
    activated # NoWindow /\ Group(activated) \in stopped /\ ~raced
      => resume.group = Group(activated)

\* And it is not about to be stopped with nothing to continue it.
FocusedStays ==
    activated # NoWindow /\ suspend # Nothing /\ suspend.group = Group(activated)
      => raced \/ resume.group = Group(activated)

\* When the activated window's group is due for both, the stop comes no later
\* than the continue: the other way round the group would stay stopped.
StopComesFirst ==
    /\ activated # NoWindow
    /\ suspend.group = Group(activated)
    /\ resume.group = Group(activated)
    => suspend.left <= resume.left

\* The recorded group of the activated window runs or will, and whatever stop is
\* still to come for it is followed by its continue.
FocusedKept == FocusedRuns /\ FocusedStays /\ StopComesFirst

\* A stopped group of the activated window is continued.
FocusedResumes ==
    \A w \in Windows :
        activated = w /\ Group(w) \in stopped
          ~> activated # w \/ Group(w) \notin stopped \/ raced

============================================================================
