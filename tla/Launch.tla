------------------------------- MODULE Launch -------------------------------
(***************************************************************************)
(* Launching applications over IPC: ExecOrFocus, Exec and FocusRole        *)
(* (src/backend/ipc.rs), the pending launch, the mappings learned from it  *)
(* and their file (src/shell/windows/mod.rs).  A launch is noted before    *)
(* its process is spawned, and the next window that is added, of whichever *)
(* process, takes it: the window becomes a member of the process group of  *)
(* the launch, and its name is learned for the command and the card.  A    *)
(* further window of the process finds no launch, and has no group.        *)
(*                                                                         *)
(* A process is launched in a process group of its own name.  The names    *)
(* that were learned are compiled as patterns when they are used: which of *)
(* them are patterns and what those match is left to the constants.        *)
(* Windows are in layouts of their own, in the order of their creation.    *)
(* The home application runs from the start.  What signals do with the     *)
(* groups is module ProcessGroups.                                         *)
(***************************************************************************)
EXTENDS Integers, SequencesExt

CONSTANTS
    Processes, Home,      \* processes, and the one of the home application
    Toplevels, HomeWindow, \* windows, and the one home has from the start
    Applications,         \* the names that windows have: app ids, classes, titles
    X11Applications,      \* those of windows that have theirs when they are added
    HomeApplication,
    Commands,
    ApplicationOf,        \* the name of the first window a command shows
    Keys, KeyOf,          \* normalize_command_key
    Cards,
    Hints,                \* the names that the hints of ExecOrFocus match
    Files,                \* what the file has when the first session starts
    None,                 \* no key, card, group, name, window
    Nameless,             \* the name learned from a window that has none yet
    Valid,                \* the names that AppIdMatcher compiles
    MatchedBy             \* the windows' names each of those matches

Names == Applications \cup {Nameless}

ASSUME LaunchAssumption ==
    /\ Home \in Processes /\ HomeWindow \in Toplevels
    /\ X11Applications \subseteq Applications
    /\ HomeApplication \in Applications
    /\ ApplicationOf \in [Commands -> Applications]
    /\ KeyOf \in [Commands -> Keys \cup {None}]
    /\ Valid \subseteq Names
    /\ MatchedBy \in [Valid -> SUBSET Applications]
    /\ Keys \cap Cards = {}
    /\ Hints \subseteq SUBSET Applications
    /\ Files \subseteq [Keys \cup Cards -> Names \cup {None}]
    /\ None \notin Processes \cup Toplevels \cup Keys \cup Cards \cup Names
    /\ "no launch" \notin Processes \cup {None}

VARIABLES
    process,     \* what each process runs, see Process
    window,      \* see Window
    order,       \* the open windows, as layouts() has them
    focused,     \* the focused window, or None
    pending,     \* pending_launch, or NoLaunch
    names,       \* command_map and card_map: the name learned, or None
    saved,       \* the mappings file, without names when it cannot be read
    crossed,     \* history: a window was added or a launch was noted between a
                 \* launch and its window, or a launch had no window
    unsaved      \* history: the file could not be written

vars == <<process, window, order, focused, pending, names, saved, crossed, unsaved>>

\* `key` is that of the ExecOrFocus that started the process.
Process == [application : Applications, launched : BOOLEAN, key : Keys \cup {None},
            shown : BOOLEAN]
Free == [application |-> None, launched |-> FALSE, key |-> None, shown |-> FALSE]

\* An XDG window is not `named` until its client has sent an app id.
Window == [process : Processes, first : BOOLEAN, name : Applications,
           named : BOOLEAN, group : Processes \cup {None}]
Closed == [process |-> None, first |-> FALSE, name |-> None, named |-> FALSE,
           group |-> None]

Launches == [key : Keys \cup {None}, card : Cards \cup {None},
             group : Processes \cup {None}]
NoLaunch == [key |-> None, card |-> None, group |-> "no launch"]

Unlearned == [k \in Keys \cup Cards |-> None]

\* A session that starts: the home application and its window.
SessionProcesses ==
    [p \in Processes |->
       IF p = Home THEN [Free EXCEPT !.application = HomeApplication, !.shown = TRUE]
       ELSE Free]
SessionWindows ==
    [w \in Toplevels |->
       IF w = HomeWindow
       THEN [process |-> Home, first |-> TRUE, name |-> HomeApplication,
             named |-> TRUE, group |-> None]
       ELSE Closed]

Init ==
    /\ process = SessionProcesses
    /\ window = SessionWindows
    /\ order = <<HomeWindow>>
    /\ focused = HomeWindow
    /\ pending = NoLaunch
    /\ saved \in Files
    /\ names = saved
    /\ crossed = FALSE
    /\ unsaved = FALSE

----------------------------------------------------------------------------
(* Focusing. *)

\* focus_app with a pattern that matches these: the first window that has such a
\* name, or None.  A window without a name matches nothing.
Found(matched) ==
    LET first == SelectInSeq(order, LAMBDA w : window[w].named /\ window[w].name \in matched)
    IN  IF first = 0 THEN None ELSE order[first]

\* focus_mapped_card and focus_mapped_command; what is no pattern finds nothing.
Mapped(label) ==
    IF label = None \/ names[label] \notin Valid THEN None
    ELSE Found(MatchedBy[names[label]])

\* Slip: the window of the command is not looked for.
TargetByHint(c, hint, card) ==
    IF Found(hint) # None THEN Found(hint) ELSE Mapped(card)

\* What ExecOrFocus focuses: by the names the hint matches, by the card, by the
\* command.  A hint that is no pattern is passed over.
Target(c, hint, card) ==
    IF Found(hint) # None THEN Found(hint)
    ELSE IF Mapped(card) # None THEN Mapped(card)
    ELSE Mapped(KeyOf[c])

----------------------------------------------------------------------------
(* Launching. *)

\* Launched processes that have yet to show their first window.
Outstanding == {p \in Processes : process[p].launched /\ ~process[p].shown}

\* note_launch and note_launch_context, spawn, and update_pending_pgid; when the
\* spawn fails, the launch stays noted.
LaunchOf(c, key, card) ==
    /\ \/ \E p \in Processes :
            /\ process[p] = Free
            /\ process' = [process EXCEPT ![p] =
                 [application |-> ApplicationOf[c], launched |-> TRUE, key |-> key,
                  shown |-> FALSE]]
            /\ pending' = [key |-> key, card |-> card, group |-> p]
            /\ crossed' = (crossed \/ Outstanding # {})
       \/ /\ pending' = [key |-> key, card |-> card, group |-> None]
          /\ crossed' = TRUE
          /\ UNCHANGED process
    /\ UNCHANGED <<window, order, focused, names, saved, unsaved>>

ExecOrFocus(c, hint, card) ==
    IF Target(c, hint, card) # None
    THEN /\ focused' = Target(c, hint, card)
         /\ UNCHANGED <<process, window, order, pending, names, saved, crossed, unsaved>>
    ELSE LaunchOf(c, KeyOf[c], card)

Exec(c) == LaunchOf(c, None, None)

----------------------------------------------------------------------------
(* Windows. *)

\* Slip: the launch stays noted.
TakeLaunchKeeping(name) ==
    IF pending = NoLaunch THEN UNCHANGED <<pending, names, saved, unsaved>>
    ELSE /\ pending' = pending
         /\ names' = [k \in Keys \cup Cards |->
                        IF k \in {pending.key, pending.card} THEN name ELSE names[k]]
         /\ saved' = names'
         /\ unsaved' = unsaved

\* The end of `add` and `add_x11`: the window takes the pending launch.  fs::write
\* empties the file and writes it; errors, before or after that, are ignored.
TakeLaunch(name) ==
    IF pending = NoLaunch THEN UNCHANGED <<pending, names, saved, unsaved>>
    ELSE /\ pending' = NoLaunch
         /\ names' = [k \in Keys \cup Cards |->
                        IF k \in {pending.key, pending.card} THEN name ELSE names[k]]
         /\ \/ saved' = names' /\ unsaved' = FALSE
            \/ saved' \in {saved, Unlearned} /\ unsaved' = TRUE

\* `add` and `add_x11`: the name of an XDG window is not known yet.
AddWindow(w, p, name, first) ==
    LET hasClass == name \in X11Applications
    IN  /\ window[w] = Closed
        /\ window' = [window EXCEPT ![w] =
             [process |-> p, first |-> first, name |-> name, named |-> hasClass,
              group |-> IF pending = NoLaunch THEN None ELSE pending.group]]
        /\ order' = Append(order, w)
        /\ focused' = w
        /\ TakeLaunch(IF hasClass THEN name ELSE Nameless)
        /\ crossed' = (crossed \/ Outstanding \ {p} # {})

\* The first window of a launched process.
Show(w, p) ==
    /\ p \in Outstanding
    /\ AddWindow(w, p, process[p].application, TRUE)
    /\ process' = [process EXCEPT ![p].shown = TRUE]

\* A further window of a process, whatever its name.
ShowAnother(w, p, name) ==
    /\ process[p].shown
    /\ AddWindow(w, p, name, FALSE)
    /\ UNCHANGED process

\* The first window of a process that was started elsewhere.
ShowForeign(w, p, name) ==
    /\ process[p] = Free
    /\ AddWindow(w, p, name, TRUE)
    /\ process' = [process EXCEPT ![p] =
         [application |-> name, launched |-> FALSE, key |-> None, shown |-> TRUE]]

\* The client sends its app id.
SetAppId(w) ==
    /\ window[w] # Closed /\ ~window[w].named
    /\ window' = [window EXCEPT ![w].named = TRUE]
    /\ UNCHANGED <<process, order, focused, pending, names, saved, crossed, unsaved>>

\* FocusRole, which the thread that waits for a launched process asks for.
FocusHome ==
    /\ Found({HomeApplication}) # None
    /\ focused' = Found({HomeApplication})
    /\ UNCHANGED <<process, window, order, pending, names, saved, crossed, unsaved>>

\* Slip: the focus stays where it was.
CloseFocused(w) ==
    /\ window[w] # Closed
    /\ window' = [window EXCEPT ![w] = Closed]
    /\ order' = RemoveFirst(order, w)
    /\ UNCHANGED <<process, focused, pending, names, saved, crossed, unsaved>>

\* A window dies and is reaped; an update finds the next focus.
CloseWindow(w) ==
    /\ window[w] # Closed
    /\ window' = [window EXCEPT ![w] = Closed]
    /\ order' = RemoveFirst(order, w)
    /\ focused' \in IF focused = w THEN {None} \cup Range(order') ELSE {focused}
    /\ UNCHANGED <<process, pending, names, saved, crossed, unsaved>>

\* A process exits, its windows having died.
Exit(p) ==
    /\ process[p] # Free
    /\ p # Home
    /\ \A w \in Toplevels : window[w].process # p
    /\ process' = [process EXCEPT ![p] = Free]
    /\ crossed' = (crossed \/ p \in Outstanding)
    /\ UNCHANGED <<window, order, focused, pending, names, saved, unsaved>>

\* The session ends and another starts.
StartSession ==
    /\ process' = SessionProcesses
    /\ window' = SessionWindows
    /\ order' = <<HomeWindow>>
    /\ focused' = HomeWindow
    /\ pending' = NoLaunch
    /\ crossed' = FALSE
    /\ unsaved' = FALSE

\* Slip: the mappings are not loaded.
RestartUnlearned == StartSession /\ names' = Unlearned /\ UNCHANGED saved

\* The compositor ends, in whatever way, and is started again; load_mappings.
Restart == StartSession /\ names' = saved /\ UNCHANGED saved

\* It ends in save_mappings, when fs::write has emptied the file.
CrashWhileSaving ==
    /\ pending # NoLaunch /\ \E w \in Toplevels : window[w] = Closed
    /\ StartSession
    /\ saved' = Unlearned
    /\ names' = Unlearned

Next ==
    \/ \E c \in Commands, hint \in Hints, card \in Cards \cup {None} :
         ExecOrFocus(c, hint, card)
    \/ \E c \in Commands : Exec(c)
    \/ \E w \in Toplevels, p \in Processes : Show(w, p)
    \/ \E w \in Toplevels, p \in Processes, a \in Applications :
         ShowAnother(w, p, a) \/ ShowForeign(w, p, a)
    \/ \E w \in Toplevels : SetAppId(w) \/ CloseWindow(w)
    \/ FocusHome
    \/ \E p \in Processes : Exit(p)
    \/ Restart
    \/ CrashWhileSaving

Spec == Init /\ [][Next]_vars
----------------------------------------------------------------------------
(* Properties. *)

\* The variables have their types; the layouts have the windows that are open, and
\* one of them, if any, has the focus.
TypeOK ==
    /\ process \in [Processes -> Process \cup {Free}]
    /\ window \in [Toplevels -> Window \cup {Closed}]
    /\ order \in Seq(Toplevels)
    /\ Range(order) = {w \in Toplevels : window[w] # Closed}
    /\ focused \in Range(order) \cup {None}
    /\ pending \in Launches \cup {NoLaunch}
    /\ names \in [Keys \cup Cards -> Names \cup {None}]
    /\ saved \in [Keys \cup Cards -> Names \cup {None}]
    /\ crossed \in BOOLEAN
    /\ unsaved \in BOOLEAN

\* As long as launches come one at a time, the first window of a launched process
\* is in the process group of that process, and no other window is in any: no
\* window of another process is stopped and continued in its place.  A further
\* window of a launched process is in none either (`add` takes the launch with the
\* first), so that focusing it stops the process it belongs to, by way of the
\* first one's group.
OwnGroup ==
    ~crossed => \A w \in Toplevels : window[w] # Closed =>
        window[w].group = IF window[w].first /\ process[window[w].process].launched
                          THEN window[w].process ELSE None

\* The commands with this key show windows of one name.
OneApplication(key) ==
    \A c, d \in Commands : KeyOf[c] = key /\ KeyOf[d] = key => ApplicationOf[c] = ApplicationOf[d]

\* Names that, learned, find the windows that have them.
FindsItself == {a \in Applications \cap Valid : a \in MatchedBy[a]}

\* One at a time, a program that was launched by ExecOrFocus is not started twice
\* while a window of it has the name it was learned by, if that was there from the
\* start (an X11 class), is a pattern that matches itself, and the key of the command
\* is that of no other application.
NotStartedTwice ==
    [][ \A p \in Processes, w \in Range(order) :
          LET q == process[window[w].process]
          IN  /\ process[p] = Free /\ process'[p].launched /\ process'[p].key # None
              /\ window[w].name = q.application
              /\ q.application \in X11Applications \cap FindsItself
              /\ OneApplication(q.key)
              => crossed \/ q.key # process'[p].key ]_vars

\* What was learned changes when a window takes a launch and at no other time: a
\* restart forgets nothing that could be written, unless the compositor ended
\* between emptying the file and writing it.
NamesSurvive ==
    [][ names' # names
          => \/ unsaved
             \/ pending # NoLaunch /\ saved' = Unlearned
             \/ /\ pending # NoLaunch /\ pending' = NoLaunch
                /\ \E w \in Toplevels : window[w] = Closed /\ window'[w] # Closed ]_vars

============================================================================
