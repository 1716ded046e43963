------------------------------ MODULE MainView ------------------------------
(***************************************************************************)
(* The main view of kild-ui: the list of kilds it shows, kept up with the  *)
(* sessions directory by a file watcher and a slow poll, the terminal tabs *)
(* of each kild, the 2x2 grid of panes that show them, and which terminal  *)
(* is active.                                                              *)
(*                                                                         *)
(* Everything here runs on the one UI thread, a handler at a time: every   *)
(* action is a handler.  What a handler leaves to a background task, an    *)
(* attach to the daemon or an operation of kild-core, comes back as a      *)
(* handler of its own, when much may have changed.                         *)
(*                                                                         *)
(* A terminal is named by its kild and its tab index, as panes do it.      *)
(* Left out: the other workspaces (grids pruned like this one, one of them *)
(* active), which of the three views is on screen, dialogs, errors, labels *)
(* and the status of a kild: a handler that asks for one may find any.     *)
(***************************************************************************)
EXTENDS Naturals, FiniteSets, SequencesExt, FiniteSetsExt

CONSTANTS Kilds,        \* session ids
          SlotCount,    \* panes in the grid
          MaxTabs,      \* bound: tabs of a kild, those being attached included
          MaxAttaches,  \* bound: attaches in flight
          NoKild, NoTabs, NoPane, NoSlot

ASSUME Bounds == /\ SlotCount \in Nat \ {0} /\ MaxTabs \in Nat \ {0} /\ MaxAttaches \in Nat
                 /\ IsFiniteSet(Kilds)

Slots == 0 .. SlotCount - 1
\* PaneSlot::Occupied
Pane == [kild : Kilds, tab : 0 .. MaxTabs]
PaneGrid == [slots : [Slots -> Pane \cup {NoPane}], focused : Slots,
             maximized : Slots \cup {NoSlot}, order : Seq(Slots)]
TerminalTabs == [len : 0 .. MaxTabs, active : 0 .. MaxTabs]
Attach == Kilds \X {"agent", "teammate"}

ASSUME NoneDistinct == /\ NoKild \notin Kilds /\ NoTabs \notin [len : Nat, active : Nat]
                       /\ NoPane \notin Pane /\ NoSlot \notin Nat

VARIABLES disk,       \* the kilds that have a session file
          events,     \* has the watcher's queue a relevant event?
          startup,    \* how far MainView::new has come
          displays,   \* the kilds listed
          pending,    \* the watcher task's pending_refresh
          view,       \* the terminals, see View
          late        \* history: kilds a terminal was attached for since the
                      \* last prune, when they were no longer listed

list == <<startup, displays, pending>>
viewVars == <<disk, events, startup, displays, pending, view, late>>

\* terminal_tabs, active_terminal_id, focus_region, the active workspace, and
\* how many attaches are in flight for a kild's agent and for its teammates.
View == [tabs : [Kilds -> TerminalTabs \cup {NoTabs}], active : Kilds \cup {NoKild},
         region : {"dashboard", "terminal"}, grid : PaneGrid,
         attaching : [Attach -> 0 .. MaxTabs]]

-----------------------------------------------------------------------------
(* PaneGrid. *)

EmptyGrid == [slots |-> [s \in Slots |-> NoPane], focused |-> 0,
              maximized |-> NoSlot, order |-> <<>>]

\* Vec::retain: the elements of q that are not in S.
Without(q, S) ==
    LET kept[i \in 0 .. Len(q)] == IF i = 0 THEN <<>>
                                   ELSE IF q[i] \in S THEN kept[i-1]
                                   ELSE Append(kept[i-1], q[i])
    IN kept[Len(q)]

Occupied(g) == {s \in Slots : g.slots[s] # NoPane}
FindSlot(g, p) == {s \in Slots : g.slots[s] = p}

\* Mutant: the slot keeps its old place in the focus order as well.
SetFocusAgain(g, s) ==
    IF s \in Occupied(g) THEN [g EXCEPT !.focused = s, !.order = Append(@, s)] ELSE g

SetFocus(g, s) ==
    IF s \in Occupied(g)
    THEN [g EXCEPT !.focused = s, !.order = Append(Without(@, {s}), s)]
    ELSE g

AddTerminal(g, p) ==
    LET free == Slots \ Occupied(g)
    IN IF FindSlot(g, p) # {} \/ free = {} THEN g
       ELSE SetFocus([g EXCEPT !.slots[Min(free)] = p], Min(free))

RemovePanes(g, S) ==
    [slots     |-> [s \in Slots |-> IF s \in S THEN NoPane ELSE g.slots[s]],
     focused   |-> g.focused,
     maximized |-> IF g.maximized \in S THEN NoSlot ELSE g.maximized,
     order     |-> Without(g.order, S)]

ToggleMaximize(g, s) ==
    [g EXCEPT !.maximized = IF @ = s THEN NoSlot ELSE s]

\* The first slot of the focus order that is occupied; should there be none,
\* the first that is.
LeastRecentlyFocused(g) ==
    LET order == Without(g.order, Slots \ Occupied(g))
    IN IF order # <<>> THEN Head(order) ELSE Min(Occupied(g))

\* The next occupied slot after the focused one, which is itself not asked.
NextOccupied(g) ==
    LET steps == {d \in 1 .. SlotCount - 1 : (g.focused + d) % SlotCount \in Occupied(g)}
    IN IF steps = {} THEN NoSlot ELSE (g.focused + Min(steps)) % SlotCount

PlaceInPaneGrid(g, p) ==
    IF FindSlot(g, p) # {} THEN SetFocus(g, Min(FindSlot(g, p)))
    ELSE IF Occupied(g) # Slots THEN AddTerminal(g, p)
    ELSE AddTerminal(RemovePanes(g, {LeastRecentlyFocused(g)}), p)

PruneGrid(g, live) ==
    LET kept == RemovePanes(g, {s \in Occupied(g) : g.slots[s].kild \notin live})
        next == NextOccupied(kept)
    IN IF kept.focused \notin Occupied(kept) /\ next # NoSlot
       THEN [kept EXCEPT !.focused = next] ELSE kept

\* auto_populate an empty grid with the first terminal of each kild of q.
AutoPopulate(q) ==
    LET grid[i \in 0 .. Len(q)] ==
            IF i = 0 THEN EmptyGrid ELSE AddTerminal(grid[i-1], [kild |-> q[i], tab |-> 0])
    IN grid[Len(q)]

-----------------------------------------------------------------------------
(* TerminalTabs. *)

\* entry(..).or_default()
OrDefault(t) == IF t = NoTabs THEN [len |-> 0, active |-> 0] ELSE t

Push(t) == [len |-> OrDefault(t).len + 1, active |-> OrDefault(t).len]

PushTeammate(t) == [OrDefault(t) EXCEPT !.len = @ + 1]

\* Mutant: the active tab stays the same unless a tab before it closes.
AdjustActiveBefore(active, closed, len) == IF active > closed THEN active - 1 ELSE active

\* Mutant: not told apart from closing a tab before the active one.
AdjustActiveAlways(active, closed, len) == IF active >= closed THEN active - 1 ELSE active

AdjustActiveAfterClose(active, closed, len) ==
    CASE len = 0                        -> 0
      [] len > 0 /\ active >= len       -> len - 1
      [] active < len /\ active > closed -> active - 1
      [] OTHER                          -> active

Close(t, i) ==
    [len |-> t.len - 1, active |-> AdjustActiveAfterClose(t.active, i, t.len - 1)]

HasTerminal(v, k) == v.tabs[k] # NoTabs /\ v.tabs[k].len > 0

-----------------------------------------------------------------------------
(* Handlers of clicks and keys, as functions of the view. *)

\* Place a terminal in the grid and make its kild the active one.
Shown(v, k, i) ==
    [v EXCEPT !.grid = PlaceInPaneGrid(@, [kild |-> k, tab |-> i]),
              !.active = k, !.region = "terminal"]

\* Mutant: the keys still go to the terminal.
UnfocusedKeepsKeys(v) == [v EXCEPT !.active = NoKild]

\* Nothing is active, the keys go to the dashboard.
Unfocused(v) == [v EXCEPT !.active = NoKild, !.region = "dashboard"]

\* After a pane has gone: focus the next one, if there is one.
FocusedOnNext(v) ==
    LET next == NextOccupied(v.grid)
    IN IF next = NoSlot THEN Unfocused(v)
       ELSE [v EXCEPT !.grid = SetFocus(@, next), !.active = v.grid.slots[next].kild]

WithoutPane(v, s) == [v EXCEPT !.grid = RemovePanes(@, {s})]

PaneOf(v, k, i) == FindSlot(v.grid, [kild |-> k, tab |-> i])
Minimized(v, k, i) == FocusedOnNext(WithoutPane(v, Min(PaneOf(v, k, i))))

SetActive(v, k, i) ==
    IF HasTerminal(v, k) /\ i < v.tabs[k].len THEN [v EXCEPT !.tabs[k].active = i] ELSE v

\* A click on a terminal's row shows it, or removes it if it is in the grid.
RowClicked(v, k, i) ==
    IF PaneOf(v, k, i) # {} THEN Minimized(v, k, i) ELSE Shown(SetActive(v, k, i), k, i)

\* What on_kild_select may do.  If the active terminal has exited, its tab is
\* closed; if no tab is left, the kild's agent in the daemon is attached, or a
\* shell started, which may fail.
Selections(v, k) ==
    UNION {LET tabs == IF exited THEN Close(v.tabs[k], v.tabs[k].active) ELSE v.tabs[k]
               w == [v EXCEPT !.tabs[k] = tabs]
           IN IF HasTerminal(w, k) THEN {Shown(w, k, 0)}
              ELSE {Shown([w EXCEPT !.attaching[<<k, "agent">>] = @ + 1], k, 0),
                    Shown([w EXCEPT !.tabs[k] = Push(@)], k, 0),
                    w}
           : exited \in {FALSE, HasTerminal(v, k)}}

\* prune_terminal_cache
Pruned(v, live) ==
    LET w == [v EXCEPT !.tabs = [k \in Kilds |-> IF k \in live THEN @[k] ELSE NoTabs],
                       !.grid = PruneGrid(@, live)]
    IN IF v.active # NoKild /\ v.active \notin live THEN Unfocused(w) ELSE w

Fits(v) == \A k \in Kilds :
    OrDefault(v.tabs[k]).len + v.attaching[<<k, "agent">>] + v.attaching[<<k, "teammate">>]
        <= MaxTabs

Bounded(v) ==
    /\ Cardinality({an \in Attach \X (1 .. MaxTabs) : an[2] <= v.attaching[an[1]]}) <= MaxAttaches
    /\ Fits(v)

-----------------------------------------------------------------------------
ViewInit ==
    /\ disk \in SUBSET Kilds
    /\ events = FALSE
    /\ startup = "new" /\ displays = {} /\ pending = FALSE
    /\ view = [tabs |-> [k \in Kilds |-> NoTabs], active |-> NoKild,
               region |-> "dashboard", grid |-> EmptyGrid,
               attaching |-> [a \in Attach |-> 0]]
    /\ late = {}

(* The sessions directory. *)

\* Any command creates or removes a session, or saves one again.
SessionsChange ==
    /\ disk' \in {disk} \cup {disk \cup {k} : k \in Kilds} \cup {disk \ {k} : k \in Kilds}
    /\ events' = (events \/ startup # "new")
    /\ UNCHANGED <<list, view, late>>

-----------------------------------------------------------------------------
(* The list. *)

\* SessionWatcher::new, before AppState::new.
StartWatcher ==
    /\ startup = "new" /\ startup' = "watching"
    /\ UNCHANGED <<disk, events, displays, pending, view, late>>

\* refresh_sessions: a listing that fails leaves an empty list.
Refresh == displays' \in {disk, {}}

PruneTerminalCache ==
    /\ view' = Pruned(view, displays')
    /\ late' = {}

LoadSessions ==
    /\ startup = "watching" /\ startup' = "up"
    /\ Refresh
    /\ UNCHANGED <<disk, events, pending, view, late>>

Up == startup = "up" /\ UNCHANGED <<disk, startup>>

\* The watcher task finds events, but refreshed less than DEBOUNCE_INTERVAL ago.
\* Mutant: the events are drained and forgotten.
DebounceForgets ==
    /\ Up /\ events
    /\ events' = FALSE
    /\ UNCHANGED <<displays, pending, view, late>>

Debounce ==
    /\ Up /\ events
    /\ events' = FALSE /\ pending' = TRUE
    /\ UNCHANGED <<displays, view, late>>

WatcherRefresh ==
    /\ Up /\ (events \/ pending)
    /\ events' = FALSE /\ pending' = FALSE
    /\ Refresh /\ PruneTerminalCache

\* update_statuses_only: the list is read again only if the number of files,
\* which may be unreadable, is not that of the kilds listed.
PollTick ==
    /\ Up
    /\ \/ Cardinality(disk) # Cardinality(displays) /\ Refresh
       \/ displays' = displays
    /\ PruneTerminalCache
    /\ UNCHANGED <<events, pending>>

\* An open, stop, create or destroy has succeeded.  Mutant: without the prune.
ApplyEventsOnly ==
    /\ Up /\ Refresh
    /\ UNCHANGED <<events, pending, view, late>>

ApplyEvents ==
    /\ Up /\ Refresh /\ PruneTerminalCache
    /\ UNCHANGED <<events, pending>>

\* The grid is filled anew with the kilds of the project that have terminals, in
\* the order of the list.
Repopulated(v) ==
    {[v EXCEPT !.grid = AutoPopulate(q)] :
        q \in UNION {SetToSeqs(S) : S \in SUBSET {k \in Kilds : v.tabs[k] # NoTabs}}}

\* Mutant: the kilds of other projects are pruned with the rest.
SelectProjectPrunesOthers ==
    /\ Up
    /\ \E shown \in SUBSET displays : view' \in Repopulated(Pruned(view, shown))
    /\ late' = {}
    /\ UNCHANGED <<events, displays, pending>>

SelectProject ==
    /\ Up
    /\ view' \in Repopulated(Pruned(view, displays))
    /\ late' = {}
    /\ UNCHANGED <<events, displays, pending>>

-----------------------------------------------------------------------------
(* Clicks and keys. *)

\* The handler makes the view v.
Becomes(v) ==
    /\ Up /\ Bounded(v) /\ view' = v
    /\ UNCHANGED <<events, displays, pending, late>>

OnKildSelect(k) == k \in displays /\ \E v \in Selections(view, k) : Becomes(v)

\* "+ terminal" selects the kild and then starts one more shell.
OnAddTerminal(k) ==
    k \in displays /\ \E v \in Selections(view, k) : Becomes([v EXCEPT !.tabs[k] = Push(@)])

\* The rows of the kild's terminals.
HasRow(k, i) == k \in displays /\ HasTerminal(view, k) /\ i < view.tabs[k].len

OnSidebarTerminalClick(k, i) == HasRow(k, i) /\ Becomes(RowClicked(view, k, i))

\* A button in the row.  Whether the row takes the click as well is up to gpui.
InRow(v, k, i) == Becomes(v) \/ Becomes(RowClicked(v, k, i))

OnMinimizeTab(k, i) ==
    /\ HasRow(k, i) /\ PaneOf(view, k, i) # {}
    /\ InRow(Minimized(view, k, i), k, i)

\* The panes that refer to this tab and to later ones stay as they are.
OnCloseTab(k, i) ==
    /\ HasRow(k, i)
    /\ LET v == [view EXCEPT !.tabs[k] = Close(@, i)]
       IN InRow(IF v.tabs[k].len = 0 THEN Unfocused(v) ELSE v, k, i)

\* A maximized pane hides the others.
OnScreen(s) == s \in Occupied(view.grid) /\ view.grid.maximized \in {NoSlot, s}

OnPaneFocus(s) ==
    /\ OnScreen(s)
    /\ LET p == view.grid.slots[s]
       IN Becomes(SetActive([view EXCEPT !.grid = SetFocus(@, s), !.active = p.kild,
                                         !.region = "terminal"], p.kild, p.tab))

OnPaneMaximize(s) ==
    OnScreen(s) /\ Becomes([view EXCEPT !.grid = ToggleMaximize(@, s)])

OnPaneClose(s) ==
    /\ OnScreen(s)
    /\ LET v == WithoutPane(view, s)
       IN Becomes(IF view.grid.focused = s THEN FocusedOnNext(v) ELSE v)

\* cycle_next and cycle_prev
CycleTab ==
    /\ view.active # NoKild /\ HasTerminal(view, view.active)
    /\ LET len == view.tabs[view.active].len
       IN /\ len > 1
          /\ \E d \in {1, len - 1} :
                Becomes([view EXCEPT !.tabs[view.active].active = (@ + d) % len])

\* Ctrl+T with a terminal on; without one it is OnKildSelect.
DeactivateTerminal ==
    /\ view.active # NoKild /\ HasTerminal(view, view.active)
    /\ Becomes(Unfocused(view))

LeaveTerminal == Becomes([view EXCEPT !.region = "dashboard"])
EnterTerminal == view.active # NoKild /\ Becomes([view EXCEPT !.region = "terminal"])

-----------------------------------------------------------------------------
(* Attaches to the daemon. *)

\* The team watcher attaches to teammates that have no tab yet.
SyncTeammateTabs ==
    \E S \in SUBSET displays \ {{}} :
        Becomes([view EXCEPT !.attaching =
                    [a \in Attach |-> IF a[1] \in S /\ a[2] = "teammate" THEN @[a] + 1 ELSE @[a]]])

Attached(v, k, who) ==
    LET w == [v EXCEPT !.attaching[<<k, who>>] = @ - 1]
    IN IF who = "teammate" THEN [w EXCEPT !.tabs[k] = PushTeammate(@)]
       ELSE [w EXCEPT !.tabs[k] = Push(@), !.active = k, !.region = "terminal"]

AttachSucceeds(k, who) ==
    /\ Up /\ view.attaching[<<k, who>>] > 0
    /\ view' = Attached(view, k, who)
    /\ late' = IF k \in displays THEN late ELSE late \cup {k}
    /\ UNCHANGED <<events, displays, pending>>

AttachFails(k, who) ==
    /\ view.attaching[<<k, who>>] > 0
    /\ Becomes([view EXCEPT !.attaching[<<k, who>>] = @ - 1])

-----------------------------------------------------------------------------
ListStep == StartWatcher \/ LoadSessions \/ Debounce \/ WatcherRefresh \/ PollTick
            \/ ApplyEvents \/ SelectProject

Input ==
    \/ \E k \in Kilds : OnKildSelect(k) \/ OnAddTerminal(k)
    \/ \E k \in Kilds, i \in 0 .. MaxTabs - 1 :
          OnSidebarTerminalClick(k, i) \/ OnMinimizeTab(k, i) \/ OnCloseTab(k, i)
    \/ \E s \in Slots : OnPaneFocus(s) \/ OnPaneMaximize(s) \/ OnPaneClose(s)
    \/ CycleTab \/ DeactivateTerminal \/ LeaveTerminal \/ EnterTerminal

AttachStep ==
    \/ SyncTeammateTabs
    \/ \E k \in Kilds, who \in {"agent", "teammate"} :
          AttachSucceeds(k, who) \/ AttachFails(k, who)

ViewNext == SessionsChange \/ ListStep \/ Input \/ AttachStep

ViewSpec == ViewInit /\ [][ViewNext]_viewVars

-----------------------------------------------------------------------------
(* Properties. *)

\* The types of the variables.
ViewTypeOK ==
    /\ disk \subseteq Kilds /\ displays \subseteq Kilds /\ late \subseteq Kilds
    /\ events \in BOOLEAN /\ pending \in BOOLEAN
    /\ startup \in {"new", "watching", "up"}
    /\ view \in View

\* The grid's books agree: the focus order names each occupied slot once, the
\* maximized slot shows a terminal, none is shown twice, and in a full grid,
\* the only one a pane is evicted from, the focused pane is the last to go.
GridIsConsistent ==
    LET g == view.grid
    IN /\ Range(g.order) = Occupied(g) /\ Len(g.order) = Cardinality(Occupied(g))
       /\ g.maximized \in Occupied(g) \cup {NoSlot}
       /\ \A s, t \in Occupied(g) : g.slots[s] = g.slots[t] => s = t
       /\ Occupied(g) = Slots => Last(g.order) = g.focused

\* "invariant violated: active={}, len={}": what cycle_next and cycle_prev
\* assert, whatever tabs were pushed and closed in between.
ActiveTabExists ==
    \A k \in Kilds : HasTerminal(view, k) => view.tabs[k].active < view.tabs[k].len

\* No handler that changes the list leaves tabs, panes or an active terminal
\* of a kild that is not listed; only a late attach does, until the next prune.
ViewsAreListed ==
    {k \in Kilds : view.tabs[k] # NoTabs} \cup ({view.active} \ {NoKild})
        \cup {view.grid.slots[s].kild : s \in Occupied(view.grid)}
    \subseteq displays \cup late

\* Keys are routed to a terminal only when one is active.
FocusHasTerminal == view.region = "terminal" => view.active # NoKild

\* A list that differs from the disk is not forgotten: the watcher task still
\* owes a refresh, or the poll will find another number of files.
ChangesAreAnnounced ==
    startup = "up" /\ displays # disk =>
        events \/ pending \/ Cardinality(displays) # Cardinality(disk)

\* Terminals go with their kild: no refresh, prune or change of project drops
\* the tabs of a listed kild that has a session file, unless the listing fails.
TerminalsSurvive ==
    [][\A k \in displays \cap disk :
          view.tabs[k] # NoTabs /\ view'.tabs[k] = NoTabs => displays' = {}]_viewVars
=============================================================================
