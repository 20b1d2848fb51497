----------------------------- MODULE Compositor -----------------------------
(***************************************************************************)
(* The window compositor, compositor/src/compositor.rs, as its host loop   *)
(* (compositor/src/main.rs) runs it: poll the watches one after the other, *)
(* apply the events of the batch, paint.  The compositor keeps a copy of   *)
(* every window, and changes windows by writing the graph as well as the   *)
(* copy; each of its writes comes back as an event of a later batch and    *)
(* overwrites the copy with the snapshot the event carries.  Applications  *)
(* and input drivers write the graph between any two polls.                *)
(*                                                                         *)
(* The screen is a row of Width pixels: a window has an x and a width, and *)
(* its y, height, title, text and colours are left out.  Of the widgets    *)
(* only the close button matters here: it stands for the active widget.    *)
(***************************************************************************)
EXTENDS Integers, FiniteSets, SequencesExt, TLC

CONSTANTS
    N,                      \* windows have the ids 1..N, ordered like a BTreeMap
    NModes,                 \* mode slots 1..NModes, of the twelve of the code
    Width,                  \* the pixels of the screen
    Attr,                   \* per window, what its application declares of it
    AppPlaces,              \* places whose node names an application
    Overflow,               \* windows whose content is taller than they are
    None,
    MAX_Z,                  \* i64::MAX, scaled down: z saturates here
    AUTO_TILE_MIN_WINDOWS,
    MaxFlushes,             \* bound: surface updates, per window
    MaxInputs,              \* bound: mouse and key events over a run
    Inputs                  \* the mouse and key events drivers may emit

Ids == 1..N
Modes == 1..NModes
Spots == 0..(Width - 1)
MIN_WINDOW_WIDTH == 1

VARIABLES
    s,          \* the compositor's fields
    node,       \* the window nodes of the graph, for the windows that exist
    queue,      \* the events each watch has pending
    inbox,      \* the batch being applied
    pc,         \* the batch polled next, or Apply
    flushes, inputs,            \* how much of the bounds is used
    stale,      \* history: the picture differs from the one last painted
    shown,      \* history: the focused window of the last full paint
    chosen      \* history: the window the user, or the fallback at a tick, focused

vars == <<s, node, queue, inbox, pc, flushes, inputs, stale, shown, chosen>>

(* The watches in the order init_with_watches registers them, which is the *)
(* order process_graph polls them in.  The cursor, framebuffer, wallpaper, *)
(* layer and style watches touch none of the state kept here.              *)
Watches == <<"surface", "window", "mouse", "key", "widget", "mode", "mode_def">>

(* The surface watch is polled in a step of its own, the others in one: only *)
(* surfaces and windows are written by the same programs, so only there can  *)
(* a write between two polls part what was written together.                 *)
Batches == <<SubSeq(Watches, 1, 1), SubSeq(Watches, 2, Len(Watches))>>
Apply == Len(Batches) + 1

(* What a node or a snapshot of it says of a window.  A "bare" node is one  *)
(* rewritten with its geometry only: fiat replaces all the fields.          *)
WindowRec == [z : 0..MAX_Z, visible : BOOLEAN, active : BOOLEAN,
              x : Spots, width : 1..(2 * Width), bare : BOOLEAN]

Declared(w, rec) ==
    IF rec.bare THEN [root |-> FALSE, place_root |-> FALSE, place |-> None, mode |-> None]
    ELSE Attr[w]

(* The operators below take and return the pair of the compositor's fields  *)
(* and the graph as one record, so that a handler is their composition.     *)
State == [s |-> s, node |-> node, queue |-> queue]

Emit(st, watch, event) == [st EXCEPT !.queue[watch] = Append(@, event)]

(* A widget event only marks the content dirty, so one pending is as good  *)
(* as several.                                                             *)
TouchWidget(st) == [st EXCEPT !.queue["widget"] = <<"widget">>]

Merge(f, g) == [k \in DOMAIN f |-> IF k \in DOMAIN g THEN g[k] ELSE f[k]]

Known(st) == DOMAIN st.s.windows
Local(st, w, props) ==
    IF w \in Known(st) THEN [st EXCEPT !.s.windows[w] = Merge(@, props)] ELSE st

(* A write that no watch hears of. *)
update_window_props_unheard(st, w, props) ==
    IF w \in DOMAIN st.node THEN [st EXCEPT !.node[w] = Merge(@, props)] ELSE st

(* update_window_props: PropsSet merges, and the watch gets a snapshot. *)
update_window_props(st, w, props) ==
    LET rec == Merge(st.node[w], props)
    IN  IF w \in DOMAIN st.node
        THEN Emit([st EXCEPT !.node[w] = rec], "window", [id |-> w, rec |-> rec])
        ELSE st

SetBoth(st, w, props) == update_window_props(Local(st, w, props), w, props)
----------------------------------------------------------------------------
(* Stacking *)

ordered_window_ids(st) ==
    LET mode == st.s.modes[st.s.active_mode]
        seen(w) == w \in Known(st) /\ st.s.windows[w].visible
    IN  SelectSeq((IF mode.root = None THEN <<>> ELSE <<mode.root>>) \o mode.windows, seen)

visible_window_ids(st) ==
    LET surfaced(w) == w \in st.s.surfaces IN SelectSeq(ordered_window_ids(st), surfaced)

update_graph_state(st) ==
    [st EXCEPT !.s.state_node = [above |-> Reverse(ordered_window_ids(st)),
                                 active |-> st.s.active_window]]

(* A bump that leaves the published order as it was. *)
bump_window_unpublished(st, w) ==
    LET holders == {m \in Modes : Contains(st.s.modes[m].windows, w)}
    IN  IF holders = {} THEN st
        ELSE [st EXCEPT !.s.modes[Min(holders)].windows = Append(RemoveFirst(@, w), w)]

bump_window(st, w) ==
    LET holders == {m \in Modes : Contains(st.s.modes[m].windows, w)}
    IN  update_graph_state(
          IF holders = {} THEN st
          ELSE [st EXCEPT !.s.modes[Min(holders)].windows = Append(RemoveFirst(@, w), w)])

max_window_z(st) ==
    IF Known(st) = {} THEN 0 ELSE Max({st.s.windows[w].z : w \in Known(st)})

SaturatingNext(z) == IF z < MAX_Z THEN z + 1 ELSE MAX_Z

ensure_window_has_unique_z(st, w, prev_max) ==
    LET new == SaturatingNext(prev_max)
    IN  IF st.s.windows[w].z > prev_max \/ st.s.windows[w].z = new THEN st
        ELSE SetBoth(st, w, [z |-> new])
----------------------------------------------------------------------------
(* Focus *)

set_active_window(st, w) ==
    LET prev == st.s.active_window
        gone == IF prev = None THEN st ELSE SetBoth(st, prev, [active |-> FALSE])
        props == [active |-> TRUE, z |-> SaturatingNext(max_window_z(gone))]
        went == IF w = None
                THEN update_graph_state([gone EXCEPT !.s.active_window = None])
                ELSE bump_window([SetBoth(gone, w, props) EXCEPT !.s.active_window = w], w)
    IN  IF prev = w THEN st ELSE [went EXCEPT !.s.content_dirty = TRUE]

(* Among several active windows max_by_key takes the last of the highest. *)
ensure_active_window(st) ==
    LET active == st.s.active_window
        shining == {w \in Known(st) : st.s.windows[w].active /\ st.s.windows[w].visible}
        highest == {w \in shining : \A v \in shining : st.s.windows[v].z <= st.s.windows[w].z}
        ordered == ordered_window_ids(st)
    IN  CASE active # None /\ active \in Known(st) /\ st.s.windows[active].visible -> st
          [] OTHER ->
               IF shining # {}
               THEN IF Max(highest) = active THEN st
                    ELSE [st EXCEPT !.s.active_window = Max(highest), !.s.content_dirty = TRUE]
               ELSE set_active_window(st, IF ordered = <<>> THEN None ELSE Last(ordered))
----------------------------------------------------------------------------
(* Geometry: tiling, dragging, scrolling *)

Columns(n) == CHOOSE c \in 1..n : c * c >= n /\ \A d \in 1..(c - 1) : d * d < n

(* The i-th of n windows gets the i-th cell of a grid, row by row. *)
Cell(i, n) ==
    LET cols == Columns(n)  w == Width \div cols
    IN  [x |-> ((i - 1) % cols) * w, width |-> Max({w, MIN_WINDOW_WIDTH})]

PlaceAll(st, ids) ==
    FoldLeftDomain(LAMBDA acc, i : SetBoth(acc, ids[i], Cell(i, Len(ids))), st, ids)

tile_windows(st) ==
    LET ids == visible_window_ids(st) IN IF ids = <<>> THEN st ELSE PlaceAll(st, ids)

(* layout_windows_in_area lays the same windows out in a grid below the     *)
(* banner.                                                                  *)
maybe_auto_tile_windows(st) ==
    LET ids == visible_window_ids(st)
    IN  IF st.s.auto_layout_done \/ Len(ids) < AUTO_TILE_MIN_WINDOWS THEN st
        ELSE [PlaceAll(st, ids) EXCEPT !.s.auto_layout_done = TRUE, !.s.fb_dirty = TRUE]

(* clamp_scroll_for and set_scroll_offset: the offset stays within what the *)
(* content has below the viewport, one step here, and at 0 if it fits.      *)
set_scroll_offset(st, w, offset) ==
    IF w \notin Known(st) THEN st
    ELSE [st EXCEPT !.s.scroll[w] = IF w \notin Overflow \/ offset < 0 THEN 0
                                    ELSE IF offset > 1 THEN 1 ELSE offset]

clamp_scroll_for(st, w) == set_scroll_offset(st, w, st.s.scroll[w])

find_window_at(st, p) ==
    LET over(w) == LET r == st.s.windows[w] IN r.x <= p /\ p < r.x + r.width
        under == SelectSeq(ordered_window_ids(st), over)
    IN  IF under = <<>> THEN None ELSE Last(under)

(* The left border moves x and the width together; neither border makes     *)
(* the window narrower than the minimum, and x stops at the screen's edge.  *)
Resized(d, dx) ==
    LET w == IF d.left THEN d.width - dx ELSE d.width + dx
        width == Max({w, MIN_WINDOW_WIDTH})
        x == IF d.left THEN d.x + d.width - width ELSE d.x
    IN  IF x < 0 THEN [x |-> 0, width |-> Max({width - x, MIN_WINDOW_WIDTH})]
        ELSE [x |-> x, width |-> width]

continue_drag(st) ==
    LET d == st.s.drag_state  p == st.s.cursor
    IN  IF d = None THEN st
        ELSE CASE d.kind = "move"   -> SetBoth(st, d.window, [x |-> Max({0, p - d.offset})])
               [] d.kind = "resize" ->
                    clamp_scroll_for(SetBoth(st, d.window, Resized(d, p - d.start)), d.window)
               [] d.kind = "thumb"  -> set_scroll_offset(st, d.window, d.offset + p - d.start)
----------------------------------------------------------------------------
(* Events of the graph *)

(* ensure_window_chrome writes the three widgets of the window's frame. *)
Enter(st, w, rec) ==
    TouchWidget([st EXCEPT !.s.windows = (w :> rec) @@ @])

(* The surface event brings the window's current node, not a snapshot. *)
ingest_surface(st, w) ==
    LET rec == st.node[w]
        held == IF w \in Known(st) THEN [st EXCEPT !.s.windows[w] = rec] ELSE Enter(st, w, rec)
    IN  clamp_scroll_for(bump_window([held EXCEPT !.s.surfaces = @ \cup {w}], w), w)

Assign(st, w, mode, as_root) ==
    IF as_root THEN [st EXCEPT !.s.modes[mode].root = w]
    ELSE [st EXCEPT !.s.modes[mode].windows = Append(@, w)]

(* A window that is also listed in the active mode. *)
AssignNew_twice(st, w, rec) ==
    LET decl == Declared(w, rec)
        target == IF decl.mode = None THEN st.s.active_mode ELSE decl.mode
    IN  Assign(Assign(st, w, target, decl.root), w, st.s.active_mode, FALSE)

(* The mode a new window belongs to: the first one showing its place, else  *)
(* the one it asks for, else the active one.                                *)
AssignNew(st, w, rec) ==
    LET decl == Declared(w, rec)
        found == {m \in Modes : decl.place # None /\ st.s.modes[m].place = decl.place}
        target == IF decl.mode = None THEN st.s.active_mode ELSE decl.mode
        fallback == Assign(st, w, target, decl.root)
    IN  IF found # {} THEN Assign(st, w, Min(found), decl.place_root)
        ELSE IF decl.place_root /\ decl.place # None
             THEN [fallback EXCEPT !.s.modes[target].place = decl.place]
             ELSE fallback

ingest_window(st, w, rec) ==
    LET new == w \notin Known(st)
        held == Enter(st, w, rec)
        ranked == IF new THEN ensure_window_has_unique_z(AssignNew(held, w, rec), w, max_window_z(st))
                  ELSE held
        linked == IF rec.bare THEN ranked ELSE [ranked EXCEPT !.s.surfaces = @ \cup {w}]
        focused == IF linked.s.windows[w].active THEN set_active_window(linked, w)
                   ELSE IF linked.s.active_window = w THEN set_active_window(linked, None)
                   ELSE IF new THEN bump_window(linked, w)
                   ELSE linked
    IN  maybe_auto_tile_windows(clamp_scroll_for(focused, w))

(* ensure_mode_app: a mode entered without a root window launches the       *)
(* application its place names.                                             *)
ensure_mode_app(st, m) ==
    IF st.s.modes[m].root = None /\ st.s.modes[m].place \in AppPlaces
    THEN [st EXCEPT !.s.launched = @ \cup {m}] ELSE st

enter_mode(st, m) ==
    IF m = st.s.active_mode THEN st
    ELSE update_graph_state(
           ensure_mode_app([st EXCEPT !.s.active_mode = m, !.s.content_dirty = TRUE,
                                      !.s.active_place = st.s.modes[m].place], m))

define_mode(st, m, place) ==
    LET placed == [st EXCEPT !.s.modes[m].place = place]
    IN  IF st.s.active_mode # m THEN placed
        ELSE [placed EXCEPT !.s.active_place = place, !.s.content_dirty = TRUE]
----------------------------------------------------------------------------
(* Input *)

(* Where in the window under the cursor a press lands.  A widget (the close *)
(* button) is asked first, then the scrollbar, the resize border and the    *)
(* title bar.                                                               *)
Parts == {"button", "thumb", "track", "left", "right", "title", "client"}

Drag(st, d) == [st EXCEPT !.s.drag_state = d]

on_pointer_down(st, part) ==
    LET p == st.s.cursor
        w == find_window_at(st, p)
        f == set_active_window(st, w)
        rec == f.s.windows[w]
        scrolls == w \in Overflow
    IN  IF w = None THEN f
        ELSE CASE part = "button" -> TouchWidget([f EXCEPT !.s.active_widget = w])
               [] part = "thumb" /\ scrolls ->
                    Drag(f, [kind |-> "thumb", window |-> w, start |-> p, offset |-> f.s.scroll[w]])
               [] part = "track" /\ scrolls -> set_scroll_offset(f, w, 1 - f.s.scroll[w])
               [] part \in {"left", "right"} ->
                    Drag(f, [kind |-> "resize", window |-> w, left |-> part = "left",
                             start |-> p, x |-> rec.x, width |-> rec.width])
               [] part = "title" -> Drag(f, [kind |-> "move", window |-> w, offset |-> p - rec.x])
               [] OTHER -> f

continue_widget_interaction(st) == IF st.s.active_widget = None THEN st ELSE TouchWidget(st)

(* dispatch_action: a click on the close button hides the window. *)
end_widget_interaction(st, on_widget) ==
    LET w == st.s.active_widget
        clicked == on_widget /\ find_window_at(st, st.s.cursor) = w
        acted == IF clicked THEN update_window_props(st, w, [visible |-> FALSE]) ELSE st
    IN  IF w = None THEN st ELSE TouchWidget([acted EXCEPT !.s.active_widget = None])

on_mouse_event(st, ev, part, on_widget) ==
    LET was == st.s.left
        moved == [st EXCEPT !.s.cursor = ev.to, !.s.left = ev.left]
        pressed == IF ev.left /\ ~was THEN on_pointer_down(moved, part) ELSE moved
    IN  IF ev.left THEN continue_widget_interaction(continue_drag(pressed))
        ELSE IF was THEN end_widget_interaction(Drag(pressed, None), on_widget)
        ELSE Drag(pressed, None)

(* handle_tab_focus moves the keyboard focus to a widget of the active      *)
(* window; the focus shares active_widget with the mouse.                   *)
handle_tab_focus(st) ==
    IF st.s.active_window = None THEN st
    ELSE TouchWidget([st EXCEPT !.s.active_widget = st.s.active_window, !.s.fb_dirty = TRUE])

(* switch_mode only writes the CurrentMode node; the mode changes when the  *)
(* event comes back.                                                        *)
switch_mode(st, m) == IF m = st.s.active_mode THEN st ELSE Emit(st, "mode", m)

handle_scroll_key(st) ==
    IF st.s.active_window = None THEN st
    ELSE set_scroll_offset(st, st.s.active_window, st.s.scroll[st.s.active_window] + 1)

ingest_key_event(st, ev) ==
    CASE ev.key = "alt"                          -> [st EXCEPT !.s.alt_down = ev.down]
      [] ~ev.down                                -> st
      [] ev.key = "t" /\ st.s.alt_down           -> tile_windows(st)
      [] ev.key \in {"i", "o"} /\ st.s.alt_down  -> [st EXCEPT !.s.fb_dirty = TRUE]
      [] ev.key = "fn"                           -> switch_mode(st, ev.n)
      [] ev.key = "tab"                          -> handle_tab_focus(st)
      [] ev.key = "page_down"                    -> handle_scroll_key(st)
      [] OTHER                                   -> st
----------------------------------------------------------------------------
(* Painting *)

(* Everything of the state the painted picture shows: draw_mode paints the  *)
(* root and then all the windows of the mode, hidden ones too.              *)
draw_mode(st) ==
    LET mode == st.s.modes[st.s.active_mode]
        paints(w) == w \in Known(st)
        look(w) == <<st.s.windows[w].x, st.s.windows[w].width, st.s.scroll[w],
                     st.s.windows[w].active \/ st.s.active_window = w>>
        back == SelectSeq(IF mode.root = None THEN <<>> ELSE <<mode.root>>, paints)
        front == SelectSeq(mode.windows, paints)
    IN  <<mode.place, [i \in DOMAIN back |-> <<back[i], st.s.scroll[back[i]]>>],
          [i \in DOMAIN front |-> <<front[i], look(front[i])>>]>>

(* The root windows of the active place are stretched over the screen, by a *)
(* fiat that rewrites the whole node.                                       *)
enforce_place_layout(st) ==
    LET stretch(acc, w) ==
          LET decl == Declared(w, acc.s.windows[w])
              full == [x |-> 0, width |-> Width]
              rec == [z |-> 0, visible |-> TRUE, active |-> FALSE, bare |-> TRUE] @@ full
          IN  IF w \in Known(acc) /\ decl.place_root /\ decl.place = acc.s.active_place
                 /\ Merge(acc.s.windows[w], full) # acc.s.windows[w]
              THEN Emit([Local(acc, w, full) EXCEPT !.s.content_dirty = TRUE, !.node[w] = rec],
                        "window", [id |-> w, rec |-> rec])
              ELSE acc
    IN  IF st.s.active_place = None THEN st
        ELSE FoldLeft(stretch, st, [w \in Ids |-> w])

(* update_scrollbars rewrites the scrollbar widget of every window that has *)
(* or has had one, at every tick.                                           *)
update_scrollbars(st) == IF Known(st) \cap Overflow = {} THEN st ELSE TouchWidget(st)

tick(st) == update_scrollbars(ensure_active_window(enforce_place_layout(st)))
----------------------------------------------------------------------------
on_event(st, ev, part, on_widget) ==
    LET dirty(x) == [x EXCEPT !.s.content_dirty = TRUE]
    IN  CASE ev.watch = "surface"  -> dirty(ingest_surface(st, ev.body))
          [] ev.watch = "window"   -> dirty(ingest_window(st, ev.body.id, ev.body.rec))
          [] ev.watch = "mouse"    -> on_mouse_event(st, ev.body, part, on_widget)
          [] ev.watch = "key"      -> ingest_key_event(st, ev.body)
          [] ev.watch = "widget"   -> dirty(st)
          [] ev.watch = "mode"     -> enter_mode(st, ev.body)
          [] ev.watch = "mode_def" -> define_mode(st, ev.body[1], ev.body[2])
----------------------------------------------------------------------------
(* The loop of main.rs and its environment *)

(* new: the modes have no place yet; the definition that ties the first     *)
(* mode to its place is written by the compositor itself and waits in the   *)
(* watch, which was registered before.                                      *)
Init ==
    /\ s = [windows |-> [w \in {} |-> None], surfaces |-> {}, scroll |-> [w \in Ids |-> 0],
            modes |-> [m \in Modes |-> [root |-> None, windows |-> <<>>, place |-> None]],
            active_window |-> None, active_mode |-> 1, active_place |-> None,
            active_widget |-> None, drag_state |-> None, cursor |-> 0, left |-> FALSE,
            alt_down |-> FALSE, content_dirty |-> TRUE, fb_dirty |-> FALSE,
            auto_layout_done |-> FALSE, launched |-> {},
            state_node |-> [above |-> <<>>, active |-> None]]
    /\ node = [w \in {} |-> None]
    /\ queue = [q \in ToSet(Watches) |-> IF q = "mode_def" THEN <<<<1, "sky">>>> ELSE <<>>]
    /\ inbox = <<>> /\ pc = 1
    /\ flushes = [w \in Ids |-> 0] /\ inputs = 0
    /\ stale = TRUE /\ shown = None /\ chosen = None

SetState(st) == s' = st.s /\ node' = st.node /\ queue' = st.queue

(* A batch handed over with its newest events first. *)
Poll_newest_first ==
    /\ pc < Apply
    /\ LET tagged(q) == [i \in DOMAIN queue[q] |-> [watch |-> q, body |-> queue[q][i]]]
           polled == Batches[pc]
       IN  /\ inbox' = FoldLeft(LAMBDA acc, q : acc \o Reverse(tagged(q)), inbox, polled)
           /\ queue' = [q \in DOMAIN queue |-> IF Contains(polled, q) THEN <<>> ELSE queue[q]]
    /\ pc' = pc + 1
    /\ UNCHANGED <<s, node, flushes, inputs, stale, shown, chosen>>

(* process_graph polls the watches in turn and hands the batch over. *)
Poll ==
    /\ pc < Apply
    /\ LET tagged(q) == [i \in DOMAIN queue[q] |-> [watch |-> q, body |-> queue[q][i]]]
           polled == Batches[pc]
       IN  /\ inbox' = FoldLeft(LAMBDA acc, q : acc \o tagged(q), inbox, polled)
           /\ queue' = [q \in DOMAIN queue |-> IF Contains(polled, q) THEN <<>> ELSE queue[q]]
    /\ pc' = pc + 1
    /\ UNCHANGED <<s, node, flushes, inputs, stale, shown, chosen>>

IsPress(ev) == ev.watch = "mouse" /\ ev.body.left /\ ~s.left
IsRelease(ev) == ev.watch = "mouse" /\ ~ev.body.left /\ s.left

ApplyEvent ==
    /\ pc = Apply /\ inbox # <<>>
    /\ LET ev == Head(inbox)
       IN  \E part \in IF IsPress(ev) THEN Parts ELSE {"client"},
             on_widget \in IF IsRelease(ev) THEN BOOLEAN ELSE {FALSE} :
             LET st == on_event(State, ev, part, on_widget)
             IN  /\ SetState(st)
                 /\ stale' = (stale \/ draw_mode(st) # draw_mode(State))
                 /\ chosen' = IF IsPress(ev) THEN st.s.active_window ELSE chosen
    /\ inbox' = Tail(inbox)
    /\ UNCHANGED <<pc, flushes, inputs, shown>>

(* A tick paints when the framebuffer or the content is marked dirty.  The   *)
(* host loop never clears fb_dirty.                                          *)
Tick ==
    /\ pc = Apply /\ inbox = <<>>
    /\ LET st == tick(State)
           paints == st.s.fb_dirty \/ st.s.content_dirty
       IN  /\ SetState([st EXCEPT !.s.content_dirty = FALSE])
           /\ stale' = (~paints /\ (stale \/ draw_mode(st) # draw_mode(State)))
           /\ shown' = IF paints THEN st.s.active_window ELSE shown
           /\ chosen' = IF st.s.active_window # s.active_window THEN st.s.active_window ELSE chosen
    /\ pc' = 1
    /\ UNCHANGED <<inbox, flushes, inputs>>

(* create_window_with of userland/src/app.rs: a window starts inactive, with *)
(* the z of its application's counter.                                       *)
AppCreate(w) ==
    /\ w \notin DOMAIN node
    /\ LET rec == [z |-> 0, visible |-> TRUE, active |-> FALSE, x |-> Attr[w].x,
                   width |-> Attr[w].width, bare |-> FALSE]
       IN  /\ node' = (w :> rec) @@ node
           /\ queue' = [queue EXCEPT !["window"] = Append(@, [id |-> w, rec |-> rec])]
    /\ UNCHANGED <<s, inbox, pc, flushes, inputs, stale, shown, chosen>>

(* flush of userland/src/app.rs writes the surface, marked dirty.  Only the  *)
(* poll can tell when it was written, so it is written just before one; the  *)
(* same holds for the input events below.                                    *)
AppFlush(w) ==
    /\ pc = 1 /\ w \in DOMAIN node /\ flushes[w] < MaxFlushes[w]
    /\ queue' = [queue EXCEPT !["surface"] = Append(@, w)]
    /\ flushes' = [flushes EXCEPT ![w] = @ + 1]
    /\ UNCHANGED <<s, node, inbox, pc, inputs, stale, shown, chosen>>

Input(ev) ==
    /\ pc = 2 /\ inputs < MaxInputs
    /\ queue' = [queue EXCEPT ![ev.watch] = Append(@, ev.body)]
    /\ inputs' = inputs + 1
    /\ UNCHANGED <<s, node, inbox, pc, flushes, stale, shown, chosen>>

Loop == Poll \/ ApplyEvent \/ Tick

Next ==
    \/ Loop
    \/ \E w \in Ids : AppCreate(w) \/ AppFlush(w)
    \/ \E ev \in Inputs : Input(ev)

Spec == Init /\ [][Next]_vars
(* The thread of the host loop runs for ever.  A step of Loop is always      *)
(* possible and is the only kind that changes pc or the inbox, so the weak   *)
(* fairness of Loop is that these change again and again.                    *)
FairSpec == Spec /\ []<><<TRUE>>_<<pc, inbox>>
----------------------------------------------------------------------------
(* Properties *)

Pending(w) ==
    LET about(q) == {q[i] : i \in {j \in DOMAIN q : q[j].id = w}}
        batch == {inbox[i].body : i \in {j \in DOMAIN inbox : inbox[j].watch = "window"}}
    IN  about(queue["window"]) # {} \/ \E ev \in batch : ev.id = w

(* The compositor's copy of a window is overwritten by snapshots that may be *)
(* older than its own last write (ingest_window).  Still, a window no event  *)
(* of which is pending has the copy the graph holds: no drag, focus change,  *)
(* tiling or close is lost between the two.  And both stay within bounds: no *)
(* drag closes a window to nothing and no focus change takes z past its type.*)
CopyFollowsGraph ==
    \A w \in DOMAIN s.windows :
        /\ Pending(w) \/ s.windows[w] = node[w]
        /\ s.windows[w] \in WindowRec /\ node[w] \in WindowRec

(* The CompositorState node tells other programs the focus and the stacking  *)
(* order (update_graph_state).  When a batch has been painted, whatever      *)
(* echoes it held, the node tells the truth: no window but the published one *)
(* is marked active, and no two windows stand in the published order         *)
(* otherwise than on the screen.  (A window that an echo has just hidden or  *)
(* shown may still, or not yet, be listed.)                                  *)
PublishedOrder ==
    LET ordered == ordered_window_ids(State)
        above == s.state_node.above
        on_screen(w) == Contains(ordered, w)
        listed(w) == Contains(above, w)
    IN  pc = 1 => /\ s.state_node.active = s.active_window
                  /\ \A w \in DOMAIN s.windows : s.windows[w].active => s.active_window = w
                  /\ SelectSeq(above, on_screen) = SelectSeq(Reverse(ordered), listed)

(* A window is stacked at one place of one mode: bumping, tiling and the     *)
(* fallbacks of ingest_window never list a window twice.                     *)
StackedOnce ==
    LET places(w) == {<<m, i>> \in Modes \X (0..N) :
                         \/ i = 0 /\ s.modes[m].root = w
                         \/ i \in DOMAIN s.modes[m].windows /\ s.modes[m].windows[i] = w}
    IN  \A w \in Ids : Cardinality(places(w)) <= 1

(* Drags and scrolling change the picture without marking it dirty, and rely *)
(* on the event of their own write to repaint it: the picture never stays    *)
(* stale.  And although two focus changes of one batch echo as events that   *)
(* undo each other, batch after batch, what the user sees settles: the       *)
(* window painted as focused is in the end the one that was clicked last, or *)
(* the one the compositor fell back to.  Only enforce_place_layout can spoil *)
(* it: the node it rewrites loses its ACTIVE field, and with it the focus.   *)
PictureSettles ==
    /\ []<>~stale
    /\ [](\A w \in DOMAIN node : ~node[w].bare) => <>[](shown = chosen)
=============================================================================
