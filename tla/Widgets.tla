------------------------------ MODULE Widgets ------------------------------
(***************************************************************************)
(* The widget host (src/widgets/host) and the widgets it runs.             *)
(*                                                                         *)
(* The host watches the graph for WIDGET, KEY_EVENT and NOTIFICATION       *)
(* nodes, keeps one instance of a widget per WIDGET node, turns the fields *)
(* it is sent into mouse and key events and, once per tick, draws every    *)
(* widget and publishes its picture.  Everybody who talks to a widget does *)
(* so by writing its node: applications create it, the compositor writes   *)
(* the mouse, the focus and the size into it, the host writes the picture. *)
(* fiat replaces all the fields of a node and PropsSet merges, and every   *)
(* write is delivered to the host, its own included, so what a widget gets *)
(* to see depends on who wrote last: that is what this module is about.    *)
(*                                                                         *)
(* Text, icons and colours are left out.  A picture is the part of the     *)
(* widget's state that its draw function shows.                            *)
(***************************************************************************)
EXTENDS Integers, Sequences, SequencesExt, FiniteSets, TLC

CONSTANTS
    Scenes,      \* what to try: nodes with their first fields, and the inputs to give
    Notes,       \* the NOTIFICATION nodes
    Ys,          \* heights at which the mouse may press or move
    Heights,     \* heights the compositor's layout may give a widget
    Keys,        \* keys the keyboard sends
    MaxInputs,   \* bound: writes made by applications, compositor and keyboard
    None

VARIABLES
    g,           \* the graph: nodes, the queues of the host's watches, launch requests
    host,        \* WidgetHost and where its loop is
    scene,       \* the nodes and the inputs of this behaviour
    mouse,       \* the compositor's active_widget, and whether the button is down
    seen         \* history: inputs made, presses and Enter keys, last widget focused, toasts clicked

vars == <<g, host, scene, mouse, seen>>

----------------------------------------------------------------------------
(* The graph, as the widget host uses it *)

Get(fields, key, default) == IF key \in DOMAIN fields THEN fields[key] ELSE default

Fields(graph, id) == IF id \in DOMAIN graph.node THEN graph.node[id].fields ELSE <<>>

(* A change of a node of a watched kind is queued for the host's watch of  *)
(* that kind; nodes of other kinds are not watched.                        *)
Watches == <<"WIDGET", "KEY", "NOTIFICATION">>

Notify(graph, id, kind, fields) ==
    IF kind \in DOMAIN graph.queue
    THEN [graph EXCEPT !.node  = (id :> [kind |-> kind, fields |-> fields]) @@ @,
                       !.queue[kind] = Append(@, [id |-> id, kind |-> kind, fields |-> fields])]
    ELSE [graph EXCEPT !.node  = (id :> [kind |-> kind, fields |-> fields]) @@ @]

fiat(graph, id, kind, fields) == Notify(graph, id, kind, fields)

set_props(graph, id, props) ==
    IF id \notin DOMAIN graph.node THEN graph
    ELSE Notify(graph, id, graph.node[id].kind, props @@ graph.node[id].fields)

----------------------------------------------------------------------------
(* Button *)

button_init(graph, id) ==
    LET f == Fields(graph, id)
    IN  [pressed |-> FALSE, hovered |-> FALSE, focused |-> FALSE,
         target |-> Get(f, "TARGET", FALSE),
         bind |-> Get(f, "BINDS", None), index |-> Get(f, "IDX", -1)]

TEXT_HEIGHT == 16
ICON_PADDING == 4
MIN_BUTTON_WIDTH == 24

(* The label is shown and is as wide as a button has to be at least. *)
intrinsic_size(base_height) ==
    <<MIN_BUTTON_WIDTH,
      IF base_height > TEXT_HEIGHT + 2 * ICON_PADDING THEN base_height ELSE TEXT_HEIGHT + 2 * ICON_PADDING>>

activate(graph, st) ==
    LET chosen == IF st.bind # None /\ st.index >= 0
                  THEN set_props(graph, st.bind, [SEL |-> st.index]) ELSE graph
    IN  IF st.target THEN [chosen EXCEPT !.launched = @ + 1] ELSE chosen

button_handle_event(graph, st, ev) ==
    CASE ev.type = "MouseDown" -> [st |-> [st EXCEPT !.pressed = TRUE], g |-> graph]
      [] ev.type = "MouseUp" /\ st.pressed ->
             [st |-> [st EXCEPT !.pressed = FALSE], g |-> activate(graph, st)]
      [] ev.type = "KeyDown" /\ ev.key = "Enter" -> [st |-> st, g |-> activate(graph, st)]
      [] ev.type = "MouseMove" -> [st |-> [st EXCEPT !.hovered = TRUE], g |-> graph]
      [] OTHER -> [st |-> st, g |-> graph]

button_draw(st) == <<st.pressed, st.hovered, st.focused>>

----------------------------------------------------------------------------
(* Check box and radio button *)

checkbox_init(graph, id) ==
    [checked |-> Get(Fields(graph, id), "CHECKED", FALSE), pressed |-> FALSE, hovered |-> FALSE]

checkbox_handle_event(graph, st, ev) ==
    [st |-> CASE ev.type = "MouseDown" -> [st EXCEPT !.pressed = TRUE]
              [] ev.type = "MouseUp" /\ st.pressed -> [st EXCEPT !.checked = ~@, !.pressed = FALSE]
              [] ev.type = "MouseMove" -> [st EXCEPT !.hovered = TRUE]
              [] OTHER -> st,
     g  |-> graph]

checkbox_draw(st) == <<st.checked>>

radio_init(graph, id) ==
    [selected |-> Get(Fields(graph, id), "SELECTED", FALSE), pressed |-> FALSE, hovered |-> FALSE]

radio_handle_event(graph, st, ev) ==
    [st |-> CASE ev.type = "MouseDown" -> [st EXCEPT !.pressed = TRUE]
              [] ev.type = "MouseUp" /\ st.pressed -> [st EXCEPT !.selected = ~@, !.pressed = FALSE]
              [] ev.type = "MouseMove" -> [st EXCEPT !.hovered = TRUE]
              [] OTHER -> st,
     g  |-> graph]

radio_draw(st) == <<st.selected>>

----------------------------------------------------------------------------
(* List box: its items are read once, when the widget is created *)

Clamp(n, lo, hi) == IF n < lo THEN lo ELSE IF n > hi THEN hi ELSE n

listbox_init(graph, id) ==
    LET f    == Fields(graph, id)
        bind == Get(f, "BINDS", None)
        sel  == Get(Fields(graph, bind), "SEL", 0)
    IN  [items |-> Get(f, "ITEMS", 0), selected |-> sel, focused |-> sel,
         has_focus |-> FALSE, bind |-> bind]

update_selection(graph, st) ==
    IF st.bind = None THEN graph ELSE set_props(graph, st.bind, [SEL |-> st.selected])

ROW_HEIGHT == 24

listbox_handle_event(graph, st, ev) ==
    LET last == st.items - 1
        row  == ev.y \div ROW_HEIGHT
        to   == [st EXCEPT !.focused =
                    CASE ev.key = "Up"   -> IF @ > 0 THEN @ - 1 ELSE @
                      [] ev.key = "Down" -> IF @ < last THEN @ + 1 ELSE @
                      [] ev.key = "Home" -> 0
                      [] ev.key = "End"  -> IF last > 0 THEN last ELSE 0
                      [] OTHER -> @]
        chosen  == [st EXCEPT !.selected = st.focused]
        clicked == [st EXCEPT !.selected = row, !.focused = row, !.has_focus = TRUE]
    IN  CASE ev.type = "KeyDown" /\ ev.key = "Enter" ->
                 [st |-> chosen, g |-> update_selection(graph, chosen)]
          [] ev.type = "KeyDown" /\ ev.key # "Enter" -> [st |-> to, g |-> graph]
          [] ev.type = "MouseDown" /\ row < st.items ->
                 [st |-> clicked, g |-> update_selection(graph, clicked)]
          [] OTHER -> [st |-> st, g |-> graph]

listbox_draw(st) == <<st.items, st.selected, IF st.has_focus THEN st.focused ELSE None>>

----------------------------------------------------------------------------
(* Scrollbar thumb: what it knows of the content it reads back when it draws *)

thumb_init == [pressed |-> FALSE, start_y |-> 0, start_scroll |-> 0,
               scroll |-> 0, max |-> 0, offset |-> 0, height |-> 0, track |-> 0]

TruncDiv(a, b) == IF a >= 0 THEN a \div b ELSE -((-a) \div b)

thumb_handle_event(graph, st, id, ev) ==
    LET room == st.track - st.height
        to   == Clamp(st.start_scroll + TruncDiv((ev.y - st.start_y) * st.max, room), 0, st.max)
    IN  CASE ev.type = "MouseDown" /\ ev.y >= st.offset /\ ev.y < st.offset + st.height ->
                 [st |-> [st EXCEPT !.pressed = TRUE, !.start_y = ev.y, !.start_scroll = st.scroll],
                  g  |-> graph]
          [] ev.type = "MouseUp" -> [st |-> [st EXCEPT !.pressed = FALSE], g |-> graph]
          [] ev.type = "MouseMove" /\ st.pressed /\ st.max > 0 /\ room > 0 ->
                 [st |-> st, g |-> fiat(graph, id, "WIDGET", [SCROLL |-> to])]
          [] OTHER -> [st |-> st, g |-> graph]

thumb_refresh(graph, st, id, track) ==
    LET f == Fields(graph, id)
    IN  [st EXCEPT !.scroll = Get(f, "SCROLL", @), !.max = Get(f, "MAX", @),
                   !.offset = Get(f, "OFFSET", @), !.height = Get(f, "THUMB", @), !.track = track]

thumb_draw(st) == <<st.offset, st.height, st.pressed>>

----------------------------------------------------------------------------
(* Notification toast and dialog *)

toast_init(graph, id) == [note |-> Get(Fields(graph, id), "BINDS", None)]

Acknowledge(graph, note) ==
    IF note = None THEN graph ELSE fiat(graph, note, "NOTIFICATION", [ACK |-> TRUE])

toast_handle_event_hover(graph, st, ev) ==
    [st |-> st, g |-> IF ev.type = "MouseMove" THEN Acknowledge(graph, st.note) ELSE graph]

toast_handle_event(graph, st, ev) ==
    [st |-> st, g |-> IF ev.type = "MouseDown" THEN Acknowledge(graph, st.note) ELSE graph]

toast_draw(st) == <<st.note>>

dialog_init(graph, id) == [note |-> Get(Fields(graph, id), "BINDS", None), hover |-> FALSE]

BUTTON_TOP == 150

dialog_handle_event(graph, st, ev) ==
    CASE ev.type = "MouseMove" -> [st |-> [st EXCEPT !.hover = ev.y > BUTTON_TOP], g |-> graph]
      [] ev.type = "MouseDown" /\ st.hover -> [st |-> st, g |-> Acknowledge(graph, st.note)]
      [] OTHER -> [st |-> st, g |-> graph]

dialog_draw(st) == <<st.note, st.hover>>

----------------------------------------------------------------------------
(* Dropdown *)

OPTION_HEIGHT == 28
DefaultOptions == 4

sync_height(graph, id, height) == set_props(graph, id, [HEIGHT |-> height])

expanded_height(st) == st.collapsed + st.options * OPTION_HEIGHT

(* refresh_state reads the widget's node back; an open menu writes its     *)
(* height into the node every time.                                        *)
refresh_state(graph, st, id) ==
    LET f    == Fields(graph, id)
        opts == IF Get(f, "OPTIONS", 0) > 0 THEN f["OPTIONS"] ELSE st.options
        read == [st EXCEPT
                    !.options   = opts,
                    !.selected  = Clamp(Get(f, "SEL", @), 0, opts - 1),
                    !.bind      = Get(f, "BINDS", @),
                    !.collapsed = IF ~st.open /\ Get(f, "HEIGHT", 0) > 0 THEN f["HEIGHT"] ELSE @,
                    !.hovered   = IF @ >= opts THEN -1 ELSE @]
    IN  [st |-> read, g |-> IF read.open THEN sync_height(graph, id, expanded_height(read)) ELSE graph]

dropdown_init(graph, id, height) ==
    refresh_state(graph, [options |-> DefaultOptions, selected |-> 0, pressed |-> FALSE, open |-> FALSE,
                          collapsed |-> IF height > 1 THEN height ELSE 1, bind |-> None, hovered |-> -1], id)

option_index_at(st, y) ==
    LET idx == (y - st.collapsed) \div OPTION_HEIGHT
    IN  IF y >= st.collapsed /\ idx < st.options THEN idx ELSE -1

open_menu(graph, st, id) ==
    LET opened == [st EXCEPT !.open = TRUE, !.hovered = st.selected]
    IN  [st |-> opened, g |-> sync_height(graph, id, expanded_height(opened))]

close_menu_unsynced(graph, st, id) ==
    [st |-> [st EXCEPT !.open = FALSE, !.hovered = -1], g |-> graph]

close_menu(graph, st, id) ==
    [st |-> [st EXCEPT !.open = FALSE, !.hovered = -1], g |-> sync_height(graph, id, st.collapsed)]

emit_selection(graph, st, id) ==
    LET own == set_props(graph, id, [SEL |-> st.selected])
    IN  IF st.bind = None THEN own ELSE set_props(own, st.bind, [SEL |-> st.selected])

select_index(graph, st, id, index) ==
    LET chosen == [st EXCEPT !.selected = IF index < st.options THEN index ELSE st.options - 1]
    IN  [st |-> chosen, g |-> emit_selection(graph, chosen, id)]

move_focus(graph, st, id, delta) ==
    LET current == IF st.open /\ st.hovered >= 0 THEN st.hovered ELSE st.selected
        next    == Clamp(current + delta, 0, st.options - 1)
    IN  IF st.open THEN [st |-> [st EXCEPT !.hovered = next], g |-> graph]
        ELSE select_index(graph, st, id, next)

(* Home and End *)
Jump(graph, st, id, index) ==
    IF st.open THEN [st |-> [st EXCEPT !.hovered = index], g |-> graph]
    ELSE select_index(graph, st, id, index)

dropdown_key(graph, st, id, key) ==
    LET picked == select_index(graph, st, id, IF st.hovered >= 0 THEN st.hovered ELSE st.selected)
    IN  CASE key \in {"Enter", "Space"} -> IF st.open THEN close_menu(picked.g, picked.st, id)
                                            ELSE open_menu(graph, st, id)
          [] key = "Down"  -> move_focus(graph, st, id, 1)
          [] key = "Up"    -> move_focus(graph, st, id, -1)
          [] key = "Home"  -> Jump(graph, st, id, 0)
          [] key = "End"   -> Jump(graph, st, id, st.options - 1)
          [] key = "Esc"   -> close_menu(graph, st, id)
          [] OTHER -> [st |-> st, g |-> graph]

Released(r) == [r EXCEPT !.st.pressed = FALSE]

dropdown_mouse_up(graph, st, id, y) ==
    LET idx    == option_index_at(st, y)
        picked == IF idx >= 0 THEN select_index(graph, st, id, idx) ELSE [st |-> st, g |-> graph]
    IN  Released(IF st.open THEN close_menu(picked.g, picked.st, id)
                 ELSE IF st.pressed THEN open_menu(graph, st, id)
                 ELSE [st |-> st, g |-> graph])

dropdown_handle_event(graph, stale, id, ev) ==
    LET r  == refresh_state(graph, stale, id)
        st == r.st
        at == option_index_at(st, ev.y)
        down == [st EXCEPT !.pressed = ev.y < st.collapsed]
    IN  CASE ev.type = "MouseDown" -> IF st.open THEN [st |-> [down EXCEPT !.hovered = at], g |-> r.g]
                                      ELSE open_menu(r.g, down, id)
          [] ev.type = "MouseUp"   -> dropdown_mouse_up(r.g, st, id, ev.y)
          [] ev.type = "MouseMove" -> [st |-> IF st.open THEN [st EXCEPT !.hovered = at] ELSE st, g |-> r.g]
          [] ev.type = "KeyDown"   -> dropdown_key(r.g, st, id, ev.key)
          [] ev.type = "KeyUp"     -> Released(r)

draw_base_control(st) == <<st.selected, st.pressed \/ st.open>>

draw_menu(st) == <<st.options, st.hovered>>

dropdown_draw(st, height) ==
    <<draw_base_control(st), IF st.open /\ height > st.collapsed THEN draw_menu(st) ELSE None>>

----------------------------------------------------------------------------
(* The widgets that only show something: they read text when they start or *)
(* when they draw, and ignore every event.                                 *)

image_init(graph, id) == [data |-> Get(Fields(graph, id), "IMAGE", FALSE)]
image_draw(st) == <<st.data>>

thing_init(graph, id) == [label |-> Get(Fields(graph, id), "TEXT", "Thing")]
thing_draw == <<>>

plain_text_init(graph, id) == [text |-> Get(Fields(graph, id), "TEXT", "Plain text")]
plain_text_draw(graph, st, id) == <<Get(Fields(graph, id), "TEXT", st.text)>>

status_draw(graph, id) == <<Get(Fields(graph, id), "TEXT", "Graph: Connected | Input: OK")>>

top_bar_draw(graph, id) == <<Get(Fields(graph, id), "TEXT", "ThingOS Demo Dashboard")>>

inspector_draw(graph, id) == <<Get(Fields(graph, id), "TEXT", "0000-0000-0000-0000")>>

mini_viewer_draw == <<"Mini Graph">>

toolbar_draw == <<>>

----------------------------------------------------------------------------
(* WidgetHost *)

InitialState(graph, id, kind, height) ==
    CASE kind = "button"              -> [st |-> button_init(graph, id), g |-> graph]
      [] kind = "checkbox"            -> [st |-> checkbox_init(graph, id), g |-> graph]
      [] kind = "radio_button"        -> [st |-> radio_init(graph, id), g |-> graph]
      [] kind = "listbox_default"     -> [st |-> listbox_init(graph, id), g |-> graph]
      [] kind = "notification_toast"  -> [st |-> toast_init(graph, id), g |-> graph]
      [] kind = "notification_dialog" -> [st |-> dialog_init(graph, id), g |-> graph]
      [] kind = "scrollbar_thumb"     -> [st |-> thumb_init, g |-> graph]
      [] kind = "dropdown"            -> dropdown_init(graph, id, height)
      [] kind = "image"               -> [st |-> image_init(graph, id), g |-> graph]
      [] kind = "plain_text"          -> [st |-> plain_text_init(graph, id), g |-> graph]
      [] kind \in {"toolbar", "status_widget", "top_status_bar", "thing_inspector", "graph_mini_viewer"} ->
             [st |-> [shows |-> kind], g |-> graph]
      [] OTHER -> [st |-> thing_init(graph, id), g |-> graph]

(* A WIDGET node seen for the first time gets an instance.  A button is    *)
(* measured, and told its size through its node when that is not the size  *)
(* the node asked for.                                                     *)
Born(st, ev) ==
    LET kind   == Get(ev.fields, "WK", "thing")
        width  == Get(ev.fields, "WIDTH", 200)
        height == Get(ev.fields, "HEIGHT", IF kind = "button" THEN 32 ELSE 200)
        size   == intrinsic_size(height)
        w      == IF kind # "button" THEN width
                  ELSE IF "WIDTH" \in DOMAIN ev.fields /\ width > size[1] THEN width ELSE size[1]
        h      == IF kind = "button" THEN size[2] ELSE height
        r      == InitialState(st.g, ev.id, kind, height)
        told   == IF w # width \/ h # height
                  THEN fiat(r.g, ev.id, "WIDGET", [WIDTH |-> w, HEIGHT |-> h]) ELSE r.g
        new    == [kind |-> kind, st |-> r.st, width |-> w, height |-> h,
                   framebuffer |-> w * h, prev_down |-> FALSE]
    IN  IF ev.id \in DOMAIN st.widgets THEN st
        ELSE [st EXCEPT !.widgets = (ev.id :> new) @@ @, !.g = told]

Focused(st, ev) ==
    IF "FCS" \notin DOMAIN ev.fields THEN st
    ELSE IF ev.fields["FCS"] THEN [st EXCEPT !.focused = ev.id]
    ELSE [st EXCEPT !.focused = IF @ = ev.id THEN None ELSE @]

Resized(st, ev) ==
    LET it == st.widgets[ev.id]
        w  == Get(ev.fields, "WIDTH", it.width)
        h  == Get(ev.fields, "HEIGHT", it.height)
    IN  [st EXCEPT !.widgets[ev.id].width = w, !.widgets[ev.id].height = h,
                   !.widgets[ev.id].framebuffer =
                       IF w # it.width \/ h # it.height THEN w * h ELSE @]

handle_event(graph, it, id, ev) ==
    CASE it.kind = "button"              -> button_handle_event(graph, it.st, ev)
      [] it.kind = "checkbox"            -> checkbox_handle_event(graph, it.st, ev)
      [] it.kind = "radio_button"        -> radio_handle_event(graph, it.st, ev)
      [] it.kind = "listbox_default"     -> listbox_handle_event(graph, it.st, ev)
      [] it.kind = "notification_toast"  -> toast_handle_event(graph, it.st, ev)
      [] it.kind = "notification_dialog" -> dialog_handle_event(graph, it.st, ev)
      [] it.kind = "scrollbar_thumb"     -> thumb_handle_event(graph, it.st, id, ev)
      [] it.kind = "dropdown"            -> dropdown_handle_event(graph, it.st, id, ev)
      [] OTHER -> [st |-> it.st, g |-> graph]

Deliver(st, id, ev) ==
    LET r == handle_event(st.g, st.widgets[id], id, ev)
    IN  [st EXCEPT !.widgets[id].st = r.st, !.g = r.g]

MouseInput_latched(st, ev) ==
    LET was  == st.widgets[ev.id].prev_down
        down == Get(ev.fields, "DOWN", was)
        type == IF down /\ ~was THEN "MouseDown" ELSE IF ~down /\ was THEN "MouseUp" ELSE "MouseMove"
        read == [st EXCEPT !.widgets[ev.id].prev_down = down,
                           !.focused = IF down /\ ~was THEN ev.id ELSE @]
    IN  IF down \/ was THEN Deliver(read, ev.id, [type |-> type, y |-> Get(ev.fields, "Y", 0), key |-> None])
        ELSE read

MouseInput_unfocused(st, ev) ==
    LET was  == st.widgets[ev.id].prev_down
        down == Get(ev.fields, "DOWN", FALSE)
        type == IF down /\ ~was THEN "MouseDown" ELSE IF ~down /\ was THEN "MouseUp" ELSE "MouseMove"
        read == [st EXCEPT !.widgets[ev.id].prev_down = down]
    IN  IF down \/ was THEN Deliver(read, ev.id, [type |-> type, y |-> Get(ev.fields, "Y", 0), key |-> None])
        ELSE read

(* The fields of a WIDGET node read as the state of the mouse.  A node     *)
(* written without them reads as a mouse at 0, not pressed.                *)
MouseInput(st, ev) ==
    LET was  == st.widgets[ev.id].prev_down
        down == Get(ev.fields, "DOWN", FALSE)
        type == IF down /\ ~was THEN "MouseDown" ELSE IF ~down /\ was THEN "MouseUp" ELSE "MouseMove"
        read == [st EXCEPT !.widgets[ev.id].prev_down = down,
                           !.focused = IF down /\ ~was THEN ev.id ELSE @]
    IN  IF down \/ was THEN Deliver(read, ev.id, [type |-> type, y |-> Get(ev.fields, "Y", 0), key |-> None])
        ELSE read

KeyInput(st, ev) ==
    IF st.focused \notin DOMAIN st.widgets THEN st
    ELSE Deliver(st, st.focused, [type |-> IF ev.fields["DOWN"] THEN "KeyDown" ELSE "KeyUp",
                                  y |-> 0, key |-> ev.fields["KEY"]])

(* A notification not yet acknowledged is shown by a widget of its own,    *)
(* whose node is named after the notification's.                           *)
WidgetOf(note) == note + 100

Noted(st, ev) ==
    LET dialog == Get(ev.fields, "SCOPE", "local") = "global"
        fields == [WK     |-> IF dialog THEN "notification_dialog" ELSE "notification_toast",
                   BINDS  |-> ev.id,
                   WIDTH  |-> IF dialog THEN 400 ELSE 300,
                   HEIGHT |-> IF dialog THEN 200 ELSE 80]
    IN  IF Get(ev.fields, "ACK", FALSE) THEN st
        ELSE [st EXCEPT !.g = fiat(@, WidgetOf(ev.id), "WIDGET", fields)]

on_event(st, ev) ==
    CASE ev.kind = "NOTIFICATION" -> Noted(st, ev)
      [] ev.kind = "WIDGET"       -> MouseInput(Resized(Focused(Born(st, ev), ev), ev), ev)
      [] ev.kind = "KEY"          -> KeyInput(st, ev)

(* tick draws a widget, after a button has been told whether it has the    *)
(* focus, and publishes the picture; a check box publishes its state too.  *)
Told(st, id) ==
    IF st.widgets[id].kind = "button"
    THEN [st EXCEPT !.widgets[id].st.focused = (st.focused = id)] ELSE st

Drawn(st, id) ==
    LET it   == st.widgets[id]
        view == refresh_state(st.g, it.st, id)
        same(picture) == [st |-> it.st, g |-> st.g, picture |-> picture]
        thumb == thumb_refresh(st.g, it.st, id, it.height)
    IN  CASE it.kind = "button"              -> same(button_draw(it.st))
          [] it.kind = "checkbox"            -> same(checkbox_draw(it.st))
          [] it.kind = "radio_button"        -> same(radio_draw(it.st))
          [] it.kind = "listbox_default"     -> same(listbox_draw(it.st))
          [] it.kind = "notification_toast"  -> same(toast_draw(it.st))
          [] it.kind = "notification_dialog" -> same(dialog_draw(it.st))
          [] it.kind = "scrollbar_thumb"     -> [st |-> thumb, g |-> st.g, picture |-> thumb_draw(thumb)]
          [] it.kind = "dropdown"            -> [st |-> it.st, g |-> view.g,
                                                 picture |-> dropdown_draw(view.st, it.height)]
          [] it.kind = "image"               -> same(image_draw(it.st))
          [] it.kind = "plain_text"          -> same(plain_text_draw(st.g, it.st, id))
          [] it.kind = "status_widget"       -> same(status_draw(st.g, id))
          [] it.kind = "top_status_bar"      -> same(top_bar_draw(st.g, id))
          [] it.kind = "thing_inspector"     -> same(inspector_draw(st.g, id))
          [] it.kind = "graph_mini_viewer"   -> same(mini_viewer_draw)
          [] it.kind = "toolbar"             -> same(toolbar_draw)
          [] OTHER -> same(thing_draw)

Published(st, id) ==
    LET told == Told(st, id)
        r    == Drawn(told, id)
        it   == told.widgets[id]
        mark == IF it.kind = "checkbox" THEN [CHECKED |-> it.st.checked] ELSE <<>>
    IN  [told EXCEPT !.widgets[id].st = r.st,
                     !.g = fiat(r.g, id, "WIDGET", [BITMAP |-> r.picture] @@ mark)]
----------------------------------------------------------------------------
(* The loop the application runtime runs the host in: poll the watches one *)
(* after the other, handle the events, draw and publish the widgets in the *)
(* order of their ids, start again.                                        *)

State == [widgets |-> host.widgets, focused |-> host.focused, g |-> g]

Poll ==
    /\ host.at <= Len(Watches)
    /\ LET kind == Watches[host.at]
       IN  /\ host' = [host EXCEPT !.inbox = @ \o g.queue[kind], !.at = @ + 1]
           /\ g' = [g EXCEPT !.queue[kind] = <<>>]
    /\ UNCHANGED <<scene, mouse, seen>>

Handle ==
    /\ host.at > Len(Watches) /\ host.inbox # <<>>
    /\ LET st == on_event(State, Head(host.inbox))
       IN  /\ g' = st.g
           /\ host' = [host EXCEPT !.widgets = st.widgets, !.focused = st.focused, !.inbox = Tail(@)]
    /\ UNCHANGED <<scene, mouse, seen>>

Unpublished == {id \in DOMAIN host.widgets : id > host.done}

Publish ==
    /\ host.at > Len(Watches) /\ host.inbox = <<>> /\ Unpublished # {}
    /\ LET id == Min(Unpublished)
           st == Published(State, id)
       IN  /\ g' = st.g
           /\ host' = [host EXCEPT !.widgets = st.widgets, !.done = id]
    /\ UNCHANGED <<scene, mouse, seen>>

EndOfTick ==
    /\ host.at > Len(Watches) /\ host.inbox = <<>> /\ Unpublished = {}
    /\ host' = [host EXCEPT !.at = 1, !.done = 0]
    /\ UNCHANGED <<g, scene, mouse, seen>>

----------------------------------------------------------------------------
(* Everybody else: an application that creates the scene and notifies, the *)
(* compositor, the keyboard.                                               *)

Input(what) == what \in scene.inputs /\ seen.inputs < MaxInputs
Counted(history) == [history EXCEPT !.inputs = @ + 1]

Shown == {w \in DOMAIN g.node : g.node[w].kind = "WIDGET"}

Create(w) ==
    /\ w \notin DOMAIN g.node
    /\ g' = fiat(g, w, scene.nodes[w].kind, scene.nodes[w].fields)
    /\ UNCHANGED <<host, scene, mouse, seen>>

NotifyUser(n, scope) ==
    /\ Input("notify") /\ n \notin DOMAIN g.node
    /\ g' = fiat(g, n, "NOTIFICATION", [SCOPE |-> scope])
    /\ seen' = Counted(seen)
    /\ UNCHANGED <<host, scene, mouse>>

(* A press is followed, in the same handler, by the move that every event   *)
(* with the button down makes, and the move's write has no button in it.    *)
Press(w, y) ==
    /\ Input("press") /\ ~mouse.down
    /\ g' = fiat(fiat(g, w, "WIDGET", [Y |-> y, DOWN |-> TRUE]), w, "WIDGET", [Y |-> y])
    /\ mouse' = [active |-> w, down |-> TRUE]
    /\ LET toast == w \in DOMAIN host.widgets /\ host.widgets[w].kind = "notification_toast"
       IN  seen' = [Counted(seen) EXCEPT
                       !.acts = @ + 1, !.focus = w,
                       !.toasts = IF toast THEN @ \cup ({host.widgets[w].st.note} \ {None}) ELSE @]
    /\ UNCHANGED <<host, scene>>

MoveTo(y) ==
    /\ Input("move") /\ mouse.down /\ mouse.active # None
    /\ g' = fiat(g, mouse.active, "WIDGET", [Y |-> y])
    /\ seen' = Counted(seen)
    /\ UNCHANGED <<host, scene, mouse>>

Release ==
    /\ Input("release") /\ mouse.down
    /\ g' = IF mouse.active = None THEN g ELSE fiat(g, mouse.active, "WIDGET", [DOWN |-> FALSE])
    /\ mouse' = [active |-> None, down |-> FALSE]
    /\ seen' = Counted(seen)
    /\ UNCHANGED <<host, scene>>

(* Tab moves the active widget through the focusable ones, whether or not  *)
(* the mouse is using it.                                                  *)
TabFocus(step) ==
    LET focusable == SetToSortSeq(Shown \cap DOMAIN scene.nodes, <)
        n    == Len(focusable)
        here == {i \in 1..n : focusable[i] = mouse.active}
        new  == IF here = {} THEN focusable[1] ELSE focusable[((Min(here) - 1 + step) % n) + 1]
        left == IF mouse.active \in {None, new} THEN g
                ELSE fiat(g, mouse.active, "WIDGET", [FCS |-> FALSE])
    IN  /\ Input("tab") /\ n > 0
        /\ g' = fiat(left, new, "WIDGET", [FCS |-> TRUE])
        /\ mouse' = [mouse EXCEPT !.active = new]
        /\ seen' = [Counted(seen) EXCEPT !.focus = new]
        /\ UNCHANGED <<host, scene>>

Key(k, down) ==
    /\ Input("key")
    /\ g' = fiat(g, 0, "KEY", [KEY |-> k, DOWN |-> down])
    /\ seen' = [Counted(seen) EXCEPT !.acts = IF k = "Enter" /\ down THEN @ + 1 ELSE @]
    /\ UNCHANGED <<host, scene, mouse>>

Relayout(w, h) ==
    /\ Input("layout")
    /\ g' = fiat(g, w, "WIDGET", [HEIGHT |-> h])
    /\ seen' = Counted(seen)
    /\ UNCHANGED <<host, scene, mouse>>

----------------------------------------------------------------------------

Init ==
    /\ scene \in Scenes
    /\ g = [node |-> <<>>, queue |-> [k \in ToSet(Watches) |-> <<>>], launched |-> 0]
    /\ host = [widgets |-> <<>>, focused |-> None, inbox |-> <<>>, at |-> 1, done |-> 0]
    /\ mouse = [active |-> None, down |-> FALSE]
    /\ seen = [inputs |-> 0, acts |-> 0, focus |-> None, toasts |-> {}]

Host == Poll \/ Handle \/ Publish \/ EndOfTick

Next ==
    \/ Host
    \/ \E w \in DOMAIN scene.nodes : Create(w)
    \/ \E n \in Notes, scope \in {"global", "local"} : NotifyUser(n, scope)
    \/ \E w \in Shown, y \in Ys : Press(w, y)
    \/ \E y \in Ys : MoveTo(y)
    \/ Release
    \/ \E step \in {1, -1} : TabFocus(step)
    \/ \E k \in Keys, down \in BOOLEAN : Key(k, down)
    \/ \E w \in Shown, h \in Heights : Relayout(w, h)

(* The loop never waits for anything, so the host always takes another step. *)
Spec == Init /\ [][Next]_vars /\ []<><<TRUE>>_host

----------------------------------------------------------------------------
(* Everything sent to the host has been handled. *)
Settled == host.inbox = <<>> /\ g.queue["WIDGET"] = <<>> /\ g.queue["KEY"] = <<>>

(* A press counts once: a button asks for its target at most once for every *)
(* press and every Enter the user made, however often the host's own writes *)
(* echo the state of the mouse back to it.  And once the mouse button is up *)
(* and the host has handled everything, no button, check box or radio       *)
(* button still looks pressed, although Tab can send the release to another *)
(* widget than the one that got the press.                                  *)
PressesCountOnce ==
    /\ g.launched <= seen.acts
    /\ Settled /\ ~mouse.down =>
          \A w \in DOMAIN host.widgets :
              host.widgets[w].kind \in {"button", "checkbox", "radio_button", "dropdown"}
                  => ~host.widgets[w].st.pressed

(* The keyboard follows the user: the widget that was last pressed or tabbed *)
(* to has the focus once the host has handled everything.  A dropdown writes *)
(* its node by merging, which can repeat an old focus; scenes with one are   *)
(* left out.                                                                 *)
FocusFollowsUser ==
    Settled /\ (\A w \in DOMAIN scene.nodes : Get(scene.nodes[w].fields, "WK", "thing") # "dropdown") =>
        host.focused = seen.focus

(* A widget paints into a buffer of its size, whoever last resized it: an   *)
(* application, the layout, or a dropdown opening its menu.  What a         *)
(* dropdown takes for its closed height is a height one of the others gave  *)
(* it, never the height of its own open menu.                               *)
SizesKept ==
    \A w \in DOMAIN host.widgets :
        /\ host.widgets[w].framebuffer = host.widgets[w].width * host.widgets[w].height
        /\ host.widgets[w].kind = "dropdown" => host.widgets[w].st.collapsed \in Heights \cup {Get(scene.nodes[w].fields, "HEIGHT", 200)}

(* Every notification gets its widget, whatever else keeps the host busy,   *)
(* and a press on a toast acknowledges the notification it shows.           *)
NotificationsHandled ==
    \A n \in Notes :
        /\ n \in DOMAIN g.node ~> WidgetOf(n) \in DOMAIN host.widgets
        /\ n \in seen.toasts ~> n \in DOMAIN g.node /\ Get(g.node[n].fields, "ACK", FALSE)
=============================================================================
