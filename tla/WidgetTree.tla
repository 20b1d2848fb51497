----------------------------- MODULE WidgetTree -----------------------------
(***************************************************************************)
(* The compositor's copy of the widgets of a window: how it follows the    *)
(* WIDGET nodes (userland/src/ui_graph.rs), how it is laid out and drawn,  *)
(* and how the pointer is looked up in it (compositor/src/                 *)
(* widget_manager.rs), with the layout engine of module Layout.            *)
(*                                                                         *)
(* Drawing feeds back: a widget whose rectangle differs from the size the  *)
(* compositor knows of it gets its new size written into its node, the     *)
(* write comes back as an event, and the next frame lays out with the new  *)
(* size as the preferred one.                                              *)
(*                                                                         *)
(* A widget is the function of the fields it has been told.  What a frame  *)
(* shows is a list of widgets with their rectangles; colours, text, icons  *)
(* and the pixels of bitmaps are left out.                                 *)
(***************************************************************************)
EXTENDS Layout, FiniteSets, TLC

CONSTANTS
    Scenes,         \* a window, the first fields of its widgets, later writes to them
    Points,         \* where the pointer may be
    MaxInputs,      \* bound: writes made by applications and widgets
    None

VARIABLES
    scene,          \* the scene of this behaviour
    copy,           \* WidgetManager.widgets
    scroll,         \* the window's scroll_y
    queue, inbox,   \* WIDGET events: pending in the watch, polled and not yet applied
    drawing,        \* the batch has been applied and the frame is due
    frame,          \* what the last frame showed, laid out and wrote
    tiles,          \* where the last arrangement of the windows put them
    said,           \* history: everything ever said of a widget, newest last
    inputs          \* how much of MaxInputs is used

vars == <<scene, copy, scroll, queue, inbox, drawing, frame, tiles, said, inputs>>

Window == 0
TOOLBAR_HEIGHT == 32
TOOLBAR_BUTTON_SIZE == 24
TOOLBAR_BUTTON_SPACING == 2
FONT_HEIGHT == 20
TITLE_BAR_HEIGHT == 32
MIN_WINDOW_WIDTH == 140
MIN_WINDOW_HEIGHT == 100
AUTO_TILE_MARGIN == 8

Get(fields, key, default) == IF key \in DOMAIN fields THEN fields[key] ELSE default

----------------------------------------------------------------------------
(* ui_graph.rs: what a widget takes from the fields of an event *)

Same(S) == [s \in S |-> s]
Synonyms == ("flex-start" :> "start") @@ ("flex-end" :> "end")

FlexDirection == Same({"row", "column"})
FlexWrap == Same({"nowrap", "wrap"})
JustifyContent == Synonyms @@ Same({"start", "center", "end", "space-between", "space-around"})
AlignItems == Synonyms @@ Same({"start", "center", "end", "stretch"})

from_value == [FD |-> FlexDirection, FW |-> FlexWrap, JC |-> JustifyContent, AI |-> AlignItems]

Known == {"PARENT", "VISIBLE", "FOCUSABLE", "BITMAP", "WIDTH", "HEIGHT", "MIN_WIDTH", "MIN_HEIGHT",
          "MAX_WIDTH", "MAX_HEIGHT", "X", "Y", "FD", "FW", "JC", "AI", "FG", "GAP"}

Told(fields) ==
    LET role == IF "ROLE" \in DOMAIN fields THEN [role |-> fields["ROLE"]]
                ELSE IF "WK" \in DOMAIN fields THEN [role |-> fields["WK"]] ELSE <<>>
        kind == IF "WK" \in DOMAIN fields THEN [kind |-> fields["WK"]] ELSE <<>>
        read == {k \in DOMAIN fields \cap Known : k \in DOMAIN from_value => fields[k] \in DOMAIN from_value[k]}
    IN  role @@ kind @@ [k \in read |-> IF k \in DOMAIN from_value THEN from_value[k][fields[k]] ELSE fields[k]]

Unsaid == [role |-> "", VISIBLE |-> TRUE, FOCUSABLE |-> FALSE]

load(fields) == Told(fields) @@ Unsaid

update_reloading(widget, fields) == load(fields)
update(widget, fields) == Told(fields) @@ widget

----------------------------------------------------------------------------
(* widget_manager.rs: drawing *)

Children(ws, p) == SetToSortSeq({w \in DOMAIN ws : Get(ws[w], "PARENT", None) = p}, <)

Overlay(widget) == {"X", "Y"} \subseteq DOMAIN widget

FlexOf(attr) ==
    IF "FD" \in DOMAIN attr
    THEN [type |-> "flex", direction |-> attr["FD"], wrap |-> Get(attr, "FW", "nowrap"),
          justify |-> Get(attr, "JC", "start"), align |-> Get(attr, "AI", "start")]
    ELSE [type |-> "flex", direction |-> "column", wrap |-> "nowrap", justify |-> "start", align |-> "stretch"]

LayoutItem(ws, w) ==
    LET widget == ws[w]
    IN  [id    |-> w,
         min_w |-> Get(widget, "MIN_WIDTH", Get(widget, "WIDTH", 0)),
         min_h |-> Get(widget, "MIN_HEIGHT", Get(widget, "HEIGHT", 30)),
         max_w |-> Get(widget, "MAX_WIDTH", NoMax),
         max_h |-> Get(widget, "MAX_HEIGHT", NoMax),
         grow  |-> Get(widget, "FG", 0)]

Nothing == [h |-> 0, shown |-> <<>>, laid |-> <<>>, wrote |-> <<>>]
Both(a, b) == [h |-> a.h + b.h, shown |-> a.shown \o b.shown,
               laid |-> a.laid \o b.laid, wrote |-> a.wrote \o b.wrote]

Shown(w, x, y, width, height) ==
    [Nothing EXCEPT !.h = height, !.shown = <<[id |-> w, rect |-> Rect(x, y, Wrapped(width), Wrapped(height))]>>]

SizeWrite_always(ws, placed) ==
    <<[id |-> placed.id, fields |-> [WIDTH |-> placed.rect.w, HEIGHT |-> placed.rect.h]]>>

(* The size a widget with an implementation of its own is told *)
SizeWrite(ws, placed) ==
    LET r == placed.rect
        w == ws[placed.id]
        changes == (IF Get(w, "WIDTH", -1) # r.w THEN [WIDTH |-> r.w] ELSE <<>>) @@
                   (IF Get(w, "HEIGHT", -1) # r.h THEN [HEIGHT |-> r.h] ELSE <<>>)
    IN  IF "kind" \in DOMAIN w /\ DOMAIN changes # {} THEN <<[id |-> placed.id, fields |-> changes]>> ELSE <<>>

RECURSIVE draw_widget_recursive(_, _, _, _, _, _)

layout_and_draw_children(ws, box, ids, spec, gap) ==
    LET items  == [i \in DOMAIN ids |-> LayoutItem(ws, ids[i])]
        placed == layout(box, spec, items, gap)
        sizes  == FoldLeft(LAMBDA out, p : out \o SizeWrite(ws, p), <<>>, placed)
    IN  FoldLeft(LAMBDA out, p : Both(out, draw_widget_recursive(ws, p.id, p.rect.x, p.rect.y, p.rect.w, p.rect.h)),
                 [Nothing EXCEPT !.laid = <<[box |-> box, spec |-> spec, gap |-> gap, items |-> items,
                                             placed |-> placed]>>, !.wrote = sizes],
                 placed)

(* A toolbar shows as many buttons as fit. *)
ToolbarButtons(ws, w, x, y, width) ==
    LET kids == Children(ws, w)
        at(i) == x + (i - 1) * (TOOLBAR_BUTTON_SIZE + TOOLBAR_BUTTON_SPACING)
        fit  == {i \in DOMAIN kids : at(i) + TOOLBAR_BUTTON_SIZE <= x + width}
    IN  [i \in fit |-> [id |-> kids[i],
                        rect |-> Rect(at(i), y + (TOOLBAR_HEIGHT - TOOLBAR_BUTTON_SIZE) \div 2,
                                      TOOLBAR_BUTTON_SIZE, TOOLBAR_BUTTON_SIZE)]]

Toolbars == {"container.toolbar", "toolbar"}
Containers == {"container.vertical", "window_root", "container.editor_root"}
Lists == {"listbox_default", "primary_list"}
LeafHeight == ("button" :> 30) @@ ("scrollbar_thumb" :> 30) @@ ("thing_tile" :> 100) @@
              ("list_item" :> 20) @@ ("label" :> FONT_HEIGHT)

draw_widget_recursive(ws, w, x, y, width, height) ==
    LET widget == ws[w]
        kids   == Children(ws, w)
        own(h) == Shown(w, x, y, width, h)
        Of(h, inner) == [Both(own(h), inner) EXCEPT !.h = h]
        listed == Get(widget, "HEIGHT", 100)
        Listed(out, kid) ==       \* the rows of a list follow each other
            Both(out, draw_widget_recursive(ws, kid, x + 2, y + 2 + out.h, width - 4, listed - 4 - out.h))
        Free(out, kid) ==         \* on a canvas every child says where it is
            Both(out, draw_widget_recursive(ws, kid, x + Get(ws[kid], "X", 0), y + Get(ws[kid], "Y", 0),
                                            Get(ws[kid], "WIDTH", 32), Get(ws[kid], "HEIGHT", 32)))
    IN  IF ~widget["VISIBLE"] THEN Nothing
        ELSE IF {"BITMAP", "WIDTH", "HEIGHT"} \subseteq DOMAIN widget THEN own(height)
        ELSE CASE widget.role \in Toolbars   -> Of(TOOLBAR_HEIGHT, [Nothing EXCEPT !.shown = ToolbarButtons(ws, w, x, y, width)])
               [] widget.role \in Containers -> Of(height, layout_and_draw_children(ws, Rect(x, y, Wrapped(width), Wrapped(height)),
                                                               kids, FlexOf(widget), Get(widget, "GAP", 0)))
               [] widget.role = "canvas"     -> Of(height, FoldLeft(Free, Nothing, kids))
               [] widget.role \in Lists      -> Of(listed, FoldLeft(Listed, Nothing, kids))
               [] widget.role \in DOMAIN LeafHeight -> own(Get(widget, "HEIGHT", LeafHeight[widget.role]))
               [] OTHER -> own(0)

(* A window shows its title bar widget, then its other widgets: those       *)
(* without a position by the layout engine, the others over them.          *)
draw_widgets(ws, win) ==
    LET roots    == SelectSeq(Children(ws, Window), LAMBDA w : w # win.title)
        relative == SelectSeq(roots, LAMBDA w : ~Overlay(ws[w]))
        Over(out, w) == Both(out, draw_widget_recursive(ws, w, win.box.x + ws[w]["X"], win.box.y + ws[w]["Y"],
                                                        Get(ws[w], "WIDTH", 0), Get(ws[w], "HEIGHT", 0)))
        flex  == [k \in DOMAIN win.flex \ {"FW"} |-> win.flex[k]]
        below == IF relative = <<>> THEN Nothing
                 ELSE layout_and_draw_children(ws, win.box, relative, FlexOf(flex), Get(win.flex, "GAP", 0))
    IN  FoldLeft(Over, below, SelectSeq(roots, LAMBDA w : Overlay(ws[w])))

draw_specific_widget(ws, win) ==
    IF win.title \in DOMAIN ws
    THEN draw_widget_recursive(ws, win.title, win.box.x, win.box.y - TITLE_BAR_HEIGHT, win.box.w, TITLE_BAR_HEIGHT)
    ELSE Nothing

Frame(ws, win) == [Both(draw_specific_widget(ws, win), draw_widgets(ws, win)) EXCEPT !.h = 0]

----------------------------------------------------------------------------
(* widget_manager.rs: looking the pointer up *)

RECURSIVE get_widget_height(_, _, _)
get_widget_height(ws, w, height) ==
    LET widget == ws[w]
        Add(sum, kid) == sum + get_widget_height(ws, kid, height - sum)
    IN  IF ~widget["VISIBLE"] THEN 0
        ELSE CASE widget.role = "container.toolbar" -> TOOLBAR_HEIGHT
               [] widget.role \in {"control.toolbar_button", "toolbar_button"} -> Get(widget, "HEIGHT", 32)
               [] widget.role \in {"container.vertical", "window_root"} -> FoldLeft(Add, 0, Children(ws, w))
               [] widget.role = "container.editor_root" -> height
               [] OTHER -> 0

Inside(p, r) == p.x \in r.x .. (r.x + r.w - 1) /\ p.y \in r.y .. (r.y + r.h - 1)

(* The button of a toolbar under the pointer, or the toolbar *)
HitToolbar_unspaced(ws, w, x, y, width, p) ==
    LET kids  == Children(ws, w)
        at(i) == x + (i - 1) * TOOLBAR_BUTTON_SIZE
        under == {i \in DOMAIN kids : at(i) + TOOLBAR_BUTTON_SIZE <= x + width /\
                   Inside(p, Rect(at(i), y + 4, TOOLBAR_BUTTON_SIZE, TOOLBAR_BUTTON_SIZE))}
    IN  IF under = {} THEN w ELSE kids[CHOOSE i \in under : TRUE]

HitToolbar(ws, w, x, y, width, p) ==
    LET kids  == Children(ws, w)
        at(i) == x + (i - 1) * (TOOLBAR_BUTTON_SIZE + TOOLBAR_BUTTON_SPACING)
        top   == y + (TOOLBAR_HEIGHT - TOOLBAR_BUTTON_SIZE) \div 2
        under == {i \in DOMAIN kids : at(i) + TOOLBAR_BUTTON_SIZE <= x + width /\
                   Inside(p, Rect(at(i), top, TOOLBAR_BUTTON_SIZE, TOOLBAR_BUTTON_SIZE))}
    IN  IF under = {} THEN w ELSE kids[CHOOSE i \in under : TRUE]

RECURSIVE hit_test_widget_recursive(_, _, _, _, _, _, _)
hit_test_widget_recursive(ws, w, x, y, width, height, p) ==
    LET widget == ws[w]
        kids   == Children(ws, w)
        mine   == get_widget_height(ws, w, height)
        canvas == widget.role = "canvas"
        \* the first child that is hit, and how far down the children have come
        Try(acc, kid) ==
            LET inset == IF widget.role \in Lists THEN 2 ELSE 0
                room  == (IF inset = 0 THEN height ELSE mine - 4) - acc.down
                h     == get_widget_height(ws, kid, room)
                hit   == IF canvas
                         THEN hit_test_widget_recursive(ws, kid, x + Get(ws[kid], "X", 0), y + Get(ws[kid], "Y", 0),
                                                        Get(ws[kid], "WIDTH", 32), Get(ws[kid], "HEIGHT", 32), p)
                         ELSE hit_test_widget_recursive(ws, kid, x + inset, y + inset + acc.down, width - 2 * inset, h, p)
            IN  IF acc.hit # None THEN acc
                ELSE [hit |-> hit, down |-> IF canvas THEN acc.down ELSE acc.down + h]
        among  == FoldLeft(Try, [hit |-> None, down |-> 0], kids).hit
    IN  IF ~widget["VISIBLE"] \/ ~Inside(p, Rect(x, y, width, mine)) THEN None
        ELSE IF widget.role = "container.toolbar" THEN HitToolbar(ws, w, x, y, width, p)
        ELSE IF (canvas \/ widget.role \in Containers \cup Lists) /\ among # None THEN among
        ELSE w

(* Positioned widgets come first, and their position is taken as one on    *)
(* the screen; all the others are tried from the top of the window.        *)
hit_test_widgets(ws, win, p) ==
    LET roots == Children(ws, Window)
        over  == SelectSeq(roots, LAMBDA w : {"X", "Y", "WIDTH", "HEIGHT"} \subseteq DOMAIN ws[w] /\
                            Inside(p, Rect(ws[w]["X"], ws[w]["Y"], ws[w]["WIDTH"], ws[w]["HEIGHT"])))
        width == IF win.content_w > 0 THEN win.content_w ELSE win.box.w
        Try(hit, w) == IF hit # None \/ Overlay(ws[w]) THEN hit
                       ELSE hit_test_widget_recursive(ws, w, win.box.x, win.box.y, width, win.box.h, p)
    IN  IF over # <<>> THEN over[1] ELSE FoldLeft(Try, None, roots)

RECURSIVE collect_focusable_widgets(_, _)
collect_focusable_widgets(ws, parent) ==
    FoldLeft(LAMBDA list, kid : list \o (IF ws[kid]["FOCUSABLE"] THEN <<kid>> ELSE <<>>) \o collect_focusable_widgets(ws, kid),
             <<>>, Children(ws, parent))

----------------------------------------------------------------------------
(* widget_manager.rs: the debug overlay, a box for every widget *)

Box(w, x, y, width, height) == [h |-> height, boxes |-> <<[id |-> w, rect |-> Rect(x, y, Wrapped(width), Wrapped(height))]>>]
Stacked(out, one) == [h |-> out.h + one.h, boxes |-> out.boxes \o one.boxes]
NoBox == [h |-> 0, boxes |-> <<>>]

RECURSIVE draw_debug_widget_recursive(_, _, _, _, _, _, _)
draw_debug_widget_recursive(ws, w, x, y, width, height, scroll_y) ==
    LET widget == ws[w]
        kids   == Children(ws, w)
        Down(top, room(_)) ==
            FoldLeft(LAMBDA out, kid : Stacked(out, draw_debug_widget_recursive(ws, kid, x, top + out.h, width, room(out.h), scroll_y)),
                     NoBox, kids)
        buttons == [i \in DOMAIN kids |->
                       [id   |-> kids[i],
                        rect |-> Rect(x + (i - 1) * (TOOLBAR_BUTTON_SIZE + TOOLBAR_BUTTON_SPACING),
                                      y + (TOOLBAR_HEIGHT - TOOLBAR_BUTTON_SIZE) \div 2,
                                      TOOLBAR_BUTTON_SIZE, TOOLBAR_BUTTON_SIZE)]]
        column  == Down(y, LAMBDA used : height - used)
        With(inner, h) == [h |-> h, boxes |-> inner \o Box(w, x, y, width, h).boxes]
    IN  IF ~widget["VISIBLE"] THEN NoBox
        ELSE CASE widget.role = "container.toolbar" -> With(buttons, TOOLBAR_HEIGHT)
               [] widget.role \in {"container.vertical", "window_root"} -> With(column.boxes, column.h)
               [] widget.role = "container.editor_root" -> With(Down(y - scroll_y, LAMBDA used : 10000).boxes, height)
               [] OTHER -> Box(w, x, y, width, Get(widget, "HEIGHT", 32))

draw_debug_widgets(ws, win, scroll_y) ==
    LET roots == Children(ws, Window)
        Below(out, w) == Stacked(out, draw_debug_widget_recursive(ws, w, win.box.x, win.box.y + out.h, win.box.w,
                                                                  win.box.h - out.h, scroll_y))
        Over(out, w)  == IF {"WIDTH", "HEIGHT"} \subseteq DOMAIN ws[w]
                         THEN Stacked(out, draw_debug_widget_recursive(ws, w, win.x + ws[w]["X"], win.y + ws[w]["Y"],
                                                                       ws[w]["WIDTH"], ws[w]["HEIGHT"], scroll_y))
                         ELSE out
    IN  FoldLeft(Over, FoldLeft(Below, NoBox, SelectSeq(roots, LAMBDA w : ~Overlay(ws[w]))),
                 SelectSeq(roots, LAMBDA w : Overlay(ws[w]))).boxes

----------------------------------------------------------------------------
Init ==
    /\ scene \in Scenes
    /\ copy = <<>> /\ said = <<>>
    /\ scroll = 0
    /\ queue = <<>> /\ inbox = <<>>
    /\ drawing = FALSE
    /\ frame = Nothing /\ tiles = <<>>
    /\ inputs = 0

Heard(old, id, fields) ==
    (id :> ((IF "SCROLL" \in DOMAIN fields THEN [SCROLL |-> fields["SCROLL"]] ELSE <<>>) @@
            Told(fields) @@ (IF id \in DOMAIN old THEN old[id] ELSE Unsaid))) @@ old

(* An application builds a widget under the window or under one it has     *)
(* built before.                                                           *)
build(w) ==
    /\ w \in DOMAIN scene.widgets \ DOMAIN said
    /\ scene.widgets[w]["PARENT"] \in {Window} \cup DOMAIN said
    /\ queue' = Append(queue, [id |-> w, fields |-> scene.widgets[w]])
    /\ said' = Heard(said, w, scene.widgets[w])
    /\ UNCHANGED <<scene, copy, scroll, inbox, drawing, frame, tiles, inputs>>

(* An application or the widget's own process writes fields of a widget.   *)
Write(write) ==
    /\ inputs < MaxInputs
    /\ write.id \in DOMAIN said
    /\ queue' = Append(queue, write)
    /\ said' = Heard(said, write.id, write.fields)
    /\ inputs' = inputs + 1
    /\ UNCHANGED <<scene, copy, scroll, inbox, drawing, frame, tiles>>

Poll ==
    /\ ~drawing
    /\ inbox' = queue /\ queue' = <<>>
    /\ drawing' = TRUE
    /\ UNCHANGED <<scene, copy, scroll, frame, tiles, said, inputs>>

Scrolled(ev, widget) ==
    IF "SCROLL" \in DOMAIN ev.fields /\ Get(widget, "PARENT", None) = Window /\ ev.id = scene.window.scrollbar
    THEN ev.fields["SCROLL"] ELSE scroll

ingest_widget ==
    /\ drawing /\ inbox # <<>>
    /\ LET ev == Head(inbox)
           widget == IF ev.id \in DOMAIN copy THEN update(copy[ev.id], ev.fields) ELSE load(ev.fields)
       IN  /\ copy' = (ev.id :> widget) @@ copy
           /\ scroll' = Scrolled(ev, widget)
    /\ inbox' = Tail(inbox)
    /\ UNCHANGED <<scene, queue, drawing, frame, tiles, said, inputs>>

Draw ==
    /\ drawing /\ inbox = <<>>
    /\ frame' = Frame(copy, scene.window)
    /\ queue' = queue \o frame'.wrote
    /\ said' = FoldLeft(LAMBDA all, wr : Heard(all, wr.id, wr.fields), said, frame'.wrote)
    /\ drawing' = FALSE
    /\ UNCHANGED <<scene, copy, scroll, inbox, tiles, inputs>>

(* The compositor arranges the visible windows in a grid that is at least   *)
(* as wide as high; a window is never made smaller than the minimum.       *)
layout_windows_in_area(tiling) ==
    LET count == Len(tiling.ids)
        cols  == CHOOSE c \in 1 .. count : c * c >= count /\ (c - 1) * (c - 1) < count
        items == [i \in DOMAIN tiling.ids |-> [id |-> tiling.ids[i], max_w |-> NoMax, max_h |-> NoMax]]
        spec  == [type |-> "grid", rows |-> (count + cols - 1) \div cols, cols |-> cols]
    IN  /\ inputs < MaxInputs
        /\ count > 0 /\ tiling.area.w > 0 /\ tiling.area.h > 0
        /\ tiles' = [i \in 1 .. count |->
                        LET p == layout(tiling.area, spec, items, AUTO_TILE_MARGIN)[i]
                        IN  [id   |-> p.id,
                             rect |-> Rect(Most(p.rect.x, 0), Most(p.rect.y, 0), Most(p.rect.w, MIN_WINDOW_WIDTH),
                                           Most(p.rect.h, MIN_WINDOW_HEIGHT))]]
        /\ inputs' = inputs + 1
        /\ UNCHANGED <<scene, copy, scroll, queue, inbox, drawing, frame, said>>

Next ==
    \/ \E tiling \in scene.tilings : layout_windows_in_area(tiling)
    \/ \E w \in DOMAIN scene.widgets : build(w)
    \/ \E write \in scene.writes : Write(write)
    \/ Poll
    \/ ingest_widget
    \/ Draw

(* The compositor's loop never stops. *)
Fairness == []<><<TRUE>>_<<inbox, drawing>>

Spec == Init /\ [][Next]_vars /\ Fairness

----------------------------------------------------------------------------
(* A node is replaced by every write, so an event carries only the last    *)
(* write; the compositor's copy still is everything the widget was ever    *)
(* told once no event is pending, the sizes written by the layout          *)
(* included; and the window is scrolled to where its scrollbar's process   *)
(* last said, whatever other widgets say of their own scrolling.           *)
CopyKeepsWhatItWasTold ==
    queue = <<>> /\ inbox = <<>> =>
        LET bar == scene.window.scrollbar
        IN  /\ \A w \in DOMAIN said : copy[w] = [k \in DOMAIN said[w] \ {"SCROLL"} |-> said[w][k]]
            /\ IF bar \in DOMAIN said /\ "SCROLL" \in DOMAIN said[bar] THEN scroll = said[bar]["SCROLL"] ELSE scroll = 0

Apart(a, b) == a.x + a.w <= b.x \/ b.x + b.w <= a.x \/ a.y + a.h <= b.y \/ b.y + b.h <= a.y

(* The smallest sizes and the gaps fit into the container's main axis.     *)
(* (With space-around the code adds the extra gap twice, and they do not.) *)
Fits(l) ==
    LET is_row == l.spec.direction = "row"
        need   == total_basis(is_row, l.items) + (Len(l.items) - 1) * l.gap
    IN  l.spec.justify # "space-around" /\ l.spec.wrap = "nowrap" /\ need <= (IF is_row THEN l.box.w ELSE l.box.h)

InBox(l, r) ==
    IF l.spec.direction = "row" THEN l.box.x <= r.x /\ r.x + r.w <= l.box.x + l.box.w
    ELSE l.box.y <= r.y /\ r.y + r.h <= l.box.y + l.box.h

(* The engine never lets two siblings overlap, on one line or on several,  *)
(* whatever grows and whatever is larger than its container; and items     *)
(* that fit are placed inside the container, also after they have grown.   *)
LaidOutApart ==
    \A l \in Range(frame.laid) :
        /\ \A i, j \in DOMAIN l.placed : i # j => Apart(l.placed[i].rect, l.placed[j].rect)
        /\ Fits(l) => \A i \in DOMAIN l.placed : InBox(l, l.placed[i].rect)

(* An arrangement of windows no slot of which is below the minimum size:   *)
(* they do not overlap, stay in the area and reach its right edge, and     *)
(* every window has a place.                                               *)
TilesFillArea ==
    tiles # <<>> => \E tiling \in scene.tilings :
        LET a == tiling.area
            tight(r) == r.w = MIN_WINDOW_WIDTH \/ r.h = MIN_WINDOW_HEIGHT
        IN  /\ [i \in DOMAIN tiles |-> tiles[i].id] = tiling.ids
            /\ (\A i \in DOMAIN tiles : ~tight(tiles[i].rect)) =>
                  /\ \A i, j \in DOMAIN tiles : i # j => Apart(tiles[i].rect, tiles[j].rect)
                  /\ \A i \in DOMAIN tiles : LET r == tiles[i].rect
                                            IN  a.x <= r.x /\ r.x + r.w <= a.x + a.w /\ a.y <= r.y /\ r.y + r.h <= a.y + a.h
                  /\ \E i \in DOMAIN tiles : tiles[i].rect.x + tiles[i].rect.w = a.x + a.w

RectOf(list, w) == {list[i].rect : i \in {j \in DOMAIN list : list[j].id = w}}

(* Of a toolbar at the top of the window, a button is hit only inside the  *)
(* square it was drawn in, and everywhere in it when no scrollbar narrows  *)
(* the window for the hit test.                                            *)
ToolbarHits ==
    LET win  == scene.window
        tops == {w \in DOMAIN copy : Get(copy[w], "PARENT", None) = Window /\ ~Overlay(copy[w])}
        bars == {w \in tops : copy[w].role = "container.toolbar" /\ (\A v \in tops : w <= v) /\ win.flex = <<>>}
        buttons(bar) == {w \in DOMAIN copy : Get(copy[w], "PARENT", None) = bar}
    IN  ~drawing => \A bar \in bars : \A w \in buttons(bar) : \A p \in Points :
            LET drawn == \E r \in RectOf(frame.shown, w) : Inside(p, r)
                hit   == hit_test_widgets(copy, win, p) = w
            IN  /\ hit => drawn
                /\ drawn /\ win.content_w = win.box.w => hit

Structural == {"container.toolbar", "control.toolbar_button", "container.vertical", "window_root"}

(* In a window with one tree of containers, toolbars and toolbar buttons,  *)
(* the widget found at a point has a box of the debug overlay around it.   *)
OverlayHits ==
    LET win   == scene.window
        boxes == draw_debug_widgets(copy, win, scroll)
    IN  /\ Len(Children(copy, Window)) = 1
        /\ \A w \in DOMAIN copy : copy[w].role \in Structural /\ ~Overlay(copy[w])
        => \A p \in Points : LET w == hit_test_widgets(copy, win, p)
                             IN  w # None => \E r \in RectOf(boxes, w) : Inside(p, r)

RECURSIVE Under(_, _)
Under(ws, p) == LET kids == {w \in DOMAIN ws : Get(ws[w], "PARENT", None) = p}
                IN  kids \cup UNION {Under(ws, k) : k \in kids}

(* Tab visits every focusable widget of the window, at any depth, once.    *)
TabReachesAll ==
    LET order == collect_focusable_widgets(copy, Window)
    IN  /\ Range(order) = {w \in Under(copy, Window) : copy[w]["FOCUSABLE"]}
        /\ \A i, j \in DOMAIN order : i # j => order[i] # order[j]

(* The user reaches what the frame shows: a toolbar's buttons are hit      *)
(* where they were drawn, the debug overlay shows the boxes the pointer is *)
(* tested with (hit_test_widgets, draw_toolbar and draw_debug_widgets      *)
(* compute the same geometry three times), and Tab finds every focusable   *)
(* widget (collect_focusable_widgets).                                     *)
WidgetsReachable == ToolbarHits /\ OverlayHits /\ TabReachesAll

(* The layout writes sizes, and sizes are what the layout starts from; yet *)
(* once the applications are quiet the frames stop changing them.          *)
LayoutSettles == <>[](frame.wrote = <<>>)
============================================================================
