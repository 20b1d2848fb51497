------------------------------- MODULE Painter -------------------------------
(***************************************************************************)
(* What the compositor paints: the scene of a mode (draw_mode and its      *)
(* helpers in compositor.rs), the geometry of a window's frame, content    *)
(* and scrollbar (window.rs), and the software renderer that turns a scene *)
(* into pixels, wholly or only where the cursor was and is                 *)
(* (framebuffer_backend.rs).                                               *)
(*                                                                         *)
(* A pixel is the sequence of what was painted on it since something       *)
(* opaque was: an opaque colour starts the sequence anew and a translucent *)
(* one is appended.  A glyph is one pixel, and the sizes of frames, bars   *)
(* and sprites are scaled down by constants.  Widgets are left out.        *)
(***************************************************************************)
EXTENDS Integers, FiniteSets, SequencesExt

CONSTANTS
    Width, Height,              \* the screen
    RESIZE_MARGIN, RESIZE_CORNER_SIZE, TITLE_BAR_HEIGHT,
    SCROLLBAR_WIDTH, SCROLLBAR_GAP, SCROLLBAR_MIN_THUMB,
    MIN_WINDOW_SIZE,            \* stands for the minimal width and the minimal height
    SHADOW,                     \* the offset of a window's shadow
    Sprite,                     \* the side of a cursor sprite
    Desks,                      \* the stacks of windows considered, bottom first
    Spots,                      \* where the cursor goes
    Parallax, FrameMod,         \* pixels the wallpaper scrolls per frame; frames wrap
    MaxInputs,                  \* bound: moves, presses, releases and the like
    None

VARIABLES
    windows,    \* the windows of the mode, bottom first
    active,     \* the index of the focused one
    cursor,     \* position, shape and visibility
    prev_rect,  \* cursor_prev_rect: where the cursor was last painted
    drag, content_dirty, echo,
    storage,    \* the renderer's pixels
    screen,     \* the framebuffer's pixels
    frame_no,
    inputs,     \* how much of the bound is used
    painted     \* history: nothing happened since the last tick

vars == <<windows, active, cursor, prev_rect, drag, content_dirty, echo, storage,
          screen, frame_no, inputs, painted>>

Pixels == (0..(Width - 1)) \X (0..(Height - 1))
Rect(x, y, w, h) == [x |-> x, y |-> y, w |-> w, h |-> h]
Screen == Rect(0, 0, Width, Height)
Max2(a, b) == IF a > b THEN a ELSE b
Min2(a, b) == IF a < b THEN a ELSE b
clamp_i32(v, lo, hi) == IF v < lo THEN lo ELSE IF v > hi THEN hi ELSE v
In(x, y, r) == r.x <= x /\ x < r.x + r.w /\ r.y <= y /\ y < r.y + r.h

union(a, b) ==
    LET x == Min2(a.x, b.x)  y == Min2(a.y, b.y)
    IN  Rect(x, y, Max2(a.x + a.w, b.x + b.w) - x, Max2(a.y + a.h, b.y + b.h) - y)

intersect_rect(a, b) ==
    LET x == Max2(a.x, b.x)              y == Max2(a.y, b.y)
        u == Min2(a.x + a.w, b.x + b.w)  v == Min2(a.y + a.h, b.y + b.h)
    IN  IF x < u /\ y < v THEN Rect(x, y, u - x, v - y) ELSE None
----------------------------------------------------------------------------
(* The geometry of a window *)

compute_window_layout(win) ==
    LET w == win.w - 2 * RESIZE_MARGIN  h == win.h - 2 * RESIZE_MARGIN
        x == win.x + RESIZE_MARGIN      y == win.y + RESIZE_MARGIN
    IN  IF w <= 0 \/ h <= TITLE_BAR_HEIGHT THEN None
        ELSE [title |-> Rect(x, y, w, TITLE_BAR_HEIGHT),
              client |-> Rect(x, y + TITLE_BAR_HEIGHT, w, h - TITLE_BAR_HEIGHT)]

(* The glyphs of a text with the cell each stands in, wrapped at a width. *)
Glyphs(text, width) ==
    FoldLeft(LAMBDA at, ch :
               IF ch = "nl" THEN [at EXCEPT !.x = 0, !.y = @ + 1]
               ELSE LET wraps == at.x + 1 > width
                        x == IF wraps THEN 0 ELSE at.x
                        y == IF wraps THEN at.y + 1 ELSE at.y
                    IN  [x |-> x + 1, y |-> y, cells |-> at.cells \cup {<<x, y>>}],
             [x |-> 0, y |-> 0, cells |-> {}], text)

measure_text_height(text, width) ==
    IF text = <<>> \/ width <= 0 THEN 0 ELSE Glyphs(text, width).y + 1

measure_surface_content_height(win, width) ==
    IF width <= 0 THEN 0 ELSE Max2(measure_text_height(win.text, width), win.image)

(* The thumb's height and offset are rounded to the nearest pixel, halves   *)
(* up.                                                                      *)
Nearest(num, den) == (2 * num + den) \div (2 * den)

(* A thumb whose height is not taken off the way it can travel. *)
ThumbOffset_untravelled(track_h, thumb_h, scroll, max_scroll) ==
    IF max_scroll = 0 THEN 0 ELSE Nearest(scroll * track_h, max_scroll)

ThumbOffset(track_h, thumb_h, scroll, max_scroll) ==
    LET travel == Max2(track_h - thumb_h, 0)
    IN  IF travel = 0 \/ max_scroll = 0 THEN 0 ELSE Nearest(scroll * travel, max_scroll)

ContentMetrics(win, client) ==
    LET view == Max2(client.h - 1, 0)
        bare == measure_surface_content_height(win, client.w)
        reserve == SCROLLBAR_WIDTH + SCROLLBAR_GAP
        narrow == client.w - reserve
        tight == measure_surface_content_height(win, narrow)
        bar == view > 0 /\ bare > view /\ narrow > 0 /\ tight > view
        width == IF bar THEN narrow ELSE client.w
        height == IF view <= 0 THEN 0 ELSE IF bar THEN tight ELSE bare
        max_scroll == Max2(height - view, 0)
        scroll == clamp_i32(win.scroll, 0, max_scroll)
        track == Rect(client.x + width + SCROLLBAR_GAP, client.y + 1, SCROLLBAR_WIDTH, view)
        thumb_h == clamp_i32(Nearest(view * view, Max2(height, 1)),
                             Min2(SCROLLBAR_MIN_THUMB, view), view)
    IN  [content |-> Rect(client.x, client.y + 1, width, view),
         max_scroll |-> max_scroll, scroll |-> scroll,
         track |-> IF bar THEN track ELSE None,
         thumb |-> IF bar THEN [track EXCEPT !.y = @ + ThumbOffset(view, thumb_h, scroll, max_scroll),
                                             !.h = thumb_h]
                   ELSE None]

NoEdges == [left |-> FALSE, right |-> FALSE, top |-> FALSE, bottom |-> FALSE]

(* The borders a point grabs.  A corner reaches further along one border    *)
(* than the margin does, and the left and the top win over their opposites. *)
hit_test_resize(win, x, y) ==
    LET d == [left |-> x - win.x, right |-> win.x + win.w - x,
              top |-> y - win.y, bottom |-> win.y + win.h - y]
        near(e) == 0 <= d[e] /\ d[e] <= RESIZE_MARGIN
        corner(a, b) == near(a) /\ \A e \in {a, b} : 0 <= d[e] /\ d[e] <= RESIZE_CORNER_SIZE
        grab(E) == [e \in DOMAIN NoEdges |-> e \in E]
        side == IF near("left") THEN {"left"} ELSE IF near("right") THEN {"right"} ELSE {}
        flat == IF near("top") THEN {"top"} ELSE IF near("bottom") THEN {"bottom"} ELSE {}
    IN  IF corner("left", "top") THEN grab({"left", "top"})
        ELSE IF corner("right", "top") THEN grab({"right", "top"})
        ELSE IF corner("left", "bottom") THEN grab({"left", "bottom"})
        ELSE IF corner("right", "bottom") THEN grab({"right", "bottom"})
        ELSE grab(side \cup flat)

(* The topmost window under a point, or 0. *)
find_window_at(wins, x, y) ==
    LET under == {i \in DOMAIN wins : In(x, y, wins[i])}
    IN  IF under = {} THEN 0 ELSE CHOOSE i \in under : \A j \in under : j <= i
----------------------------------------------------------------------------
(* The cursor's shape *)

(* cursor_kind_for_edges and for_kind: opposite corners share a sprite. *)
SpriteFor(e) ==
    CASE (e.left /\ e.top) \/ (e.right /\ e.bottom)   -> "nwse"
      [] (e.right /\ e.top) \/ (e.left /\ e.bottom)   -> "nesw"
      [] (e.left \/ e.right) /\ ~(e.top \/ e.bottom)  -> "ew"
      [] (e.top \/ e.bottom) /\ ~(e.left \/ e.right)  -> "ns"
      [] OTHER                                        -> "arrow"

compute_cursor_kind(wins, d, x, y) ==
    LET i == find_window_at(wins, x, y)
    IN  IF d # None THEN (IF d.kind = "move" THEN "move" ELSE SpriteFor(d.edges))
        ELSE IF i = 0 THEN "arrow"
        ELSE SpriteFor(hit_test_resize(wins[i], x, y))

Hotspot(kind) == IF kind = "arrow" THEN 0 ELSE Sprite \div 2

get_cursor_rect(c) ==
    IF ~c.visible THEN None
    ELSE Rect(c.x - Hotspot(c.kind), c.y - Hotspot(c.kind), Sprite, Sprite)
----------------------------------------------------------------------------
(* The scene *)

Fill(r, color) == [op |-> "fill", rect |-> r, color |-> color]
Shade(r, color) == [op |-> "shade", rect |-> r, color |-> color]
Push(r) == [op |-> "push", rect |-> r]
Pop == [op |-> "pop"]

(* active_wallpaper and build_wallpaper_scene: a colour, and an image       *)
(* repeated over the screen that scrolls with the frame number.             *)
draw_background(frame) ==
    <<Fill(Screen, <<"sky">>), [op |-> "wall", rect |-> Screen, offset |-> frame * Parallax]>>

(* The shadow is a core and feathers around it, all translucent. *)
Shadow(win) ==
    [f \in 1..SHADOW |->
       Shade(Rect(win.x + SHADOW - f + 1, win.y + SHADOW - f + 1, win.w + 2 * (f - 1), win.h + 2 * (f - 1)),
             <<win.id, "shadow">>)]

draw_content(win, lit, m) ==
    LET r == m.content  c == win.caret
        cy == r.y + c.y - win.scroll
    IN  IF r.w <= 0 \/ r.h <= 0 THEN <<>>
        ELSE IF win.image > 0 THEN <<[op |-> "blit", rect |-> r, rows |-> win.image, color |-> <<win.id, "image">>]>>
        ELSE IF win.text = <<>> THEN <<>>
        ELSE <<[op |-> "text", rect |-> r, text |-> win.text, scroll |-> win.scroll,
                color |-> <<win.id, "text">>]>>
             \o IF lit /\ c.visible /\ cy + c.h >= r.y /\ cy < r.y + r.h
                THEN <<Fill(Rect(r.x + c.x, cy, c.w, c.h), <<win.id, "caret">>)>> ELSE <<>>

(* The thumb's highlight and shadow lines are part of its colour. *)
draw_scrollbar_overlay(win, m) ==
    IF m.track = None THEN <<>>
    ELSE <<Fill(m.track, <<win.id, "track">>), Fill(m.thumb, <<win.id, "thumb">>)>>

draw_window(win, lit) ==
    LET lay == compute_window_layout(win)
        m == ContentMetrics(win, lay.client)
        body == Rect(win.x, win.y, win.w, win.h)
    IN  IF win.w = 0 \/ win.h = 0 THEN <<>>
        ELSE IF lay = None THEN Shadow(win)
        ELSE Shadow(win)
             \o <<Push(body), Fill(body, <<win.id, "frame", lit>>), Fill(lay.title, <<win.id, "title", lit>>)>>
             \o draw_content(win, lit, m) \o draw_scrollbar_overlay(win, m) \o <<Pop>>

draw_cursor(c) ==
    IF c.visible THEN <<[op |-> "cursor", rect |-> get_cursor_rect(c), color |-> <<"cursor", c.kind>>]>>
    ELSE <<>>

draw_mode(wins, act, frame) ==
    draw_background(frame) \o FlattenSeq([i \in DOMAIN wins |-> draw_window(wins[i], wins[i].id = act)])

SceneOf(wins, act, c, frame) ==
    <<[op |-> "clear"]>> \o draw_mode(wins, act, frame) \o draw_cursor(c)
----------------------------------------------------------------------------
(* The renderer *)

(* The pixels a fill covers.  Of a rectangle that sticks out of the screen  *)
(* on the left, only the origin is moved, not the right border.             *)
Covered(r, clip) ==
    LET c == IF clip = None THEN r ELSE intersect_rect(r, clip)
        x == Min2(Max2(c.x, 0), Width)  y == Min2(Max2(c.y, 0), Height)
    IN  IF r.w = 0 \/ r.h = 0 \/ c = None THEN {}
        ELSE (x..(Min2(x + c.w, Width) - 1)) \X (y..(Min2(y + c.h, Height) - 1))

raster_draw_text_block(it, clip) ==
    LET r == it.rect
        bounds == IF clip = None THEN r ELSE intersect_rect(r, clip)
        at == {<<r.x + g[1], r.y + g[2] - it.scroll>> : g \in Glyphs(it.text, r.w).cells}
    IN  IF bounds = None THEN {}
        ELSE {p \in at \cap Pixels : p[2] >= r.y /\ p[2] < r.y + r.h /\ In(p[1], p[2], bounds)}

raster_blit_image(it, clip) == {p \in Covered(it.rect, clip) : p[2] - it.rect.y < it.rows}

raster_draw_cursor(it, clip) ==
    {p \in Pixels : In(p[1], p[2], it.rect) /\ (clip # None => In(p[1], p[2], clip))}

Hit(it, clip) ==
    CASE it.op \in {"fill", "shade", "wall"} -> Covered(it.rect, clip)
      [] it.op = "blit"   -> raster_blit_image(it, clip)
      [] it.op = "text"   -> raster_draw_text_block(it, clip)
      [] it.op = "cursor" -> raster_draw_cursor(it, clip)

(* The wallpaper's image repeats every two columns. *)
Ink(it, p, under) ==
    CASE it.op = "shade" -> Append(under, it.color)
      [] it.op = "wall"  -> <<<<"cloud", (p[1] + it.offset) % 2>>>>
      [] OTHER           -> <<it.color>>

(* A push of a rectangle outside the clip leaves None on the stack, which   *)
(* the rasterizers take for "no clip", as does every push above it.         *)
render_scene(store, scene, root, full) ==
    LET step(acc, it) ==
          LET clip == Last(acc.clips)
              wiped == IF full THEN Pixels ELSE Covered(root, root)
              put(S) == [acc EXCEPT !.store = [p \in Pixels |->
                           IF p \in S THEN Ink(it, p, @[p]) ELSE @[p]]]
          IN  CASE it.op = "clear" ->
                     [acc EXCEPT !.store = [p \in Pixels |-> IF p \in wiped THEN <<>> ELSE @[p]]]
                [] it.op = "push" ->
                     [acc EXCEPT !.clips = Append(@, IF clip = None THEN None
                                                     ELSE intersect_rect(clip, it.rect))]
                [] it.op = "pop" -> [acc EXCEPT !.clips = IF Len(@) > 1 THEN Front(@) ELSE @]
                [] OTHER -> put(Hit(it, clip))
    IN  FoldLeft(step, [store |-> store, clips |-> <<root>>], scene).store

render(scene) == render_scene([p \in Pixels |-> <<>>], scene, Screen, TRUE)
render_partial(store, scene, dirty) == render_scene(store, scene, dirty, FALSE)

present_partial(shown, frame, dirty) ==
    [p \in Pixels |-> IF In(p[1], p[2], dirty) THEN frame[p] ELSE shown[p]]

(* A repaint of where the cursor is, but not of where it was. *)
DirtyRect_forgetful(prev, curr) == IF curr = None THEN prev ELSE curr

DirtyRect(prev, curr) ==
    IF prev = None THEN (IF curr = None THEN Rect(0, 0, 0, 0) ELSE curr)
    ELSE IF curr = None THEN prev ELSE union(prev, curr)
----------------------------------------------------------------------------
Init ==
    /\ windows \in Desks /\ active = Last(windows).id
    /\ cursor = [x |-> Width \div 2, y |-> Height \div 2, visible |-> TRUE, kind |-> "arrow"]
    /\ prev_rect = None /\ drag = None /\ content_dirty = TRUE /\ echo = FALSE
    /\ storage = [p \in Pixels |-> <<>>] /\ screen = storage
    /\ frame_no = 0 /\ inputs = 0 /\ painted = FALSE

tick ==
    LET c == [cursor EXCEPT !.kind = compute_cursor_kind(windows, drag, cursor.x, cursor.y)]
        rect == get_cursor_rect(c)
        scene == SceneOf(windows, active, c, frame_no)
        dirty == DirtyRect(prev_rect, rect)
    IN  /\ cursor' = c /\ painted' = TRUE
        /\ \/ content_dirty
              /\ storage' = render(scene) /\ screen' = storage'
              /\ content_dirty' = FALSE /\ prev_rect' = rect /\ frame_no' = (frame_no + 1) % FrameMod
           \/ ~content_dirty /\ rect # prev_rect
              /\ storage' = render_partial(storage, scene, dirty)
              /\ screen' = present_partial(screen, storage', dirty)
              /\ prev_rect' = rect /\ frame_no' = (frame_no + 1) % FrameMod
              /\ UNCHANGED content_dirty
           \/ ~content_dirty /\ rect = prev_rect
              /\ UNCHANGED <<storage, screen, content_dirty, prev_rect, frame_no>>
        /\ UNCHANGED <<windows, active, drag, echo, inputs>>

(* A drag moves the window, or the borders it holds, with the cursor.  The   *)
(* compositor's copy changes at once; the picture is only marked dirty when  *)
(* the write comes back (echo).                                              *)
Dragged(win, d, x, y) ==
    LET axis(pos, len, low, high, delta) ==
          LET l == Max2(MIN_WINDOW_SIZE, IF low THEN len - delta ELSE IF high THEN len + delta ELSE len)
              q == IF low THEN pos + len - l ELSE pos
          IN  IF q < 0 THEN <<0, l - q>> ELSE <<q, l>>
        h == axis(d.win.x, d.win.w, d.edges.left, d.edges.right, x - d.x)
        v == axis(d.win.y, d.win.h, d.edges.top, d.edges.bottom, y - d.y)
    IN  IF d.kind = "move"
        THEN [win EXCEPT !.x = Max2(0, d.win.x + x - d.x), !.y = Max2(0, d.win.y + y - d.y)]
        ELSE [win EXCEPT !.x = h[1], !.w = h[2], !.y = v[1], !.h = v[2]]

MoveTo(p) ==
    /\ cursor' = [cursor EXCEPT !.x = p[1], !.y = p[2]]
    /\ IF drag = None THEN UNCHANGED <<windows, echo>>
       ELSE /\ windows' = [windows EXCEPT ![Len(windows)] = Dragged(@, drag, p[1], p[2])]
            /\ echo' = TRUE
    /\ UNCHANGED <<active, prev_rect, drag, content_dirty, storage, screen, frame_no>>

(* A press focuses the window under the cursor, which comes to the top, and  *)
(* starts a drag on its border or title.                                     *)
Press ==
    LET i == find_window_at(windows, cursor.x, cursor.y)
        win == windows[i]
        lay == compute_window_layout(win)
        edges == hit_test_resize(win, cursor.x, cursor.y)
        hold(kind) == [kind |-> kind, edges |-> edges, win |-> win, x |-> cursor.x, y |-> cursor.y]
    IN  /\ drag = None /\ i # 0
        /\ drag' = IF edges # NoEdges THEN hold("resize")
                   ELSE IF lay # None /\ In(cursor.x, cursor.y, lay.title) THEN hold("move")
                   ELSE None
        /\ IF active = win.id THEN UNCHANGED <<active, windows, content_dirty, echo>>
           ELSE /\ active' = win.id /\ windows' = Append(RemoveAt(windows, i), win)
                /\ content_dirty' = TRUE /\ echo' = TRUE
        /\ UNCHANGED <<cursor, prev_rect, storage, screen, frame_no>>

Release ==
    /\ drag # None /\ drag' = None
    /\ UNCHANGED <<windows, active, cursor, prev_rect, content_dirty, echo, storage, screen, frame_no>>

(* The event of the compositor's own write. *)
Echo ==
    /\ echo /\ echo' = FALSE /\ content_dirty' = TRUE /\ painted' = FALSE
    /\ UNCHANGED <<windows, active, cursor, prev_rect, drag, storage, screen, frame_no, inputs>>

(* ingest_cursor: the cursor's node hides or shows it. *)
ShowCursor(v) ==
    /\ cursor.visible # v /\ cursor' = [cursor EXCEPT !.visible = v]
    /\ UNCHANGED <<windows, active, prev_rect, drag, content_dirty, echo, storage, screen, frame_no>>

Input ==
    /\ inputs < MaxInputs /\ inputs' = inputs + 1 /\ painted' = FALSE
    /\ \/ Press \/ Release
       \/ \E p \in Spots : MoveTo(p)
       \/ \E v \in BOOLEAN : ShowCursor(v)

Next == tick \/ Echo \/ Input

Spec == Init /\ [][Next]_vars
----------------------------------------------------------------------------
(* However a window is resized, its scrollbar's thumb stays in the track,    *)
(* stands at the top when the content is scrolled to its start and at the    *)
(* bottom when it is scrolled to its end, and goes down as the content does  *)
(* (ContentMetrics::new).                                                    *)
ThumbFollowsScroll ==
    \A i \in DOMAIN windows :
        LET lay == compute_window_layout(windows[i])
            at(s) == ContentMetrics([windows[i] EXCEPT !.scroll = s], lay.client)
            m == at(0)
        IN  lay # None /\ m.track # None =>
              /\ \A s \in 0..m.max_scroll :
                    LET th == at(s).thumb
                    IN  /\ th.y >= m.track.y /\ th.y + th.h <= m.track.y + m.track.h
                        /\ s > 0 => th.y >= at(s - 1).thumb.y
              /\ m.thumb.y = m.track.y
              /\ at(m.max_scroll).thumb.y + m.thumb.h = m.track.y + m.track.h

(* What a pixel shows, whatever the scroll of the wallpaper and the shape of *)
(* a cursor with a central hotspot.                                          *)
Still(px) ==
    [i \in DOMAIN px |->
       CASE px[i][1] = "cloud"                         -> <<"cloud">>
         [] px[i][1] = "cursor" /\ px[i][2] # "arrow"  -> <<"cursor">>
         [] OTHER                                      -> px[i]]

(* A tick repaints all, or only where the cursor was and is.  Either way,    *)
(* when no write of the compositor is on its way back to it, the screen      *)
(* shows what a full repaint would show: partial repaints leave no trail of  *)
(* the cursor, and nothing half painted, over any drag and focus change.     *)
(* (The wallpaper scrolls with the frame number, so parts of it may come     *)
(* from different frames; and a shape with the same hotspot that changes     *)
(* while the cursor stands still is not repainted: rect = prev_rect.)        *)
ScreenIsCurrent ==
    painted /\ ~echo =>
        LET frame == render(SceneOf(windows, active, cursor, frame_no))
        IN  \A p \in Pixels : Still(screen[p]) = Still(frame[p])
=============================================================================
