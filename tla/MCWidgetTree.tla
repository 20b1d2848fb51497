---------------------------- MODULE MCWidgetTree ----------------------------
(* Windows whose widgets meet every container of the layout and of the     *)
(* drawing code.                                                           *)
EXTENDS WidgetTree

Win(flex, content_w, title, bar) ==
    [x |-> 5, y |-> 8, box |-> Rect(10, 40, 80, 100), flex |-> flex, content_w |-> content_w, title |-> title, scrollbar |-> bar]

W(role, parent, more) == more @@ [ROLE |-> role, PARENT |-> parent, FOCUSABLE |-> FALSE]
K(kind, parent, more) == more @@ [WK |-> kind, PARENT |-> parent]
Tells(id, fields) == [id |-> id, fields |-> fields]

(* two widgets that grow, one of them with a smallest height, and one fixed *)
Growing ==
    {[window |-> Win(flex, 80, None, None),
      widgets |-> <<K("button", 0, [FG |-> 1]), K("text", 0, [FG |-> 1, MIN_HEIGHT |-> 10, MAX_WIDTH |-> 50]),
                    W("label", 0, <<>>)>>,
      tilings |-> {}, writes |-> {Tells(1, [MIN_WIDTH |-> 20]), Tells(2, [FG |-> 0]), Tells(3, [HEIGHT |-> 90]), Tells(2, [VISIBLE |-> FALSE])}] :
        flex \in {<<>>, [FD |-> "row", AI |-> "stretch", GAP |-> 3], [FD |-> "column", AI |-> "end", GAP |-> 2]}}

(* a wrapping row in a window, placed by every rule *)
Wrapping ==
    {[window |-> Win(<<>>, 80, None, None),
      widgets |-> <<W("container.vertical", 0, [FD |-> "row", FW |-> wrap, JC |-> justify, AI |-> align, GAP |-> 2, HEIGHT |-> 70]),
                    K("image", 1, [WIDTH |-> 30, HEIGHT |-> 25]), K("image", 1, [WIDTH |-> 20, HEIGHT |-> 10]),
                    W("button", 1, [WIDTH |-> 40])>>,
      tilings |-> {}, writes |-> {Tells(3, [MIN_HEIGHT |-> 15]), Tells(1, [FD |-> "diagonal"])}] :
        wrap \in {"wrap", "nowrap"}, justify \in {"start", "center", "flex-end", "space-between", "space-around"},
        align \in {"start", "center", "stretch"}}

Bars ==
    {[window |-> Win(<<>>, content_w, None, None),
      widgets |-> <<W("container.toolbar", 0, [FOCUSABLE |-> TRUE]), W("control.toolbar_button", 1, [FOCUSABLE |-> TRUE]),
                    W("control.toolbar_button", 1, [FOCUSABLE |-> TRUE]), W("control.toolbar_button", 1, <<>>)>>,
      tilings |-> {}, writes |-> {Tells(1, [VISIBLE |-> FALSE]), Tells(2, [FOCUSABLE |-> FALSE])}] : content_w \in {80, 70, 0}}

Tree ==
    [window |-> Win(<<>>, 80, None, None),
     widgets |-> <<W("window_root", 0, <<>>), W("container.toolbar", 1, <<>>), W("control.toolbar_button", 2, [FOCUSABLE |-> TRUE]),
                   W("control.toolbar_button", 1, [HEIGHT |-> 20])>>,
     tilings |-> {}, writes |-> {Tells(2, [VISIBLE |-> FALSE]), Tells(4, [HEIGHT |-> 50])}]

Mixed ==
    {[window |-> Win(<<>>, 70, 1, 5),
      widgets |-> <<W("label", 0, <<>>), W(role, 0, [HEIGHT |-> 60]), W("list_item", 2, [FOCUSABLE |-> TRUE]), W(inner, 2, [X |-> 3, Y |-> 4]),
                    K("scrollbar_thumb", 0, [X |-> 70, Y |-> 40, WIDTH |-> 10, HEIGHT |-> 60])>>,
      tilings |-> {}, writes |-> {Tells(5, [SCROLL |-> 7]), Tells(2, [SCROLL |-> 9]), Tells(5, [BITMAP |-> "pixels"])}] :
        role \in {"canvas", "listbox_default", "container.editor_root", "toolbar", "connector"},
        inner \in {"button", "container.vertical", "thing_tile"}}

(* ten windows, the fewest that are arranged, and more, on three screens *)
Tiled ==
    {[window |-> Win(<<>>, 80, None, None), widgets |-> <<W("label", 0, <<>>)>>, writes |-> {},
      tilings |-> {[area |-> Rect(0, 48, size[1], size[2] - 48), ids |-> [i \in 1 .. n |-> n + 1 - i]]}] :
        size \in {<<1024, 768>>, <<801, 641>>, <<60, 58>>}, n \in 10 .. 17}

MCScenes == Tiled \cup Growing \cup Wrapping \cup Bars \cup {Tree} \cup Mixed

MCPoints == [x : {9, 10, 33, 34, 36, 62, 88, 89}, y : {40, 43, 44, 67, 68, 71, 72, 90}]
============================================================================
