----------------------------- MODULE MCWidgets -----------------------------
(* One or two widgets at a time, so that every kind meets the host, a      *)
(* notification, the mouse and the keyboard.                               *)
EXTENDS Widgets

W(kind, fields) == [kind |-> "WIDGET", fields |-> [WK |-> kind] @@ fields]
Value(index) == [kind |-> "VALUE", fields |-> [SEL |-> index]]

Scene(nodes, inputs) == [nodes |-> nodes, inputs |-> inputs]

MCScenes ==
    { Scene(<<W("button", [TARGET |-> TRUE]), W("checkbox", [HEIGHT |-> 20])>>, {"press", "release", "tab", "key"}),
      Scene(<<W("dropdown", [OPTIONS |-> 2, BINDS |-> 2, HEIGHT |-> 30]), Value(1)>>, {"press", "key", "layout"}),
      Scene(<<W("listbox_default", [ITEMS |-> 2, BINDS |-> 2]), Value(0)>>, {"press", "release", "key"}),
      Scene(<<W("scrollbar_thumb", [SCROLL |-> 0, MAX |-> 40, OFFSET |-> 0, THUMB |-> 50])>>,
            {"press", "move", "release"}),
      Scene(<<W("toolbar", <<>>), W("status_widget", <<>>), W("top_status_bar", <<>>),
              W("thing_inspector", <<>>), W("graph_mini_viewer", <<>>)>>, {}),
      Scene(<<>>, {"notify", "press", "release", "key"}) }
    \cup { Scene(<<W(kind, <<>>)>>, {"press", "layout"}) :
             kind \in {"radio_button", "image", "thing_tile", "plain_text"} }
MCKeys == {"Enter", "Down"}
============================================================================
