----------------------------- MODULE MCDesktop -----------------------------
(* Small scenes: a boot with a press, writers and a watching viewer, a     *)
(* viewer that searches, two browsers that resize.                         *)
EXTENDS Desktop

MCThreads == {"init", "rootfs", "user", "one", "two", "viewer"}

Quiet ==
  [backend |-> "host", hidden |-> {}, big |-> {}, bundles |-> {},
   manifest |-> <<>>, registered |-> {}, places |-> <<>>, presses |-> 0,
   requests |-> {}, writes |-> 0, ids |-> <<>>,
   watches |-> FALSE, searches |-> 0, resizes |-> 0, sizes |-> {}]

App(rank, name, autostart) ==
  [rank |-> rank, name |-> name, autostart |-> autostart]
Text(n) == <<"text", n>>

Boot ==
  [Quiet EXCEPT !.bundles = {"init", "rootfs"},
     !.registered = {"rootfs", "keyboard_driver", "widget_host", "text_editor"},
     !.manifest = <<App(2, "text_editor", FALSE), App(1, "widget_host", TRUE)>>]

\* A user who presses buttons once the widget host runs.
Launch ==
  [Boot EXCEPT !.bundles = @ \cup {"user"}, !.presses = 2,
     !.requests = {[PACKAGE |-> "demo_app"]}]

\* Requests that name a place: one that exists, one that does not.
Places ==
  [Launch EXCEPT !.presses = 1, !.places = <<"sky">>,
     !.requests = {[PLACE |-> <<"place", p>>] : p \in {"sky", "sea"}}]

Watch(b) ==
  [Quiet EXCEPT !.backend = b, !.bundles = {"viewer", "one", "two"},
     !.ids = [one |-> {Text(1), Text(2)}, two |-> {Text(2)}],
     !.writes = 3, !.watches = TRUE]

Search(b, n) ==
  [Quiet EXCEPT !.backend = b, !.bundles = {"viewer", "one"},
     !.ids = [one |-> {Text(i) : i \in 1..n}], !.writes = n, !.searches = 1]

Resize == [Quiet EXCEPT !.resizes = 2, !.sizes = {<<2, 1>>, <<1, 2>>, <<0, 2>>}]

MCScenes ==
  {Boot, Launch, Places,
   Watch("host"), Watch("native"), Watch("direct"),
   [Watch("native") EXCEPT !.big = {Text(2)}, !.searches = 1],
   [Watch("host") EXCEPT !.writes = 1, !.searches = 1],
   Search("host", 3),
   [Search("native", 5) EXCEPT !.hidden = {Text(1)}],
   Resize}

MCLaunchOnly == {Launch}
=============================================================================
