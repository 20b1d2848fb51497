------------------------------ MODULE Desktop ------------------------------
(***************************************************************************)
(* Bundles that meet in the graph, over any of the runtimes of Runtime:    *)
(*   init     starts the others (apps/init), an App run by run_app;        *)
(*   rootfs   builds the file system init reads (apps/rootfs);             *)
(*   user     a widget host whose buttons ask for launches                 *)
(*            (widgets/button);                                            *)
(*   one, two bundles that write things of their own;                      *)
(*   viewer   an App that watches a kind, keeps a copy and searches.       *)
(* The last part is the host's display: browsers ask for a size and are    *)
(* sent frames while the compositor's thread resizes                       *)
(* (thing_host/src/lib.rs, compositor/src/main.rs).                        *)
(*                                                                         *)
(* A scene says who runs, what the manifest holds and how much is done.    *)
(* The variables after display only record what happened.                  *)
(***************************************************************************)
EXTENDS Runtime

CONSTANTS
  Scenes,      \* records of backend, hidden, big, bundles (threads that run),
               \*   manifest, registered, places, presses, requests, writes,
               \*   ids, watches, searches, resizes, sizes
  MaxRetries   \* scans of /bin before init gives up (10)

VARIABLES
  scene,
  loop,       \* App -> the part of its loop it is in
  init,       \* InitApp
  started,    \* the bundles whose thread was started
  left,       \* what the scene still allows: [presses, writes, searches, resizes]
  copy,       \* the viewer's copy: id -> the last version it was told of
  display,    \* HostRuntime's sizes and framebuffer, and the threads around it
  launched,   \* the versions of requests that led to a launch, in order
  owed,       \* the versions of requests queued for init's watch
  overtaken,  \* a request was queued for init's watch before its first poll
  early,      \* init found /bin while rootfs was still filling it
  shared,     \* things two threads wrote at the same time
  watched,    \* things written since the viewer's watch was registered
  found       \* what the last search had to find, and what it found

appVars == <<scene, loop, init, started, left, copy>>
history == <<launched, owed, overtaken, early, shared, watched, found>>
vars == <<runtimeVars, appVars, display, history>>

Apps == {"init", "viewer"}
Browsers == {1, 2}

---------------------------------------------------------------------------
(* Programs *)

\* spawn_host: the bundle's thing, then its thread; cause is the request.
Spawn(name, cause) ==
  Fiat(<<"bundle", name>>, "BND", [STATUS |-> "INIT"])
    @@ [spawn |-> name, cause |-> cause]

BootRequest == <<"boot", "LaunchTextEditor">>
Request(fields) == <<"request", fields>>
Bin == <<"dir", "bin">>

\* rootfs::create_directory for / and /bin; the other directories, places,
\* fonts and icons are things no bundle here reads.
create_directory(name, parent) ==
  IF parent = None
  THEN <<Fiat(<<"dir", name>>, "DIR", [KIND |-> "DIR"])>>
  ELSE <<Fiat(<<"dir", name>>, "DIR", [KIND |-> "DIR", PARENT |-> parent]),
         Link("contains"), Link("parent")>>

create_app_file(app) ==
  <<Fiat(<<"file", app.rank>>, "FIL",
         [PARENT |-> Bin, BIN_NAME |-> app.name,
          AUTOSTART |-> app.autostart]),
    Link("contains"), Link("parent")>>

rootfs_init(manifest) ==
  create_directory("/", None) \o create_directory("bin", <<"dir", "/">>)
    \o FlattenSeq([i \in DOMAIN manifest |-> create_app_file(manifest[i])])

\* InitApp::init.
init_init == <<Spawn("framebuffer_driver", None), Spawn("keyboard_driver", None),
               Spawn("mouse_driver", None), Spawn("rootfs", None)>>

\* Place::create.
create_place(pkg) == Fiat(<<"place", pkg>>, "PLC", [PLACE_PACKAGE |-> pkg])

program(t, s) ==
  CASE t = "init" -> init_init
    [] t = "rootfs" -> rootfs_init(s.manifest)
    [] t = "viewer" -> IF s.watches THEN <<Register({"TXT"})>> ELSE <<>>
    [] t = "user" -> [i \in DOMAIN s.places |-> create_place(s.places[i])]
    [] OTHER -> <<>>

Init ==
  /\ scene \in Scenes
  /\ backend = scene.backend /\ hidden = scene.hidden /\ big = scene.big
  /\ RuntimeInit
  /\ todo = [t \in Threads |-> IF t \in scene.bundles THEN program(t, scene)
                               ELSE <<>>]
  /\ loop = [t \in Apps |-> "poll"]
  /\ init = [scanned |-> FALSE, retries |-> 0, toolbar_created |-> FALSE,
             launch_req_created |-> FALSE]
  /\ started = {}
  /\ left = [presses |-> scene.presses, writes |-> scene.writes,
             searches |-> scene.searches, resizes |-> scene.resizes]
  /\ copy = <<>>
  /\ display = [req |-> <<1, 1>>, size |-> <<1, 1>>, len |-> 1,
                device |-> <<1, 1>>, asked |-> [b \in Browsers |-> None],
                check |-> "idle", w |-> 1, h |-> 1,
                frame |-> None, sent |-> None]
  /\ launched = <<>> /\ owed = {} /\ overtaken = FALSE /\ early = FALSE
  /\ shared = {} /\ watched = {} /\ found = None

\* init runs from the start, the threads it starts when they are started.
Runs(t) ==
  /\ t \in scene.bundles \ panicked
  /\ t = "rootfs" => "rootfs" \in started
  /\ t = "user" => "widget_host" \in started

---------------------------------------------------------------------------
(* A step of a call, and what the histories keep of it *)

Watching(t) == \E i \in DOMAIN handles[t] : handles[t][i] \in DOMAIN watchers

Writing(t) ==
  IF Phase(t, "store") \/ Phase(t, "push") THEN {call[t].change.id} ELSE {}

IsRequest(c) == "PACKAGE" \in DOMAIN c.fields

\* The part of spawn_host after the call: a registered bundle gets a thread.
Spawned(t) ==
  LET op == Head(todo[t])
      ends == /\ "spawn" \in DOMAIN op
              /\ Len(todo'[t]) < Len(todo[t])
  IN  /\ started' = IF ends /\ op.spawn \in scene.registered
                    THEN started \cup {op.spawn} ELSE started
      /\ launched' = IF ends /\ op.cause # None
                     THEN Append(launched, op.cause) ELSE launched

Recorded(t) ==
  LET queued == Phase(t, "push") /\ call[t].change.kind = "LRQ" /\ Watching("init")
      pushed == queued /\ IsRequest(call[t].change)
      wrote == {id \in DOMAIN things' :
                  id \notin DOMAIN things \/ things[id] # things'[id]}
      ended == Phase(t, "page") /\ call'[t] = None
  IN  /\ owed' = IF pushed
                 THEN owed \cup {<<call[t].change.id, call[t].change.revision>>}
                 ELSE owed
      /\ overtaken' = (overtaken \/ (queued /\ \A w \in Range(handles["init"]) :
                                                 watchers[w].last = 0))
      /\ shared' = shared \cup
           UNION {Writing(t)' \cap Writing(b)' : b \in Threads \ {t}}
      /\ watched' = IF Watching("viewer") THEN watched \cup wrote ELSE watched
      /\ found' = IF ended
                  THEN [before |-> call[t].before,
                        got |-> call[t].got \cup page_read(t).ids]
                  ELSE found

Step(t) ==
  /\ Runs(t) /\ todo[t] # <<>>
  /\ RuntimeStep(t)
  /\ Spawned(t)
  /\ Recorded(t)
  /\ UNCHANGED <<scene, loop, init, left, copy, display, early>>

Idle(t) == Runs(t) /\ todo[t] = <<>>
will(t, ops) == todo' = [todo EXCEPT ![t] = ops]

---------------------------------------------------------------------------
(* The loop of an App: process_graph, its events, its tick *)

\* WatchManager::process_graph: poll the watches in turn.
ProcessGraph(t) ==
  /\ Idle(t) /\ loop[t] = "poll"
  /\ will(t, [i \in DOMAIN handles[t] |-> Poll(handles[t][i])])
  /\ loop' = [loop EXCEPT ![t] = "events"]
  /\ UNCHANGED <<backend, hidden, big, graphVars, call, inbox, handles, panicked,
                 scene, init, started, left, copy, display, history>>

\* InitApp::on_event: what a launch request makes init do.
init_on_event(thing) ==
  LET place == IF "PLACE" \in DOMAIN thing.fields THEN thing.fields.PLACE ELSE None
      from_place == /\ place \in DOMAIN things
                    /\ "PLACE_PACKAGE" \in DOMAIN things[place].fields
      cause == <<thing.id, thing.revision>>
      mark(status) == Fiat(thing.id, "LRQ", [STATUS |-> status])
  IN  IF thing.kind # "LRQ" \/ "STATUS" \in DOMAIN thing.fields THEN <<>>
      ELSE IF from_place
        THEN <<Spawn(things[place].fields.PLACE_PACKAGE, cause), mark("LAUNCHED")>>
      ELSE IF "PACKAGE" \in DOMAIN thing.fields
        THEN <<Spawn(thing.fields.PACKAGE, cause), mark("DONE")>>
      ELSE <<>>

\* HostedApp::tick, for ev in drain_events(): one event.
OnEvent(t) ==
  /\ Idle(t) /\ loop[t] = "events" /\ inbox[t] # <<>>
  /\ LET c == Head(inbox[t])
     IN  /\ will(t, IF t = "init" THEN init_on_event(c) ELSE <<>>)
         /\ copy' = IF t = "viewer" THEN (c.id :> c) @@ copy ELSE copy
  /\ inbox' = [inbox EXCEPT ![t] = Tail(@)]
  /\ UNCHANGED <<backend, hidden, big, graphVars, call, handles, panicked,
                 scene, loop, init, started, left, display, history>>

Ticking(t) ==
  /\ Idle(t) /\ loop[t] = "events" /\ inbox[t] = <<>>
  /\ loop' = [loop EXCEPT ![t] = "poll"]
  /\ UNCHANGED <<backend, hidden, big, graphVars, call, inbox, handles, panicked,
                 scene, started, copy, display,
                 launched, owed, overtaken, shared, watched, found>>

\* fs::read_dir("/bin"), for the files it returns: Nothing but FILE things
\* and the directory itself have a PARENT here.
entries == {id \in IdsOf("FIL") : things[id].fields.PARENT = Bin}

autostarts ==
  LET auto == {id \in entries : things[id].fields.AUTOSTART}
      seq  == SetToSortSeq(auto, LAMBDA a, b : a[2] < b[2])
  IN  [i \in DOMAIN seq |-> Spawn(things[seq[i]].fields.BIN_NAME, None)]

\* Mutant: an unsuccessful scan ends the scanning.
InitScanOnce ==
  /\ "init" \in scene.bundles /\ Ticking("init") /\ ~init.scanned
  /\ will("init", autostarts)
  /\ init' = [init EXCEPT !.scanned = TRUE]
  /\ early' = (entries # {} /\ todo["rootfs"] # <<>>)
  /\ UNCHANGED left

\* The tick that scans /bin.
InitScan ==
  /\ "init" \in scene.bundles /\ Ticking("init") /\ ~init.scanned
  /\ IF Bin \in DOMAIN things /\ entries # {}
     THEN /\ will("init", autostarts)
          /\ init' = [init EXCEPT !.scanned = TRUE]
          /\ early' = (todo["rootfs"] # <<>>)
     ELSE /\ init' = [init EXCEPT !.retries = @ + 1,
                                  !.scanned = init.retries + 1 > MaxRetries]
          /\ UNCHANGED <<todo, early>>
  /\ UNCHANGED left

\* create_toolbar: a window and three buttons.
InitToolbar ==
  /\ "init" \in scene.bundles /\ Ticking("init")
  /\ init.scanned /\ ~init.toolbar_created
  /\ will("init", <<Fiat(<<"window", "toolbar">>, "WIN", <<>>)>> \o
                  [i \in 1..3 |-> Fiat(<<"button", i>>, "WGT", <<>>)])
  /\ init' = [init EXCEPT !.toolbar_created = TRUE]
  /\ UNCHANGED <<left, early>>

\* The launch request for the editor, then the watch for launch requests.
InitRequest ==
  /\ "init" \in scene.bundles /\ Ticking("init")
  /\ init.toolbar_created /\ ~init.launch_req_created
  /\ will("init", <<Fiat(BootRequest, "LRQ", [PACKAGE |-> "text_editor"]),
                    Register({"LRQ"})>>)
  /\ init' = [init EXCEPT !.launch_req_created = TRUE]
  /\ UNCHANGED <<left, early>>

InitIdle ==
  /\ "init" \in scene.bundles /\ Ticking("init") /\ init.launch_req_created
  /\ UNCHANGED <<init, todo, left, early>>

\* The viewer may search, or drop its watch, in a tick.
ViewerTick ==
  /\ "viewer" \in scene.bundles /\ Ticking("viewer")
  /\ UNCHANGED <<init, early>>
  /\ \/ UNCHANGED <<todo, left>>
     \/ /\ left.searches > 0
        /\ left' = [left EXCEPT !.searches = @ - 1]
        /\ will("viewer", <<Find("TXT")>>)
     \/ /\ left.searches > 0 /\ Watching("viewer")
        /\ left' = [left EXCEPT !.searches = 0]
        /\ will("viewer", <<Unregister(handles["viewer"][1])>>)

---------------------------------------------------------------------------
(* The other bundles *)

Starts(t) ==
  /\ Idle(t)
  /\ UNCHANGED <<backend, hidden, big, graphVars, call, inbox, handles, panicked,
                 scene, loop, init, started, copy, display, history>>

\* widgets/button, activate: the id of the request follows from its fields.
Press ==
  /\ Starts("user") /\ left.presses > 0
  /\ left' = [left EXCEPT !.presses = @ - 1]
  /\ \E fields \in scene.requests :
       will("user", <<Fiat(Request(fields), "LRQ", fields)>>)

\* A scene that watches writes things again, one that searches makes new ones.
Write(t) ==
  /\ Starts(t) /\ left.writes > 0
  /\ left' = [left EXCEPT !.writes = @ - 1]
  /\ \E id \in scene.ids[t] :
       \/ /\ scene.watches \/ id \notin DOMAIN things
          /\ will(t, <<Fiat(id, "TXT", [NAME |-> "n"])>>)
       \/ scene.watches /\ t = "one" /\ will(t, <<PropsSet(id, [TEXT |-> "t"])>>)

BundleNext ==
  \/ \E t \in Threads : Step(t)
  \/ \E t \in Apps : ProcessGraph(t) \/ OnEvent(t)
  \/ InitScan \/ InitToolbar \/ InitRequest \/ InitIdle \/ ViewerTick
  \/ Press \/ Write("one") \/ Write("two")

---------------------------------------------------------------------------
(* The host's display *)

Displays(d) ==
  /\ display' = d
  /\ UNCHANGED <<runtimeVars, scene, loop, init, started, copy, history>>

\* request_resize: two atomic stores.
RequestWidth(b) ==
  /\ left.resizes > 0 /\ display.asked[b] = None
  /\ left' = [left EXCEPT !.resizes = @ - 1]
  /\ \E s \in scene.sizes :
       Displays([display EXCEPT !.req[1] = s[1], !.asked[b] = s[2]])

RequestHeight(b) ==
  /\ display.asked[b] # None
  /\ Displays([display EXCEPT !.req[2] = display.asked[b], !.asked[b] = None])
  /\ UNCHANGED left

\* Mutant: only a change of the width is noticed.
CheckWidth ==
  /\ display.check = "height"
  /\ LET differs == display.w # display.size[1]
     IN  Displays([display EXCEPT !.check = IF differs THEN "lock" ELSE "idle"])
  /\ UNCHANGED left

\* check_and_apply_resize reads both requests, and compares.
CheckLoad ==
  /\ scene.resizes > 0 /\ display.check = "idle"
  /\ Displays([display EXCEPT !.check = "height", !.w = display.req[1]])
  /\ UNCHANGED left

CheckCompare ==
  /\ display.check = "height"
  /\ LET differs == <<display.w, display.req[2]>> # display.size
     IN  Displays([display EXCEPT !.check = IF differs THEN "lock" ELSE "idle"])
  /\ UNCHANGED left

\* Under the framebuffer's lock the requests are read again.
ApplyLoad ==
  /\ display.check = "lock"
  /\ Displays([display EXCEPT !.check = "resize", !.w = display.req[1]])
  /\ UNCHANGED left

ApplyResize ==
  /\ display.check = "resize"
  /\ Displays([display EXCEPT !.check = "width", !.h = display.req[2],
                              !.len = display.w * display.req[2]])
  /\ UNCHANGED left

ApplyWidth ==
  /\ display.check = "width"
  /\ Displays([display EXCEPT !.check = "store", !.size[1] = display.w])
  /\ UNCHANGED left

\* The last store, the lock's release and the compositor's own resizing.
ApplyHeight ==
  /\ display.check = "store"
  /\ Displays([display EXCEPT !.check = "idle", !.size[2] = display.h,
                              !.device = <<display.w, display.h>>])
  /\ UNCHANGED left

\* handle_connection: the bytes under the lock, then the size without it.
FrameBytes ==
  /\ scene.resizes > 0 /\ display.frame = None
  /\ display.check \notin {"resize", "width", "store"}
  /\ Displays([display EXCEPT !.frame = [len |-> display.len, w |-> None]])
  /\ UNCHANGED left

FrameWidth ==
  /\ display.frame # None /\ display.frame.w = None
  /\ Displays([display EXCEPT !.frame.w = display.size[1]])
  /\ UNCHANGED left

FrameSend ==
  /\ display.frame # None /\ display.frame.w # None
  /\ Displays([display EXCEPT !.frame = None,
                 !.sent = [len |-> display.frame.len, w |-> display.frame.w,
                           h |-> display.size[2]]])
  /\ UNCHANGED left

CheckNext == CheckLoad \/ CheckCompare \/ ApplyLoad \/ ApplyResize
               \/ ApplyWidth \/ ApplyHeight
FrameNext == FrameBytes \/ FrameWidth \/ FrameSend

Next ==
  \/ BundleNext
  \/ \E b \in Browsers : RequestWidth(b) \/ RequestHeight(b)
  \/ CheckNext \/ FrameNext

(* Threads of the host process and tasks of the kernel are scheduled for   *)
(* ever and none of their calls blocks for good: again and again a thread  *)
(* has nothing to do or takes a step.  What users do is not fair: presses, *)
(* writes and requests for a size need not come.                           *)
turns == <<todo, call, loop, display>>
Ready(t) == Runs(t) /\ (todo[t] # <<>> \/ t \in Apps)
Moves(t) ==
  \/ todo'[t] # todo[t] \/ call'[t] # call[t]
  \/ t \in Apps /\ loop'[t] # loop[t]

Spec ==
  /\ Init /\ [][Next]_vars
  /\ \A t \in Threads : []<><<Ready(t) => Moves(t)>>_turns
  /\ \A b \in Browsers : WF_display(RequestHeight(b))
  /\ WF_display(CheckNext) /\ WF_display(FrameNext)

---------------------------------------------------------------------------
(* Properties *)

(* An application that polls ends up with the version the store holds, for *)
(* every thing written since it registered its watch, however fiats, polls *)
(* and queueing interleave: HostRuntime's WatchPoll and push_change, and   *)
(* the kernel's queues.  Excepted are things two threads wrote at the same *)
(* time, things it may not read, and a client that panicked on a batch     *)
(* larger than its buffer.                                                 *)
ViewerCatchesUp ==
  <>[](Watching("viewer") /\ "viewer" \notin panicked =>
         \A id \in watched \ (shared \cup hidden) :
            id \in DOMAIN copy /\ copy[id] = things[id])

(* A launch request that was queued for init's watch leads to a launch:    *)
(* the polls lose no queued change, and on_event handles each version that *)
(* names a package (InitApp::on_event, HostRuntime's WatchPoll).  The      *)
(* request for the editor that init makes before it registers its watch is *)
(* launched all the same, because a new watch starts at revision 0 -       *)
(* unless a request made by another thread is queued first, which moves    *)
(* last_revision past it (InitApp::tick, push_change).                     *)
RequestsLaunch ==
  /\ <>[](owed \subseteq Range(launched))
  /\ <>(\/ "init" \notin scene.bundles
        \/ overtaken
        \/ \E v \in Range(launched) : v[1] = BootRequest)

(* Every autostart application of the manifest is started, unless init     *)
(* read /bin while rootfs was still filling it, or gave up after its last  *)
(* retry (InitApp::tick, rootfs::init).                                    *)
AutostartUnlessEarly ==
  <>(\/ "init" \notin scene.bundles
     \/ early \/ init.retries > MaxRetries
     \/ {a.name : a \in {b \in Range(scene.manifest) : b.autostart}} \subseteq started)

(* A search ends, however many things are created meanwhile and whatever   *)
(* may not be read, and has then found every readable thing that existed   *)
(* when it began, although the kernel's cursor counts other things than it *)
(* skips - as long as the pages fit in the client's buffer (find_by_kind   *)
(* of the two stores and of the client).  The direct runtime's searches    *)
(* need not end: its last page looks like a first one.                     *)
SearchesComplete ==
  /\ [](found # None /\ big = {} => found.before \subseteq found.got)
  /\ []<>(~Phase("viewer", "page") \/ backend = "direct" \/ big # {})

(* After the last request for a size the framebuffer, its recorded size,   *)
(* the compositor's device and the frames that are sent agree with it,     *)
(* although requests and checks read and write width and height one at a   *)
(* time (request_resize, check_and_apply_resize, handle_connection).       *)
ResizeSettles ==
  <>[](scene.resizes > 0 =>
         LET s == display.size
         IN  /\ s = display.req /\ display.device = s
             /\ display.len = s[1] * s[2]
             /\ display.sent = [len |-> display.len, w |-> s[1], h |-> s[2]])

(* A version of a launch request launches its package once.  InitApp's     *)
(* on_event tests the status of the version it was given "to avoid         *)
(* re-processing"; a change that is both queued and fetched comes twice.   *)
OneLaunchPerRequest ==
  \A i, j \in DOMAIN launched : launched[i] = launched[j] => i = j
=============================================================================
