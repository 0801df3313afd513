---------------------------- MODULE EngineTheorems ----------------------------
(***************************************************************************)
(* The engine from its start to the end of main: what each conjunct of     *)
(* EngineInv says, and that every step of main, the game and the user      *)
(* keeps it, for every machine, every driver that refuses calls, every     *)
(* keyboard and every number of windows.                                   *)
(***************************************************************************)
EXTENDS Engine, SequenceTheorems, Induction

-----------------------------------------------------------------------------
(***************************************************************************)
(* The inductive invariant: where main is goes with what is initialized,   *)
(* windows with who holds them, the objects of the driver with windows     *)
(* that are registered, and keys with the events that still wait.          *)
(***************************************************************************)
\* Where main is before there is a main window, and after the renderer ended.
Before == {"initialize", "renderer", "main_window"}
After  == {"stop_platform", "ended"}

Places == Before \cup After \cup {"game", "pump", "update", "close_main", "stop_renderer", "exit"}

WindowKinds == {"xwindow", "surface", "swapchain", "views", "image", "memory", "depth_view"}

SystemObjects == {<<"pool", 0>>, <<"device", 0>>, <<"messenger", 0>>, <<"instance", 0>>}

PlacesOK ==
  /\ pc \in Places
  /\ gpus \in GpuLists
  /\ pc \in Places \ (After \cup {"initialize", "renderer", "exit"}) => initialized
  /\ pc \in After => ~ initialized
  /\ initialized => device = select_physical_device(gpus)
  /\ pc \in Before => support = [formats |-> 0, modes |-> 0, freed |-> FALSE]

WindowsOK ==
  /\ created \in Nat
  /\ pc \in Before => created = 0
  /\ pc \notin Before \cup {"exit"} => created >= 1
  /\ windows \in Seq(0 .. created)
  /\ games \subseteq 2 .. created
  /\ games \subseteq 1 .. MaxWindows
  /\ pc = "ended" => windows = <<>>
  /\ \A i \in DOMAIN windows : windows[i] \in {null, main_window} \cup games
  /\ pc \notin After \cup {"stop_renderer"} =>
       \A i \in DOMAIN windows : windows[i] = null => \E w \in 2 .. created : ~ Registered(w)

ObjectsOK ==
  /\ IsFiniteSet(objects)
  /\ objects \subseteq SystemObjects \cup (WindowKinds \X (1 .. created))
  /\ pc \in After => objects \cap SystemObjects = {}
  /\ \A o \in objects :
       \/ o \in SystemObjects
       \/ o[1] = "xwindow" /\ o[2] \in games \cup {main_window}
       \/ Registered(o[2])
  /\ pc \in After \cup {"stop_renderer"} =>
       ~ Registered(main_window) /\ <<"xwindow", main_window>> \notin objects
  /\ orphaned # {} => pc \in After /\ games \cap Live # {}
  /\ reported \in Int
  /\ ~ memory_failed =>
       \A w \in 1 .. created : <<"memory", w>> \in objects <=> <<"image", w>> \in objects

\* An event about key k, at place i of those that wait.
About(i, k) ==
  xqueue[i].type \in {"key_press", "key_release"} /\ translate_keycode(xqueue[i].sym) = k

\* Key k is down once the events that wait have been handled.
WillBeDown(k) ==
  \/ keys[k] /\ \A i \in DOMAIN xqueue : ~ About(i, k)
  \/ \E i \in DOMAIN xqueue :
       /\ About(i, k) /\ Pressed(xqueue[i])
       /\ \A j \in DOMAIN xqueue : j > i => ~ About(j, k)

AllEvents ==
  KeyEvents
    \cup [type : {"button"}, button : Buttons \cup {"unnamed"}, pressed : BOOLEAN]
    \cup [type : {"motion"}, point : Points]
    \cup [type : {"configure"}, window : Nat, size : Sizes]
    \cup [type : {"close"}]

KeysOK ==
  /\ keys \in [Keys -> BOOLEAN]
  /\ xqueue \in Seq(AllEvents)
  /\ \A k \in Keys : WillBeDown(k) => \E sym \in held : translate_keycode(sym) = k

EngineInv == PlacesOK /\ WindowsOK /\ ObjectsOK /\ KeysOK /\ EngineSurvives /\ GpuReportsBalance

-----------------------------------------------------------------------------
(***************************************************************************)
(* Choices.                                                                *)
(***************************************************************************)
LEMMA MinFacts ==
  ASSUME NEW S, S \subseteq Nat, S # {}
  PROVE  Min(S) \in S /\ \A x \in S : Min(S) <= x
<1>1. \E x \in S : \A y \in S : x <= y
  BY LeastNatural
<1> QED BY <1>1 DEF Min

\* None is chosen only if there is none.
LEMMA FirstFacts ==
  ASSUME NEW S, S \subseteq Nat \ {0}
  PROVE  First(S) = none => S = {}
<1>1. CASE S # {}
  <2>1. Min(S) \in S
    BY <1>1, MinFacts
  <2> QED BY <1>1, <2>1 DEF First, none
<1> QED BY <1>1

LEMMA NoDevice ==
  ASSUME gpus \in GpuLists, select_physical_device(gpus) = none
  PROVE  \A i \in DOMAIN gpus : ~ physical_device_meets_requirements(gpus[i])
<1> DEFINE S == {i \in DOMAIN gpus : physical_device_meets_requirements(gpus[i])}
<1>1. S \subseteq Nat \ {0}
  BY GpuAssumption
<1>2. First(S) = none
  BY DEF select_physical_device
<1> HIDE DEF S
<1>3. S = {}
  BY <1>1, <1>2, FirstFacts
<1> QED BY <1>3 DEF S

SupportFaults == {"freed_support", "no_formats", "support_overrun"}

LEMMA SupportFaultIs ==
  ASSUME NEW formats, NEW modes
  PROVE  SupportFault(formats, modes) \in SupportFaults \cup {no_fault}
BY DEF SupportFault, SupportFaults

LEMMA DepthFaultIs == DepthFault \in {no_fault, "no_depth_format", "no_memory_type"}
BY DEF DepthFault

\* What the creation of a window may die of.
LEMMA CreatedFaultIs ==
  ASSUME NEW failing, NEW formats, NEW modes
  PROVE  \/ CreatedFault(failing, formats, modes) \in
              {no_fault, "assertion", "no_formats", "no_depth_format", "no_memory_type"}
         \/ CreatedFault(failing, formats, modes) = "no_device" /\ device = none
         \/ /\ CreatedFault(failing, formats, modes) \in {"freed_support", "support_overrun"}
            /\ SupportFault(formats, modes) = CreatedFault(failing, formats, modes)
<1> DEFINE unsupported == SupportFault(formats, modes)
           ends == <<
        <<failing = "surface",                   no_fault>>,
        <<device = none,                         "no_device">>,
        <<failing = "query",                     "assertion">>,
        <<unsupported # no_fault,                unsupported>>,
        <<0 \in {formats, modes},                no_fault>>,
        <<failing \in {"swapchain", "images"},   no_fault>>,
        <<failing = "views",                     "assertion">>,
        <<DepthFault # no_fault,                 DepthFault>>,
        <<failing \in Checked,                   "assertion">>,
        <<TRUE,                                  no_fault>> >>
           T == {i \in DOMAIN ends : ends[i][1]}
<1>1. DOMAIN ends = 1 .. 10
  OBVIOUS
<1>2. ends[10] = <<TRUE, no_fault>>
  OBVIOUS
<1>3. Min(T) \in T
  <2>1. T \subseteq Nat
    BY <1>1
  <2>2. ends[10][1]
    BY <1>2, Zenon
  <2>3. 10 \in DOMAIN ends
    BY <1>1
  <2>4. 10 \in T
    BY <2>2, <2>3, Zenon
  <2> HIDE DEF T
  <2> QED BY <2>1, <2>4, MinFacts
<1>4. CreatedFault(failing, formats, modes) = ends[Min(T)][2]
  BY DEF CreatedFault
<1> DEFINE m == Min(T)
<1>5. m \in 1 .. 10 /\ ends[m][1]
  BY <1>1, <1>3
<1> HIDE DEF m
<1>6. m = 2 => device = none
  <2>1. ends[2] = <<device = none, "no_device">>
    OBVIOUS
  <2>2. ends[2][1] => device = none
    BY <2>1, Zenon
  <2> HIDE DEF ends
  <2> QED BY <1>5, <2>2
<1>7. m = 4 => ends[m][2] = unsupported
  OBVIOUS
<1>8. m = 8 => ends[m][2] = DepthFault
  OBVIOUS
<1>9. m \in {1, 5, 6, 10} => ends[m][2] = no_fault
  OBVIOUS
<1>10. m \in {3, 7, 9} => ends[m][2] = "assertion"
  OBVIOUS
<1>11. m = 2 => ends[m][2] = "no_device"
  OBVIOUS
<1>12. m \in {1, 2, 3, 4, 5, 6, 7, 8, 9, 10}
  BY <1>5
<1>13. CreatedFault(failing, formats, modes) = ends[m][2]
  BY <1>4 DEF m
<1> HIDE DEF ends, unsupported
<1> DEFINE c == CreatedFault(failing, formats, modes)
<1>14. CASE m = 4
  BY <1>7, <1>13, <1>14, SupportFaultIs DEF unsupported, SupportFaults
<1> QED BY <1>6, <1>8, <1>9, <1>10, <1>11, <1>12, <1>13, <1>14, DepthFaultIs

-----------------------------------------------------------------------------
(***************************************************************************)
(* What is destroyed, and what outlives what it was made from.             *)
(***************************************************************************)
LEMMA ParentKindFacts ==
  ASSUME NEW k
  PROVE  /\ ParentKinds(k) \cap {"depth_view", "memory", "views", "pool", "messenger"} = {}
         /\ "image" \in ParentKinds(k) => k = "depth_view"
         /\ "swapchain" \in ParentKinds(k) => k = "views"
         /\ "surface" \in ParentKinds(k) => k = "swapchain"
         /\ "xwindow" \in ParentKinds(k) => k = "surface"
         /\ "device" \in ParentKinds(k) =>
              k \in {"swapchain", "views", "depth_view", "image", "memory", "pool"}
         /\ "instance" \in ParentKinds(k) => k \in {"surface", "device", "messenger"}
BY DEF ParentKinds

AllObjects == SystemObjects \cup (WindowKinds \X Nat)

\* A window's objects go in an order that leaves none without its parent.
LEMMA TeardownFacts ==
  ASSUME NEW w \in Nat \ {0}, objects \subseteq AllObjects, Destroys(teardown(w))
  PROVE  /\ objects' = {o \in objects : o[2] # w}
         /\ orphaned' = orphaned
<1> DEFINE order == teardown(w)
           Later(i) == {order[j] : j \in i .. 7}
           R == {order[i] : i \in 1 .. 7}
<1>1. /\ DOMAIN order = 1 .. 7
      /\ order[1] = <<"depth_view", w>> /\ order[2] = <<"memory", w>>
      /\ order[3] = <<"image", w>> /\ order[4] = <<"views", w>>
      /\ order[5] = <<"swapchain", w>> /\ order[6] = <<"surface", w>>
      /\ order[7] = <<"xwindow", w>>
  BY DEF teardown
<1>2. Len(order) = 7
  BY DEF teardown
<1>3. Range(order) = R
  BY <1>1 DEF Range
<1>4. /\ objects' = objects \ R
      /\ orphaned' = orphaned \cup UNION
           {Children(order[i]) \cap (Later(i) \cup (objects \ R)) :
              i \in {i \in 1 .. 7 : order[i] \in objects}}
  BY <1>1, <1>2, <1>3 DEF Destroys
<1> HIDE DEF order
<1>5. R = WindowKinds \X {w}
  <2>1. 1 .. 7 = {1, 2, 3, 4, 5, 6, 7}
    OBVIOUS
  <2>2. R = {<<"depth_view", w>>, <<"memory", w>>, <<"image", w>>, <<"views", w>>,
             <<"swapchain", w>>, <<"surface", w>>, <<"xwindow", w>>}
    BY <1>1, <2>1
  <2> HIDE DEF R
  <2> QED BY <2>2 DEF WindowKinds
<1>6. objects' = {o \in objects : o[2] # w}
  <2>1. ASSUME NEW o \in objects PROVE o \in R <=> o[2] = w
    BY <1>5 DEF AllObjects, SystemObjects
  <2> HIDE DEF R
  <2> QED BY <1>4, <2>1
<1>7. ASSUME NEW i \in 1 .. 7, NEW c \in Children(order[i])
      PROVE  c \notin Later(i) /\ c \notin objects \ R
  <2>1. c \in objects /\ order[i][1] \in ParentKinds(c[1]) /\ order[i][2] \in {0, c[2]}
    BY DEF Children
  <2>2. order[i][2] = w /\ c[2] = w
    BY <1>1, <2>1
  <2>3. c = <<c[1], w>> /\ c[1] \in WindowKinds
    BY <2>1, <2>2 DEF AllObjects, SystemObjects
  <2>4. c \in R
    BY <1>5, <2>3
  <2>5. ASSUME c \in Later(i) PROVE FALSE
    <3>1. PICK j \in i .. 7 : c = order[j]
      BY <2>5
    <3>2. i \in {1, 2, 3, 4, 5, 6, 7} /\ j \in {1, 2, 3, 4, 5, 6, 7} /\ i <= j
      BY <3>1
    <3>3. c[1] = order[j][1]
      BY <3>1
    <3>4. <<i, j>> \in {<<3, 1>>, <<5, 4>>, <<6, 5>>, <<7, 6>>}
      BY <1>1, <2>1, <3>2, <3>3, ParentKindFacts
    <3> QED BY <3>2, <3>4
  <2> QED BY <2>4, <2>5
<1> HIDE DEF R, Later
<1>8. orphaned' = orphaned
  BY <1>4, <1>7
<1> QED BY <1>6, <1>8

\* The driver's own objects go together; those of windows may be left.
LEMMA ShutdownFacts ==
  ASSUME objects \subseteq AllObjects, renderer_system_shutdown
  PROVE  /\ objects' = objects \ SystemObjects
         /\ orphaned \subseteq orphaned'
         /\ \A c \in orphaned' \ orphaned :
              c \in objects /\ c \notin SystemObjects /\ c[1] # "xwindow"
<1> DEFINE order == <<<<"pool", 0>>, <<"device", 0>>, <<"messenger", 0>>, <<"instance", 0>>>>
           Later(i) == {order[j] : j \in i .. 4}
           R == {order[i] : i \in 1 .. 4}
<1>1. /\ DOMAIN order = 1 .. 4 /\ Len(order) = 4
      /\ order[1] = <<"pool", 0>> /\ order[2] = <<"device", 0>>
      /\ order[3] = <<"messenger", 0>> /\ order[4] = <<"instance", 0>>
  OBVIOUS
<1>2. Range(order) = R
  BY <1>1 DEF Range
<1>3. /\ objects' = objects \ R
      /\ orphaned' = orphaned \cup UNION
           {Children(order[i]) \cap (Later(i) \cup (objects \ R)) :
              i \in {i \in 1 .. 4 : order[i] \in objects}}
  BY <1>1, <1>2 DEF renderer_system_shutdown, Destroys
<1> HIDE DEF order
<1>4. R = SystemObjects
  <2>1. 1 .. 4 = {1, 2, 3, 4}
    OBVIOUS
  <2> QED BY <1>1, <2>1 DEF SystemObjects
<1>5. ASSUME NEW i \in 1 .. 4, NEW c \in Children(order[i])
      PROVE  /\ c \notin Later(i)
             /\ c \in objects /\ (c \notin R => c[1] # "xwindow")
  <2>1. c \in objects /\ order[i][1] \in ParentKinds(c[1])
    BY DEF Children
  <2>2. c[1] # "xwindow"
    BY <2>1 DEF ParentKinds
  <2>3. ASSUME c \in Later(i) PROVE FALSE
    <3>1. PICK j \in i .. 4 : c = order[j]
      BY <2>3
    <3>2. i \in {1, 2, 3, 4} /\ j \in {1, 2, 3, 4} /\ i <= j
      BY <3>1
    <3>3. c[1] = order[j][1]
      BY <3>1
    <3>4. <<i, j>> \in {<<2, 1>>, <<4, 2>>, <<4, 3>>}
      BY <1>1, <2>1, <3>2, <3>3, ParentKindFacts
    <3> QED BY <3>2, <3>4
  <2> QED BY <2>1, <2>2, <2>3
<1> HIDE DEF Later, R
<1>6. \A c \in orphaned' \ orphaned :
         c \in objects /\ c \notin R /\ c[1] # "xwindow"
  BY <1>3, <1>5
<1> QED BY <1>3, <1>4, <1>6

-----------------------------------------------------------------------------
(***************************************************************************)
(* Keys.                                                                   *)
(***************************************************************************)
LEMMA KeysFrame ==
  ASSUME KeysOK, UNCHANGED <<keys, xqueue, held>>
  PROVE  KeysOK'
BY DEF KeysOK, WillBeDown, About

IsKeyEvent(e) == e.type \in {"key_press", "key_release"}

\* Handling the oldest event leaves what the others will do.
LEMMA PolledKeys ==
  ASSUME KeysOK, xqueue # <<>>, xqueue' = Tail(xqueue), held' = held,
         \/ ~ IsKeyEvent(Head(xqueue)) /\ keys' = keys
         \/ /\ IsKeyEvent(Head(xqueue))
            /\ keys' = [keys EXCEPT ![translate_keycode(Head(xqueue).sym)] = Pressed(Head(xqueue))]
  PROVE  KeysOK'
<1> DEFINE n == Len(xqueue)
<1>1. /\ xqueue \in Seq(AllEvents) /\ n \in Nat /\ n > 0 /\ DOMAIN xqueue = 1 .. n
      /\ Head(xqueue) = xqueue[1]
  BY LenProperties, EmptySeq DEF KeysOK
<1>2. /\ Tail(xqueue) \in Seq(AllEvents) /\ Len(Tail(xqueue)) = n - 1
      /\ \A i \in 1 .. Len(Tail(xqueue)) : Tail(xqueue)[i] = xqueue[i + 1]
  BY <1>1, HeadTailProperties
<1>3. /\ xqueue' \in Seq(AllEvents) /\ DOMAIN xqueue' = 1 .. n - 1
      /\ \A i \in 1 .. n - 1 : xqueue'[i] = xqueue[i + 1] /\ i + 1 \in 1 .. n
  BY <1>1, <1>2, LenProperties
<1>4. keys' \in [Keys -> BOOLEAN]
  BY DEF KeysOK, Pressed
<1> HIDE DEF n
<1>5. ASSUME NEW k \in Keys, WillBeDown(k)' PROVE WillBeDown(k)
  <2>1. \A i \in 1 .. n - 1 : About(i, k)' <=> About(i + 1, k)
    BY <1>3 DEF About
  <2>2. CASE \E i \in DOMAIN xqueue' :
               /\ About(i, k)' /\ Pressed(xqueue'[i])
               /\ \A j \in DOMAIN xqueue' : j > i => ~ About(j, k)'
    <3>1. PICK i \in 1 .. n - 1 :
               /\ About(i, k)' /\ Pressed(xqueue'[i])
               /\ \A j \in 1 .. n - 1 : j > i => ~ About(j, k)'
      BY <1>3, <2>2
    <3>2. i + 1 \in DOMAIN xqueue /\ About(i + 1, k) /\ Pressed(xqueue[i + 1])
      BY <1>1, <1>3, <2>1, <3>1
    <3>3. ASSUME NEW j \in DOMAIN xqueue, j > i + 1 PROVE ~ About(j, k)
      <4>1. j - 1 \in 1 .. n - 1 /\ j - 1 > i /\ (j - 1) + 1 = j
        BY <1>1, <3>3
      <4>2. About(j - 1, k)' <=> About((j - 1) + 1, k)
        BY <2>1, <4>1
      <4> QED BY <3>1, <4>1, <4>2
    <3> QED BY <3>2, <3>3 DEF WillBeDown
  <2>3. CASE keys'[k] /\ \A i \in DOMAIN xqueue' : ~ About(i, k)'
    <3>1. ASSUME NEW j \in DOMAIN xqueue, j > 1 PROVE ~ About(j, k)
      <4>1. j - 1 \in 1 .. n - 1 /\ (j - 1) + 1 = j
        BY <1>1, <3>1
      <4>2. About(j - 1, k)' <=> About((j - 1) + 1, k)
        BY <2>1, <4>1
      <4> QED BY <1>3, <2>3, <4>1, <4>2
    <3>2. 1 \in DOMAIN xqueue /\ \A j \in DOMAIN xqueue : j = 1 \/ j > 1
      BY <1>1
    <3>3. CASE About(1, k)
      <4>1. IsKeyEvent(xqueue[1]) /\ translate_keycode(xqueue[1].sym) = k
        BY <3>3 DEF About, IsKeyEvent
      <4>2. keys' = [keys EXCEPT ![k] = Pressed(xqueue[1])]
        BY <1>1, <4>1
      <4>3. keys'[k] = Pressed(xqueue[1])
        BY <4>2 DEF KeysOK
      <4>4. Pressed(xqueue[1])
        BY <2>3, <4>3
      <4> QED BY <3>1, <3>2, <3>3, <4>4 DEF WillBeDown
    <3>4. CASE ~ About(1, k)
      <4>1. keys'[k] = keys[k]
        <5>1. ~ IsKeyEvent(xqueue[1]) \/ translate_keycode(xqueue[1].sym) # k
          BY <3>4 DEF About, IsKeyEvent
        <5> QED BY <1>1, <5>1 DEF KeysOK
      <4> QED BY <2>3, <3>1, <3>2, <3>4, <4>1 DEF WillBeDown
    <3> QED BY <3>3, <3>4
  <2> QED BY <1>5, <2>2, <2>3 DEF WillBeDown
<1>6. \A k \in Keys : WillBeDown(k)' => \E sym \in held' : translate_keycode(sym) = k
  BY <1>5 DEF KeysOK
<1> QED BY <1>3, <1>4, <1>6 DEF KeysOK

\* A new event changes what its key will be, and what is held, alike.
LEMMA SentKeys ==
  ASSUME KeysOK, keys' = keys, NEW e \in AllEvents, XSends(e)
  PROVE  KeysOK'
<1>0. PICK n \in Nat : n = Len(xqueue)
  BY LenProperties DEF KeysOK
<1>1. /\ xqueue \in Seq(AllEvents) /\ n = Len(xqueue) /\ DOMAIN xqueue = 1 .. n
  BY <1>0, LenProperties DEF KeysOK
<1>2. xqueue' = Append(xqueue, e)
  BY DEF XSends
<1>3. /\ xqueue' \in Seq(AllEvents) /\ DOMAIN xqueue' = 1 .. n + 1
      /\ \A i \in 1 .. n : xqueue'[i] = xqueue[i]
      /\ xqueue'[n + 1] = e
  BY <1>1, <1>2
<1>4. /\ \A i \in 1 .. n : i \in DOMAIN xqueue' /\ i # n + 1
      /\ n + 1 \in DOMAIN xqueue'
      /\ \A i \in DOMAIN xqueue' : i \in 1 .. n \/ i = n + 1
      /\ \A i \in 1 .. n : n + 1 > i
  BY <1>1, <1>3
<1>5. ASSUME NEW k \in Keys, WillBeDown(k)'
      PROVE  \E sym \in held' : translate_keycode(sym) = k
  <2>1. \A i \in 1 .. n : About(i, k)' <=> About(i, k)
    BY <1>3 DEF About
  <2>2. CASE About(n + 1, k)'
    <3>1. PICK i \in DOMAIN xqueue' :
               /\ About(i, k)' /\ Pressed(xqueue'[i])
               /\ \A j \in DOMAIN xqueue' : j > i => ~ About(j, k)'
      BY <1>4, <1>5, <2>2 DEF WillBeDown
    <3>2. i = n + 1
      BY <1>4, <2>2, <3>1
    <3>3. e.type = "key_press" /\ ~ e.sent /\ translate_keycode(e.sym) = k
      BY <1>3, <3>1, <3>2 DEF Pressed, About
    <3>4. held' = held \cup {e.sym}
      BY <3>3 DEF XSends
    <3> QED BY <3>3, <3>4
  <2>3. CASE ~ About(n + 1, k)'
    <3>1. WillBeDown(k)
      <4>1. CASE keys'[k] /\ \A i \in DOMAIN xqueue' : ~ About(i, k)'
        BY <1>1, <1>4, <2>1, <4>1 DEF WillBeDown
      <4>2. CASE \E i \in DOMAIN xqueue' :
               /\ About(i, k)' /\ Pressed(xqueue'[i])
               /\ \A j \in DOMAIN xqueue' : j > i => ~ About(j, k)'
        <5>1. PICK i \in DOMAIN xqueue' :
               /\ About(i, k)' /\ Pressed(xqueue'[i])
               /\ \A j \in DOMAIN xqueue' : j > i => ~ About(j, k)'
          BY <4>2
        <5>2. i \in 1 .. n
          BY <1>4, <2>3, <5>1
        <5>3. About(i, k) /\ Pressed(xqueue[i]) /\ \A j \in 1 .. n : j > i => ~ About(j, k)
          BY <1>3, <1>4, <2>1, <5>1, <5>2
        <5> QED BY <1>1, <5>2, <5>3 DEF WillBeDown
      <4> QED BY <1>5, <4>1, <4>2 DEF WillBeDown
    <3>2. PICK sym \in held : translate_keycode(sym) = k
      BY <3>1 DEF KeysOK
    <3>3. CASE e.type = "key_press" /\ ~ e.sent
      <4>1. held' = held \cup {e.sym}
        BY <3>3 DEF XSends
      <4> QED BY <3>2, <4>1
    <3>4. CASE e.type = "key_release" /\ ~ e.sent
      <4>1. held' = held \ {e.sym}
        BY <3>4 DEF XSends
      <4>2. translate_keycode(e.sym) # k
        BY <1>3, <2>3, <3>4 DEF About
      <4> QED BY <3>2, <4>1, <4>2
    <3>5. CASE ~ (e.type = "key_press" /\ ~ e.sent) /\ ~ (e.type = "key_release" /\ ~ e.sent)
      <4>1. held' = held
        BY <3>5 DEF XSends
      <4> QED BY <3>2, <4>1
    <3> QED BY <3>3, <3>4, <3>5
  <2> QED BY <2>2, <2>3
<1> QED BY <1>3, <1>5 DEF KeysOK

-----------------------------------------------------------------------------
(***************************************************************************)
(* Windows open and close.                                                 *)
(***************************************************************************)
LEMMA NoFault == ASSUME fault' = no_fault PROVE EngineSurvives'
BY DEF EngineSurvives, no_fault

LEMMA KindsFinite == ASSUME NEW w PROVE IsFiniteSet(WindowKinds \X {w})
<1>1. WindowKinds = ((((((({} \cup {"xwindow"}) \cup {"surface"}) \cup {"swapchain"}) \cup {"views"})
                       \cup {"image"}) \cup {"memory"}) \cup {"depth_view"})
  BY DEF WindowKinds
<1>2. IsFiniteSet(WindowKinds)
  BY <1>1, FS_EmptySet, FS_AddElement
<1> QED BY <1>2, FS_Singleton, FS_Product

\* Where a window may be opened, and what the program is then.
Opening(w) ==
  /\ w = created + 1
  /\ created' = w
  /\ pc \in {"main_window", "update"}
  /\ pc' \in {"game", "update", "exit"}
  /\ games' \subseteq games \cup {w} /\ games \subseteq games'
  /\ games' \subseteq 2 .. w /\ games' \subseteq 1 .. MaxWindows
  /\ w \in games' \cup {main_window}
  /\ fault' = no_fault

LEMMA FailsStep ==
  ASSUME EngineInv, NEW w, Opening(w), WindowFails(w), UNCHANGED keys
  PROVE  EngineInv'
<1>1. PlacesOK'
  BY DEF EngineInv, PlacesOK, Opening, WindowFails, Places, Before, After
<1>2. /\ created \in Nat /\ w = created + 1 /\ created' = w /\ windows' = windows
      /\ windows \in Seq(0 .. created)
  BY DEF EngineInv, WindowsOK, Opening, WindowFails
<1>3. windows \in Seq(0 .. w)
  BY <1>2, SeqMonotonic
<1>4. WindowsOK'
  <2>1. pc' \notin Before \cup {"ended"}
    BY DEF Opening, Before
  <2>2. games' \subseteq 2 .. created' /\ games' \subseteq 1 .. MaxWindows
    BY <1>2 DEF Opening
  <2>3. \A i \in DOMAIN windows' : windows'[i] \in {null, main_window} \cup games'
    BY <1>2 DEF EngineInv, WindowsOK, Opening
  <2>4. pc' \notin After \cup {"stop_renderer"} =>
         \A i \in DOMAIN windows' : windows'[i] = null => \E v \in 2 .. created' : ~ Registered(v)'
    BY <1>2 DEF EngineInv, WindowsOK, Opening, After, Registered
  <2>5. created' >= 1
    BY <1>2
  <2> QED BY <1>2, <1>3, <2>1, <2>2, <2>3, <2>4, <2>5 DEF WindowsOK
<1>5. /\ objects' = objects \cup {<<"xwindow", w>>} /\ orphaned = {} /\ orphaned' = {}
      /\ UNCHANGED <<reported, memory_failed>>
  BY DEF EngineInv, ObjectsOK, Opening, WindowFails, After
<1>6. ObjectsOK'
  <2>1. IsFiniteSet(objects')
    BY <1>5, FS_AddElement DEF EngineInv, ObjectsOK
  <2>2. objects' \subseteq SystemObjects \cup (WindowKinds \X (1 .. created'))
    BY <1>2, <1>5 DEF EngineInv, ObjectsOK, WindowKinds
  <2>3. ASSUME NEW o \in objects'
        PROVE  \/ o \in SystemObjects
               \/ o[1] = "xwindow" /\ o[2] \in games' \cup {main_window}
               \/ Registered(o[2])'
    <3>1. CASE o = <<"xwindow", w>>
      BY <3>1 DEF Opening
    <3>2. CASE o \in objects
      BY <1>2, <3>2 DEF EngineInv, ObjectsOK, Opening, Registered
    <3> QED BY <1>5, <3>1, <3>2
  <2>4. pc' \notin After \cup {"stop_renderer"}
    BY DEF Opening, After
  <2>5. ~ memory_failed' => \A v \in 1 .. created' : <<"memory", v>> \in objects' <=> <<"image", v>> \in objects'
    <3>1. \A v : /\ <<"memory", v>> \in objects' <=> <<"memory", v>> \in objects
                 /\ <<"image", v>> \in objects' <=> <<"image", v>> \in objects
      BY <1>5
    <3>2. <<"memory", w>> \notin objects /\ <<"image", w>> \notin objects
      BY <1>2 DEF EngineInv, ObjectsOK, SystemObjects
    <3>3. \A v \in 1 .. created' : v \in 1 .. created \/ v = w
      BY <1>2
    <3> QED BY <1>5, <3>1, <3>2, <3>3 DEF EngineInv, ObjectsOK
  <2> QED BY <1>5, <2>1, <2>2, <2>3, <2>4, <2>5 DEF ObjectsOK, EngineInv
<1>7. GpuReportsBalance'
  <2>1. {o \in objects' : o[1] = "memory"} = {o \in objects : o[1] = "memory"}
    BY <1>5
  <2> QED BY <1>5, <2>1 DEF EngineInv, GpuReportsBalance
<1>8. KeysOK'
  BY KeysFrame DEF WindowFails, EngineInv
<1> QED BY <1>1, <1>4, <1>6, <1>7, <1>8, NoFault DEF EngineInv, Opening

LEMMA OpensStep ==
  ASSUME EngineInv, NEW w, NEW failing, NEW formats, NEW modes,
         Opening(w), pc' # "exit", WindowOpens(w, failing, formats, modes), UNCHANGED keys
  PROVE  EngineInv'
<1> DEFINE nothing == failing # "surface" /\ 0 \in {formats, modes}
           made == IF nothing THEN Made("swapchain") ELSE Made(failing)
           new == {<<kind, w>> : kind \in made \cup {"xwindow"}}
<1>1. PlacesOK'
  BY DEF EngineInv, PlacesOK, Opening, WindowOpens, vulkan_renderer_on_window_created, Places, Before, After
<1>2. /\ created \in Nat /\ w = created + 1 /\ created' = w /\ windows' = Append(windows, w)
      /\ windows \in Seq(0 .. created) /\ w # null
  BY DEF EngineInv, WindowsOK, Opening, WindowOpens, null
<1>3. windows \in Seq(0 .. w) /\ w \in 0 .. w
  BY <1>2, SeqMonotonic
<1>4. PICK n \in Nat : n = Len(windows)
  BY <1>3, LenProperties
<1>5. /\ windows' \in Seq(0 .. w) /\ DOMAIN windows = 1 .. n /\ DOMAIN windows' = 1 .. n + 1
      /\ \A i \in 1 .. n : windows'[i] = windows[i]
      /\ windows'[n + 1] = w
  BY <1>2, <1>3, <1>4, LenProperties
<1>6. \A i \in 1 .. n + 1 : i \in 1 .. n \/ i = n + 1
  BY <1>4
<1>7. \A v : Registered(v)' <=> Registered(v) \/ v = w
  <2>1. ASSUME NEW v, Registered(v) PROVE Registered(v)'
    <3>1. PICK i \in 1 .. n : windows[i] = v
      BY <1>5, <2>1 DEF Registered
    <3>2. i \in 1 .. n + 1 /\ windows'[i] = v
      BY <1>4, <1>5, <3>1
    <3> QED BY <1>5, <3>2 DEF Registered
  <2>2. Registered(w)'
    <3>1. n + 1 \in 1 .. n + 1
      BY <1>4
    <3> QED BY <1>5, <3>1 DEF Registered
  <2>3. ASSUME NEW v, Registered(v)' PROVE Registered(v) \/ v = w
    BY <1>5, <1>6, <2>3 DEF Registered
  <2> QED BY <2>1, <2>2, <2>3
<1>8. WindowsOK'
  <2>1. pc' \notin Before \cup {"ended"} /\ pc \notin After \cup {"stop_renderer"}
    BY DEF Opening, Before, After
  <2>2. games' \subseteq 2 .. created' /\ games' \subseteq 1 .. MaxWindows
    BY <1>2 DEF Opening
  <2>3. ASSUME NEW i \in DOMAIN windows'
        PROVE  windows'[i] \in {null, main_window} \cup games'
    BY <1>5, <1>6 DEF EngineInv, WindowsOK, Opening
  <2>4. ASSUME NEW i \in DOMAIN windows', windows'[i] = null
        PROVE  \E v \in 2 .. created' : ~ Registered(v)'
    <3>1. i \in 1 .. n /\ windows[i] = null
      BY <1>2, <1>5, <1>6, <2>4
    <3>2. PICK v \in 2 .. created : ~ Registered(v)
      BY <1>5, <2>1, <3>1 DEF EngineInv, WindowsOK
    <3>3. v \in 2 .. created' /\ v # w
      BY <1>2
    <3> QED BY <1>7, <3>2, <3>3
  <2>5. created' >= 1
    BY <1>2
  <2> QED BY <1>2, <1>5, <2>1, <2>2, <2>3, <2>4, <2>5 DEF WindowsOK
<1>9. /\ objects' = objects \cup new
      /\ reported' = IF "memory" \in made THEN reported + 1 ELSE reported
      /\ memory_failed' = (memory_failed \/ (failing = "memory" /\ ~ nothing))
      /\ orphaned' = orphaned /\ orphaned = {}
  BY DEF WindowOpens, vulkan_renderer_on_window_created, EngineInv, ObjectsOK, Opening, After
<1>10. made \subseteq WindowKinds
  BY DEF Made, WindowKinds
<1>11. ~ (failing = "memory" /\ ~ nothing) => ("memory" \in made <=> "image" \in made)
  BY DEF Made
<1> HIDE DEF nothing, made
<1>12. new \subseteq WindowKinds \X {w} /\ \A o \in new : o[2] = w
  BY <1>10 DEF WindowKinds
<1>13. /\ <<"memory", w>> \in new <=> "memory" \in made
       /\ <<"image", w>> \in new <=> "image" \in made
  OBVIOUS
<1>14. \A o \in objects : o[2] # w
  BY <1>2 DEF EngineInv, ObjectsOK, SystemObjects
<1>15. new \ {<<"memory", w>>} = {o \in new : o[1] # "memory"}
  BY <1>12 DEF WindowKinds
<1> HIDE DEF new
<1>16. ObjectsOK'
  <2>1. IsFiniteSet(objects')
    <3>1. IsFiniteSet(new)
      BY <1>12, KindsFinite, FS_Subset
    <3> QED BY <1>9, <3>1, FS_Union DEF EngineInv, ObjectsOK
  <2>2. objects' \subseteq SystemObjects \cup (WindowKinds \X (1 .. created'))
    BY <1>2, <1>9, <1>12 DEF EngineInv, ObjectsOK
  <2>3. ASSUME NEW o \in objects'
        PROVE  \/ o \in SystemObjects
               \/ o[1] = "xwindow" /\ o[2] \in games' \cup {main_window}
               \/ Registered(o[2])'
    <3>1. CASE o \in new
      BY <1>7, <1>12, <3>1
    <3>2. CASE o \in objects
      BY <1>7, <3>2 DEF EngineInv, ObjectsOK, Opening
    <3> QED BY <1>9, <3>1, <3>2
  <2>4. pc' \notin After \cup {"stop_renderer"}
    BY DEF Opening, After
  <2>5. ASSUME ~ memory_failed', NEW v \in 1 .. created'
        PROVE  <<"memory", v>> \in objects' <=> <<"image", v>> \in objects'
    <3>1. CASE v = w
      <4>1. <<"memory", w>> \notin objects /\ <<"image", w>> \notin objects
        BY <1>14
      <4> QED BY <1>9, <1>11, <1>13, <2>5, <3>1, <4>1
    <3>2. CASE v # w
      <4>1. v \in 1 .. created
        BY <1>2, <3>2
      <4>2. <<"memory", v>> \notin new /\ <<"image", v>> \notin new
        BY <1>12, <3>2
      <4> QED BY <1>9, <2>5, <4>1, <4>2 DEF EngineInv, ObjectsOK
    <3> QED BY <3>1, <3>2
  <2>6. reported' \in Int
    BY <1>9 DEF EngineInv, ObjectsOK
  <2> QED BY <1>9, <2>1, <2>2, <2>3, <2>4, <2>5, <2>6 DEF ObjectsOK
<1>17. GpuReportsBalance'
  <2> DEFINE M == {o \in objects : o[1] = "memory"}
             N == {o \in objects' : o[1] = "memory"}
  <2>1. IsFiniteSet(M) /\ <<"memory", w>> \notin M
    BY <1>14, FS_Subset DEF EngineInv, ObjectsOK
  <2>2. ~ memory_failed => reported = Cardinality(M)
    BY DEF EngineInv, GpuReportsBalance
  <2>3. "memory" \in made => N = M \cup {<<"memory", w>>}
    BY <1>9, <1>13, <1>15
  <2>4. "memory" \notin made => N = M
    BY <1>9, <1>13, <1>15
  <2> HIDE DEF M, N
  <2>5. Cardinality(M \cup {<<"memory", w>>}) = Cardinality(M) + 1
    BY <2>1, FS_AddElement
  <2>6. ~ memory_failed' => reported' = Cardinality(N)
    BY <1>9, <2>2, <2>3, <2>4, <2>5
  <2> QED BY <2>6 DEF N, GpuReportsBalance
<1>18. KeysOK'
  BY KeysFrame DEF WindowOpens, EngineInv
<1> QED BY <1>1, <1>8, <1>16, <1>17, <1>18, NoFault DEF EngineInv, Opening

\* A window that its owner, the engine or the game, closes.
Closing(w) ==
  /\ \/ w = main_window /\ pc = "close_main" /\ pc' = "stop_renderer" /\ games' = games
     \/ w \in games /\ pc = "update" /\ pc' = "update" /\ games' = games \ {w}
  /\ created' = created
  /\ fault' = no_fault

LEMMA CloseStep ==
  ASSUME EngineInv, NEW w, Closing(w), platform_window_destroy(w)
  PROVE  EngineInv'
<1>1. PlacesOK'
  BY DEF EngineInv, PlacesOK, Closing, platform_window_destroy, vulkan_renderer_on_window_destroyed,
         Places, Before, After
<1>2. /\ created \in Nat /\ windows \in Seq(0 .. created) /\ created' = created
      /\ windows' = [i \in DOMAIN windows |-> IF windows[i] = w THEN null ELSE windows[i]]
      /\ w \in Nat \ {0} /\ null = 0
      /\ w \in games => w \in 2 .. created
  <2>1. created \in Nat /\ windows \in Seq(0 .. created) /\ games \subseteq 2 .. created
    BY DEF EngineInv, WindowsOK
  <2>2. windows' = [i \in DOMAIN windows |-> IF windows[i] = w THEN null ELSE windows[i]]
    BY DEF platform_window_destroy, Unregister
  <2>3. created' = created /\ (w = 1 \/ w \in games)
    BY DEF Closing, main_window
  <2>4. w \in games => w \in 2 .. created
    BY <2>1
  <2>5. w \in Nat \ {0}
    BY <2>1, <2>3, <2>4
  <2> QED BY <2>1, <2>2, <2>3, <2>4, <2>5 DEF null
<1>3. PICK n \in Nat : DOMAIN windows = 1 .. n /\ \A i \in 1 .. n : windows[i] \in 0 .. created
  BY <1>2, LenProperties, ElementOfSeq
<1>4. /\ DOMAIN windows' = DOMAIN windows
      /\ \A i \in DOMAIN windows : windows'[i] = IF windows[i] = w THEN null ELSE windows[i]
  BY <1>2
<1>5. windows' \in Seq(0 .. created)
  <2>1. windows' \in [1 .. n -> 0 .. created]
    BY <1>2, <1>3
  <2> QED BY <2>1, SeqDef
<1>6. \A v : v # null => (Registered(v)' <=> Registered(v) /\ v # w)
  BY <1>4 DEF Registered
<1>7. WindowsOK'
  <2>1. pc' \notin Before \cup {"ended"}
    BY DEF Closing, Before
  <2>2. games' \subseteq 2 .. created' /\ games' \subseteq 1 .. MaxWindows
    BY <1>2 DEF Closing, EngineInv, WindowsOK
  <2>3. ASSUME NEW i \in DOMAIN windows'
        PROVE  windows'[i] \in {null, main_window} \cup games'
    BY <1>4 DEF EngineInv, WindowsOK, Closing
  <2>4. pc' \notin After \cup {"stop_renderer"} =>
         \A i \in DOMAIN windows' : windows'[i] = null => \E v \in 2 .. created' : ~ Registered(v)'
    BY <1>2, <1>6 DEF Closing
  <2>5. created' >= 1
    BY <1>2 DEF EngineInv, WindowsOK, Closing, Before
  <2> QED BY <1>2, <1>5, <2>1, <2>2, <2>3, <2>4, <2>5 DEF WindowsOK
<1>8. objects \subseteq AllObjects
  BY <1>2 DEF EngineInv, ObjectsOK, AllObjects
<1>9. /\ objects' = {o \in objects : o[2] # w} /\ orphaned' = orphaned /\ orphaned = {}
      /\ reported' = IF <<"image", w>> \in objects THEN reported - 1 ELSE reported
      /\ memory_failed' = memory_failed
  <2>1. orphaned = {}
    BY DEF EngineInv, ObjectsOK, Closing, After
  <2> QED BY <1>2, <1>8, <2>1, TeardownFacts DEF platform_window_destroy, vulkan_renderer_on_window_destroyed
<1>10. ObjectsOK'
  <2>1. IsFiniteSet(objects')
    BY <1>9, FS_Subset DEF EngineInv, ObjectsOK
  <2>2. objects' \subseteq SystemObjects \cup (WindowKinds \X (1 .. created'))
    BY <1>2, <1>9 DEF EngineInv, ObjectsOK
  <2>3. ASSUME NEW o \in objects'
        PROVE  \/ o \in SystemObjects
               \/ o[1] = "xwindow" /\ o[2] \in games' \cup {main_window}
               \/ Registered(o[2])'
    <3>1. o \in objects /\ o[2] # w
      BY <1>9
    <3>2. CASE o \notin SystemObjects
      <4>1. o[2] \in 1 .. created
        BY <3>1, <3>2 DEF EngineInv, ObjectsOK
      <4>2. o[2] # null
        BY <1>2, <4>1
      <4>3. (o[1] = "xwindow" /\ o[2] \in games \cup {main_window}) \/ Registered(o[2])
        BY <3>1, <3>2 DEF EngineInv, ObjectsOK
      <4> QED BY <1>6, <3>1, <4>2, <4>3 DEF Closing
    <3> QED BY <3>2
  <2>4. /\ pc' \notin After
        /\ pc' = "stop_renderer" =>
             ~ Registered(main_window)' /\ <<"xwindow", main_window>> \notin objects'
    <3>1. pc' \notin After
      BY DEF Closing, After
    <3>2. pc' = "stop_renderer" => w = main_window
      BY DEF Closing
    <3>3. ~ Registered(w)'
      BY <1>2, <1>6
    <3>4. <<"xwindow", w>> \notin objects'
      BY <1>9
    <3> QED BY <3>1, <3>2, <3>3, <3>4 DEF main_window
  <2>5. ASSUME ~ memory_failed', NEW v \in 1 .. created'
        PROVE  <<"memory", v>> \in objects' <=> <<"image", v>> \in objects'
    <3>1. <<"memory", v>> \in objects <=> <<"image", v>> \in objects
      BY <1>2, <1>9, <2>5 DEF EngineInv, ObjectsOK
    <3> QED BY <1>9, <3>1
  <2>6. reported' \in Int
    BY <1>9 DEF EngineInv, ObjectsOK
  <2> QED BY <1>9, <2>1, <2>2, <2>3, <2>4, <2>5, <2>6 DEF ObjectsOK
<1>11. GpuReportsBalance'
  <2> DEFINE M == {o \in objects : o[1] = "memory"}
             N == {o \in objects' : o[1] = "memory"}
  <2>1. IsFiniteSet(M)
    BY FS_Subset DEF EngineInv, ObjectsOK
  <2>2. ~ memory_failed => reported = Cardinality(M)
    BY DEF EngineInv, GpuReportsBalance
  <2>3. ASSUME ~ memory_failed
        PROVE <<"memory", w>> \in M <=> <<"image", w>> \in objects
    <3>1. CASE w \in 1 .. created
      BY <2>3, <3>1 DEF EngineInv, ObjectsOK
    <3>2. CASE w \notin 1 .. created
      BY <1>2, <3>2 DEF EngineInv, ObjectsOK, SystemObjects
    <3> QED BY <3>1, <3>2
  <2>4. N = M \ {<<"memory", w>>}
    <3>1. \A o \in objects : o = <<o[1], o[2]>>
      BY <1>8 DEF AllObjects, SystemObjects
    <3>2. \A o \in M : o[2] = w <=> o = <<"memory", w>>
      BY <3>1
    <3>3. N = {o \in M : o[2] # w}
      BY <1>9
    <3> QED BY <3>2, <3>3
  <2> HIDE DEF M, N
  <2>5. Cardinality(M \ {<<"memory", w>>}) =
          IF <<"memory", w>> \in M THEN Cardinality(M) - 1 ELSE Cardinality(M)
    BY <2>1, FS_RemoveElement
  <2>6. ~ memory_failed' => reported' = Cardinality(N)
    BY <1>9, <2>2, <2>3, <2>4, <2>5
  <2> QED BY <2>6 DEF N, GpuReportsBalance
<1>12. KeysOK'
  BY KeysFrame DEF platform_window_destroy, EngineInv, input_vars
<1> QED BY <1>1, <1>7, <1>10, <1>11, <1>12, NoFault DEF EngineInv, Closing

-----------------------------------------------------------------------------
(***************************************************************************)
(* The steps of main.                                                      *)
(***************************************************************************)
LEMMA InitiallyOK == Init => EngineInv
<1> SUFFICES ASSUME Init PROVE EngineInv
  OBVIOUS
<1>1. PlacesOK
  BY DEF Init, RendererInit, PlacesOK, Places, Before, After
<1>2. windows = <<>> /\ created = 0 /\ games = {} /\ pc = "initialize" /\ fault = no_fault
  BY DEF Init, PlatformInit
<1>3. WindowsOK
  <2>1. windows \in Seq(0 .. created)
    BY <1>2, EmptySeq
  <2>2. DOMAIN windows = {}
    BY <1>2
  <2> QED BY <1>2, <2>1, <2>2 DEF WindowsOK, Before
<1>4. objects = {} /\ orphaned = {} /\ reported = 0
  BY DEF Init, RendererInit
<1>5. ObjectsOK
  BY <1>2, <1>4, FS_EmptySet DEF ObjectsOK, After
<1>6. xqueue = <<>> /\ keys = [k \in Keys |-> FALSE]
  BY DEF Init, PlatformInit, InputInit
<1>7. KeysOK
  <2>1. xqueue \in Seq(AllEvents) /\ DOMAIN xqueue = {}
    BY <1>6, EmptySeq
  <2> QED BY <1>6, <2>1 DEF KeysOK, WillBeDown
<1>8. GpuReportsBalance
  <2>1. {o \in objects : o[1] = "memory"} = {}
    BY <1>4
  <2> QED BY <1>4, <2>1, FS_EmptySet DEF GpuReportsBalance
<1> QED BY <1>1, <1>2, <1>3, <1>5, <1>7, <1>8 DEF EngineInv, EngineSurvives, no_fault

\* What a death leaves is what there was.
LEMMA DiesStep ==
  ASSUME EngineInv, NEW cause, Dies(cause),
         cause \in {"freed_support", "support_overrun"} => pc = "update",
         cause = "null_backend" => games \cap Live # {},
         cause = "null_slot" => \E w \in 2 .. created : ~ Registered(w),
         cause = "no_device" => initialized /\ device = none
  PROVE  EngineInv'
<1>1. UNCHANGED <<input_vars, platform_vars, renderer_vars, pc, created, games>> /\ fault' = cause
  BY DEF Dies
<1>2. PlacesOK'
  BY <1>1 DEF EngineInv, PlacesOK, renderer_vars
<1>3. WindowsOK'
  BY <1>1 DEF EngineInv, WindowsOK, platform_vars, Registered
<1>4. ObjectsOK'
  BY <1>1 DEF EngineInv, ObjectsOK, platform_vars, renderer_vars, Registered, Live
<1>5. KeysOK'
  BY <1>1, KeysFrame DEF EngineInv, input_vars, platform_vars
<1>6. GpuReportsBalance'
  BY <1>1 DEF EngineInv, GpuReportsBalance, renderer_vars
<1>7. EngineSurvives'
  <2>1. cause = "no_device" =>
          \A i \in DOMAIN gpus : ~ physical_device_meets_requirements(gpus[i])
    BY NoDevice DEF EngineInv, PlacesOK
  <2>2. UNCHANGED <<pc, games, created, windows, gpus>>
    BY <1>1 DEF platform_vars, renderer_vars
  <2> QED BY <1>1, <2>1, <2>2 DEF EngineSurvives, Live, Registered
<1> QED BY <1>2, <1>3, <1>4, <1>5, <1>6, <1>7 DEF EngineInv

\* Main goes from one place to another, and nothing happens to windows and the
\* renderer's objects.
LEMMA GoesStep ==
  ASSUME EngineInv,
         UNCHANGED <<renderer_vars, windows, created, games>>,
         fault' = no_fault, KeysOK',
         \/ pc' = pc
         \/ pc = "initialize" /\ pc' \in {"renderer", "exit"}
         \/ pc \in {"game", "pump", "update"} /\ pc' \in {"pump", "update", "close_main", "exit"}
  PROVE  EngineInv'
<1>1. PlacesOK'
  BY DEF EngineInv, PlacesOK, renderer_vars, Places, Before, After
<1>2. WindowsOK'
  BY DEF EngineInv, WindowsOK, Registered, Before, After
<1>3. ObjectsOK'
  BY DEF EngineInv, ObjectsOK, renderer_vars, Registered, Live, After
<1>4. GpuReportsBalance'
  BY DEF EngineInv, GpuReportsBalance, renderer_vars
<1> QED BY <1>1, <1>2, <1>3, <1>4, NoFault DEF EngineInv

LEMMA InitializeSystemsStep == ASSUME EngineInv, InitializeSystems PROVE EngineInv'
<1>1. ASSUME NEW connected \in BOOLEAN,
             Goes(IF connected THEN "renderer" ELSE "exit"),
             UNCHANGED <<input_vars, platform_vars, renderer_vars>>
      PROVE  EngineInv'
  <2>1. KeysOK'
    BY <1>1, KeysFrame DEF EngineInv, input_vars, platform_vars
  <2> QED BY <1>1, <2>1, GoesStep DEF InitializeSystems, At, Goes, platform_vars
<1>2. CASE Dies("no_display")
  BY <1>2, DiesStep
<1>3. CASE Dies("no_screen")
  BY <1>3, DiesStep
<1> QED BY <1>1, <1>2, <1>3 DEF InitializeSystems

LEMMA InitializeRendererStep == ASSUME EngineInv, InitializeRenderer PROVE EngineInv'
<1>1. CASE renderer_system_initialize /\ Goes("main_window") /\ UNCHANGED <<input_vars, platform_vars>>
  <2>1. /\ pc = "renderer" /\ pc' = "main_window" /\ fault' = no_fault
        /\ UNCHANGED <<created, games, windows, keys, xqueue, held>>
    BY <1>1 DEF InitializeRenderer, At, Goes, input_vars, platform_vars
  <2>2. PlacesOK'
    BY <1>1, <2>1 DEF EngineInv, PlacesOK, renderer_system_initialize, Places, Before, After
  <2>3. WindowsOK'
    BY <2>1 DEF EngineInv, WindowsOK, Registered, Before, After
  <2> DEFINE more == {<<"instance", 0>>, <<"messenger", 0>>}
                       \cup (IF device' = none THEN {} ELSE {<<"device", 0>>, <<"pool", 0>>})
  <2>4. /\ objects' = objects \cup more
        /\ UNCHANGED <<reported, memory_failed, orphaned>>
    BY <1>1 DEF renderer_system_initialize
  <2>5. more \subseteq SystemObjects
    BY DEF SystemObjects
  <2>6. IsFiniteSet(SystemObjects)
    <3>1. SystemObjects = (((({} \cup {<<"pool", 0>>}) \cup {<<"device", 0>>})
                            \cup {<<"messenger", 0>>}) \cup {<<"instance", 0>>})
      BY DEF SystemObjects
    <3> QED BY <3>1, FS_EmptySet, FS_AddElement
  <2> HIDE DEF more
  <2>7. \A kind \in WindowKinds : \A w : <<kind, w>> \in objects' <=> <<kind, w>> \in objects
    BY <2>4, <2>5 DEF SystemObjects, WindowKinds
  <2>8. ObjectsOK'
    <3>1. IsFiniteSet(objects')
      BY <2>4, <2>5, <2>6, FS_Subset, FS_Union DEF EngineInv, ObjectsOK
    <3>2. \A w : /\ <<"memory", w>> \in objects' <=> <<"memory", w>> \in objects
                 /\ <<"image", w>> \in objects' <=> <<"image", w>> \in objects
      BY <2>7 DEF WindowKinds
    <3>3. pc' \notin After \cup {"stop_renderer"} /\ orphaned' = {}
      BY <2>1, <2>4 DEF EngineInv, ObjectsOK, After
    <3>4. \A o \in objects' :
            \/ o \in SystemObjects
            \/ o[1] = "xwindow" /\ o[2] \in games' \cup {main_window}
            \/ Registered(o[2])'
      BY <2>1, <2>4, <2>5 DEF EngineInv, ObjectsOK, Registered
    <3>5. objects' \subseteq SystemObjects \cup (WindowKinds \X (1 .. created'))
      BY <2>1, <2>4, <2>5 DEF EngineInv, ObjectsOK
    <3>6. ~ memory_failed' => \A w \in 1 .. created' : <<"memory", w>> \in objects' <=> <<"image", w>> \in objects'
      BY <2>1, <2>4, <3>2 DEF EngineInv, ObjectsOK
    <3>7. reported' \in Int
      BY <2>4 DEF EngineInv, ObjectsOK
    <3> QED BY <3>1, <3>3, <3>4, <3>5, <3>6, <3>7 DEF ObjectsOK
  <2>9. GpuReportsBalance'
    <3>1. {o \in objects' : o[1] = "memory"} = {o \in objects : o[1] = "memory"}
      BY <2>4, <2>5 DEF SystemObjects
    <3> QED BY <2>4, <3>1 DEF EngineInv, GpuReportsBalance
  <2>10. KeysOK'
    BY <2>1, KeysFrame DEF EngineInv
  <2> QED BY <2>1, <2>2, <2>3, <2>8, <2>9, <2>10, NoFault DEF EngineInv
<1>2. CASE Dies("assertion")
  BY <1>2, DiesStep
<1> QED BY <1>1, <1>2 DEF InitializeRenderer

\* Opening a window dies as DiesStep allows.
LEMMA OpeningDies ==
  ASSUME EngineInv, pc \in {"main_window", "update"},
         NEW failing, NEW formats \in Nat, NEW modes \in Nat,
         Dies(CreatedFault(failing, formats, modes))
  PROVE  EngineInv'
<1> DEFINE cause == CreatedFault(failing, formats, modes)
<1>1. initialized
  BY DEF EngineInv, PlacesOK, Places, After
<1>2. cause \in {"freed_support", "support_overrun"} => pc = "update"
  <2>1. CASE pc = "main_window"
    <3>1. support.freed = FALSE /\ support.formats = 0 /\ support.modes = 0
      BY <2>1 DEF EngineInv, PlacesOK, Before
    <3>2. SupportFault(formats, modes) \in {"no_formats", no_fault}
      BY <3>1 DEF SupportFault
    <3> QED BY <3>2, CreatedFaultIs DEF no_fault
  <2> QED BY <2>1
<1>3. cause # "null_backend" /\ cause # "null_slot" /\ (cause = "no_device" => device = none)
  BY CreatedFaultIs DEF no_fault
<1> HIDE DEF cause
<1>4. Dies(cause)
  BY DEF cause
<1> QED BY <1>1, <1>2, <1>3, <1>4, DiesStep

LEMMA FlushDies == ASSUME EngineInv, Dies(FlushFault) PROVE EngineInv'
<1>1. Dies("wrong_format")
  BY DEF FlushFault
<1> QED BY <1>1, DiesStep

LEMMA OpenMainWindowStep == ASSUME EngineInv, OpenMainWindow PROVE EngineInv'
<1>1. /\ pc = "main_window" /\ fault = no_fault /\ created = 0 /\ games = {}
      /\ main_window = created + 1 /\ main_window = 1
  <2>1. pc = "main_window" /\ fault = no_fault
    BY DEF OpenMainWindow, At
  <2>2. created = 0 /\ games \subseteq 2 .. created
    BY <2>1 DEF EngineInv, WindowsOK, Before
  <2>3. 2 .. 0 = {}
    OBVIOUS
  <2> QED BY <2>1, <2>2, <2>3 DEF main_window
<1>2. ASSUME WindowFails(main_window), pc' = "exit", UNCHANGED <<input_vars, is_running, games, fault>>
      PROVE  EngineInv'
  <2>1. Opening(main_window)
    BY <1>1, <1>2 DEF Opening, WindowFails
  <2> QED BY <1>2, <2>1, FailsStep DEF input_vars
<1>3. ASSUME NEW d \in Driver, WindowOpens(main_window, d.failing, d.formats, d.modes),
             pc' = "game", UNCHANGED <<input_vars, games, fault>>
      PROVE  EngineInv'
  <2>1. Opening(main_window)
    BY <1>1, <1>3 DEF Opening, WindowOpens
  <2> QED BY <1>3, <2>1, OpensStep DEF input_vars
<1>4. ASSUME NEW d \in Driver, Dies(CreatedFault(d.failing, d.formats, d.modes))
      PROVE  EngineInv'
  <2>1. d.formats \in Nat /\ d.modes \in Nat
    BY CountsAssumption DEF Driver
  <2> QED BY <1>1, <1>4, <2>1, OpeningDies
<1> QED BY <1>2, <1>3, <1>4, FlushDies DEF OpenMainWindow

LEMMA GameOpensStep == ASSUME EngineInv, GameOpens PROVE EngineInv'
<1> DEFINE w == created + 1
<1>1. /\ pc = "update" /\ fault = no_fault /\ created \in Nat /\ created < MaxWindows
      /\ games \subseteq 2 .. created /\ games \subseteq 1 .. MaxWindows
  BY DEF GameOpens, At, EngineInv, WindowsOK
<1>2. MaxWindows \in Nat
  BY PlatformAssumption
<1>3. ASSUME games' = games \cup {w}, created' = w, UNCHANGED <<pc, fault>>, created >= 1
      PROVE  Opening(w)
  BY <1>1, <1>2, <1>3 DEF Opening
<1>4. created >= 1
  BY <1>1 DEF EngineInv, WindowsOK, Before
<1>5. ASSUME WindowFails(w), games' = games \cup {w}, UNCHANGED <<input_vars, pc, is_running, fault>>
      PROVE  EngineInv'
  <2>1. Opening(w)
    BY <1>3, <1>4, <1>5 DEF WindowFails
  <2> QED BY <1>5, <2>1, FailsStep DEF input_vars
<1>6. ASSUME NEW d \in Driver, WindowOpens(w, d.failing, d.formats, d.modes),
             games' = games \cup {w}, UNCHANGED <<input_vars, pc, is_running, fault>>
      PROVE  EngineInv'
  <2>1. Opening(w)
    BY <1>3, <1>4, <1>6 DEF WindowOpens
  <2> QED BY <1>1, <1>6, <2>1, OpensStep DEF input_vars
<1>7. ASSUME NEW d \in Driver, Dies(CreatedFault(d.failing, d.formats, d.modes))
      PROVE  EngineInv'
  <2>1. d.formats \in Nat /\ d.modes \in Nat
    BY CountsAssumption DEF Driver
  <2> QED BY <1>1, <1>7, <2>1, OpeningDies
<1> QED BY <1>5, <1>6, <1>7, FlushDies DEF GameOpens

LEMMA InitializeGameStep == ASSUME EngineInv, InitializeGame PROVE EngineInv'
<1>1. KeysOK'
  BY KeysFrame DEF InitializeGame, EngineInv, input_vars, platform_vars
<1> QED BY <1>1, GoesStep DEF InitializeGame, At, Goes, platform_vars

LEMMA PumpKeyStep == ASSUME EngineInv, PumpKey PROVE EngineInv'
<1> DEFINE e == Head(xqueue)
<1>1. /\ xqueue # <<>> /\ xqueue' = Tail(xqueue) /\ held' = held /\ IsKeyEvent(e)
      /\ keys' = [keys EXCEPT ![translate_keycode(e.sym)] = Pressed(e)]
  BY DEF PumpKey, Pumps, Polled, Unpumped, input_process_key, IsKeyEvent
<1>2. KeysOK'
  BY <1>1, PolledKeys DEF EngineInv
<1> QED BY <1>2, GoesStep DEF PumpKey, Pumps, At, Unpumped

LEMMA PumpOtherStep ==
  ASSUME EngineInv, PumpButton \/ PumpMotion \/ PumpClose
  PROVE  EngineInv'
<1>1. /\ pc = "pump" /\ fault = no_fault /\ xqueue # <<>> /\ xqueue' = Tail(xqueue)
      /\ ~ IsKeyEvent(Head(xqueue))
      /\ UNCHANGED <<Unpumped, keys, renderer_vars, engine_vars>>
  <2>1. CASE PumpButton
    BY <2>1 DEF PumpButton, Pumps, At, Polled, IsKeyEvent, input_process_button, input_vars
  <2>2. CASE PumpMotion
    BY <2>2 DEF PumpMotion, Pumps, At, Polled, IsKeyEvent, input_process_mouse_move
  <2>3. CASE PumpClose
    BY <2>3 DEF PumpClose, Pumps, At, Polled, IsKeyEvent, input_vars
  <2> QED BY <2>1, <2>2, <2>3
<1>2. KeysOK'
  BY <1>1, PolledKeys DEF EngineInv, Unpumped
<1> QED BY <1>1, <1>2, GoesStep DEF Unpumped, engine_vars

LEMMA PumpConfigureStep == ASSUME EngineInv, PumpConfigure PROVE EngineInv'
<1> DEFINE e == Head(xqueue)
<1>1. pc = "pump" /\ fault = no_fault /\ xqueue # <<>> /\ ~ IsKeyEvent(e)
  BY DEF PumpConfigure, Pumps, At, IsKeyEvent
<1>2. CASE MeetsNullSlot(e.window) /\ Dies("null_slot")
  <2>1. PICK i \in DOMAIN windows : windows[i] = null
    BY <1>2 DEF MeetsNullSlot
  <2>2. \E w \in 2 .. created : ~ Registered(w)
    BY <1>1, <2>1 DEF EngineInv, WindowsOK, After
  <2> QED BY <1>2, <2>2, DiesStep
<1>3. CASE ~ (MeetsNullSlot(e.window) /\ Dies("null_slot"))
  <2>1. /\ xqueue' = Tail(xqueue) /\ pc' \in {"pump", "update"}
        /\ UNCHANGED <<Unpumped, keys, renderer_vars, created, games, fault>>
    BY <1>1, <1>3 DEF PumpConfigure, Polled, input_vars
  <2>2. KeysOK'
    BY <1>1, <2>1, PolledKeys DEF EngineInv, Unpumped
  <2> QED BY <1>1, <2>1, <2>2, GoesStep DEF Unpumped
<1> QED BY <1>2, <1>3

LEMMA PumpReturnsStep == ASSUME EngineInv, PumpReturns PROVE EngineInv'
<1>1. KeysOK'
  BY KeysFrame DEF PumpReturns, EngineInv, input_vars, Unpumped
<1> QED BY <1>1, GoesStep DEF PumpReturns, At, Unpumped

LEMMA GameUpdatesInputStep == ASSUME EngineInv, GameUpdatesInput PROVE EngineInv'
<1>1. KeysOK'
  BY KeysFrame DEF GameUpdatesInput, input_update, EngineInv, platform_vars
<1> QED BY <1>1, GoesStep DEF GameUpdatesInput, At, platform_vars, engine_vars

LEMMA GameReturnsStep == ASSUME EngineInv, GameReturns PROVE EngineInv'
<1>1. KeysOK'
  BY KeysFrame DEF GameReturns, EngineInv, input_vars, platform_vars
<1> QED BY <1>1, GoesStep DEF GameReturns, At, Goes, platform_vars

LEMMA UserActsStep == ASSUME EngineInv, UserActs PROVE EngineInv'
<1>1. PICK e \in XEvents : XSends(e)
  BY DEF UserActs
<1>2. e \in AllEvents
  <2>1. \A o \in objects : o[1] = "xwindow" => o[2] \in Nat
    BY DEF EngineInv, ObjectsOK, WindowsOK, SystemObjects
  <2> QED BY <2>1 DEF XEvents, AllEvents
<1>3. KeysOK'
  BY <1>1, <1>2, SentKeys DEF UserActs, EngineInv, input_vars
<1>4. UNCHANGED <<windows, renderer_vars, engine_vars>> /\ fault = no_fault
  BY <1>1 DEF UserActs, XSends
<1> QED BY <1>3, <1>4, GoesStep DEF engine_vars

\* Closing a window dies as DiesStep allows: the renderer is up.
LEMMA ClosingDies ==
  ASSUME EngineInv, pc \in {"update", "close_main"}, NEW w, Dies(WindowFault(w))
  PROVE  EngineInv'
<1>1. initialized
  BY DEF EngineInv, PlacesOK, Places, After
<1>2. WindowFault(w) \in {no_fault, "no_device"}
  BY <1>1 DEF WindowFault, DestroyedFault
<1>3. WindowFault(w) = "no_device" => device = none
  BY <1>1 DEF WindowFault, DestroyedFault, no_fault
<1> DEFINE cause == WindowFault(w)
<1>4. /\ cause \notin {"freed_support", "support_overrun", "null_backend", "null_slot"}
      /\ cause = "no_device" => initialized /\ device = none
  BY <1>1, <1>2, <1>3 DEF no_fault
<1>5. Dies(cause)
  OBVIOUS
<1> HIDE DEF cause
<1> QED BY <1>4, <1>5, DiesStep

LEMMA GameClosesStep == ASSUME EngineInv, GameCloses PROVE EngineInv'
<1>1. pc = "update" /\ fault = no_fault
  BY DEF GameCloses, At
<1>2. PICK w \in games :
        \/ /\ platform_window_destroy(w)
           /\ games' = games \ {w}
           /\ UNCHANGED <<pc, is_running, created, fault>>
        \/ Dies(WindowFault(w))
  BY DEF GameCloses
<1>3. CASE Dies(WindowFault(w))
  BY <1>1, <1>3, ClosingDies
<1>4. CASE ~ Dies(WindowFault(w))
  <2>1. Closing(w)
    BY <1>1, <1>2, <1>4 DEF Closing
  <2> QED BY <1>2, <1>4, <2>1, CloseStep
<1> QED BY <1>3, <1>4

LEMMA CloseMainWindowStep == ASSUME EngineInv, CloseMainWindow PROVE EngineInv'
<1>1. pc = "close_main" /\ fault = no_fault
  BY DEF CloseMainWindow, At
<1>2. CASE Dies(WindowFault(main_window))
  BY <1>1, <1>2, ClosingDies
<1>3. CASE ~ Dies(WindowFault(main_window))
  <2>1. platform_window_destroy(main_window) /\ Goes("stop_renderer")
    BY <1>3 DEF CloseMainWindow
  <2>2. Closing(main_window)
    BY <1>1, <2>1 DEF Closing, Goes
  <2> QED BY <2>1, <2>2, CloseStep
<1> QED BY <1>2, <1>3

LEMMA StopRendererStep == ASSUME EngineInv, StopRenderer PROVE EngineInv'
<1>1. pc = "stop_renderer" /\ fault = no_fault
  BY DEF StopRenderer, At
<1>2. CASE Dies(ShutdownFault)
  <2>1. initialized
    BY <1>1 DEF EngineInv, PlacesOK, Places, After
  <2>2. ShutdownFault = "no_device" /\ device = none
    BY <1>2 DEF ShutdownFault, Dies
  <2>3. Dies("no_device")
    BY <1>2, <2>2
  <2> QED BY <2>1, <2>2, <2>3, DiesStep
<1>3. CASE ~ Dies(ShutdownFault)
  <2>1. /\ renderer_system_shutdown /\ pc' = "stop_platform" /\ fault' = no_fault
        /\ UNCHANGED <<input_vars, platform_vars, created, games>>
    BY <1>1, <1>3 DEF StopRenderer, Goes
  <2>2. UNCHANGED <<windows, keys, xqueue, held>>
    BY <2>1 DEF input_vars, platform_vars
  <2>3. PlacesOK'
    BY <1>1, <2>1 DEF EngineInv, PlacesOK, renderer_system_shutdown, Places, Before, After
  <2>4. WindowsOK'
    BY <1>1, <2>1, <2>2 DEF EngineInv, WindowsOK, Before, After, Registered
  <2>5. objects \subseteq AllObjects /\ created \in Nat
    BY DEF EngineInv, ObjectsOK, WindowsOK, AllObjects
  <2>6. /\ objects' = objects \ SystemObjects
        /\ \A c \in orphaned' \ orphaned :
             c \in objects /\ c \notin SystemObjects /\ c[1] # "xwindow"
        /\ orphaned = {}
        /\ UNCHANGED <<reported, memory_failed>>
    <3>1. orphaned = {}
      BY <1>1 DEF EngineInv, ObjectsOK, After
    <3> QED BY <2>1, <2>5, <3>1, ShutdownFacts DEF renderer_system_shutdown
  <2>7. \A v : Registered(v) => v \in {null, main_window} \cup games
    BY DEF EngineInv, WindowsOK, Registered
  <2>8. ASSUME NEW c \in objects, c \notin SystemObjects, c[1] # "xwindow"
        PROVE  c[2] \in games \cap Live
    <3>1. Registered(c[2]) /\ c[2] \in 1 .. created
      BY <2>8 DEF EngineInv, ObjectsOK
    <3>2. ~ Registered(main_window)
      BY <1>1 DEF EngineInv, ObjectsOK
    <3>3. c[2] # null
      BY <2>5, <3>1 DEF null
    <3>4. c[2] \in games
      BY <2>7, <3>1, <3>2, <3>3
    <3>5. c[2] \in 1 .. MaxWindows
      BY <3>4 DEF EngineInv, WindowsOK
    <3> QED BY <3>1, <3>4, <3>5 DEF Live
  <2>9. ObjectsOK'
    <3>1. IsFiniteSet(objects')
      BY <2>6, FS_Subset DEF EngineInv, ObjectsOK
    <3>2. objects' \subseteq SystemObjects \cup (WindowKinds \X (1 .. created'))
      BY <2>1, <2>6 DEF EngineInv, ObjectsOK
    <3>3. objects' \cap SystemObjects = {}
      BY <2>6
    <3>4. \A o \in objects' :
            \/ o \in SystemObjects
            \/ o[1] = "xwindow" /\ o[2] \in games' \cup {main_window}
            \/ Registered(o[2])'
      BY <2>1, <2>2, <2>6 DEF EngineInv, ObjectsOK, Registered
    <3>5. ~ Registered(main_window)' /\ <<"xwindow", main_window>> \notin objects'
      BY <1>1, <2>2, <2>6 DEF EngineInv, ObjectsOK, Registered
    <3>6. orphaned' # {} => pc' \in After /\ games' \cap Live' # {}
      <4>1. Live' = Live /\ games' = games /\ pc' \in After
        BY <2>1, <2>2 DEF Live, Registered, After
      <4> QED BY <2>6, <2>8, <4>1
    <3>7. \A v : /\ <<"memory", v>> \in objects' <=> <<"memory", v>> \in objects
                 /\ <<"image", v>> \in objects' <=> <<"image", v>> \in objects
      BY <2>6 DEF SystemObjects
    <3>8. ~ memory_failed' => \A v \in 1 .. created' : <<"memory", v>> \in objects' <=> <<"image", v>> \in objects'
      BY <2>1, <2>6, <3>7 DEF EngineInv, ObjectsOK
    <3>9. reported' \in Int
      BY <2>6 DEF EngineInv, ObjectsOK
    <3> QED BY <3>1, <3>2, <3>3, <3>4, <3>5, <3>6, <3>8, <3>9 DEF ObjectsOK
  <2>10. GpuReportsBalance'
    <3>1. {o \in objects' : o[1] = "memory"} = {o \in objects : o[1] = "memory"}
      BY <2>6 DEF SystemObjects
    <3> QED BY <2>6, <3>1 DEF EngineInv, GpuReportsBalance
  <2>11. KeysOK'
    BY <2>2, KeysFrame DEF EngineInv
  <2> QED BY <2>1, <2>3, <2>4, <2>9, <2>10, <2>11, NoFault DEF EngineInv
<1> QED BY <1>2, <1>3

LEMMA StopPlatformStep == ASSUME EngineInv, StopPlatform PROVE EngineInv'
<1>1. pc = "stop_platform" /\ fault = no_fault /\ pc \in After
  BY DEF StopPlatform, At, After
<1>2. CASE Live # {} /\ Dies(DestroyedFault(Min(Live)))
  <2>1. ~ initialized
    BY <1>1 DEF EngineInv, PlacesOK
  <2>2. Dies("null_backend")
    BY <1>2, <2>1 DEF DestroyedFault
  <2>3. ASSUME NEW v \in Live PROVE v \in games
    <3>1. Registered(v) /\ v # null /\ v # main_window
      BY <1>1, <2>3 DEF Live, null, EngineInv, ObjectsOK
    <3> QED BY <3>1 DEF EngineInv, WindowsOK, Registered
  <2>4. games \cap Live # {}
    BY <1>2, <2>3
  <2> QED BY <2>2, <2>4, DiesStep
<1>3. CASE ~ (Live # {} /\ Dies(DestroyedFault(Min(Live))))
  <2>1. /\ Live = {} /\ windows' = <<>> /\ pc' = "ended" /\ fault' = no_fault
        /\ UNCHANGED <<keys, xqueue, held, renderer_vars, created, games>>
    BY <1>1, <1>3 DEF StopPlatform, Goes, input_vars
  <2>2. PlacesOK'
    BY <1>1, <2>1 DEF EngineInv, PlacesOK, renderer_vars, Places, Before, After
  <2>3. WindowsOK'
    <3>1. windows' \in Seq(0 .. created') /\ DOMAIN windows' = {}
      BY <2>1, EmptySeq
    <3>2. pc' \notin Before /\ pc \notin Before \cup {"exit"}
      BY <1>1, <2>1 DEF Before
    <3>3. /\ created' \in Nat /\ created' >= 1
          /\ games' \subseteq 2 .. created' /\ games' \subseteq 1 .. MaxWindows
      BY <2>1, <3>2 DEF EngineInv, WindowsOK
    <3> QED BY <2>1, <3>1, <3>2, <3>3 DEF WindowsOK
  <2>4. \A v : ~ Registered(v)'
    BY <2>1 DEF Registered
  <2>5. ASSUME NEW o \in objects', o \notin SystemObjects
        PROVE  o[1] = "xwindow" /\ o[2] \in games' \cup {main_window}
    <3>1. o \in objects
      BY <2>1 DEF renderer_vars
    <3>2. o[2] \in 1 .. created /\ created \in Nat
      BY <2>5, <3>1 DEF EngineInv, ObjectsOK, WindowsOK
    <3>3. ASSUME Registered(o[2]) PROVE FALSE
      <4>1. o[2] # null /\ o[2] # main_window
        BY <1>1, <3>2, <3>3 DEF EngineInv, ObjectsOK, null
      <4>2. o[2] \in games
        BY <3>3, <4>1 DEF EngineInv, WindowsOK, Registered
      <4>3. o[2] \in Live
        BY <3>3, <4>2 DEF Live, EngineInv, WindowsOK
      <4> QED BY <2>1, <4>3
    <3> QED BY <2>1, <2>5, <3>1, <3>3 DEF EngineInv, ObjectsOK
  <2>6. ObjectsOK'
    <3>1. UNCHANGED <<objects, orphaned, reported, memory_failed>> /\ pc' \in After
      BY <2>1 DEF renderer_vars, After
    <3>2. orphaned' = {}
      BY <2>1, <3>1 DEF EngineInv, ObjectsOK
    <3>3. /\ IsFiniteSet(objects')
          /\ objects' \subseteq SystemObjects \cup (WindowKinds \X (1 .. created'))
          /\ objects' \cap SystemObjects = {}
          /\ <<"xwindow", main_window>> \notin objects'
          /\ reported' \in Int
      BY <1>1, <2>1, <3>1 DEF EngineInv, ObjectsOK
    <3>4. ~ memory_failed' => \A v \in 1 .. created' : <<"memory", v>> \in objects' <=> <<"image", v>> \in objects'
      BY <2>1, <3>1 DEF EngineInv, ObjectsOK
    <3> QED BY <2>4, <2>5, <3>1, <3>2, <3>3, <3>4 DEF ObjectsOK
  <2>7. GpuReportsBalance'
    BY <2>1 DEF EngineInv, GpuReportsBalance, renderer_vars
  <2>8. KeysOK'
    BY <2>1, KeysFrame DEF EngineInv
  <2> QED BY <2>1, <2>2, <2>3, <2>6, <2>7, <2>8, NoFault DEF EngineInv
<1> QED BY <1>2, <1>3

LEMMA EngineStutters == ASSUME EngineInv, UNCHANGED vars PROVE EngineInv'
<1>1. UNCHANGED <<input_vars, platform_vars, renderer_vars, engine_vars>>
  BY DEF vars
<1>2. UNCHANGED <<keys, windows, xqueue, held, renderer_vars, pc, created, games, fault>>
  BY <1>1 DEF input_vars, platform_vars, engine_vars
<1>3. PlacesOK'
  BY <1>2 DEF EngineInv, PlacesOK, renderer_vars
<1>4. WindowsOK'
  BY <1>2 DEF EngineInv, WindowsOK, Registered
<1>5. ObjectsOK'
  BY <1>2 DEF EngineInv, ObjectsOK, renderer_vars, Registered, Live
<1>6. KeysOK'
  BY <1>2, KeysFrame DEF EngineInv
<1>7. EngineSurvives'
  BY <1>2 DEF EngineInv, EngineSurvives, Live, Registered, renderer_vars
<1>8. GpuReportsBalance'
  BY <1>2 DEF EngineInv, GpuReportsBalance, renderer_vars
<1> QED BY <1>3, <1>4, <1>5, <1>6, <1>7, <1>8 DEF EngineInv

LEMMA EngineStep == EngineInv /\ [Next]_vars => EngineInv'
<1> SUFFICES ASSUME EngineInv, [Next]_vars PROVE EngineInv'
  OBVIOUS
<1>1. CASE Steps
  <2>1. CASE InitializeSystems BY <2>1, InitializeSystemsStep
  <2>2. CASE InitializeRenderer BY <2>2, InitializeRendererStep
  <2>3. CASE OpenMainWindow BY <2>3, OpenMainWindowStep
  <2>4. CASE InitializeGame BY <2>4, InitializeGameStep
  <2>5. CASE PumpKey BY <2>5, PumpKeyStep
  <2>6. CASE PumpButton \/ PumpMotion \/ PumpClose BY <2>6, PumpOtherStep
  <2>7. CASE PumpConfigure BY <2>7, PumpConfigureStep
  <2>8. CASE PumpReturns BY <2>8, PumpReturnsStep
  <2>9. CASE GameReturns BY <2>9, GameReturnsStep
  <2>10. CASE CloseMainWindow BY <2>10, CloseMainWindowStep
  <2>11. CASE StopRenderer BY <2>11, StopRendererStep
  <2>12. CASE StopPlatform BY <2>12, StopPlatformStep
  <2> QED BY <1>1, <2>1, <2>2, <2>3, <2>4, <2>5, <2>6, <2>7, <2>8, <2>9, <2>10, <2>11, <2>12
          DEF Steps, Pump
<1>2. CASE GameOpens BY <1>2, GameOpensStep
<1>3. CASE GameCloses BY <1>3, GameClosesStep
<1>4. CASE GameUpdatesInput BY <1>4, GameUpdatesInputStep
<1>5. CASE UserActs BY <1>5, UserActsStep
<1>6. CASE UNCHANGED vars BY <1>6, EngineStutters
<1> QED BY <1>1, <1>2, <1>3, <1>4, <1>5, <1>6 DEF Next

-----------------------------------------------------------------------------
(***************************************************************************)
(* What follows for any machine, driver, game and keyboard.                *)
(***************************************************************************)
(***************************************************************************)
(* EngineInv holds from main's first call to its last.                     *)
(***************************************************************************)
THEOREM EngineInvariant == Spec => []EngineInv
<1>1. Init => EngineInv
  BY InitiallyOK
<1>2. EngineInv /\ [Next]_vars => EngineInv'
  BY EngineStep
<1> QED BY <1>1, <1>2, PTL DEF Spec

(***************************************************************************)
(* Whatever devices the machine has, whatever calls fail and whatever      *)
(* windows the game opens and closes, the engine meets freed or too small  *)
(* arrays of formats only with a second window, a missing renderer only    *)
(* with a window of the game left open, and a null slot only after one was *)
(* lost; without device objects it goes on only if no device would do.     *)
(***************************************************************************)
THEOREM SurvivesWithOneWindow == Spec => []EngineSurvives
<1>1. EngineInv => EngineSurvives
  BY DEF EngineInv
<1> QED BY <1>1, EngineInvariant, PTL

(***************************************************************************)
(* Objects of the driver and of the X server are destroyed before those    *)
(* they were made from, and all of them are by the end, unless the game    *)
(* keeps a window.                                                         *)
(***************************************************************************)
THEOREM TeardownIsOrdered == Spec => []OrderedTeardown
<1>1. EngineInv => OrderedTeardown
  <2> SUFFICES ASSUME EngineInv PROVE OrderedTeardown
    OBVIOUS
  <2>1. ASSUME pc = "ended", NEW o \in objects PROVE o[1] = "xwindow" /\ o[2] \in games
    <3>1. o \notin SystemObjects /\ <<"xwindow", main_window>> \notin objects
      BY <2>1 DEF EngineInv, ObjectsOK, After
    <3>2. o = <<o[1], o[2]>>
      BY <3>1 DEF EngineInv, ObjectsOK
    <3>3. ~ Registered(o[2])
      BY <2>1 DEF EngineInv, WindowsOK, Registered
    <3>4. o[1] = "xwindow" /\ o[2] \in games \cup {main_window}
      BY <3>1, <3>3 DEF EngineInv, ObjectsOK
    <3> QED BY <3>1, <3>2, <3>4
  <2> QED BY <2>1 DEF EngineInv, ObjectsOK, OrderedTeardown
<1> QED BY <1>1, EngineInvariant, PTL

(***************************************************************************)
(* However many depth images are made and destroyed, what is reported of   *)
(* them, in bytes, is the number that have memory, if none was refused it. *)
(***************************************************************************)
THEOREM GpuReportsAreRight == Spec => []GpuReportsBalance
<1>1. EngineInv => GpuReportsBalance
  BY DEF EngineInv
<1> QED BY <1>1, EngineInvariant, PTL

(***************************************************************************)
(* Whatever is pressed and released, in whatever order, by the user and by *)
(* other clients, and however many symbols share a key: with no event left *)
(* a key that is down has a symbol that is held, by the events delivered.  *)
(***************************************************************************)
THEOREM NoKeyStuckDown == Spec => []DownKeysAreHeld
<1>1. EngineInv => DownKeysAreHeld
  <2> SUFFICES ASSUME EngineInv, xqueue = <<>>, NEW k \in Keys, input_is_key_down(k)
               PROVE  \E sym \in held : translate_keycode(sym) = k
    BY DEF DownKeysAreHeld
  <2>1. WillBeDown(k)
    BY DEF WillBeDown, input_is_key_down
  <2> QED BY <2>1 DEF EngineInv, KeysOK
<1> QED BY <1>1, EngineInvariant, PTL
=============================================================================
