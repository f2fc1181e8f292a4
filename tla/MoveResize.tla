----------------------------- MODULE MoveResize -----------------------------
(***************************************************************************)
(* The region mirror.  A form shows a rectangle the user drags with the    *)
(* mouse and sends it as a datagram of four numbers (WindowsFormsApp1,      *)
(* Form1.cs).  WinAppMoveResize receives it in a worker thread, which      *)
(* hands it to its window (WM_MR_RECEIVE_MSG), and places a window of      *)
(* another program there; the timer of that window chooses which, and      *)
(* tries to bring it to full screen by F11.                                *)
(*                                                                         *)
(* A rectangle has two axes, each with its first and second edge (left and *)
(* right, top and bottom), because the code treats both alike.              *)
(***************************************************************************)
EXTENDS Integers, FiniteSets

CONSTANTS
  Plain,      \* windows that do nothing on F11
  Browser,    \* windows that go to full screen on F11, and back
  Form,       \* the sender's window, with the caption "Form1"
  None,
  MinSize,    \* of each window, on each axis: what it refuses to be smaller than
  Screen,     \* the rectangle of the monitor
  Base,       \* 256 in the code: values of a byte
  Region,     \* the rectangle of the form at its start: corner and size
  Gap,        \* bound: how far the mouse may be dragged, on each axis
  Grip,       \* bound: the parts of the rectangle it may be dragged by
  MaxMoves,   \* bound: moves of the mouse, most of which send a datagram
  MaxNet,     \* bound: datagrams on their way
  MaxCopies,  \* bound: datagrams that arrive twice
  MaxKeys     \* what the message queue of a window holds (10000 in Windows)

Window == Plain \cup Browser
Axis == {"x", "y"}
Rect == [Axis -> Int \X Int]
Size(e) == e[2] - e[1]

ASSUME WindowAssumption ==
  /\ Plain \cap Browser = {} /\ Form \notin Window /\ None \notin Window \cup {Form}
  /\ MinSize \in [Window -> [Axis -> Nat]]
(* A window that fills the monitor is as large as it has to be.             *)
ASSUME ScreenAssumption ==
  Screen \in Rect /\ \A w \in Browser, a \in Axis : Size(Screen[a]) >= MinSize[w][a]
ASSUME RegionAssumption == Region \in Rect /\ None \notin Rect
ASSUME BoundsAssumption == MaxMoves \in Nat /\ Gap \in [Axis -> SUBSET Int] /\ Base \in Nat /\ Base > 1
ASSUME QueueAssumption == MaxKeys \in Nat \ {0}

Zero == [a \in Axis |-> <<0, 0>>]

(* mouseMovePart: on one axis the first edge or the second follows, or both *)
(* edges do on both.                                                       *)
MB_NULL == [a \in Axis |-> "none"]
MB_MID == [a \in Axis |-> "both"]
MouseClickPart ==
  {MB_NULL, MB_MID} \cup {[MB_NULL EXCEPT ![a] = e] : a \in Axis, e \in {"first", "second"}}

ASSUME GripAssumption == Grip \subseteq MouseClickPart \ {MB_NULL}

VARIABLES
  (* the form *)
  region,     \* rcAppRegion: corner and size on each axis
  clicked,    \* rcMouseClicked
  part,       \* mouseMovePart: what follows the mouse on each axis
  connected,  \* its socket exists
  moves,
  net,        \* datagrams on their way
  copies,     \* how many arrived and will again
  (* the mirror *)
  target, found,           \* hStaticTarget, hStaticFound
  min,                     \* mincx, mincy
  oldMRRect, oldViewRect,
  now,                     \* the rectangle its handler is busy with
  (* the windows *)
  rect, fullMode, normal, keys,
  (* history *)
  last,       \* the last rectangle the target was to take, after the first it took
  jumps       \* how often an edge moved that was not dragged, on each axis

form == <<region, clicked, part, connected, moves>>
mirror == <<target, found, min, oldMRRect, oldViewRect, now>>
windows == <<rect, fullMode, normal, keys>>
history == <<last, jumps>>
vars == <<form, net, copies, mirror, windows, history>>

-----------------------------------------------------------------------------
(* A datagram: corner and size, four bytes each, the most significant first. *)

Word == Base * Base
Bytes(v) ==
  <<(v \div (Word * Base)) % Base, (v \div Word) % Base, (v \div Base) % Base, v % Base>>

(* MAKELONG and MAKEWORD, as an int. *)
Number(b) ==
  LET u == b[1] * (Word * Base) + b[2] * Word + b[3] * Base + b[4]
  IN IF 2 * u >= Word * Word THEN u - Word * Word ELSE u

Pack(r) == [a \in Axis |-> <<Bytes(r[a][1]), Bytes(r[a][2])>>]

(* Form and window differ in scale: three to one. *)
Unpack(m) ==
  [a \in Axis |-> LET c == 3 * Number(m[a][1])
                      s == 3 * Number(m[a][2])
                  IN <<c, c + s>>]

Init ==
  /\ region = Region /\ clicked = Region /\ part = MB_NULL /\ connected = FALSE /\ moves = 0
  /\ net = {} /\ copies = 0
  /\ target = None /\ found = None /\ min = [a \in Axis |-> 0]
  /\ oldMRRect = Zero /\ oldViewRect = Zero /\ now = None
  /\ rect = [w \in Window |-> [a \in Axis |-> <<0, MinSize[w][a]>>]]
  /\ fullMode = {} /\ normal = rect /\ keys = [w \in Browser |-> 0]
  /\ last = None /\ jumps = [a \in Axis |-> 0]

-----------------------------------------------------------------------------
(* The form.                                                               *)

SetIP ==
  /\ ~connected /\ connected' = TRUE
  /\ UNCHANGED <<region, clicked, part, moves, net, copies, mirror, windows, history>>

(* The mouse is moved over a part of the rectangle, and a button pressed.   *)
MouseDown(p) ==
  /\ moves < MaxMoves
  /\ part' = p /\ clicked' = region
  /\ UNCHANGED <<region, connected, moves, net, copies, mirror, windows, history>>

(* The rectangle after the mouse went g away from where it was pressed.     *)
Dragged(g) ==
  [a \in Axis |->
     CASE part[a] = "first"  -> <<clicked[a][1] + g[a], clicked[a][2] - g[a]>>
       [] part[a] = "second" -> <<region[a][1], clicked[a][2] + g[a]>>
       [] part[a] = "both"   -> <<clicked[a][1] + g[a], region[a][2]>>
       [] part[a] = "none"   -> region[a]]

(* A datagram that finds no room is lost, and so may be any other.          *)
Send(m) ==
  \/ net' = net \cup {m} /\ Cardinality(net') <= MaxNet
  \/ UNCHANGED net

MouseMove(g) ==
  /\ part # MB_NULL
  /\ \A a \in Axis : Dragged(g)[a][2] > 0
  /\ region' = Dragged(g)
  /\ moves < MaxMoves /\ moves' = moves + 1
  /\ IF connected THEN Send(Pack(region')) ELSE UNCHANGED net
  /\ UNCHANGED <<copies, clicked, part, connected, mirror, windows, history>>

FormStep ==
  \/ SetIP
  \/ \E p \in Grip : MouseDown(p)
  \/ \E gx \in Gap["x"], gy \in Gap["y"] : MouseMove([a \in Axis |-> IF a = "x" THEN gx ELSE gy])

-----------------------------------------------------------------------------
(* WM_MR_RECEIVE_MSG.                                                      *)

(* The edge that was dragged on an axis: the only one that differs.         *)
PartOf(old, new) ==
  CASE old[1] # new[1] /\ old[2] = new[2] -> 1
    [] old[1] = new[1] /\ old[2] # new[2] -> 2
    [] OTHER -> 0

(* Mutant of the next: the other edge gives way. *)
FitOther(p, e, m) ==
  CASE p = 2 /\ Size(e) < m -> <<e[2] - m, e[2]>>
    [] p = 1 /\ Size(e) < m -> <<e[1], e[1] + m>>
    [] OTHER -> e

(* It gives way when the window cannot be as small. *)
Fit(p, e, m) ==
  CASE p = 1 /\ Size(e) < m -> <<e[2] - m, e[2]>>
    [] p = 2 /\ Size(e) < m -> <<e[1], e[1] + m>>
    [] OTHER -> e

View(r) == [a \in Axis |-> Fit(PartOf(oldMRRect[a], r[a]), r[a], min[a])]

(* What SetWindowPos makes of it: the window keeps its minimum, and the     *)
(* corner it is put at.                                                    *)
Placed(w, v) ==
  [a \in Axis |-> IF Size(v[a]) < MinSize[w][a] THEN <<v[a][1], v[a][1] + MinSize[w][a]>> ELSE v[a]]

Moved(p, e, f) == (p = 1 /\ e[2] # f[2]) \/ (p = 2 /\ e[1] # f[1])

(* Whichever arrives first; it may arrive again. *)
Received(m) == /\ m \in net /\ now = None
               /\ \/ net' = net \ {m} /\ copies' = copies
                  \/ copies < MaxCopies /\ copies' = copies + 1 /\ net' = net

Ignore(m) ==
  /\ Received(m)
  /\ target = None \/ Unpack(m) = oldMRRect
  /\ UNCHANGED <<form, mirror, windows, history>>

Place(m) ==
  LET r == Unpack(m)
      v == View(r)
      f == Placed(target, v)
  IN /\ Received(m)
     /\ target # None /\ r # oldMRRect /\ v # oldViewRect
     /\ rect' = [rect EXCEPT ![target] = f]
     /\ oldViewRect' = v /\ now' = r
     /\ last' = r
     /\ jumps' = [a \in Axis |->
                    jumps[a] + IF Moved(PartOf(oldMRRect[a], r[a]), r[a], f[a]) THEN 1 ELSE 0]
     /\ UNCHANGED <<form, target, found, min, oldMRRect, fullMode, normal, keys>>

SameView(m) ==
  LET r == Unpack(m)
  IN /\ Received(m)
     /\ target # None /\ r # oldMRRect /\ View(r) = oldViewRect
     /\ oldMRRect' = r /\ last' = (IF last = None THEN None ELSE r)
     /\ UNCHANGED <<form, target, found, min, oldViewRect, now, windows, jumps>>

(* Mutant of the next: a window of the size asked for teaches, too. *)
LearntAlways(a) == Size(rect[target][a])

Learnt(a) ==
  IF Size(rect[target][a]) > Size(oldViewRect[a]) THEN Size(rect[target][a]) ELSE min[a]

(* GetWindowRect, after the window has had time for what else it has to do. *)
Learn ==
  /\ now # None
  /\ min' = [a \in Axis |-> Learnt(a)]
  /\ oldMRRect' = now /\ now' = None
  /\ UNCHANGED <<form, net, copies, target, found, oldViewRect, windows, history>>

-----------------------------------------------------------------------------
(* WM_TIMER.                                                               *)

(* Mutant of the next: it is taken to be once it was asked to. *)
IsFullScreenAsked(w) == w \in fullMode
IsFullScreen(w) == rect[w] = Screen

(* F11 is posted with every message of the timer until the window is seen at *)
(* full screen, whether it has handled the last one or not; a full queue     *)
(* refuses it, and nobody looks.                                           *)
PressF11 ==
  keys' = [w \in Browser |->
             IF w = target /\ ~IsFullScreen(w) /\ keys[w] < MaxKeys THEN keys[w] + 1 ELSE keys[w]]

(* Mutant of the next: what is known of the last window stays. *)
MinOfKept == min
MinOfNew == [a \in Axis |-> 0]

(* The window under the mouse, while Ctrl is down. *)
Choose(w) ==
  IF w # found /\ w # Form
    THEN target' = w /\ min' = MinOfNew /\ last' = None /\ jumps' = [a \in Axis |-> 0]
    ELSE UNCHANGED <<target, min, last, jumps>>

Timer ==
  /\ now = None
  /\ PressF11
  /\ \/ UNCHANGED <<target, found, min, history>>
     \/ \E w \in Window \cup {Form} : Choose(w) /\ found' = w
  /\ UNCHANGED <<form, net, copies, oldMRRect, oldViewRect, now, rect, fullMode, normal>>

(* The window. *)
HandleF11(w) ==
  /\ keys[w] > 0 /\ keys' = [keys EXCEPT ![w] = @ - 1]
  /\ IF w \in fullMode
       THEN fullMode' = fullMode \ {w} /\ rect' = [rect EXCEPT ![w] = normal[w]] /\ UNCHANGED normal
       ELSE /\ fullMode' = fullMode \cup {w} /\ rect' = [rect EXCEPT ![w] = Screen]
            /\ normal' = [normal EXCEPT ![w] = rect[w]]
  /\ UNCHANGED <<form, net, copies, mirror, history>>

Next ==
  \/ FormStep
  \/ \E m \in net : Ignore(m) \/ Place(m) \/ SameView(m)
  \/ Learn \/ Timer
  \/ \E w \in Browser : HandleF11(w)

Spec == Init /\ [][Next]_vars

(* The message loop runs, and the windows answer, however late. *)
FairSpec == Spec /\ WF_vars(Timer) /\ WF_vars(Learn) /\ \A w \in Browser : WF_vars(HandleF11(w))

-----------------------------------------------------------------------------
(* Properties.                                                             *)

(* What the mirror takes for the smallest size of a window is just that,    *)
(* or not known yet.  Not so of a window that answers F11: if it goes to    *)
(* full screen after SetWindowPos and before GetWindowRect, the size of     *)
(* the screen is learnt.                                                   *)
LearntIsTrue ==
  target \in Plain => \A a \in Axis : min[a] \in {0, MinSize[target][a]}

(* A window too large for its rectangle is to grow on the side of the edge  *)
(* that is dragged.  Until its size is known it grows on the other; that    *)
(* happens once for a window and an axis, however datagrams are lost,      *)
(* repeated or reordered.                                                  *)
OneJump == \A a \in Axis : jumps[a] <= 1

(* The window is where the last datagram wants it, if it can be as small,   *)
(* although requests that look like the one before are not passed on: once  *)
(* the first has been.  oldMRRect and oldViewRect survive a change of the   *)
(* target, so the first may be taken for what the last window was asked.    *)
ShowsLast ==
  target \in Plain /\ now = None /\ last # None =>
    \A a \in Axis : Size(last[a]) >= MinSize[target][a] => rect[target][a] = last[a]

(* A window that answers F11 gets to full screen again and again, however    *)
(* slow it is and wherever the datagrams put it meanwhile, although the key  *)
(* that brings it there also takes it away and is posted blindly.  It stays  *)
(* there if from some time on it handles each F11 before the next message of *)
(* the timer.  One that is slower may toggle for ever: it is seen out of     *)
(* full screen with a key under way, and gets another.                      *)
Prompt(w) == keys[w] <= 1
FullScreenReached ==
  \A w \in Browser :
    /\ <>[](target = w) => []<>(rect[w] = Screen)
    /\ <>[](target = w /\ Prompt(w)) => <>[](rect[w] = Screen)
=============================================================================
