-------------------------- MODULE MoveResizeProofs --------------------------
(***************************************************************************)
(* The three safety properties of the mirror, for every set of windows,     *)
(* sizes, screens and drags, whatever datagrams are lost, repeated or       *)
(* reordered.                                                              *)
(*                                                                         *)
(* All of them are about what the handler of WM_MR_RECEIVE_MSG remembers     *)
(* from one datagram to the next, and about the moment between SetWindowPos *)
(* and GetWindowRect, when it waits and the window may do something else.    *)
(***************************************************************************)
EXTENDS MoveResize, TLAPS

Datagram == {Pack(r) : r \in Rect}

(* The types of what the properties depend on.  Every window keeps its least *)
(* size, in full screen and out of it.                                      *)
TypeOK ==
  /\ region \in Rect /\ clicked \in Rect
  /\ part \in [Axis -> {"first", "second", "both", "none"}]
  /\ net \subseteq Datagram
  /\ target \in Window \cup {None}
  /\ min \in [Axis -> Int]
  /\ oldMRRect \in Rect /\ oldViewRect \in Rect
  /\ now \in Rect \cup {None} /\ (now # None => target \in Window)
  /\ rect \in [Window -> Rect] /\ normal \in [Window -> Rect]
  /\ fullMode \subseteq Browser
  /\ last \in Rect \cup {None}
  /\ jumps \in [Axis -> Nat]

(* No window is smaller than it can be.                                     *)
KeepsSize(r) == \A w \in Window, a \in Axis : Size(r[w][a]) >= MinSize[w][a]
SizesOK == KeepsSize(rect) /\ KeepsSize(normal)

(* While the handler waits, a plain window is where SetWindowPos put it.      *)
Waiting == now # None /\ target \in Plain => rect[target] = Placed(target, oldViewRect)

(* After a jump the handler knows how large the window is, or is about to    *)
(* ask for it.                                                             *)
Knows(a) == min[a] >= MinSize[target][a]
AboutToKnow(a) == now # None /\ Size(oldViewRect[a]) < MinSize[target][a]
JumpKnown ==
  \A a \in Axis :
    /\ jumps[a] <= 1
    /\ jumps[a] = 1 => target \in Window /\ (Knows(a) \/ AboutToKnow(a))

(* Once a rectangle of this target has been passed on, the one remembered   *)
(* is what the window was asked for, on each axis where it can be as small. *)
Follows ==
  target \in Plain /\ last # None =>
    /\ last = IF now # None THEN now ELSE oldMRRect
    /\ rect[target] = Placed(target, oldViewRect)
    /\ \A a \in Axis : Size(last[a]) >= MinSize[target][a] => oldViewRect[a] = last[a]

MirrorInv == SizesOK /\ Waiting /\ LearntIsTrue /\ JumpKnown /\ Follows

-----------------------------------------------------------------------------
(* A datagram holds a rectangle.                                            *)
LEMMA WordType == Word \in Nat /\ Word > 0 /\ Word * Base \in Nat /\ Word * Base > 0 /\ Word * Word \in Nat
<1>1. Word \in Nat /\ Word > 0 BY BoundsAssumption DEF Word
<1>2. \A p, q \in Nat : p > 0 /\ q > 0 => p * q \in Nat /\ p * q > 0 OBVIOUS
<1> QED BY <1>1, <1>2, BoundsAssumption

LEMMA NumberType == \A v \in Int : Number(Bytes(v)) \in Int
<1> SUFFICES ASSUME NEW v \in Int PROVE Number(Bytes(v)) \in Int
  OBVIOUS
<1> DEFINE b == Bytes(v)
<1>1. \A p, q \in Int : q > 0 => p \div q \in Int /\ p % q \in Int OBVIOUS
<1>2. b[1] \in Int /\ b[2] \in Int /\ b[3] \in Int /\ b[4] \in Int
  BY <1>1, WordType, BoundsAssumption DEF Bytes
<1> HIDE DEF b
<1>3. \A p, q \in Int : p * q \in Int OBVIOUS
<1> DEFINE u == b[1] * (Word * Base) + b[2] * Word + b[3] * Base + b[4]
<1>4. u \in Int
  <2>1. b[1] * (Word * Base) \in Int /\ b[2] * Word \in Int /\ b[3] * Base \in Int
    BY <1>2, <1>3, WordType, BoundsAssumption
  <2> QED BY <2>1, <1>2
<1>5. Number(b) = IF 2 * u >= Word * Word THEN u - Word * Word ELSE u BY DEF Number
<1> HIDE DEF u
<1> QED BY <1>4, <1>5, WordType DEF b

LEMMA UnpackType == \A m \in Datagram : Unpack(m) \in Rect
<1> SUFFICES ASSUME NEW r \in Rect PROVE Unpack(Pack(r)) \in Rect
  BY DEF Datagram
<1>1. \A a \in Axis : Number(Pack(r)[a][1]) \in Int /\ Number(Pack(r)[a][2]) \in Int
  BY NumberType DEF Pack, Rect
<1> DEFINE corner(a) == 3 * Number(Pack(r)[a][1])
           size(a) == 3 * Number(Pack(r)[a][2])
           F(a) == <<corner(a), corner(a) + size(a)>>
<1>2. \A a \in Axis : F(a) \in Int \X Int BY <1>1
<1>3. Unpack(Pack(r)) = [a \in Axis |-> F(a)] BY DEF Unpack
<1> HIDE DEF F
<1> QED BY <1>2, <1>3 DEF Rect

-----------------------------------------------------------------------------
(* What becomes of a rectangle on its way to the window.                     *)
LEMMA FitType ==
  ASSUME NEW p, NEW e \in Int \X Int, NEW m \in Int
  PROVE  /\ Fit(p, e, m) \in Int \X Int
         /\ Size(e) >= m => Fit(p, e, m) = e
BY DEF Fit, Size

LEMMA PartOfType == \A e, f : PartOf(e, f) \in {0, 1, 2}
BY DEF PartOf

LEMMA ViewType == ASSUME TypeOK, NEW r \in Rect PROVE View(r) \in Rect
<1>1. \A a \in Axis : r[a] \in Int \X Int /\ min[a] \in Int BY DEF TypeOK, Rect
<1>2. \A a \in Axis : Fit(PartOf(oldMRRect[a], r[a]), r[a], min[a]) \in Int \X Int
  BY <1>1, FitType
<1> QED BY <1>2 DEF View, Rect

LEMMA ViewAt ==
  ASSUME NEW r, NEW a \in Axis
  PROVE  View(r)[a] = Fit(PartOf(oldMRRect[a], r[a]), r[a], min[a])
BY DEF View

LEMMA PlacedType ==
  ASSUME NEW w \in Window, NEW v \in Rect
  PROVE  /\ Placed(w, v) \in Rect
         /\ \A a \in Axis : Size(Placed(w, v)[a]) >= MinSize[w][a]
         /\ \A a \in Axis : Size(v[a]) >= MinSize[w][a] => Placed(w, v)[a] = v[a]
         /\ \A a \in Axis : Size(v[a]) < MinSize[w][a] => Size(Placed(w, v)[a]) = MinSize[w][a]
<1>1. \A a \in Axis : v[a] \in Int \X Int /\ MinSize[w][a] \in Nat BY WindowAssumption DEF Rect
<1> QED BY <1>1 DEF Placed, Rect, Size

(* The window only grows on the wrong side where it is not known how small   *)
(* it can be.                                                              *)
LEMMA MovedOnlyUnknown ==
  ASSUME TypeOK, NEW w \in Window, NEW r \in Rect, NEW a \in Axis,
         Moved(PartOf(oldMRRect[a], r[a]), r[a], Placed(w, View(r))[a])
  PROVE  Size(View(r)[a]) < MinSize[w][a] /\ min[a] < MinSize[w][a]
<1> DEFINE p == PartOf(oldMRRect[a], r[a])
<1>1. r[a] \in Int \X Int /\ min[a] \in Int /\ MinSize[w][a] \in Nat
  BY WindowAssumption DEF TypeOK, Rect
<1>2. View(r)[a] = Fit(p, r[a], min[a]) BY ViewAt
<1>3. Placed(w, View(r))[a] = IF Size(View(r)[a]) < MinSize[w][a]
                              THEN <<View(r)[a][1], View(r)[a][1] + MinSize[w][a]>> ELSE View(r)[a]
  BY DEF Placed
<1>4. p \in {0, 1, 2} BY PartOfType
<1> HIDE DEF p
<1>5. CASE p = 1 BY <1>1, <1>2, <1>3, <1>5 DEF Moved, Fit, Size, p
<1>6. CASE p = 2 BY <1>1, <1>2, <1>3, <1>6 DEF Moved, Fit, Size, p
<1>7. CASE p = 0 BY <1>7 DEF Moved, p
<1> QED BY <1>4, <1>5, <1>6, <1>7

-----------------------------------------------------------------------------
LEMMA TypeCorrect == Spec => []TypeOK
<1>1. Init => TypeOK
  <2> SUFFICES ASSUME Init PROVE TypeOK
    OBVIOUS
  <2>1. rect \in [Window -> Rect] BY WindowAssumption DEF Init, Rect
  <2> QED BY <2>1, RegionAssumption DEF Init, TypeOK, MB_NULL, Zero, Rect
<1>2. TypeOK /\ [Next]_vars => TypeOK'
  <2> SUFFICES ASSUME TypeOK, [Next]_vars PROVE TypeOK'
    OBVIOUS
  <2>1. CASE SetIP BY <2>1 DEF SetIP, TypeOK, mirror, windows, history
  <2>2. ASSUME NEW p \in Grip, MouseDown(p) PROVE TypeOK'
    <3>1. p \in [Axis -> {"first", "second", "both", "none"}]
      BY GripAssumption DEF MouseClickPart, MB_NULL, MB_MID
    <3> QED BY <2>2, <3>1 DEF MouseDown, TypeOK, mirror, windows, history
  <2>3. ASSUME NEW gx \in Gap["x"], NEW gy \in Gap["y"],
               MouseMove([a \in Axis |-> IF a = "x" THEN gx ELSE gy])
        PROVE TypeOK'
    <3> DEFINE g == [a \in Axis |-> IF a = "x" THEN gx ELSE gy]
    <3>1. \A a \in Axis : g[a] \in Int BY BoundsAssumption DEF Axis
    <3> HIDE DEF g
    <3>2. \A a \in Axis : Dragged(g)[a] \in Int \X Int
      BY <3>1 DEF Dragged, TypeOK, Rect
    <3>3. Dragged(g) \in Rect BY <3>2 DEF Dragged, Rect
    <3>4. region' = Dragged(g) /\ (net' = net \/ net' = net \cup {Pack(region')})
      BY <2>3 DEF MouseMove, Send, g
    <3>5. region' \in Rect /\ net' \subseteq Datagram
      BY <3>3, <3>4 DEF TypeOK, Datagram
    <3> QED BY <2>3, <3>5 DEF MouseMove, TypeOK, mirror, windows, history
  <2>4. ASSUME NEW m \in net, Ignore(m) PROVE TypeOK'
    BY <2>4 DEF Ignore, Received, TypeOK, form, mirror, windows, history
  <2>5. ASSUME NEW m \in net, Place(m) PROVE TypeOK'
    <3>1. Unpack(m) \in Rect BY UnpackType DEF TypeOK
    <3>2. View(Unpack(m)) \in Rect BY <3>1, ViewType
    <3>3. target \in Window BY <2>5 DEF Place, TypeOK
    <3>4. Placed(target, View(Unpack(m))) \in Rect BY <3>2, <3>3, PlacedType
    <3>5. net' \subseteq net /\ rect' \in [Window -> Rect] /\ oldViewRect' \in Rect /\ now' \in Rect /\ last' \in Rect
      BY <2>5, <3>1, <3>2, <3>3, <3>4 DEF Place, Received, TypeOK
    <3>6. jumps' \in [Axis -> Nat] BY <2>5 DEF Place, TypeOK
    <3> QED BY <2>5, <3>5, <3>6 DEF Place, TypeOK, form
  <2>6. ASSUME NEW m \in net, SameView(m) PROVE TypeOK'
    <3>1. Unpack(m) \in Rect BY UnpackType DEF TypeOK
    <3>2. net' \subseteq net BY <2>6 DEF SameView, Received
    <3> QED BY <2>6, <3>1, <3>2 DEF SameView, TypeOK, form, windows
  <2>7. CASE Learn
    <3>1. now \in Rect /\ rect[target] \in Rect BY <2>7 DEF Learn, TypeOK
    <3>2. \A a \in Axis : Learnt(a) \in Int
      BY <3>1 DEF Learnt, Size, TypeOK, Rect
    <3>3. min' \in [Axis -> Int]
      BY <2>7, <3>2 DEF Learn
    <3> QED BY <2>7, <3>1, <3>3 DEF Learn, TypeOK, form, windows, history
  <2>8. CASE Timer
    <3>1. target' \in Window \cup {None} /\ min' \in [Axis -> Int]
          /\ last' \in Rect \cup {None} /\ jumps' \in [Axis -> Nat]
      BY <2>8 DEF Timer, Choose, MinOfNew, TypeOK, history
    <3> QED BY <2>8, <3>1 DEF Timer, TypeOK, form
  <2>9. ASSUME NEW w \in Browser, HandleF11(w) PROVE TypeOK'
    <3>1. rect' \in [Window -> Rect] /\ normal' \in [Window -> Rect] /\ fullMode' \subseteq Browser
      BY <2>9, ScreenAssumption DEF HandleF11, TypeOK, Window
    <3> QED BY <2>9, <3>1 DEF HandleF11, TypeOK, form, mirror, history
  <2>10. CASE UNCHANGED vars
    BY <2>10 DEF vars, TypeOK, form, mirror, windows, history
  <2> QED BY <2>1, <2>2, <2>3, <2>4, <2>5, <2>6, <2>7, <2>8, <2>9, <2>10 DEF Next, FormStep
<1> QED BY <1>1, <1>2, PTL DEF Spec

-----------------------------------------------------------------------------
(* The handler's remembered rectangles and the window, kept by a datagram     *)
(* that is passed on, ...                                                  *)
LEMMA PlaceKeeps ==
  ASSUME TypeOK, MirrorInv, NEW m \in net, Place(m)
  PROVE  MirrorInv'
<1> DEFINE r == Unpack(m)
           v == View(r)
           f == Placed(target, v)
<1>1. r \in Rect BY UnpackType DEF TypeOK
<1>2. v \in Rect BY <1>1, ViewType
<1>3. target \in Window BY DEF Place, TypeOK
<1>4. /\ f \in Rect
      /\ \A a \in Axis : Size(f[a]) >= MinSize[target][a]
      /\ \A a \in Axis : Size(v[a]) >= MinSize[target][a] => f[a] = v[a]
  BY <1>2, <1>3, PlacedType
<1>5. /\ now = None /\ rect' = [rect EXCEPT ![target] = f]
      /\ oldViewRect' = v /\ now' = r /\ last' = r
      /\ UNCHANGED <<target, min, normal>>
      /\ jumps' = [a \in Axis |->
                     jumps[a] + IF Moved(PartOf(oldMRRect[a], r[a]), r[a], f[a]) THEN 1 ELSE 0]
  BY DEF Place, Received
<1>6. rect'[target] = f /\ \A w \in Window \ {target} : rect'[w] = rect[w]
  BY <1>3, <1>5 DEF TypeOK
<1>7. now' # None BY <1>1, <1>5, RegionAssumption
<1> HIDE DEF r, v, f
<1>8. SizesOK'
  BY <1>3, <1>4, <1>5, <1>6 DEF SizesOK, KeepsSize, MirrorInv
<1>9. Placed(target, oldViewRect)' = f BY <1>5 DEF Placed, f
<1>10. Waiting' BY <1>5, <1>6, <1>9 DEF Waiting
<1>11. LearntIsTrue' BY <1>5 DEF LearntIsTrue, MirrorInv
<1>12. JumpKnown'
  <2> SUFFICES ASSUME NEW a \in Axis
               PROVE  /\ jumps'[a] <= 1
                      /\ jumps'[a] = 1 => target' \in Window /\ (Knows(a) \/ AboutToKnow(a))'
    BY DEF JumpKnown
  <2>1. jumps[a] \in Nat /\ jumps[a] <= 1 /\ (jumps[a] = 1 => Knows(a))
    BY <1>5 DEF TypeOK, MirrorInv, JumpKnown, AboutToKnow
  <2>2. CASE Moved(PartOf(oldMRRect[a], r[a]), r[a], f[a])
    <3>1. Size(v[a]) < MinSize[target][a] /\ min[a] < MinSize[target][a]
      BY <1>1, <1>3, <2>2, MovedOnlyUnknown DEF v, f
    <3>2. MinSize[target][a] \in Int /\ min[a] \in Int
      BY <1>3, WindowAssumption DEF TypeOK
    <3>3. jumps[a] = 0 BY <2>1, <3>1, <3>2 DEF Knows
    <3>4. AboutToKnow(a)' BY <1>5, <1>7, <3>1 DEF AboutToKnow, Size
    <3> QED BY <1>3, <1>5, <2>2, <3>3, <3>4
  <2>3. CASE ~Moved(PartOf(oldMRRect[a], r[a]), r[a], f[a])
    <3>1. jumps'[a] = jumps[a] BY <1>5, <2>1, <2>3
    <3> QED BY <1>3, <1>5, <2>1, <3>1 DEF Knows
  <2> QED BY <2>2, <2>3
<1>13. Follows'
  <2> SUFFICES ASSUME target \in Plain, NEW a \in Axis, Size(r[a]) >= MinSize[target][a]
               PROVE  v[a] = r[a]
    BY <1>5, <1>6, <1>7, <1>9 DEF Follows, Size
  <2>1. min[a] \in {0, MinSize[target][a]} /\ MinSize[target][a] \in Nat
    BY <1>3, WindowAssumption DEF MirrorInv, LearntIsTrue
  <2>2. r[a] \in Int \X Int BY <1>1 DEF Rect
  <2>3. Size(r[a]) >= min[a] BY <2>1, <2>2 DEF Size
  <2>4. Fit(PartOf(oldMRRect[a], r[a]), r[a], min[a]) = r[a]
    BY <2>1, <2>2, <2>3, FitType
  <2>5. View(r)[a] = r[a] BY <2>4, ViewAt, Zenon
  <2> QED BY <2>5 DEF v
<1> QED BY <1>8, <1>10, <1>11, <1>12, <1>13 DEF MirrorInv

(* ... by one that is not, as the window has the rectangle already, ...     *)
LEMMA SameViewKeeps ==
  ASSUME TypeOK, MirrorInv, NEW m \in net, SameView(m)
  PROVE  MirrorInv'
<1> DEFINE r == Unpack(m)
<1>1. r \in Rect BY UnpackType DEF TypeOK
<1>2. /\ now = None /\ View(r) = oldViewRect
      /\ oldMRRect' = r /\ last' = (IF last = None THEN None ELSE r)
      /\ UNCHANGED <<target, min, oldViewRect, now, rect, normal, jumps>>
  BY DEF SameView, Received, windows
<1> HIDE DEF r
<1>3. SizesOK' /\ LearntIsTrue'
  BY <1>2 DEF SizesOK, KeepsSize, LearntIsTrue, MirrorInv
<1>4. Waiting' BY <1>2 DEF Waiting
<1>5. JumpKnown' BY <1>2 DEF JumpKnown, Knows, AboutToKnow, MirrorInv, Size
<1>6. Follows'
  <2> SUFFICES ASSUME target \in Plain, last # None
               PROVE  /\ rect[target] = Placed(target, oldViewRect)
                      /\ \A a \in Axis : Size(r[a]) >= MinSize[target][a] => oldViewRect[a] = r[a]
    BY <1>2 DEF Follows, Size, Placed
  <2>1. rect[target] = Placed(target, oldViewRect) BY DEF MirrorInv, Follows
  <2>2. ASSUME NEW a \in Axis, Size(r[a]) >= MinSize[target][a] PROVE oldViewRect[a] = r[a]
    <3>1. min[a] \in {0, MinSize[target][a]} /\ MinSize[target][a] \in Nat
      BY WindowAssumption DEF MirrorInv, LearntIsTrue, Window
    <3>2. r[a] \in Int \X Int BY <1>1 DEF Rect
    <3>3. Size(r[a]) >= min[a] BY <2>2, <3>1, <3>2 DEF Size
    <3>4. Fit(PartOf(oldMRRect[a], r[a]), r[a], min[a]) = r[a]
      BY <3>1, <3>2, <3>3, FitType
    <3>5. View(r)[a] = r[a] BY <3>4, ViewAt, Zenon
    <3> QED BY <1>2, <3>5
  <2> QED BY <2>1, <2>2
<1> QED BY <1>3, <1>4, <1>5, <1>6 DEF MirrorInv

(* ... by GetWindowRect, ...                                               *)
LEMMA LearnKeeps ==
  ASSUME TypeOK, MirrorInv, Learn
  PROVE  MirrorInv'
<1>1. /\ now \in Rect /\ target \in Window /\ now' = None /\ oldMRRect' = now
      /\ min' = [a \in Axis |-> Learnt(a)]
      /\ UNCHANGED <<target, oldViewRect, rect, normal, last, jumps>>
  BY DEF Learn, TypeOK, windows, history
<1>2. \A a \in Axis :
        /\ rect[target][a] \in Int \X Int /\ oldViewRect[a] \in Int \X Int
        /\ min[a] \in Int /\ MinSize[target][a] \in Nat
        /\ Size(rect[target][a]) \in Int /\ Size(oldViewRect[a]) \in Int
        /\ Size(rect[target][a]) >= MinSize[target][a]
  BY <1>1, WindowAssumption DEF TypeOK, Rect, Size, MirrorInv, SizesOK, KeepsSize
<1>3. SizesOK' BY <1>1 DEF SizesOK, KeepsSize, MirrorInv
<1>4. Waiting' BY <1>1 DEF Waiting
<1>5. LearntIsTrue'
  <2> SUFFICES ASSUME target \in Plain, NEW a \in Axis
               PROVE  Learnt(a) \in {0, MinSize[target][a]}
    BY <1>1 DEF LearntIsTrue
  <2>1. min[a] \in {0, MinSize[target][a]} BY DEF MirrorInv, LearntIsTrue
  <2>2. rect[target] = Placed(target, oldViewRect)
    BY <1>1, RegionAssumption DEF MirrorInv, Waiting
  <2>3. oldViewRect \in Rect BY DEF TypeOK
  <2>4. Size(rect[target][a]) = Size(oldViewRect[a]) \/ Size(rect[target][a]) = MinSize[target][a]
    BY <1>1, <1>2, <2>2, <2>3, PlacedType
  <2> QED BY <1>2, <2>1, <2>4 DEF Learnt
<1>6. JumpKnown'
  <2> SUFFICES ASSUME NEW a \in Axis, jumps[a] = 1
               PROVE  Learnt(a) >= MinSize[target][a]
    BY <1>1 DEF JumpKnown, Knows, MirrorInv
  <2>1. Knows(a) \/ AboutToKnow(a) BY DEF MirrorInv, JumpKnown
  <2> QED BY <1>2, <2>1 DEF Learnt, Knows, AboutToKnow
<1>7. Follows'
  BY <1>1, RegionAssumption DEF Follows, MirrorInv, Placed, Size
<1> QED BY <1>3, <1>4, <1>5, <1>6, <1>7 DEF MirrorInv

(* ... by the timer, which may choose another window, ...                   *)
LEMMA TimerKeeps ==
  ASSUME TypeOK, MirrorInv, Timer
  PROVE  MirrorInv'
<1>1. now = None /\ UNCHANGED <<oldMRRect, oldViewRect, now, rect, normal>> BY DEF Timer
<1>2. SizesOK' /\ Waiting' BY <1>1 DEF SizesOK, KeepsSize, Waiting, MirrorInv
<1>3. CASE UNCHANGED <<target, min, last, jumps>>
  BY <1>1, <1>2, <1>3
  DEF MirrorInv, LearntIsTrue, JumpKnown, Knows, AboutToKnow, Follows, Placed, Size
<1>4. ASSUME NEW w \in Window \cup {Form}, w # Form, target' = w,
             min' = [a \in Axis |-> 0], last' = None, jumps' = [a \in Axis |-> 0]
      PROVE  MirrorInv'
  BY <1>2, <1>4 DEF MirrorInv, LearntIsTrue, JumpKnown, Follows
<1> QED BY <1>3, <1>4 DEF Timer, Choose, MinOfNew, history

(* ... and by a window that answers F11.                                    *)
LEMMA HandleF11Keeps ==
  ASSUME TypeOK, MirrorInv, NEW w \in Browser, HandleF11(w)
  PROVE  MirrorInv'
<1>1. UNCHANGED <<target, min, oldMRRect, oldViewRect, now, last, jumps>>
  BY DEF HandleF11, mirror, history
<1>2. \A u \in Plain : rect'[u] = rect[u]
  BY WindowAssumption DEF HandleF11, TypeOK, Window
<1>3. SizesOK'
  <2>1. w \in Window BY DEF Window
  <2>2. rect'[w] \in {normal[w], Screen} /\ normal'[w] \in {normal[w], rect[w]}
        /\ \A u \in Window \ {w} : rect'[u] = rect[u] /\ normal'[u] = normal[u]
    BY <2>1 DEF HandleF11, TypeOK
  <2> QED BY <2>1, <2>2, ScreenAssumption DEF SizesOK, KeepsSize, MirrorInv
<1>4. Waiting' /\ Follows'
  BY <1>1, <1>2 DEF Waiting, Follows, MirrorInv, Placed, Size
<1>5. LearntIsTrue' /\ JumpKnown'
  BY <1>1 DEF LearntIsTrue, JumpKnown, Knows, AboutToKnow, MirrorInv, Size
<1> QED BY <1>3, <1>4, <1>5 DEF MirrorInv

-----------------------------------------------------------------------------
LEMMA MirrorInvHolds == Spec => []MirrorInv
<1>1. Init => MirrorInv
  <2> SUFFICES ASSUME Init PROVE MirrorInv
    OBVIOUS
  <2>1. SizesOK BY WindowAssumption DEF Init, SizesOK, KeepsSize, Size
  <2>2. Waiting /\ LearntIsTrue /\ JumpKnown /\ Follows
    BY DEF Init, Waiting, LearntIsTrue, JumpKnown, Follows
  <2> QED BY <2>1, <2>2 DEF MirrorInv
<1>2. TypeOK /\ MirrorInv /\ [Next]_vars => MirrorInv'
  <2> SUFFICES ASSUME TypeOK, MirrorInv, [Next]_vars PROVE MirrorInv'
    OBVIOUS
  <2>1. ASSUME UNCHANGED <<mirror, windows, history>> PROVE MirrorInv'
    BY <2>1
    DEF mirror, windows, history, MirrorInv, SizesOK, KeepsSize, Waiting, LearntIsTrue, JumpKnown,
        Knows, AboutToKnow, Follows, Placed, Size
  <2>2. CASE FormStep
    BY <2>1, <2>2 DEF FormStep, SetIP, MouseDown, MouseMove
  <2>3. ASSUME NEW m \in net, Ignore(m) PROVE MirrorInv'
    BY <2>1, <2>3 DEF Ignore
  <2>4. CASE UNCHANGED vars BY <2>1, <2>4 DEF vars
  <2> QED
    BY <2>2, <2>3, <2>4, PlaceKeeps, SameViewKeeps, LearnKeeps, TimerKeeps, HandleF11Keeps DEF Next
<1> QED BY <1>1, <1>2, TypeCorrect, PTL DEF Spec

(* What is learnt of a plain window is its least size, or nothing yet: it is *)
(* where SetWindowPos put it when GetWindowRect asks (Waiting).              *)
THEOREM LearntIsTrueHolds == Spec => []LearntIsTrue
<1>1. MirrorInv => LearntIsTrue BY DEF MirrorInv
<1> QED BY <1>1, MirrorInvHolds, PTL

(* An edge that was not dragged moves once for a target and an axis at most. *)
THEOREM OneJumpHolds == Spec => []OneJump
<1>1. MirrorInv => OneJump BY DEF MirrorInv, JumpKnown, OneJump
<1> QED BY <1>1, MirrorInvHolds, PTL

(* The window is where the last datagram wants it, although requests that   *)
(* look like the one before are not passed on.                             *)
THEOREM ShowsLastHolds == Spec => []ShowsLast
<1>1. TypeOK /\ MirrorInv => ShowsLast
  <2> SUFFICES ASSUME TypeOK, MirrorInv, target \in Plain, now = None, last # None,
                      NEW a \in Axis, Size(last[a]) >= MinSize[target][a]
               PROVE  rect[target][a] = last[a]
    BY DEF ShowsLast
  <2>1. rect[target] = Placed(target, oldViewRect) /\ oldViewRect[a] = last[a]
    BY DEF MirrorInv, Follows
  <2>2. target \in Window /\ oldViewRect \in Rect BY DEF TypeOK, Window
  <2> QED BY <2>1, <2>2, PlacedType
<1> QED BY <1>1, MirrorInvHolds, TypeCorrect, PTL
=============================================================================
