----------------------------- MODULE WheelAgent -----------------------------
(***************************************************************************)
(* MouseWheelInvoker: while both buttons of the mouse are held a timer      *)
(* turns the wheel, faster the farther the pointer is from where they were  *)
(* pressed.  The hook sees the events of the mouse, unless the system left  *)
(* it out for being late or a secure desktop had the mouse; a WM_TIMER that *)
(* is in the queue stays there when its timer is killed.                    *)
(***************************************************************************)
EXTENDS Integers

CONSTANTS
  Offset,    \* bound: where the pointer can be, pt.y
  MaxLost    \* bound: events the hook does not see

Button == {"left", "right"}
Timer == {1, 2}

VARIABLES
  held, y,           \* the mouse
  dwMouseFlag, dwOldMouseFlag, ptClicked,  \* what the hook remembers; its flags as sets
  period,            \* of each timer, 0 when it is not set
  posted,            \* WM_TIMER messages in the queue
  hooked,            \* ghMouseHook is set
  missed,            \* history: buttons the last event of which was not seen
  lost, after        \* history: events not seen; turns since nothing is held
wheelvars == <<held, y, dwMouseFlag, dwOldMouseFlag, ptClicked, period, posted, hooked, missed, lost, after>>

NoTimer == [id \in Timer |-> 0]

(* SetCaptureMode; nobody looks at its result.                             *)
WheelInit ==
  /\ held = {} /\ y \in Offset
  /\ dwMouseFlag = {} /\ dwOldMouseFlag = {} /\ ptClicked = 0
  /\ period = NoTimer /\ posted = {} /\ hooked \in BOOLEAN
  /\ missed = {} /\ lost = 0 /\ after = 0

ButtonDown(b) ==
  /\ dwMouseFlag' = dwMouseFlag \cup {b} /\ ptClicked' = y
  /\ UNCHANGED <<dwOldMouseFlag, period>>

(* Mutant of the next: one of the timers is forgotten.                     *)
KilledFirst == [period EXCEPT ![1] = 0]
Killed == NoTimer
ButtonUp(b) ==
  /\ dwMouseFlag' = dwMouseFlag \ {b}
  /\ IF dwMouseFlag' = {} /\ dwOldMouseFlag # {}
     THEN dwOldMouseFlag' = {} /\ period' = Killed
     ELSE UNCHANGED <<dwOldMouseFlag, period>>
  /\ UNCHANGED ptClicked

dwPeriod(dist) ==
  IF dist < 10 THEN 200 ELSE IF dist < 20 THEN 100 ELSE IF dist < 50 THEN 50
  ELSE IF dist < 100 THEN 30 ELSE 10
SetFor(dist) ==
  IF dist > 0 THEN [NoTimer EXCEPT ![1] = dwPeriod(dist)] ELSE [NoTimer EXCEPT ![2] = dwPeriod(-dist)]
MouseMove(to) ==
  /\ IF dwMouseFlag = Button
     THEN dwOldMouseFlag' = dwMouseFlag /\ period' = SetFor(to - ptClicked)
     ELSE UNCHANGED <<dwOldMouseFlag, period>>
  /\ UNCHANGED <<dwMouseFlag, ptClicked>>

-----------------------------------------------------------------------------
(* The mouse, seen by LowLevelMouseProc or not.                            *)
Unseen ==
  /\ lost < MaxLost /\ lost' = lost + 1
  /\ UNCHANGED <<dwMouseFlag, dwOldMouseFlag, ptClicked, period>>
Press(b) ==
  /\ hooked /\ b \notin held /\ held' = held \cup {b} /\ after' = 0
  /\ \/ ButtonDown(b) /\ missed' = missed \ {b} /\ UNCHANGED lost
     \/ Unseen /\ missed' = missed \cup {b}
  /\ UNCHANGED <<y, posted, hooked>>
Release(b) ==
  /\ hooked /\ b \in held /\ held' = held \ {b} /\ after' = 0
  /\ \/ ButtonUp(b) /\ missed' = missed \ {b} /\ UNCHANGED lost
     \/ Unseen /\ missed' = missed \cup {b}
  /\ UNCHANGED <<y, posted, hooked>>
Move(to) ==
  /\ hooked /\ y' = to
  /\ \/ MouseMove(to) /\ UNCHANGED lost
     \/ Unseen
  /\ UNCHANGED <<held, posted, hooked, missed, after>>

(* The system posts one message of a timer at a time.                      *)
Elapse(id) ==
  /\ period[id] # 0 /\ id \notin posted
  /\ posted' = posted \cup {id}
  /\ UNCHANGED <<held, y, dwMouseFlag, dwOldMouseFlag, ptClicked, period, hooked, missed, lost, after>>
(* The wheel is turned down for timer 1 and up for timer 2.                *)
WM_TIMER(id) ==
  /\ id \in posted /\ posted' = posted \ {id}
  /\ after' = IF held = {} /\ missed = {} THEN after + 1 ELSE 0
  /\ UNCHANGED <<held, y, dwMouseFlag, dwOldMouseFlag, ptClicked, period, hooked, missed, lost>>
(* WM_DESTROY: ReleaseCaptureMode, and the window's timers go with it.      *)
Destroy ==
  /\ hooked /\ hooked' = FALSE /\ period' = NoTimer /\ posted' = {}
  /\ UNCHANGED <<held, y, dwMouseFlag, dwOldMouseFlag, ptClicked, missed, lost, after>>

WheelNext ==
  \/ \E b \in Button : Press(b) \/ Release(b)
  \/ \E to \in Offset : Move(to)
  \/ \E id \in Timer : Elapse(id) \/ WM_TIMER(id)
  \/ Destroy

-----------------------------------------------------------------------------
(* Two timers never turn the wheel against each other.  When no button is    *)
(* held, and the last event of each was seen, no timer runs, whatever was    *)
(* missed before, and only the messages already posted turn the wheel still  *)
(* (LowLevelMouseProc, WM_TIMER).                                           *)
WheelRests ==
  /\ period[1] = 0 \/ period[2] = 0
  /\ held = {} /\ missed = {} => period = NoTimer /\ after <= 2
=============================================================================
