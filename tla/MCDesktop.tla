----------------------------- MODULE MCDesktop ------------------------------
(* Two tools of the desktop for TLC: RunCloseWindow, or the wheel agent.     *)
EXTENDS RunClose

CONSTANTS Offset, MaxLost

SomeOffsets == {-60, -5, 0, 15, 120}

VARIABLES
  tool,
  held, y, dwMouseFlag, dwOldMouseFlag, ptClicked, period, posted, hooked, missed, lost, after
Wheel == INSTANCE WheelAgent
wheelvars == <<held, y, dwMouseFlag, dwOldMouseFlag, ptClicked, period, posted, hooked, missed, lost, after>>

NoWheel ==
  /\ held = {} /\ y = 0 /\ dwMouseFlag = {} /\ dwOldMouseFlag = {} /\ ptClicked = 0 /\ period = 0
  /\ posted = {} /\ hooked = FALSE /\ missed = {} /\ lost = 0 /\ after = 0
DesktopInit ==
  \/ tool = "RunClose" /\ Init /\ NoWheel
  \/ tool = "wheel" /\ Init /\ prompt /\ Wheel!WheelInit
DesktopNext ==
  \/ tool = "RunClose" /\ Next /\ UNCHANGED <<tool, wheelvars>>
  \/ tool = "wheel" /\ Wheel!WheelNext /\ UNCHANGED <<tool, vars>>
(* Fairness is RunClose's, while it runs.                                   *)
DesktopSpec ==
  /\ DesktopInit /\ [][DesktopNext]_<<tool, vars, wheelvars>>
  /\ WF_vars(tool = "RunClose" /\ Program) /\ WF_vars(tool = "RunClose" /\ Dies)

-----------------------------------------------------------------------------
(* The wheel rests when nothing is held (see WheelAgent).                   *)
WheelRests == tool = "wheel" => Wheel!WheelRests
=============================================================================
