---------------------------- MODULE DesktopProofs ----------------------------
(***************************************************************************)
(* Safety of the two tools of the desktop, for every number of windows,      *)
(* processes, starts, looks and requests, and for every mouse.              *)
(***************************************************************************)
EXTENDS MCDesktop, SequenceTheorems, TLAPS

-----------------------------------------------------------------------------
(* The wheel agent.                                                         *)

(* Messages still in the queue, one of each timer at most.                   *)
Queued == (IF 1 \in posted THEN 1 ELSE 0) + (IF 2 \in posted THEN 1 ELSE 0)

(* What the hook knows is true of the buttons it saw last; a timer runs only *)
(* while some button is remembered as held with the other; the wheel turns  *)
(* no more often than there are messages left.                              *)
FlagsTrue == \A b \in Wheel!Button : b \notin missed => (b \in held <=> b \in dwMouseFlag)
OldHasNew == dwOldMouseFlag # {} => dwMouseFlag # {}
TimerHasOld == period # Wheel!NoTimer => dwOldMouseFlag # {}
OneTimer == period[1] = 0 \/ period[2] = 0
TurnsLeft == after \in Nat /\ after + Queued <= 2
WheelInv ==
  /\ held \subseteq Wheel!Button /\ dwMouseFlag \subseteq Wheel!Button
  /\ posted \subseteq Wheel!Timer /\ DOMAIN period = Wheel!Timer
  /\ FlagsTrue /\ OldHasNew /\ TimerHasOld /\ OneTimer
  /\ IF held = {} /\ missed = {} THEN TurnsLeft ELSE after = 0

LEMMA WheelInitial == Wheel!WheelInit => WheelInv
BY DEF Wheel!WheelInit, WheelInv, FlagsTrue, OldHasNew, TimerHasOld, OneTimer, TurnsLeft, Queued,
       Wheel!NoTimer, Wheel!Timer, Wheel!Button

(* The timers a move sets, and those the last release leaves.                *)
LEMMA SetForOne ==
  ASSUME NEW dist
  PROVE  /\ DOMAIN Wheel!SetFor(dist) = Wheel!Timer
         /\ Wheel!SetFor(dist)[1] = 0 \/ Wheel!SetFor(dist)[2] = 0
BY DEF Wheel!SetFor, Wheel!NoTimer, Wheel!Timer

LEMMA WheelKeeps == ASSUME WheelInv, Wheel!WheelNext PROVE WheelInv'
<1> USE DEF Wheel!Button, Wheel!Timer
<1>1. ASSUME NEW b \in Wheel!Button, Wheel!Press(b) PROVE WheelInv'
  <2>1. UNCHANGED <<dwOldMouseFlag, period, posted>> /\ held' = held \cup {b} /\ after' = 0
    BY <1>1 DEF Wheel!Press, Wheel!ButtonDown, Wheel!Unseen
  <2>2. FlagsTrue' /\ OldHasNew' /\ dwMouseFlag' \subseteq Wheel!Button
    BY <1>1, <2>1 DEF Wheel!Press, Wheel!ButtonDown, Wheel!Unseen, WheelInv, FlagsTrue, OldHasNew
  <2> QED BY <2>1, <2>2 DEF WheelInv, TimerHasOld, OneTimer, Wheel!NoTimer
<1>2. ASSUME NEW b \in Wheel!Button, Wheel!Release(b) PROVE WheelInv'
  <2>1. UNCHANGED posted /\ held' = held \ {b} /\ after' = 0
    BY <1>2 DEF Wheel!Release
  <2>2. FlagsTrue' /\ dwMouseFlag' \subseteq Wheel!Button
    BY <1>2, <2>1 DEF Wheel!Release, Wheel!ButtonUp, Wheel!Unseen, WheelInv, FlagsTrue
  <2>3. OldHasNew' /\ TimerHasOld' /\ OneTimer' /\ DOMAIN period' = Wheel!Timer
    BY <1>2 DEF Wheel!Release, Wheel!ButtonUp, Wheel!Unseen, Wheel!Killed, Wheel!NoTimer, WheelInv,
                OldHasNew, TimerHasOld, OneTimer
  <2>4. TurnsLeft'
    BY <2>1 DEF WheelInv, TurnsLeft, Queued
  <2> QED BY <2>1, <2>2, <2>3, <2>4 DEF WheelInv
<1>3. ASSUME NEW to \in Offset, Wheel!Move(to) PROVE WheelInv'
  <2>1. UNCHANGED <<held, posted, missed, after, dwMouseFlag>>
    BY <1>3 DEF Wheel!Move, Wheel!MouseMove, Wheel!Unseen
  <2>2. OldHasNew' /\ TimerHasOld' /\ OneTimer' /\ DOMAIN period' = Wheel!Timer
    <3>1. CASE UNCHANGED <<dwOldMouseFlag, period>>
      BY <2>1, <3>1 DEF WheelInv, OldHasNew, TimerHasOld, OneTimer, Wheel!NoTimer
    <3>2. CASE dwMouseFlag = Wheel!Button /\ dwOldMouseFlag' = dwMouseFlag
               /\ period' = Wheel!SetFor(to - ptClicked)
      BY <2>1, <3>2, SetForOne DEF WheelInv, OldHasNew, TimerHasOld, OneTimer
    <3> QED BY <1>3, <3>1, <3>2 DEF Wheel!Move, Wheel!MouseMove, Wheel!Unseen
  <2> QED BY <2>1, <2>2 DEF WheelInv, FlagsTrue, TurnsLeft, Queued
<1>4. ASSUME NEW id \in Wheel!Timer, Wheel!Elapse(id) PROVE WheelInv'
  <2>1. period # Wheel!NoTimer BY <1>4 DEF Wheel!Elapse, Wheel!NoTimer
  <2>2. dwMouseFlag # {} BY <2>1 DEF WheelInv, TimerHasOld, OldHasNew
  <2>3. ~(held = {} /\ missed = {}) BY <2>2 DEF WheelInv, FlagsTrue
  <2> QED
    BY <1>4, <2>3 DEF Wheel!Elapse, WheelInv, FlagsTrue, OldHasNew, TimerHasOld, OneTimer, Wheel!NoTimer
<1>5. ASSUME NEW id \in Wheel!Timer, Wheel!WM_TIMER(id) PROVE WheelInv'
  <2>1. UNCHANGED <<held, dwMouseFlag, dwOldMouseFlag, period, missed>>
        /\ id \in posted /\ posted' = posted \ {id}
        /\ after' = (IF held = {} /\ missed = {} THEN after + 1 ELSE 0)
    BY <1>5 DEF Wheel!WM_TIMER
  <2>2. held = {} /\ missed = {} => TurnsLeft'
    BY <2>1 DEF WheelInv, TurnsLeft, Queued
  <2> QED
    BY <2>1, <2>2 DEF WheelInv, FlagsTrue, OldHasNew, TimerHasOld, OneTimer, Wheel!NoTimer
<1>6. ASSUME Wheel!Destroy PROVE WheelInv'
  BY <1>6 DEF Wheel!Destroy, WheelInv, FlagsTrue, OldHasNew, TimerHasOld, OneTimer, TurnsLeft, Queued,
              Wheel!NoTimer
<1> QED BY <1>1, <1>2, <1>3, <1>4, <1>5, <1>6 DEF Wheel!WheelNext

LEMMA WheelAtRest == WheelInv => Wheel!WheelRests
<1> SUFFICES ASSUME WheelInv PROVE Wheel!WheelRests
  OBVIOUS
<1>1. held = {} /\ missed = {} => dwMouseFlag = {} BY DEF WheelInv, FlagsTrue
<1>2. held = {} /\ missed = {} => period = Wheel!NoTimer
  BY <1>1 DEF WheelInv, OldHasNew, TimerHasOld
<1>3. held = {} /\ missed = {} => after <= 2 BY DEF WheelInv, TurnsLeft, Queued
<1> QED BY <1>2, <1>3 DEF Wheel!WheelRests, WheelInv, OneTimer

(* Whatever the hook missed before, no timer runs once no button is held and *)
(* its last events were seen; two timers never run at once.                  *)
THEOREM WheelRestsHolds == DesktopSpec => []WheelRests
<1> DEFINE Inv == tool = "wheel" => WheelInv
<1>1. DesktopInit => Inv BY WheelInitial DEF DesktopInit
<1>2. Inv /\ [DesktopNext]_<<tool, vars, wheelvars>> => Inv'
  <2> SUFFICES ASSUME Inv, [DesktopNext]_<<tool, vars, wheelvars>>, tool' = "wheel" PROVE WheelInv'
    OBVIOUS
  <2>1. CASE Wheel!WheelNext /\ tool = "wheel" BY <2>1, WheelKeeps
  <2>2. CASE UNCHANGED <<tool, wheelvars>>
    BY <2>2 DEF wheelvars, WheelInv, FlagsTrue, OldHasNew, TimerHasOld, OneTimer, TurnsLeft, Queued
  <2> QED BY <2>1, <2>2 DEF DesktopNext
<1>3. Inv => WheelRests BY WheelAtRest DEF WheelRests
<1> QED BY <1>1, <1>2, <1>3, PTL DEF DesktopSpec

-----------------------------------------------------------------------------
(* The starter of windows.                                                  *)
Entry == [hWnd : Window \cup {None}, pid : Process]

(* Types, and what is true of the browser whatever the program does: all      *)
(* windows that exist are those of the process that is the browser.          *)
RunTypes ==
  /\ owner \in [Window -> Process \cup {None}]
  /\ open \subseteq Made /\ titled \subseteq Made /\ asked \subseteq Made
  /\ started \subseteq Process /\ alive \subseteq started /\ dying \subseteq alive
  /\ browser \in alive \cup {None} /\ pending \in Nat /\ prompt \in BOOLEAN
  /\ \A w \in open : owner[w] = browser
  /\ pc \in {"idle", "start", "create", "poll", "close", "ask", "ended"}
  /\ launched \in Process \cup {None} /\ (pc = "poll" => launched \in Process)
  /\ gAppInfo \in Seq(Entry) /\ handled \subseteq Made

(* What is remembered was found with its process, and is what the program     *)
(* asks to close; a window that is remembered and still there was seen       *)
(* before the start.                                                        *)
EntriesTrue ==
  \A k \in 1..Len(gAppInfo) : gAppInfo[k].hWnd # None =>
    /\ gAppInfo[k].hWnd \in titled
    /\ gAppInfo[k].pid = owner[gAppInfo[k].hWnd]
AskedForOne == pc = "ask" => gAppInfo # <<>> /\ App.hWnd # None
SeenBefore == pc \in {"create", "poll"} => Remembered \cap open \subseteq pidOld

(* A prompt browser.  Between two starts the windows are those remembered,    *)
(* and nothing is on its way; during a start there is in addition the        *)
(* process, then the request it handed over, then its window; while one is    *)
(* closed, it may be gone.                                                  *)
Quiet == pending = 0 /\ alive \subseteq {browser}
Starting ==
  \/ launched \in alive \ {browser} /\ alive \subseteq {browser, launched} /\ pending = 0 /\ open = Remembered
  \/ alive \subseteq {browser} /\ pending = 1 /\ open = Remembered
  \/ Quiet /\ \E w \in Window \ Remembered : open = Remembered \cup {w}
PromptInv == prompt =>
  /\ killed = {} /\ dying = {}
  /\ \A k \in 1..Len(gAppInfo) : gAppInfo[k].hWnd # None
  /\ pc \notin {"poll", "ask"} => Quiet /\ open = Remembered
  /\ pc \in {"create", "poll"} => pidOld = Remembered
  /\ pc # "ask" => asked \cap open = {}
  /\ pc = "poll" => Starting
  /\ pc = "ask" => /\ Quiet /\ open \subseteq Remembered /\ Remembered \ {App.hWnd} \subseteq open
                   /\ asked \cap open \subseteq {App.hWnd}

RunInv ==
  /\ EntriesTrue /\ AskedForOne /\ SeenBefore /\ NoWindowTwice /\ HandledIsGone /\ PromptInv

(* What is remembered, with one entry more or one less.                      *)
LEMMA RememberedType ==
  ASSUME RunTypes, EntriesTrue
  PROVE  Remembered \subseteq titled /\ Remembered \subseteq Made /\ Remembered \subseteq Window /\ None \notin Remembered
<1>1. ASSUME NEW h \in Remembered PROVE h \in titled
  <2>1. PICK k \in 1..Len(gAppInfo) : h = gAppInfo[k].hWnd /\ h # None BY <1>1 DEF Remembered
  <2> QED BY <2>1 DEF EntriesTrue
<1>2. None \notin Remembered BY DEF Remembered
<1>3. titled \subseteq Made /\ Made \subseteq Window BY DEF RunTypes, Made
<1> QED BY <1>1, <1>2, <1>3

LEMMA Appended ==
  ASSUME NEW e \in Entry, gAppInfo \in Seq(Entry), gAppInfo' = Append(gAppInfo, e)
  PROVE  /\ gAppInfo' \in Seq(Entry)
         /\ Len(gAppInfo') = Len(gAppInfo) + 1
         /\ \A k \in 1..Len(gAppInfo) : gAppInfo'[k] = gAppInfo[k]
         /\ gAppInfo'[Len(gAppInfo) + 1] = e
         /\ Remembered' = Remembered \cup ({e.hWnd} \ {None})
<1>1. /\ gAppInfo' \in Seq(Entry) /\ Len(gAppInfo') = Len(gAppInfo) + 1 /\ Len(gAppInfo) \in Nat
      /\ \A k \in 1..Len(gAppInfo) : gAppInfo'[k] = gAppInfo[k]
      /\ gAppInfo'[Len(gAppInfo) + 1] = e
  OBVIOUS
<1>2. Remembered' = Remembered \cup ({e.hWnd} \ {None})
  <2>1. \A k \in 1..Len(gAppInfo') : k \in 1..Len(gAppInfo) \/ k = Len(gAppInfo) + 1 BY <1>1
  <2>2. \A k \in 1..Len(gAppInfo) : k \in 1..Len(gAppInfo') BY <1>1
  <2>3. Len(gAppInfo) + 1 \in 1..Len(gAppInfo') BY <1>1
  <2>4. ASSUME NEW h, h \in Remembered' PROVE h \in Remembered \cup ({e.hWnd} \ {None})
    <3>1. PICK k \in 1..Len(gAppInfo') : h = gAppInfo'[k].hWnd BY <2>4 DEF Remembered
    <3> QED BY <1>1, <2>1, <2>4, <3>1 DEF Remembered
  <2>5. ASSUME NEW h, h \in Remembered \cup ({e.hWnd} \ {None}) PROVE h \in Remembered'
    <3>1. CASE h \in Remembered
      <4>1. PICK k \in 1..Len(gAppInfo) : h = gAppInfo[k].hWnd BY <3>1 DEF Remembered
      <4>2. h = gAppInfo'[k].hWnd /\ k \in 1..Len(gAppInfo') BY <1>1, <2>2, <4>1
      <4> QED BY <3>1, <4>2 DEF Remembered
    <3>2. CASE h = e.hWnd /\ h # None
      BY <1>1, <2>3, <3>2 DEF Remembered
    <3> QED BY <2>5, <3>1, <3>2
  <2> QED BY <2>4, <2>5
<1> QED BY <1>1, <1>2

LEMMA Removed ==
  ASSUME gAppInfo \in Seq(Entry), gAppInfo # <<>>, gAppInfo' = Tail(gAppInfo), NoWindowTwice
  PROVE  /\ gAppInfo' \in Seq(Entry) /\ App \in Entry
         /\ Len(gAppInfo') = Len(gAppInfo) - 1 /\ Len(gAppInfo) \in Nat
         /\ \A k \in 1..Len(gAppInfo') : k + 1 \in 1..Len(gAppInfo) /\ gAppInfo'[k] = gAppInfo[k + 1]
         /\ Remembered' = Remembered \ {App.hWnd}
         /\ 1 \in 1..Len(gAppInfo) /\ App = gAppInfo[1]
<1>1. /\ gAppInfo' \in Seq(Entry) /\ Len(gAppInfo') = Len(gAppInfo) - 1 /\ Len(gAppInfo) \in Nat
      /\ \A k \in 1..Len(gAppInfo') : gAppInfo'[k] = gAppInfo[k + 1]
  OBVIOUS
<1>2. Len(gAppInfo) > 0 BY EmptySeq
<1>3. 1 \in 1..Len(gAppInfo) /\ App = gAppInfo[1] /\ App \in Entry
  BY <1>1, <1>2 DEF App
<1>4. \A k \in 1..Len(gAppInfo') : k + 1 \in 1..Len(gAppInfo) /\ k + 1 # 1 BY <1>1
<1>5. ASSUME NEW h, h \in Remembered' PROVE h \in Remembered \ {App.hWnd}
  <2>1. PICK k \in 1..Len(gAppInfo') : h = gAppInfo'[k].hWnd BY <1>5 DEF Remembered
  <2>2. h = gAppInfo[k + 1].hWnd /\ h # None BY <1>1, <1>5, <2>1 DEF Remembered
  <2>3. h \in Remembered BY <1>4, <2>2 DEF Remembered
  <2>4. h # App.hWnd BY <1>3, <1>4, <2>2 DEF NoWindowTwice
  <2> QED BY <2>3, <2>4
<1>6. ASSUME NEW h, h \in Remembered \ {App.hWnd} PROVE h \in Remembered'
  <2>1. PICK k \in 1..Len(gAppInfo) : h = gAppInfo[k].hWnd BY <1>6 DEF Remembered
  <2>2. k # 1 BY <1>3, <1>6, <2>1
  <2>3. k - 1 \in 1..Len(gAppInfo') /\ gAppInfo'[k - 1] = gAppInfo[k] BY <1>1, <2>2
  <2> QED BY <1>6, <2>1, <2>3 DEF Remembered
<1> QED BY <1>1, <1>3, <1>4, <1>5, <1>6

-----------------------------------------------------------------------------
(* The browser and the user.                                                *)
LEMMA NewWindow ==
  ASSUME RunTypes, MakeWindow
  PROVE  /\ browser \in Process /\ browser \in alive /\ browser \notin dying
         /\ \E w \in Window \ Made :
              /\ open' = open \cup {w} /\ Made' = Made \cup {w}
              /\ owner' \in [Window -> Process \cup {None}]
              /\ owner'[w] = browser /\ \A v \in Window \ {w} : owner'[v] = owner[v]
<1>1. browser \in Process /\ browser \in alive /\ browser # None /\ browser \notin dying
  BY DEF RunTypes, MakeWindow
<1> DEFINE w == NewOf(Window \ Made)
<1>2. w \in Window \ Made
  <2>1. Window \ Made # {} BY DEF MakeWindow, Made
  <2> QED BY <2>1 DEF NewOf
<1>3. owner' = [owner EXCEPT ![w] = browser] /\ open' = open \cup {w} BY DEF MakeWindow
<1> HIDE DEF w
<1>4. /\ owner' \in [Window -> Process \cup {None}]
      /\ owner'[w] = browser /\ \A v \in Window \ {w} : owner'[v] = owner[v]
  BY <1>1, <1>2, <1>3 DEF RunTypes
<1>5. Made' = Made \cup {w} BY <1>1, <1>2, <1>4 DEF Made
<1> QED BY <1>1, <1>2, <1>3, <1>4, <1>5

(* What every step of the browser leaves true of the windows remembered and  *)
(* handled.                                                                 *)
LEMMA WorldKeeps ==
  ASSUME RunTypes, RunInv, UNCHANGED <<program, handled, killed>>,
         \A w \in Made : owner'[w] = owner[w],
         open' \cap Made \subseteq open, titled \subseteq titled',
         \A p \in dying : p \in dying' \/ \A w \in open' : owner'[w] # p
  PROVE  /\ EntriesTrue' /\ AskedForOne' /\ SeenBefore' /\ NoWindowTwice' /\ HandledIsGone'
         /\ UNCHANGED <<Remembered, pc, gAppInfo, pidOld, launched, killed>>
<1>1. UNCHANGED <<pc, gAppInfo, pidOld, launched, handled, killed>> BY DEF program
<1>2. UNCHANGED Remembered BY <1>1 DEF Remembered
<1>3. Remembered \subseteq Made BY RememberedType DEF RunInv
<1>4. EntriesTrue'
  <2> SUFFICES ASSUME NEW k \in 1..Len(gAppInfo), gAppInfo[k].hWnd # None
               PROVE  /\ gAppInfo[k].hWnd \in titled'
                      /\ gAppInfo[k].pid = owner'[gAppInfo[k].hWnd]
    BY <1>1 DEF EntriesTrue
  <2> QED BY DEF RunInv, EntriesTrue, RunTypes
<1>5. SeenBefore' BY <1>1, <1>2, <1>3 DEF SeenBefore, RunInv
<1>6. HandledIsGone' BY <1>1 DEF HandledIsGone, RunInv, RunTypes
<1>7. AskedForOne' /\ NoWindowTwice' BY <1>1 DEF AskedForOne, NoWindowTwice, App, RunInv
<1> QED BY <1>1, <1>2, <1>4, <1>5, <1>6, <1>7

LEMMA HandOverKeeps == ASSUME RunTypes, RunInv, HandOver PROVE RunTypes' /\ RunInv'
<1>1. PICK p \in alive \ {browser} :
        /\ p \notin dying
        /\ IF browser = None THEN browser' = p /\ UNCHANGED alive
           ELSE alive' = alive \ {p} /\ UNCHANGED browser
  BY DEF HandOver
<1>2. /\ UNCHANGED <<started, owner, open, titled, dying, asked, prompt, program, handled, killed>>
      /\ pending' = pending + 1
  BY DEF HandOver
<1>3. UNCHANGED <<Made, pc, launched, gAppInfo>> BY <1>2 DEF Made, program
<1>4. \A w \in open' : owner'[w] = browser'
  BY <1>1, <1>2, NoneAssumption DEF RunTypes, Made
<1>5. RunTypes' BY <1>1, <1>2, <1>3, <1>4 DEF RunTypes
<1>6. /\ EntriesTrue' /\ AskedForOne' /\ SeenBefore' /\ NoWindowTwice' /\ HandledIsGone'
      /\ UNCHANGED <<Remembered, pc, gAppInfo, pidOld, launched, killed>>
  BY <1>2, WorldKeeps
<1>7. PromptInv'
  <2>1. CASE ~prompt BY <1>2, <2>1 DEF PromptInv
  <2>2. CASE prompt
    <3>1. pc = "poll" BY <1>1, <2>2 DEF RunInv, PromptInv, Quiet, RunTypes
    <3>2. p = launched /\ pending = 0 /\ open = Remembered /\ alive \subseteq {browser, launched}
      BY <1>1, <2>2, <3>1 DEF RunInv, PromptInv, Quiet, Starting
    <3>3. alive' \subseteq {browser'} /\ pending' = 1 /\ open' = Remembered'
      BY <1>1, <1>2, <1>6, <3>2, NoneAssumption DEF RunTypes
    <3>4. Starting' BY <3>3 DEF Starting
    <3> QED BY <1>2, <1>6, <2>2, <3>1, <3>4 DEF RunInv, PromptInv
  <2> QED BY <2>1, <2>2 DEF RunTypes
<1> QED BY <1>5, <1>6, <1>7 DEF RunInv

LEMMA WindowComesKeeps == ASSUME RunTypes, RunInv, WindowComes PROVE RunTypes' /\ RunInv'
<1>1. MakeWindow /\ pending > 0 /\ pending' = pending - 1
      /\ UNCHANGED <<started, titled, alive, dying, browser, asked, prompt, program, handled, killed>>
  BY DEF WindowComes
<1>2. browser \in Process /\ browser \in alive /\ browser \notin dying BY <1>1, NewWindow
<1>3. PICK w \in Window \ Made :
        /\ open' = open \cup {w} /\ Made' = Made \cup {w}
        /\ owner' \in [Window -> Process \cup {None}]
        /\ owner'[w] = browser /\ \A v \in Window \ {w} : owner'[v] = owner[v]
  BY <1>1, NewWindow
<1>4. Made \subseteq Window BY DEF Made
<1>5. \A v \in open' : owner'[v] = browser' BY <1>1, <1>3, <1>4 DEF RunTypes
<1>6. UNCHANGED <<pc, launched, gAppInfo>> BY <1>1 DEF program
<1>7. RunTypes' BY <1>1, <1>3, <1>5, <1>6 DEF RunTypes
<1>8. \A v \in Made : owner'[v] = owner[v] BY <1>3, <1>4
<1>9. open' \cap Made \subseteq open BY <1>3
<1>10. /\ EntriesTrue' /\ AskedForOne' /\ SeenBefore' /\ NoWindowTwice' /\ HandledIsGone'
       /\ UNCHANGED <<Remembered, pc, gAppInfo, pidOld, launched, killed>>
  BY <1>1, <1>8, <1>9, WorldKeeps
<1>11. PromptInv'
  <2>1. CASE ~prompt BY <1>1, <2>1 DEF PromptInv
  <2>2. CASE prompt
    <3>1. pc = "poll" BY <1>1, <2>2 DEF RunInv, PromptInv, Quiet
    <3>2. alive \subseteq {browser} /\ pending = 1 /\ open = Remembered
      BY <1>1, <1>2, <2>2, <3>1 DEF RunInv, PromptInv, Quiet, Starting
    <3>3. w \in Window \ Remembered BY <1>3, RememberedType DEF RunInv
    <3>4. Quiet' BY <1>1, <3>2 DEF Quiet
    <3>5. Starting' BY <1>3, <1>10, <3>2, <3>3, <3>4 DEF Starting
    <3>6. (asked \cap open = {})' BY <1>1, <1>3, <2>2, <3>1 DEF RunInv, PromptInv, RunTypes
    <3> QED BY <1>1, <1>10, <2>2, <3>1, <3>5, <3>6 DEF RunInv, PromptInv
  <2> QED BY <2>1, <2>2 DEF RunTypes
<1> QED BY <1>7, <1>10, <1>11 DEF RunInv

LEMMA GetsTitleKeeps == ASSUME RunTypes, RunInv, GetsTitle PROVE RunTypes' /\ RunInv'
<1>1. PICK w \in open \ titled : titled' = titled \cup {w} BY DEF GetsTitle
<1>2. UNCHANGED <<started, owner, open, alive, dying, browser, pending, asked, prompt, program, handled, killed>>
  BY DEF GetsTitle
<1>3. UNCHANGED <<Made, pc, launched, gAppInfo>> BY <1>2 DEF Made, program
<1>4. RunTypes' BY <1>1, <1>2, <1>3 DEF RunTypes
<1>5. /\ EntriesTrue' /\ AskedForOne' /\ SeenBefore' /\ NoWindowTwice' /\ HandledIsGone'
      /\ UNCHANGED <<Remembered, pc, gAppInfo, pidOld, launched, killed>>
  BY <1>1, <1>2, WorldKeeps
<1>6. PromptInv'
  BY <1>2, <1>5 DEF RunInv, PromptInv, Quiet, Starting, App
<1> QED BY <1>4, <1>5, <1>6 DEF RunInv

LEMMA VisitorOpensKeeps == ASSUME RunTypes, RunInv, VisitorOpens PROVE RunTypes' /\ RunInv'
<1>1. MakeWindow /\ ~prompt
      /\ UNCHANGED <<started, titled, alive, dying, browser, pending, asked, prompt, program, handled, killed>>
  BY DEF VisitorOpens
<1>2. PICK w \in Window \ Made :
        /\ open' = open \cup {w} /\ Made' = Made \cup {w}
        /\ owner' \in [Window -> Process \cup {None}]
        /\ owner'[w] = browser /\ \A v \in Window \ {w} : owner'[v] = owner[v]
  BY <1>1, NewWindow
<1>3. Made \subseteq Window BY DEF Made
<1>4. \A v \in open' : owner'[v] = browser' BY <1>1, <1>2, <1>3 DEF RunTypes
<1>5. UNCHANGED <<pc, launched, gAppInfo>> BY <1>1 DEF program
<1>6. RunTypes' BY <1>1, <1>2, <1>4, <1>5 DEF RunTypes
<1>7. /\ \A v \in Made : owner'[v] = owner[v]
      /\ open' \cap Made \subseteq open
  BY <1>2, <1>3
<1>8. /\ EntriesTrue' /\ AskedForOne' /\ SeenBefore' /\ NoWindowTwice' /\ HandledIsGone'
  BY <1>1, <1>7, WorldKeeps
<1> QED BY <1>1, <1>6, <1>8 DEF RunInv, PromptInv

LEMMA ShutKeeps ==
  ASSUME RunTypes, RunInv, NEW w \in open, Shut(w), ~prompt \/ w \in asked
  PROVE  RunTypes' /\ RunInv'
<1>1. /\ open' = open \ {w}
      /\ UNCHANGED <<started, owner, titled, pending, asked, prompt, program, handled, killed>>
  BY DEF Shut
<1>2. \/ /\ pending = 0 /\ {v \in open' : owner[v] = browser} = {}
         /\ alive' = alive \ {browser} /\ dying' = dying \ {browser} /\ browser' = None
      \/ UNCHANGED <<alive, dying, browser>>
  BY DEF Shut
<1>3. UNCHANGED <<Made, pc, launched, gAppInfo>> BY <1>1 DEF Made, program
<1>4. \A v \in open' : owner'[v] = browser' BY <1>1, <1>2 DEF RunTypes
<1>5. RunTypes' BY <1>1, <1>2, <1>3, <1>4 DEF RunTypes
<1>6. \A p \in dying : p \in dying' \/ \A v \in open' : owner'[v] # p
  BY <1>1, <1>2 DEF RunTypes
<1>7. /\ EntriesTrue' /\ AskedForOne' /\ SeenBefore' /\ NoWindowTwice' /\ HandledIsGone'
      /\ UNCHANGED <<Remembered, pc, gAppInfo, pidOld, launched, killed>>
  BY <1>1, <1>6, WorldKeeps
<1>8. PromptInv'
  <2>1. CASE ~prompt BY <1>1, <2>1 DEF PromptInv
  <2>2. CASE prompt
    <3>1. pc = "ask" /\ w = App.hWnd /\ Quiet /\ open \subseteq Remembered
          /\ Remembered \ {App.hWnd} \subseteq open /\ asked \cap open \subseteq {App.hWnd}
          /\ killed = {} /\ dying = {} /\ \A k \in 1..Len(gAppInfo) : gAppInfo[k].hWnd # None
      BY <2>2 DEF RunInv, PromptInv
    <3>2. UNCHANGED App BY <1>3 DEF App
    <3>3. Quiet' BY <1>1, <1>2, <3>1 DEF Quiet
    <3>4. dying' = {} BY <1>2, <3>1
    <3> QED BY <1>1, <1>3, <1>7, <2>2, <3>1, <3>2, <3>3, <3>4 DEF PromptInv
  <2> QED BY <2>1, <2>2 DEF RunTypes
<1> QED BY <1>5, <1>7, <1>8 DEF RunInv

LEMMA DiesKeeps == ASSUME RunTypes, RunInv, Dies PROVE RunTypes' /\ RunInv'
<1>1. PICK p \in dying :
        /\ alive' = alive \ {p} /\ dying' = dying \ {p}
        /\ open' = {w \in open : owner[w] # p}
        /\ browser' = (IF browser = p THEN None ELSE browser)
        /\ pending' = (IF browser = p THEN 0 ELSE pending)
        /\ UNCHANGED <<started, owner, titled, asked, prompt, program, handled, killed>>
  BY DEF Dies
<1>2. UNCHANGED <<Made, pc, launched, gAppInfo>> BY <1>1 DEF Made, program
<1>3. \A v \in open' : owner'[v] = browser' BY <1>1 DEF RunTypes
<1>4. RunTypes' BY <1>1, <1>2, <1>3 DEF RunTypes
<1>5. /\ EntriesTrue' /\ AskedForOne' /\ SeenBefore' /\ NoWindowTwice' /\ HandledIsGone'
  BY <1>1, WorldKeeps
<1>6. ~prompt BY <1>1 DEF RunInv, PromptInv
<1>7. PromptInv' BY <1>1, <1>6 DEF PromptInv
<1> QED BY <1>4, <1>5, <1>7 DEF RunInv

LEMMA BrowserKeeps == ASSUME RunTypes, RunInv, Browser PROVE RunTypes' /\ RunInv'
<1>1. CASE VisitorCloses BY <1>1, ShutKeeps DEF VisitorCloses
<1>2. CASE Obeys BY <1>2, ShutKeeps DEF Obeys
<1> QED BY <1>1, <1>2, HandOverKeeps, WindowComesKeeps, GetsTitleKeeps, VisitorOpensKeeps, DiesKeeps
        DEF Browser

-----------------------------------------------------------------------------
(* The program.                                                             *)

(* Steps that change nothing but where the program is.                       *)
LEMMA GoesOn ==
  ASSUME RunTypes, RunInv, UNCHANGED <<world, gAppInfo, handled, killed, launched>>,
         pc' \in {"idle", "start", "close", "ended"},
         pc \notin {"poll", "ask"}
  PROVE  RunTypes' /\ RunInv'
<1>1. UNCHANGED <<Made, Remembered>> BY DEF Made, Remembered, world
<1>2. RunTypes' BY <1>1 DEF RunTypes, world
<1>3. EntriesTrue' /\ AskedForOne' /\ SeenBefore' /\ NoWindowTwice' /\ HandledIsGone'
  BY <1>1 DEF RunInv, EntriesTrue, AskedForOne, SeenBefore, NoWindowTwice, HandledIsGone, world
<1>4. PromptInv'
  BY <1>1 DEF RunInv, PromptInv, Quiet, world
<1> QED BY <1>2, <1>3, <1>4 DEF RunInv

LEMMA ListOldKeeps == ASSUME RunTypes, RunInv, ListOld PROVE RunTypes' /\ RunInv'
<1>1. /\ pc = "start" /\ pc' = "create" /\ pidOld' = open \cap titled
      /\ UNCHANGED <<world, gAppInfo, handled, killed, launched>>
  BY DEF ListOld, Snapshot, Listed
<1>2. UNCHANGED <<Made, Remembered>> BY <1>1 DEF Made, Remembered, world
<1>3. RunTypes' BY <1>1, <1>2 DEF RunTypes, world
<1>4. Remembered \subseteq titled BY RememberedType DEF RunInv
<1>5. EntriesTrue' /\ AskedForOne' /\ NoWindowTwice' /\ HandledIsGone'
  BY <1>1 DEF RunInv, EntriesTrue, AskedForOne, NoWindowTwice, HandledIsGone, world
<1>6. SeenBefore' BY <1>1, <1>2, <1>4 DEF SeenBefore, world
<1>7. PromptInv'
  BY <1>1, <1>2, <1>4 DEF RunInv, PromptInv, Quiet, world
<1> QED BY <1>3, <1>5, <1>6, <1>7 DEF RunInv

LEMMA CreateProcessKeeps == ASSUME RunTypes, RunInv, CreateProcess PROVE RunTypes' /\ RunInv'
<1>1. /\ pc = "create" /\ pc' = "poll"
      /\ started' = started \cup {launched'} /\ alive' = alive \cup {launched'}
      /\ UNCHANGED <<owner, open, titled, dying, browser, pending, asked, prompt,
                     pidOld, gAppInfo, handled, killed>>
  BY DEF CreateProcess
<1>2. launched' \in Process \ started
  <2>1. Process \ started # {} BY DEF CreateProcess, RunTypes
  <2> QED BY <2>1 DEF CreateProcess, NewOf
<1>3. UNCHANGED <<Made, Remembered>> BY <1>1 DEF Made, Remembered
<1>4. RunTypes' BY <1>1, <1>2, <1>3 DEF RunTypes
<1>5. EntriesTrue' /\ AskedForOne' /\ NoWindowTwice' /\ HandledIsGone' /\ SeenBefore'
  BY <1>1, <1>3 DEF RunInv, EntriesTrue, AskedForOne, NoWindowTwice, HandledIsGone, SeenBefore
<1>6. PromptInv'
  <2>1. CASE ~prompt BY <1>1, <2>1 DEF PromptInv
  <2>2. CASE prompt
    <3>1. pending = 0 /\ alive \subseteq {browser} /\ open = Remembered
      BY <1>1, <2>2 DEF RunInv, PromptInv, Quiet
    <3>2. launched' \in alive' \ {browser'}
      BY <1>1, <1>2, NoneAssumption DEF RunTypes
    <3>3. Starting' BY <1>1, <1>3, <3>1, <3>2 DEF Starting
    <3> QED BY <1>1, <1>3, <2>2, <3>3 DEF RunInv, PromptInv
  <2> QED BY <2>1, <2>2 DEF RunTypes
<1> QED BY <1>4, <1>5, <1>6 DEF RunInv

LEMMA NotYetKeeps == ASSUME RunTypes, RunInv, NotYet PROVE RunTypes' /\ RunInv'
<1>1. UNCHANGED <<world, pc, pidOld, launched, gAppInfo, handled, killed>> BY DEF NotYet
<1>2. UNCHANGED <<Made, Remembered>> BY <1>1 DEF Made, Remembered, world
<1>3. RunTypes' BY <1>1, <1>2 DEF RunTypes, world
<1>4. EntriesTrue' /\ AskedForOne' /\ NoWindowTwice' /\ HandledIsGone' /\ SeenBefore'
  BY <1>1, <1>2 DEF RunInv, EntriesTrue, AskedForOne, NoWindowTwice, HandledIsGone, SeenBefore, App, world
<1>5. PromptInv' BY <1>1, <1>2 DEF RunInv, PromptInv, Quiet, Starting, App, world
<1> QED BY <1>3, <1>4, <1>5 DEF RunInv

(* An entry more: a window nobody remembered, or none.                       *)
LEMMA RememberKeeps ==
  ASSUME RunTypes, RunInv, NEW h \in Window \cup {None}, NEW p \in Process, Remember(h, p),
         h # None => h \in titled /\ p = owner[h] /\ h \notin Remembered,
         prompt => h # None /\ open = Remembered \cup {h} /\ Quiet,
         pc # "ask"
  PROVE  RunTypes' /\ RunInv'
<1> DEFINE e == [hWnd |-> h, pid |-> p]
<1>1. /\ gAppInfo' = Append(gAppInfo, e) /\ pc' = "start"
      /\ UNCHANGED <<world, pidOld, launched, handled, killed>>
  BY DEF Remember
<1>2. e \in Entry /\ e.hWnd = h /\ e.pid = p BY DEF Entry
<1> HIDE DEF e
<1>3. gAppInfo \in Seq(Entry) BY DEF RunTypes
<1>4. /\ gAppInfo' \in Seq(Entry)
      /\ Len(gAppInfo') = Len(gAppInfo) + 1
      /\ \A k \in 1..Len(gAppInfo) : gAppInfo'[k] = gAppInfo[k]
      /\ gAppInfo'[Len(gAppInfo) + 1] = e
      /\ Remembered' = Remembered \cup ({h} \ {None})
  BY <1>1, <1>2, <1>3, Appended
<1>5. \A k \in 1..Len(gAppInfo') : k \in 1..Len(gAppInfo) \/ k = Len(gAppInfo) + 1
  BY <1>3, <1>4
<1>6. UNCHANGED Made BY <1>1 DEF Made, world
<1>7. RunTypes' BY <1>1, <1>4, <1>6 DEF RunTypes, world
<1>8. EntriesTrue'
  BY <1>1, <1>2, <1>4, <1>5 DEF RunInv, EntriesTrue, world
<1>9. NoWindowTwice'
  <2> SUFFICES ASSUME NEW j \in 1..Len(gAppInfo'), NEW k \in 1..Len(gAppInfo'),
                      gAppInfo'[j].hWnd = gAppInfo'[k].hWnd, gAppInfo'[j].hWnd # None
               PROVE  j = k
    BY DEF NoWindowTwice
  <2>1. \A i \in 1..Len(gAppInfo) : gAppInfo[i].hWnd # None => gAppInfo[i].hWnd \in Remembered
    BY DEF Remembered
  <2>2. \A i \in 1..Len(gAppInfo) : h # None => gAppInfo[i].hWnd # h BY <2>1
  <2>3. CASE j \in 1..Len(gAppInfo) /\ k \in 1..Len(gAppInfo)
    BY <1>4, <2>3 DEF RunInv, NoWindowTwice
  <2>4. CASE j = Len(gAppInfo) + 1 /\ k \in 1..Len(gAppInfo) BY <1>2, <1>4, <2>2, <2>4
  <2>5. CASE k = Len(gAppInfo) + 1 /\ j \in 1..Len(gAppInfo) BY <1>2, <1>4, <2>2, <2>5
  <2> QED BY <1>5, <2>3, <2>4, <2>5
<1>10. AskedForOne' /\ SeenBefore' /\ HandledIsGone'
  BY <1>1 DEF RunInv, AskedForOne, SeenBefore, HandledIsGone, world
<1>11. PromptInv'
  <2>1. CASE ~prompt BY <1>1, <2>1 DEF PromptInv, world
  <2>2. CASE prompt
    <3>1. \A k \in 1..Len(gAppInfo') : gAppInfo'[k].hWnd # None
      BY <1>2, <1>4, <1>5, <2>2 DEF RunInv, PromptInv
    <3>2. Quiet' /\ open' = Remembered' BY <1>1, <1>4, <2>2 DEF Quiet, world
    <3> QED BY <1>1, <2>2, <3>1, <3>2 DEF RunInv, PromptInv, world
  <2> QED BY <2>1, <2>2 DEF RunTypes
<1> QED BY <1>7, <1>8, <1>9, <1>10, <1>11 DEF RunInv

LEMMA FoundKeeps == ASSUME RunTypes, RunInv, Found PROVE RunTypes' /\ RunInv'
<1>1. PICK w \in NewWindows : Remember(w, owner[w]) BY DEF Found
<1>2. pc = "poll" BY DEF Found
<1>3. w \in open /\ w \in titled /\ w \notin pidOld BY DEF NewWindows, Listed
<1>4. w \in Window /\ owner[w] \in Process BY <1>3, NoneAssumption DEF RunTypes, Made
<1>5. w \notin Remembered BY <1>2, <1>3 DEF RunInv, SeenBefore
<1>6. prompt => open = Remembered \cup {w} /\ Quiet
  BY <1>2, <1>3, <1>5 DEF RunInv, PromptInv, Starting
<1>7. w # None BY <1>4, NoneAssumption
<1> QED BY <1>1, <1>2, <1>3, <1>4, <1>5, <1>6, <1>7, RememberKeeps

LEMMA NeverFoundKeeps == ASSUME RunTypes, RunInv, NeverFound PROVE RunTypes' /\ RunInv'
<1>1. pc = "poll" /\ NewWindows = {} /\ (prompt => Settled) /\ Remember(None, launched)
  BY DEF NeverFound
<1>2. launched \in Process BY <1>1 DEF RunTypes
<1>3. ~prompt
  <2> SUFFICES ASSUME prompt PROVE FALSE OBVIOUS
  <2>1. pending = 0 /\ alive \subseteq {browser} /\ open \subseteq titled BY <1>1 DEF Settled
  <2>2. Starting /\ pidOld = Remembered BY <1>1 DEF RunInv, PromptInv
  <2>3. PICK w \in Window \ Remembered : open = Remembered \cup {w} BY <2>1, <2>2 DEF Starting
  <2>4. w \in NewWindows BY <2>1, <2>2, <2>3 DEF NewWindows, Listed
  <2> QED BY <1>1, <2>4
<1> QED BY <1>1, <1>2, <1>3, RememberKeeps

(* An entry less: its window is gone, or its process was told to end.        *)
LEMMA DoneKeeps ==
  ASSUME RunTypes, RunInv, gAppInfo # <<>>, Done,
         UNCHANGED <<started, owner, open, titled, alive, browser, pending, asked, prompt, launched>>,
         (App.hWnd \notin open /\ UNCHANGED <<dying, killed>>) \/ (~prompt /\ Terminate),
         prompt => Quiet /\ open = Remembered \ {App.hWnd} /\ asked \cap open = {}
  PROVE  RunTypes' /\ RunInv'
<1>1. gAppInfo' = Tail(gAppInfo) /\ pc' = "close" /\ handled' = handled \cup ({App.hWnd} \ {None})
  BY DEF Done
<1>2. /\ gAppInfo' \in Seq(Entry) /\ App \in Entry
      /\ Len(gAppInfo') = Len(gAppInfo) - 1 /\ Len(gAppInfo) \in Nat
      /\ \A k \in 1..Len(gAppInfo') : k + 1 \in 1..Len(gAppInfo) /\ gAppInfo'[k] = gAppInfo[k + 1]
      /\ Remembered' = Remembered \ {App.hWnd}
      /\ 1 \in 1..Len(gAppInfo) /\ App = gAppInfo[1]
  BY <1>1, Removed DEF RunTypes, RunInv
<1>3. App.hWnd # None => App.hWnd \in titled /\ App.pid = owner[App.hWnd]
  BY <1>2 DEF RunInv, EntriesTrue
<1>4. dying \subseteq dying' /\ dying' \subseteq alive BY DEF Terminate, RunTypes
<1>5. UNCHANGED Made BY DEF Made
<1>6. RunTypes' BY <1>1, <1>2, <1>3, <1>4, <1>5 DEF RunTypes
<1>7. EntriesTrue' BY <1>2 DEF RunInv, EntriesTrue
<1>8. NoWindowTwice'
  <2> SUFFICES ASSUME NEW j \in 1..Len(gAppInfo'), NEW k \in 1..Len(gAppInfo'),
                      gAppInfo'[j].hWnd = gAppInfo'[k].hWnd, gAppInfo'[j].hWnd # None
               PROVE  j = k
    BY DEF NoWindowTwice
  <2>1. j + 1 = k + 1 BY <1>2 DEF RunInv, NoWindowTwice
  <2> QED BY <2>1
<1>9. HandledIsGone'
  <2> SUFFICES ASSUME NEW w \in handled', w \in open PROVE owner[w] \in dying'
    BY DEF HandledIsGone
  <2>1. CASE w \in handled BY <1>4, <2>1 DEF RunInv, HandledIsGone
  <2>2. CASE w = App.hWnd /\ w # None
    <3>1. owner[w] \in alive BY <2>2, NoneAssumption DEF RunTypes, Made
    <3> QED BY <1>3, <2>2, <3>1 DEF Terminate
  <2> QED BY <1>1, <2>1, <2>2
<1>10. AskedForOne' /\ SeenBefore' BY <1>1 DEF AskedForOne, SeenBefore
<1>11. PromptInv'
  <2>1. CASE ~prompt BY <2>1 DEF PromptInv
  <2>2. CASE prompt
    <3>1. \A k \in 1..Len(gAppInfo') : gAppInfo'[k].hWnd # None
      BY <1>2, <2>2 DEF RunInv, PromptInv
    <3>2. Quiet' /\ open' = Remembered' BY <1>2, <2>2 DEF Quiet
    <3> QED BY <1>1, <2>2, <3>1, <3>2 DEF RunInv, PromptInv
  <2> QED BY <2>1, <2>2 DEF RunTypes
<1> QED BY <1>6, <1>7, <1>8, <1>9, <1>10, <1>11 DEF RunInv

LEMMA FirstRemembered ==
  ASSUME RunTypes, gAppInfo # <<>>
  PROVE  App.hWnd # None => App.hWnd \in Remembered
<1>1. gAppInfo \in Seq(Entry) BY DEF RunTypes
<1>2. Len(gAppInfo) > 0 BY <1>1, EmptySeq
<1>3. 1 \in 1..Len(gAppInfo) /\ App = gAppInfo[1] BY <1>1, <1>2 DEF App
<1> QED BY <1>3 DEF Remembered

LEMMA CloseFirstKeeps == ASSUME RunTypes, RunInv, CloseFirst PROVE RunTypes' /\ RunInv'
<1>1. /\ pc = "close" /\ gAppInfo # <<>>
      /\ UNCHANGED <<started, owner, open, titled, alive, browser, pending, asked, prompt,
                     pidOld, launched>>
  BY DEF CloseFirst
<1>2. CASE App.hWnd \in open
  <2>1. pc' = "ask" /\ UNCHANGED <<gAppInfo, handled, dying, killed>> BY <1>2 DEF CloseFirst
  <2>2. UNCHANGED <<Made, Remembered, App>> BY <1>1, <2>1 DEF Made, Remembered, App
  <2>3. App.hWnd # None BY <1>2, NoneAssumption DEF RunTypes, Made
  <2>4. RunTypes' BY <1>1, <2>1, <2>2 DEF RunTypes
  <2>5. EntriesTrue' /\ NoWindowTwice' /\ HandledIsGone'
    BY <1>1, <2>1 DEF RunInv, EntriesTrue, NoWindowTwice, HandledIsGone
  <2>6. AskedForOne' /\ SeenBefore'
    BY <1>1, <2>1, <2>2, <2>3 DEF AskedForOne, SeenBefore
  <2>7. PromptInv' BY <1>1, <2>1, <2>2 DEF RunInv, PromptInv, Quiet
  <2> QED BY <2>4, <2>5, <2>6, <2>7 DEF RunInv
<1>3. CASE App.hWnd \notin open
  <2>1. Terminate /\ Done BY <1>3 DEF CloseFirst
  <2>2. ~prompt
    <3> SUFFICES ASSUME prompt PROVE FALSE OBVIOUS
    <3>1. open = Remembered BY <1>1 DEF RunInv, PromptInv
    <3>2. App.hWnd # None
      <4>1. gAppInfo \in Seq(Entry) BY DEF RunTypes
      <4>2. Len(gAppInfo) > 0 BY <1>1, <4>1, EmptySeq
      <4>3. 1 \in 1..Len(gAppInfo) /\ App = gAppInfo[1] BY <4>1, <4>2 DEF App
      <4> QED BY <4>3 DEF RunInv, PromptInv
    <3> QED BY <1>1, <1>3, <3>1, <3>2, FirstRemembered
  <2> QED BY <1>1, <2>1, <2>2, DoneKeeps
<1> QED BY <1>2, <1>3

LEMMA AskKeeps == ASSUME RunTypes, RunInv, Ask PROVE RunTypes' /\ RunInv'
<1>1. /\ pc = "ask" /\ App.hWnd \in open /\ asked' = asked \cup {App.hWnd}
      /\ UNCHANGED <<started, owner, open, titled, alive, dying, browser, pending, prompt,
                     pc, pidOld, launched, gAppInfo, handled, killed>>
  BY DEF Ask
<1>2. UNCHANGED <<Made, Remembered, App>> BY <1>1 DEF Made, Remembered, App
<1>3. RunTypes' BY <1>1, <1>2 DEF RunTypes
<1>4. EntriesTrue' /\ AskedForOne' /\ NoWindowTwice' /\ HandledIsGone' /\ SeenBefore'
  BY <1>1, <1>2 DEF RunInv, EntriesTrue, AskedForOne, NoWindowTwice, HandledIsGone, SeenBefore
<1>5. PromptInv' BY <1>1, <1>2 DEF RunInv, PromptInv, Quiet
<1> QED BY <1>3, <1>4, <1>5 DEF RunInv

LEMMA AskEndsKeeps == ASSUME RunTypes, RunInv, AskEnds PROVE RunTypes' /\ RunInv'
<1>1. /\ pc = "ask" /\ Done
      /\ UNCHANGED <<started, owner, open, titled, alive, browser, pending, asked, prompt, launched>>
      /\ \/ App.hWnd \notin open /\ UNCHANGED <<dying, killed>>
         \/ App.hWnd \in open /\ ~prompt /\ Terminate
  BY DEF AskEnds, TerminateStubborn
<1>2. gAppInfo # <<>> BY <1>1 DEF RunInv, AskedForOne
<1>3. prompt => Quiet /\ open = Remembered \ {App.hWnd} /\ asked \cap open = {}
  BY <1>1 DEF RunInv, PromptInv
<1>4. (App.hWnd \notin open /\ UNCHANGED <<dying, killed>>) \/ (~prompt /\ Terminate)
  BY DEF AskEnds, TerminateStubborn
<1>5. Done /\ UNCHANGED <<started, owner, open, titled, alive, browser, pending, asked, prompt, launched>>
  BY <1>1
<1> QED BY <1>2, <1>3, <1>4, <1>5, DoneKeeps

LEMMA RunInitial == Init => RunTypes /\ RunInv
<1> SUFFICES ASSUME Init PROVE RunTypes /\ RunInv
  OBVIOUS
<1>1. gAppInfo = <<>> /\ Len(gAppInfo) = 0 /\ gAppInfo \in Seq(Entry) BY DEF Init
<1>2. 1..Len(gAppInfo) = {} BY <1>1
<1>3. Remembered = {} BY <1>2 DEF Remembered
<1>4. RunTypes BY <1>1, ModeAssumption DEF Init, RunTypes
<1>5. RunInv
  BY <1>2, <1>3 DEF Init, RunInv, EntriesTrue, AskedForOne, SeenBefore, NoWindowTwice, HandledIsGone,
                    PromptInv, Quiet
<1> QED BY <1>4, <1>5

LEMMA RunKeeps == ASSUME RunTypes, RunInv, [Next]_vars PROVE RunTypes' /\ RunInv'
<1>1. CASE RunAll \/ RunAllEnds \/ CreateFails \/ CloseAll \/ CloseAllEnds
  <2>1. /\ pc \notin {"poll", "ask"} /\ pc' \in {"idle", "start", "close", "ended"}
        /\ UNCHANGED <<world, gAppInfo, handled, killed, launched>>
    BY <1>1 DEF RunAll, RunAllEnds, CreateFails, CloseAll, CloseAllEnds
  <2> QED BY <2>1, GoesOn
<1>2. CASE UNCHANGED vars
  <2>1. UNCHANGED <<world, pc, pidOld, launched, gAppInfo, handled, killed>> BY <1>2 DEF vars, program
  <2>2. UNCHANGED <<Made, Remembered>> BY <2>1 DEF Made, Remembered, world
  <2>3. RunTypes' BY <2>1, <2>2 DEF RunTypes, world
  <2>4. EntriesTrue' /\ AskedForOne' /\ NoWindowTwice' /\ HandledIsGone' /\ SeenBefore'
    BY <2>1, <2>2 DEF RunInv, EntriesTrue, AskedForOne, NoWindowTwice, HandledIsGone, SeenBefore, App, world
  <2>5. PromptInv' BY <2>1, <2>2 DEF RunInv, PromptInv, Quiet, Starting, App, world
  <2> QED BY <2>3, <2>4, <2>5 DEF RunInv
<1> QED BY <1>1, <1>2, BrowserKeeps, ListOldKeeps, CreateProcessKeeps, FoundKeeps, NotYetKeeps,
           NeverFoundKeeps, CloseFirstKeeps, AskKeeps, AskEndsKeeps DEF Next, Program

LEMMA RunInvHolds == DesktopSpec => [](RunTypes /\ RunInv)
<1>1. DesktopInit => RunTypes /\ RunInv BY RunInitial DEF DesktopInit
<1>2. RunTypes /\ RunInv /\ [DesktopNext]_<<tool, vars, wheelvars>> => (RunTypes /\ RunInv)'
  BY RunKeeps DEF DesktopNext
<1> QED BY <1>1, <1>2, PTL DEF DesktopSpec

(* RunWindow never remembers a window twice, and with a browser that is      *)
(* prompt it remembers every window it started and no other.                 *)
THEOREM StartsRememberedHolds == DesktopSpec => []StartsRemembered
<1>1. RunTypes /\ RunInv => StartsRemembered
  BY DEF RunInv, PromptInv, StartsRemembered, NothingForgotten
<1> QED BY <1>1, RunInvHolds, PTL

(* A window CloseAll was through with is closed or its process is about to   *)
(* end; a prompt browser is only asked, no process of it terminated.         *)
THEOREM ClosedByAskingHolds == DesktopSpec => []ClosedByAsking
<1>1. RunTypes /\ RunInv => ClosedByAsking
  BY DEF RunInv, PromptInv, ClosedByAsking, OnlyAsked
<1> QED BY <1>1, RunInvHolds, PTL
=============================================================================
