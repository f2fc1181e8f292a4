------------------------------ MODULE RunClose ------------------------------
(***************************************************************************)
(* RunCloseWindow: a click starts browser windows one after the other and   *)
(* remembers each by comparing the windows of the desktop before and after *)
(* (RunWindow); another closes all it remembers, politely at first and by   *)
(* ending the process if that does not help (CloseAll).  Both run inside    *)
(* a message handler, so that nothing else of the program runs meanwhile;  *)
(* but the browser, its processes and the user do.                         *)
(*                                                                         *)
(* Handles of windows and processes are not reused here.  A window that     *)
(* has a title keeps one.                                                  *)
(***************************************************************************)
EXTENDS Integers, Sequences, SequencesExt

CONSTANTS
  Window, Process,
  None,        \* no window, no process
  Runs,        \* windows per click: 12 in the code
  Polls,       \* looks at the desktop for a new window, 100 ms apart: 10
  Requests,    \* requests to close, 500 ms apart: 10
  Prompt       \* {TRUE}: windows appear and close before the program gives
               \* up, and nobody else opens or closes any; {FALSE}: neither;
               \* BOOLEAN: both are explored

ASSUME BoundsAssumption == Runs \in Nat /\ Polls \in Nat \ {0} /\ Requests \in Nat \ {0}
ASSUME ModeAssumption == Prompt \subseteq BOOLEAN
ASSUME NoneAssumption == None \notin Window \cup Process

VARIABLES
  (* the browser *)
  owner,      \* the process of each window ever made
  open,       \* the windows that exist
  titled,     \* those with a title, which ListAllZOrderWindows lists
  started,    \* history: processes ever made
  alive,      \* processes
  dying,      \* those told to terminate
  browser,    \* the one that owns the windows
  pending,    \* starts handed over to it, whose window is to come
  asked,      \* windows with a WM_CLOSE
  prompt,     \* this behaviour is one of a prompt browser
  (* the program *)
  pc,
  left,       \* windows still to start
  pidOld,     \* the windows before the start
  launched,   \* pi.dwProcessId
  count,
  gAppInfo,   \* what it remembers: window and process
  quitting,   \* CloseAll was called for WM_DESTROY
  (* history *)
  handled,    \* windows CloseAll was through with
  killed      \* processes CloseAll terminated

world == <<owner, open, titled, started, alive, dying, browser, pending, asked, prompt>>
program == <<pc, left, pidOld, launched, count, gAppInfo, quitting>>
vars == <<world, program, handled, killed>>

Made == {w \in Window : owner[w] # None}

(* Handles and process ids are new ones; which ones is of no account.       *)
NewOf(unused) == CHOOSE x \in unused : TRUE
Listed == open \cap titled

Init ==
  /\ owner = [w \in Window |-> None]
  /\ open = {} /\ titled = {} /\ asked = {}
  /\ started = {} /\ alive = {} /\ dying = {} /\ browser = None /\ pending = 0
  /\ prompt \in Prompt
  /\ pc = "idle" /\ left = 0 /\ pidOld = {} /\ launched = None /\ count = 0
  /\ gAppInfo = <<>> /\ quitting = FALSE
  /\ handled = {} /\ killed = {}

-----------------------------------------------------------------------------
(* The browser and the user.                                               *)

(* A process that was started hands over to the browser that runs and ends, *)
(* or is the browser from now on.                                          *)
HandOver ==
  /\ \E p \in alive \ {browser} :
       /\ p \notin dying
       /\ IF browser = None
            THEN browser' = p /\ UNCHANGED alive
            ELSE alive' = alive \ {p} /\ UNCHANGED browser
  /\ pending' = pending + 1
  /\ UNCHANGED <<started, owner, open, titled, dying, asked, prompt, program, handled, killed>>

MakeWindow ==
  /\ browser # None /\ browser \notin dying
  /\ Made # Window
  /\ LET w == NewOf(Window \ Made)
     IN owner' = [owner EXCEPT ![w] = browser] /\ open' = open \cup {w}

WindowComes ==
  /\ pending > 0
  /\ MakeWindow
  /\ pending' = pending - 1
  /\ UNCHANGED <<started, titled, alive, dying, browser, asked, prompt, program, handled, killed>>

GetsTitle ==
  /\ \E w \in open \ titled : titled' = titled \cup {w}
  /\ UNCHANGED <<started, owner, open, alive, dying, browser, pending, asked, prompt, program, handled, killed>>

VisitorOpens ==
  /\ ~prompt
  /\ MakeWindow
  /\ UNCHANGED <<started, titled, alive, dying, browser, pending, asked, prompt, program, handled, killed>>

(* The browser ends with its last window. *)
Shut(w) ==
  /\ open' = open \ {w}
  /\ IF owner[w] = browser /\ {v \in open' : owner[v] = browser} = {} /\ pending = 0
       THEN /\ alive' = alive \ {browser} /\ dying' = dying \ {browser}
            /\ browser' = None
       ELSE UNCHANGED <<alive, dying, browser>>
  /\ UNCHANGED <<started, owner, titled, pending, asked, prompt, program, handled, killed>>

VisitorCloses == ~prompt /\ \E w \in open : Shut(w)

(* A window may also ask back, and stay. *)
Obeys == \E w \in open \cap asked : Shut(w)

(* TerminateProcess takes its time; what the browser was to open is lost. *)
Dies ==
  \E p \in dying :
    /\ alive' = alive \ {p} /\ dying' = dying \ {p}
    /\ open' = {w \in open : owner[w] # p}
    /\ browser' = IF browser = p THEN None ELSE browser
    /\ pending' = IF browser = p THEN 0 ELSE pending
    /\ UNCHANGED <<started, owner, titled, asked, prompt, program, handled, killed>>

Browser ==
  HandOver \/ WindowComes \/ GetsTitle \/ VisitorOpens \/ VisitorCloses \/ Obeys \/ Dies

-----------------------------------------------------------------------------
(* The program.                                                            *)

(* WM_LBUTTONDOWN *)
RunAll ==
  /\ pc = "idle"
  /\ pc' = "start" /\ left' = Runs
  /\ UNCHANGED <<world, pidOld, launched, count, gAppInfo, quitting, handled, killed>>

RunAllEnds ==
  /\ pc = "start" /\ left = 0
  /\ pc' = "idle"
  /\ UNCHANGED <<world, left, pidOld, launched, count, gAppInfo, quitting, handled, killed>>

Snapshot == Listed

ListOld ==
  /\ pc = "start" /\ left > 0
  /\ pidOld' = Snapshot
  /\ left' = left - 1
  /\ pc' = "create"
  /\ UNCHANGED <<world, launched, count, gAppInfo, quitting, handled, killed>>

CreateProcess ==
  /\ pc = "create"
  /\ started # Process
  /\ launched' = NewOf(Process \ started)
  /\ started' = started \cup {launched'}
  /\ alive' = alive \cup {launched'}
  /\ count' = Polls
  /\ pc' = "poll"
  /\ UNCHANGED <<owner, open, titled, dying, browser, pending, asked, prompt,
                 left, pidOld, gAppInfo, quitting, handled, killed>>

CreateFails ==
  /\ pc = "create"
  /\ pc' = "start"
  /\ UNCHANGED <<world, left, pidOld, launched, count, gAppInfo, quitting, handled, killed>>

(* Mutant of the next: only the process is compared. *)
NewWindowsByProcess == {w \in Listed : owner[w] \notin {owner[v] : v \in pidOld}}

(* Lines 342-360: which of them is on top is up to the user.  All windows   *)
(* here are the browser's; those of other programs are passed over.        *)
NewWindows == Listed \ pidOld

Remember(w, p) ==
  /\ gAppInfo' = Append(gAppInfo, [hWnd |-> w, pid |-> p])
  /\ pc' = "start"
  /\ UNCHANGED <<world, left, pidOld, launched, quitting, handled, killed>>

Found ==
  /\ pc = "poll"
  /\ \E w \in NewWindows : Remember(w, owner[w])
  /\ UNCHANGED count

(* A prompt browser: the last look comes after the window.                  *)
Settled == pending = 0 /\ alive \subseteq {browser} /\ open \subseteq titled

NotYet ==
  /\ pc = "poll" /\ NewWindows = {} /\ count > 1
  /\ count' = count - 1
  /\ UNCHANGED <<world, pc, left, pidOld, launched, gAppInfo, quitting, handled, killed>>

NeverFound ==
  /\ pc = "poll" /\ NewWindows = {} /\ count = 1
  /\ prompt => Settled
  /\ count' = 0
  /\ Remember(None, launched)

(* WM_RBUTTONDOWN and WM_DESTROY *)
CloseAll ==
  /\ pc = "idle"
  /\ pc' = "close"
  /\ quitting' \in BOOLEAN
  /\ UNCHANGED <<world, left, pidOld, launched, count, gAppInfo, handled, killed>>

App == Head(gAppInfo)

Done ==
  /\ handled' = handled \cup ({App.hWnd} \ {None})
  /\ gAppInfo' = Tail(gAppInfo)
  /\ pc' = "close"

(* OpenProcess finds only a process that runs. *)
Terminate ==
  IF App.pid \in alive
    THEN dying' = dying \cup {App.pid} /\ killed' = killed \cup {App.pid}
    ELSE UNCHANGED <<dying, killed>>

(* Lines 408-418. *)
CloseFirst ==
  /\ pc = "close" /\ gAppInfo # <<>>
  /\ IF App.hWnd \in open
       THEN /\ pc' = "ask" /\ count' = Requests
            /\ UNCHANGED <<gAppInfo, handled, dying, killed>>
       ELSE Terminate /\ Done /\ UNCHANGED count
  /\ UNCHANGED <<started, owner, open, titled, alive, browser, pending, asked, prompt,
                 left, pidOld, launched, quitting>>

(* PostMessage(WM_CLOSE) and Sleep. *)
Ask ==
  /\ pc = "ask" /\ App.hWnd \in open /\ count > 0
  /\ asked' = asked \cup {App.hWnd}
  /\ count' = count - 1
  /\ UNCHANGED <<started, owner, open, titled, alive, dying, browser, pending, prompt,
                 pc, left, pidOld, launched, gAppInfo, quitting, handled, killed>>

(* Mutants of the next: it asks for ever; a window that stays is left alone. *)
GiveUpNever == FALSE
GiveUp == count = 0

TerminateNever == UNCHANGED <<dying, killed>>
TerminateStubborn == Terminate

(* Lines 420-439. *)
AskEnds ==
  /\ pc = "ask"
  /\ \/ App.hWnd \notin open /\ UNCHANGED <<dying, killed>>
     \/ App.hWnd \in open /\ GiveUp /\ ~prompt /\ TerminateStubborn
  /\ Done
  /\ UNCHANGED <<started, owner, open, titled, alive, browser, pending, asked, prompt,
                 left, pidOld, launched, count, quitting>>

CloseAllEnds ==
  /\ pc = "close" /\ gAppInfo = <<>>
  /\ pc' = IF quitting THEN "ended" ELSE "idle"
  /\ UNCHANGED <<world, left, pidOld, launched, count, gAppInfo, quitting, handled, killed>>

Program ==
  \/ RunAllEnds \/ ListOld \/ CreateProcess \/ CreateFails \/ Found \/ NotYet \/ NeverFound
  \/ CloseFirst \/ Ask \/ AskEnds \/ CloseAllEnds

Next == Browser \/ RunAll \/ CloseAll \/ Program

Spec == Init /\ [][Next]_vars

(* The handlers run on; a process that was told to terminate does.         *)
FairSpec == Spec /\ WF_vars(Program) /\ WF_vars(Dies)

-----------------------------------------------------------------------------
(* Properties.                                                             *)

Remembered == {gAppInfo[k].hWnd : k \in 1..Len(gAppInfo)} \ {None}

(* Two entries never stand for the same window: the second of them would   *)
(* find it closed, and end the process with every other window.            *)
NoWindowTwice ==
  \A j, k \in 1..Len(gAppInfo) :
    gAppInfo[j].hWnd = gAppInfo[k].hWnd /\ gAppInfo[j].hWnd # None => j = k

(* A window CloseAll was through with is closed, or its process is about   *)
(* to end, whatever the window does with the requests.                     *)
HandledIsGone == \A w \in handled : w \notin open \/ owner[w] \in dying

(* With windows that appear and close in time, and no others, each start    *)
(* is remembered with its own window, ...                                  *)
NothingForgotten ==
  prompt /\ pc \in {"idle", "start"} => open = Remembered
StartsRemembered == NoWindowTwice /\ NothingForgotten

(* ... and no process is ever terminated: closing is a matter of asking.   *)
OnlyAsked == prompt => killed = {}
ClosedByAsking == HandledIsGone /\ OnlyAsked

(* CloseAll ends, with windows that stay open too.                          *)
CloseAllTerminates == ~prompt /\ pc \in {"close", "ask"} ~> pc \in {"idle", "ended"}
=============================================================================
