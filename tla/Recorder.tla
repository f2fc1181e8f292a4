------------------------------ MODULE Recorder ------------------------------
(***************************************************************************)
(* The keyboard and mouse recorder (MouseKeyboardEmulator).  One thread    *)
(* runs everything: a 100 ms WM_TIMER drives a mode (gnState), low level   *)
(* hooks append the user's input to capture.dat, and the playback mode     *)
(* replays that file, for ever, by injecting input.                        *)
(*   0 wait   1 prepare capture   2 prepare playback                       *)
(*   3 capture   4 playback   5 about to exit                              *)
(* The file outlives the program: runs append to it, and a run replays     *)
(* what all the earlier ones recorded.  Mouse buttons are keys here; Move  *)
(* is the input without a state (moving, wheel).  A tick is one period of  *)
(* the timer; GetTickCount wraps at W ticks, GetTickCount64 does not, and  *)
(* the times computed from it are kept as ages.                            *)
(***************************************************************************)
EXTENDS Integers, Sequences, FiniteSets

CONSTANTS
  LCtrl, RCtrl, LShift, RShift, Other,   \* keys
  Move,       \* mouse input that is neither pressed nor released
  Touch,      \* bound: the inputs the user makes
  NoFile,     \* the content of capture.dat when it does not exist
  W,          \* ticks after which GetTickCount wraps (2^32 ms)
  Prep,       \* 10000 ms, in ticks
  Linger,     \* 4000 ms, in ticks
  Failures,   \* the calls that may fail: "write", "hook"
  MaxLag,     \* bound: ticks between two WM_TIMER messages
  MaxRec,     \* bound: records in the file
  MaxRun      \* bound: times the program is started

Key == {LCtrl, RCtrl, LShift, RShift, Other}
Ctrl == {LCtrl, RCtrl}
Shift == {LShift, RShift}

Record == [what : Key \cup {Move}, down : BOOLEAN, time : 0..W-1]

ASSUME KeyAssumption == Touch \subseteq Key \cup {Move} /\ Move \notin Key
ASSUME FileAssumption == NoFile \notin Seq(Record)
ASSUME NumberAssumption ==
  /\ Failures \subseteq {"write", "hook"}
  /\ W \in Nat \ {0} /\ MaxLag \in Nat \ {0}
  /\ Prep \in Nat /\ Linger \in Nat /\ MaxRec \in Nat /\ MaxRun \in Nat

VARIABLES
  (* the program *)
  alive,      \* the window, and with it the process, exists
  timer,      \* the window's timer is set
  mode,       \* gnState
  since,      \* age of tTickOld; Unset before the first WM_TIMER
  ctrlLatch,  \* bPressed of IsDoubleCtrlPressed
  shiftLatch, \* bPressed of IsDoubleShiftPressed
  hooked,     \* ghKeyHook and ghMouseHook are installed
  load,       \* bFileLoad
  open,       \* flCapture # NULL
  pos,        \* records of the file played in this pass
  gap,        \* age of the tick at which tTickPlaybackGap was set
  (* the machine *)
  down,       \* the keys that are down (GetAsyncKeyState)
  file,       \* capture.dat
  clock,      \* GetTickCount
  quiet,      \* ticks since the last WM_TIMER
  runs,       \* times the program was started
  (* history *)
  first,      \* length of the file when this run began
  lost,       \* the keys whose last event could not be written
  lifted,     \* both Ctrl keys were up since a double press was last accepted
  pass,       \* age of the first record of this pass
  played      \* this run has replayed something

control == <<alive, timer, mode, since, ctrlLatch, shiftLatch, hooked>>
playback == <<load, open, pos, gap>>
machine == <<down, file, clock, quiet, runs>>
history == <<first, lost, lifted, pass, played>>
vars == <<control, playback, machine, history>>

Unset == -1
SinceCap == Prep + Linger + 1
GapCap == W + MaxLag

Records == IF file = NoFile THEN <<>> ELSE file

TypeOK ==
  /\ alive \in BOOLEAN /\ timer \in BOOLEAN /\ hooked \in BOOLEAN
  /\ mode \in 0..5
  /\ since \in Unset..SinceCap
  /\ ctrlLatch \in BOOLEAN /\ shiftLatch \in BOOLEAN
  /\ load \in BOOLEAN /\ open \in BOOLEAN
  /\ pos \in 0..Len(Records)
  /\ gap \in 0..GapCap
  /\ down \subseteq Key
  /\ file \in Seq(Record) \cup {NoFile}
  /\ clock \in 0..W-1
  /\ quiet \in 0..MaxLag
  /\ runs \in 0..MaxRun
  /\ first \in 0..Len(Records)
  /\ lost \subseteq Key \cup {Move}
  /\ lifted \in BOOLEAN /\ played \in BOOLEAN
  /\ pass \in 0..GapCap

Init ==
  /\ alive = FALSE /\ timer = FALSE /\ mode = 0 /\ since = Unset
  /\ ctrlLatch = FALSE /\ shiftLatch = FALSE /\ hooked = FALSE
  /\ load = TRUE /\ open = FALSE /\ pos = 0 /\ gap = 0
  /\ quiet = 0
  /\ lost = {} /\ lifted = TRUE /\ pass = 0 /\ played = FALSE
  /\ down = {} /\ file = NoFile /\ clock = 0 /\ runs = 0 /\ first = 0

(* wWinMain, InitInstance: the window and its 100 ms timer. *)
Launch ==
  /\ ~alive /\ runs < MaxRun
  /\ alive' = TRUE /\ timer' = TRUE
  /\ runs' = runs + 1
  /\ first' = Len(Records)
  /\ UNCHANGED <<mode, since, ctrlLatch, shiftLatch, hooked, playback, down,
                 file, clock, quiet, lost, lifted, pass, played>>

(* WM_DESTROY: ReleaseCaptureMode, KillTimer, PostQuitMessage; the static   *)
(* variables end with the process.                                         *)
Destroy ==
  /\ alive' = FALSE /\ timer' = FALSE /\ mode' = 0 /\ since' = Unset
  /\ ctrlLatch' = FALSE /\ shiftLatch' = FALSE /\ hooked' = FALSE
  /\ load' = TRUE /\ open' = FALSE /\ pos' = 0 /\ gap' = 0
  /\ quiet' = 0
  /\ lost' = {} /\ lifted' = TRUE /\ pass' = 0 /\ played' = FALSE

(* IDM_EXIT or the close box of the window. *)
CloseWindow ==
  /\ alive
  /\ Destroy
  /\ UNCHANGED <<down, file, clock, runs, first>>

-----------------------------------------------------------------------------
(* The user's input, and the hooks that write it down.                     *)

(* Mutants of the next: only the capture mode records; the hooks are        *)
(* installed for the playback as well.                                     *)
RecordingCaptureOnly == alive /\ hooked /\ mode = 3
RecordingAlways == alive /\ mode \in {3, 5}

(* nCode == HC_ACTION && (gnState == 3 || gnState == 5), in an installed hook. *)
Recording == alive /\ hooked /\ mode \in {3, 5}

(* LowLevelKeyboardProc and LowLevelMouseProc: append one record, unless    *)
(* the file does not open.                                                 *)
Hook(k) ==
  IF Recording
    THEN \/ /\ Len(Records) < MaxRec
            /\ file' = Append(Records, [what |-> k, down |-> k \in down', time |-> clock])
            /\ lost' = lost \ {k}
         \/ /\ "write" \in Failures
            /\ lost' = lost \cup {k}
            /\ UNCHANGED file
    ELSE UNCHANGED <<file, lost>>

(* The user presses or releases a key, or moves the mouse. *)
Input(k) ==
  /\ k \in Touch
  /\ down' = IF k = Move THEN down
             ELSE IF k \in down THEN down \ {k} ELSE down \cup {k}
  /\ lifted' = (lifted \/ Ctrl \cap down' = {})
  /\ Hook(k)
  /\ UNCHANGED <<control, playback, clock, quiet, runs, first, pass, played>>

-----------------------------------------------------------------------------
(* WM_TIMER.                                                               *)

(* Mutants of the next two: no latch; the latch is let go by one key. *)
DoublePressLevel(pair, latch) == pair \subseteq down
NextLatchOneUp(pair, latch) == pair \subseteq down

(* IsDoubleCtrlPressed, IsDoubleShiftPressed: both keys of a pair are down  *)
(* and have not been since the last sample at which both were up.          *)
DoublePress(pair, latch) == ~latch /\ pair \subseteq down
NextLatch(pair, latch) ==
  IF latch THEN pair \cap down # {} ELSE pair \subseteq down

Elapsed == IF since = Unset THEN 0 ELSE since

TimerMessage ==
  /\ alive /\ timer /\ quiet >= 1
  /\ quiet' = 0
  /\ UNCHANGED <<file, clock, runs, first, lost>>

(* What the modes 0 to 3 have in common: the double Ctrl is looked at. *)
SampleCtrl ==
  /\ ctrlLatch' = NextLatch(Ctrl, ctrlLatch)
  /\ UNCHANGED <<alive, shiftLatch, playback, down, pass, played>>

Enter(m) == mode' = m /\ since' = 0

(* Mutant: tTickOld is renewed by every timer message. *)
StayRestarts == mode' = mode /\ since' = 0
Stay == mode' = mode /\ since' = Elapsed

(* Both hooks are installed or none; if none, there are no more messages. *)
SetCaptureMode ==
  \/ Enter(1) /\ hooked' = TRUE /\ UNCHANGED timer
  \/ "hook" \in Failures /\ Stay /\ timer' = FALSE /\ UNCHANGED hooked

(* case 0. *)
Wait ==
  /\ mode = 0 /\ TimerMessage /\ SampleCtrl
  /\ IF DoublePress(Ctrl, ctrlLatch)
       THEN lifted' = FALSE /\ SetCaptureMode
       ELSE /\ IF Elapsed > Prep THEN Enter(2) ELSE Stay
            /\ UNCHANGED <<timer, hooked, lifted>>

(* cases 1 and 2: a double Ctrl gives up; else, in time, on to mode m. *)
Prepare(m) ==
  /\ TimerMessage /\ SampleCtrl
  /\ IF DoublePress(Ctrl, ctrlLatch)
       THEN Enter(5) /\ lifted' = FALSE
       ELSE /\ IF Elapsed > Prep THEN Enter(m) ELSE Stay
            /\ UNCHANGED lifted
  /\ UNCHANGED <<timer, hooked>>

PrepareCapture == mode = 1 /\ Prepare(3)
PreparePlayback == mode = 2 /\ Prepare(4)

(* case 3. *)
Capture ==
  /\ mode = 3 /\ TimerMessage /\ SampleCtrl
  /\ IF DoublePress(Ctrl, ctrlLatch)
       THEN Enter(5) /\ lifted' = FALSE
       ELSE Stay /\ UNCHANGED lifted
  /\ UNCHANGED <<timer, hooked>>

(* case 4, a double Shift: the file stays open until the window is destroyed. *)
StopPlayback ==
  /\ mode = 4 /\ TimerMessage
  /\ DoublePress(Shift, shiftLatch)
  /\ shiftLatch' = TRUE
  /\ Enter(5)
  /\ UNCHANGED <<alive, timer, ctrlLatch, hooked, playback, down, lifted, pass, played>>

Playback ==
  /\ mode = 4 /\ TimerMessage
  /\ ~DoublePress(Shift, shiftLatch)
  /\ shiftLatch' = NextLatch(Shift, shiftLatch)
  /\ UNCHANGED <<alive, timer, ctrlLatch, hooked, lifted>>

(* PlaybackCaptureData when the pass is over: close the file. *)
ClosePass ==
  /\ load /\ open
  /\ Playback
  /\ Stay
  /\ open' = FALSE /\ pos' = 0
  /\ UNCHANGED <<load, gap, down, pass, played>>

(* PlaybackCaptureData without a file: give up.  tTickOld is left as it was. *)
NoRecording ==
  /\ ~open /\ file = NoFile
  /\ Playback
  /\ mode' = 5 /\ since' = Elapsed
  /\ load' = FALSE
  /\ UNCHANGED <<open, pos, gap, down, pass, played>>

(* A record is due when as much time has passed since the first record of  *)
(* the pass was replayed as lay between the two when they were recorded.   *)
Offset(i) == file[i].time - file[1].time

(* Mutant of the next: one record in a tick. *)
LastDueOne(start, age) ==
  IF start < Len(file) /\ Offset(start + 1) <= age THEN start + 1 ELSE start

(* The last record played in a tick when `start' records already are: all  *)
(* those that are due, up to the first one that is not.                    *)
LastDue(start, age) ==
  start + Cardinality({i \in start+1..Len(file) :
                         \A j \in start+1..i : Offset(j) <= age})

(* Mutant of the next: the end of the file is not noticed. *)
PassOverNever(n) == FALSE

(* End of file: the pass is over. *)
PassOver(n) == n = Len(file)

(* keybd_event, mouse_event: the keys that are down after records m+1..n. *)
Injected(m, n) ==
  LET of(k) == {i \in m+1..n : file[i].what = k}
      last(k) == CHOOSE i \in of(k) : \A j \in of(k) : j <= i
  IN {k \in Key : IF of(k) = {} THEN k \in down ELSE file[last(k)].down}

(* PlaybackCaptureData with an open file; it is opened, and the time base   *)
(* set (bRewind), when a new pass begins.                                  *)
Play ==
  /\ file # NoFile
  /\ load => ~open
  /\ Playback
  /\ Stay
  /\ LET age == IF load THEN 0 ELSE gap
         upTo == LastDue(pos, age)
     IN /\ pos' = upTo
        /\ gap' = age
        /\ load' = PassOver(upTo)
        /\ open' = TRUE
        /\ down' = Injected(pos, upTo)
        /\ pass' = IF load THEN 0 ELSE pass
        /\ played' = (played \/ upTo > pos)

(* case 5: after a while, end. *)
Leave ==
  /\ mode = 5
  /\ alive /\ timer /\ quiet >= 1
  /\ IF Elapsed > Linger
       THEN Destroy
       ELSE /\ Stay /\ quiet' = 0
            /\ UNCHANGED <<alive, timer, ctrlLatch, shiftLatch, hooked,
                           playback, lost, lifted, pass, played>>
  /\ UNCHANGED <<down, file, clock, runs, first>>

-----------------------------------------------------------------------------
(* The clock, and the machine when the program does not run.               *)

Older(age, cap) == IF age < cap THEN age + 1 ELSE cap

(* GetTickCount. *)
NextTick(t) == (t + 1) % W

Tick ==
  /\ alive /\ timer => quiet < MaxLag
  /\ clock' = NextTick(clock)
  /\ quiet' = IF alive /\ timer THEN quiet + 1 ELSE 0
  /\ since' = IF since = Unset THEN Unset ELSE Older(since, SinceCap)
  /\ gap' = IF open THEN Older(gap, GapCap) ELSE gap
  /\ pass' = IF open THEN Older(pass, GapCap) ELSE pass
  /\ UNCHANGED <<alive, timer, mode, ctrlLatch, shiftLatch, hooked, load, open,
                 pos, down, file, runs, first, lost, lifted, played>>

Reboot ==
  /\ ~alive
  /\ clock' = 0 /\ down' = {}
  /\ UNCHANGED <<control, playback, file, quiet, runs, history>>

WmTimer ==
  \/ Wait \/ PrepareCapture \/ PreparePlayback \/ Capture
  \/ StopPlayback \/ ClosePass \/ NoRecording \/ Play \/ Leave

Next ==
  \/ Launch \/ CloseWindow
  \/ \E k \in Key \cup {Move} : Input(k)
  \/ WmTimer
  \/ Tick \/ Reboot

Spec == Init /\ [][Next]_vars

FairSpec == Spec /\ WF_vars(WmTimer) /\ WF_vars(Tick)

-----------------------------------------------------------------------------
(* Properties.                                                             *)

(* A capture ends in the state of the keyboard: the last record of a key   *)
(* this run has recorded says whether the key is down now, up to the       *)
(* moment the window is destroyed.  This is why the hooks still record in   *)
(* mode 5: the double Ctrl that ends a capture is on record as pressed, and *)
(* a replay must release it.                                               *)
OfThisRun(k) == {i \in first+1..Len(Records) : file[i].what = k}
LastRecordIsState ==
  alive /\ hooked /\ mode \in {3, 5} =>
    \A k \in Key \ lost : \A i \in OfThisRun(k) :
      (\A j \in OfThisRun(k) : j <= i) => file[i].down = (k \in down)

(* A run that replays never writes the file it replays from, not even in   *)
(* mode 5, which the hooks take for the end of a capture.                  *)
PlaybackNeverRecords == [][played => file' = file]_vars

(* Modes only change by a double Ctrl that the user made anew: one that is  *)
(* held over several samples, or of which only one key was let go, counts  *)
(* once, so a press that starts the preparation never also ends it.        *)
CtrlStep == {<<0, 1>>, <<1, 5>>, <<2, 5>>, <<3, 5>>}
OnePressOneStep == [][alive' /\ <<mode, mode'>> \in CtrlStep => lifted]_vars

(* Every record is replayed after the ones before it, not before its time   *)
(* in the pass, and at the first timer message after the time of the latest *)
(* of them.  Only a clock that went back between two records (GetTickCount  *)
(* wrapped, or the machine restarted between two captures) lets the second *)
(* be replayed at once.                                                    *)
PlayedNow(i) == pos < i /\ i <= pos'
PlaybackPace ==
  [][alive' /\ mode = 4 /\ played' =>
       \A i \in 1..Len(Records) : PlayedNow(i) =>
         /\ \A j \in 1..i : Offset(j) <= pass'
         /\ \E j \in 1..i : pass' - Offset(j) < MaxLag]_vars

(* A replay that nobody stops goes through the file again and again. *)
ReplaysForever ==
  <>[](alive /\ mode = 4) => []<>(load /\ open) /\ []<>(~open)

(* A program about to exit does, whatever the user keeps typing. *)
ExitHappens == (alive /\ mode = 5) ~> ~alive
=============================================================================
