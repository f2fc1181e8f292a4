--------------------------- MODULE RecorderProofs ---------------------------
(***************************************************************************)
(* Proofs about the recorder, for every key, wrap, delay and file.         *)
(***************************************************************************)
EXTENDS Recorder, FiniteSetTheorems, WellFoundedInduction, TLAPS

(* The files of the recorder are sequences of records.                     *)
LEMMA FileFact ==
  ASSUME TypeOK
  PROVE  /\ Records \in Seq(Record) /\ Len(Records) \in Nat
         /\ file # NoFile => Records = file
<1>1. CASE file = NoFile
  <2>1. Records = << >>
    BY <1>1 DEF Records
  <2> QED
    BY <1>1, <2>1
<1>2. CASE file # NoFile
  BY <1>2 DEF TypeOK, Records
<1> QED
  BY <1>1, <1>2

(* Playing what is due never goes back, and never past the end of file.    *)
LEMMA LastDueBound ==
  ASSUME NEW n \in Nat, NEW start \in 0..n, NEW age, Len(file) = n
  PROVE  LastDue(start, age) \in start..n
<1> DEFINE Due == {i \in start+1..Len(file) : \A j \in start+1..i : Offset(j) <= age}
<1> DEFINE All == start+1..n
<1>1. IsFiniteSet(All) /\ Cardinality(All) = n - start
  <2>1. start + 1 \in Int /\ n \in Int
    OBVIOUS
  <2>2. /\ IsFiniteSet(All)
        /\ Cardinality(All) = IF start + 1 > n THEN 0 ELSE n - (start + 1) + 1
    BY <2>1, FS_Interval
  <2> QED
    BY <2>2
<1>2. Due \in SUBSET All
  OBVIOUS
<1>3. LastDue(start, age) = start + Cardinality(Due)
  BY DEF LastDue
<1> HIDE DEF Due, All
<1>4. IsFiniteSet(Due) /\ Cardinality(Due) <= Cardinality(All)
  BY <1>1, <1>2, FS_Subset
<1>5. Cardinality(Due) \in Nat
  BY <1>4, FS_CardinalityType
<1> QED
  BY <1>1, <1>3, <1>4, <1>5

-----------------------------------------------------------------------------
(* Every step keeps the types.  The flags and the other variables go to    *)
(* different provers, so they are separate parts.                          *)

Flags ==
  /\ alive \in BOOLEAN /\ timer \in BOOLEAN /\ hooked \in BOOLEAN
  /\ ctrlLatch \in BOOLEAN /\ shiftLatch \in BOOLEAN
  /\ load \in BOOLEAN /\ open \in BOOLEAN
  /\ lifted \in BOOLEAN /\ played \in BOOLEAN

Ages ==
  /\ mode \in 0..5
  /\ since \in Unset..SinceCap
  /\ gap \in 0..GapCap /\ pass \in 0..GapCap
  /\ clock \in 0..W-1
  /\ quiet \in 0..MaxLag
  /\ runs \in 0..MaxRun

Files ==
  /\ down \subseteq Key
  /\ lost \subseteq Key \cup {Move}
  /\ file \in Seq(Record) \cup {NoFile}
  /\ pos \in 0..Len(Records) /\ first \in 0..Len(Records)

LEMMA TypeParts == TypeOK <=> Flags /\ Ages /\ Files
BY DEF TypeOK, Flags, Ages, Files

LEMMA InitTypes == Init => Flags /\ Ages /\ Files
<1> SUFFICES ASSUME Init PROVE Flags /\ Ages /\ Files
  OBVIOUS
<1>1. Flags
  BY DEF Init, Flags
<1>2. Ages
  BY NumberAssumption DEF Init, Ages, Unset, SinceCap, GapCap
<1>3. Files
  BY DEF Init, Files, Records
<1> QED
  BY <1>1, <1>2, <1>3

LEMMA FlagsStep ==
  ASSUME Flags, [Next]_vars
  PROVE  Flags'
<1> USE DEF Flags, TimerMessage, SampleCtrl, NextLatch, playback
<1>1. CASE Launch
  BY <1>1 DEF Launch
<1>2. CASE CloseWindow
  BY <1>2 DEF CloseWindow, Destroy
<1>3. CASE \E k \in Key \cup {Move} : Input(k)
  BY <1>3 DEF Input, control
<1>4. CASE Wait
  BY <1>4 DEF Wait, SetCaptureMode
<1>5. CASE PrepareCapture \/ PreparePlayback \/ Capture
  BY <1>5 DEF PrepareCapture, PreparePlayback, Prepare, Capture
<1>6. CASE StopPlayback
  BY <1>6 DEF StopPlayback
<1>7. CASE ClosePass \/ NoRecording
  BY <1>7 DEF ClosePass, NoRecording, Playback
<1>8. CASE Play
  <2>1. load' \in BOOLEAN /\ open' \in BOOLEAN /\ played' \in BOOLEAN
    BY <1>8 DEF Play, PassOver
  <2> QED
    BY <1>8, <2>1 DEF Play, Playback
<1>9. CASE Leave
  BY <1>9 DEF Leave, Destroy
<1>10. CASE Tick \/ Reboot
  BY <1>10 DEF Tick, Reboot, control, history
<1>11. CASE UNCHANGED vars
  BY <1>11 DEF vars, control, history
<1> QED
  BY <1>1, <1>2, <1>3, <1>4, <1>5, <1>6, <1>7, <1>8, <1>9, <1>10, <1>11
  DEF Next, WmTimer

LEMMA AgesStep ==
  ASSUME Ages, [Next]_vars
  PROVE  Ages'
<1> USE NumberAssumption
<1> USE DEF Ages, TimerMessage, SampleCtrl, Elapsed, Enter, Stay, Unset, SinceCap, GapCap
<1>1. CASE Launch
  BY <1>1 DEF Launch, playback
<1>2. CASE CloseWindow
  BY <1>2 DEF CloseWindow, Destroy
<1>3. CASE \E k \in Key \cup {Move} : Input(k)
  BY <1>3 DEF Input, control, playback
<1>4. CASE Wait
  <2>1. mode' \in {0, 1, 2} /\ since' \in {0, Elapsed}
    BY <1>4 DEF Wait, SetCaptureMode
  <2> QED
    BY <1>4, <2>1 DEF Wait, playback
<1>5. CASE PrepareCapture \/ PreparePlayback
  BY <1>5 DEF PrepareCapture, PreparePlayback, Prepare, playback
<1>6. CASE Capture
  BY <1>6 DEF Capture, playback
<1>7. CASE StopPlayback
  BY <1>7 DEF StopPlayback, playback
<1>8. CASE ClosePass \/ NoRecording
  BY <1>8 DEF ClosePass, NoRecording, Playback
<1>9. CASE Play
  <2>1. gap' \in 0..GapCap /\ pass' \in 0..GapCap
    BY <1>9 DEF Play
  <2> QED
    BY <1>9, <2>1 DEF Play, Playback
<1>10. CASE Leave
  <2>1. CASE Destroy
    BY <1>10, <2>1 DEF Leave, Destroy
  <2>2. CASE /\ mode' = mode /\ since' = Elapsed /\ quiet' = 0
             /\ gap' = gap /\ pass' = pass
    BY <1>10, <2>2 DEF Leave
  <2>3. \/ Destroy
        \/ Stay /\ quiet' = 0 /\ UNCHANGED playback /\ pass' = pass
    BY <1>10 DEF Leave
  <2> QED
    BY <2>1, <2>2, <2>3 DEF playback
<1>11. CASE Tick
  BY <1>11 DEF Tick, NextTick, Older
<1>12. CASE Reboot
  BY <1>12 DEF Reboot, control, playback, history
<1>13. CASE UNCHANGED vars
  BY <1>13 DEF vars, control, playback, machine, history
<1> QED
  BY <1>1, <1>2, <1>3, <1>4, <1>5, <1>6, <1>7, <1>8, <1>9, <1>10, <1>11, <1>12, <1>13
  DEF Next, WmTimer

LEMMA InputFiles ==
  ASSUME TypeOK, NEW k \in Key \cup {Move}, Input(k)
  PROVE  Files'
<1>1. down' \subseteq Key
  BY DEF TypeOK, Input
<1>2. pos' = pos /\ first' = first
  BY DEF Input, playback
<1>3. CASE file' = file /\ lost' \subseteq Key \cup {Move}
  BY <1>1, <1>2, <1>3 DEF TypeOK, Files, Records
<1>4. CASE /\ file' = Append(Records, [what |-> k, down |-> k \in down', time |-> clock])
           /\ lost' = lost \ {k}
  <2> DEFINE r == [what |-> k, down |-> k \in down', time |-> clock]
  <2>1. r \in Record
    BY DEF TypeOK, Record
  <2> HIDE DEF r
  <2>2. file' \in Seq(Record) /\ Len(file') = Len(Records) + 1
    BY <1>4, <2>1, FileFact DEF r
  <2>3. Records' = file'
    BY <2>2, FileAssumption DEF Records
  <2>4. pos' \in 0..Len(Records') /\ first' \in 0..Len(Records')
    BY <1>2, <2>2, <2>3, FileFact DEF TypeOK
  <2>5. lost' \subseteq Key \cup {Move}
    BY <1>4 DEF TypeOK
  <2> QED
    BY <1>1, <2>2, <2>4, <2>5 DEF Files
<1> QED
  BY <1>3, <1>4 DEF Input, Hook, TypeOK

LEMMA FilesStep ==
  ASSUME TypeOK, [Next]_vars
  PROVE  Files'
<1>0. /\ 0 \in 0..Len(Records) /\ Len(Records) \in 0..Len(Records)
      /\ file' = file => Records' = Records
  BY FileFact DEF Records
<1>1. CASE Launch
  BY <1>0, <1>1 DEF Launch, playback, TypeOK, Files
<1>2. CASE CloseWindow
  BY <1>0, <1>2 DEF CloseWindow, Destroy, TypeOK, Files
<1>3. CASE \E k \in Key \cup {Move} : Input(k)
  BY <1>3, InputFiles
<1>4. CASE Play
  <2>1. pos' \in 0..Len(Records)
    BY <1>4, FileFact, LastDueBound DEF Play, TypeOK
  <2>2. down' \subseteq Key
    BY <1>4 DEF Play, Injected
  <2> QED
    BY <1>0, <1>4, <2>1, <2>2 DEF Play, Playback, TimerMessage, TypeOK, Files
<1>5. CASE WmTimer /\ ~Play
  <2>1. file' = file /\ first' = first /\ down' = down
    BY <1>5 DEF WmTimer, Wait, PrepareCapture, PreparePlayback, Prepare, Capture,
       StopPlayback, ClosePass, NoRecording, Playback, Leave, TimerMessage, SampleCtrl
  <2>2. pos' \in {0, pos}
    BY <1>5 DEF WmTimer, Wait, PrepareCapture, PreparePlayback, Prepare, Capture,
       StopPlayback, ClosePass, NoRecording, Leave, Destroy, SampleCtrl, playback
  <2>3. lost' \in {{}, lost}
    BY <1>5 DEF WmTimer, Wait, PrepareCapture, PreparePlayback, Prepare, Capture,
       StopPlayback, ClosePass, NoRecording, Playback, Leave, Destroy, TimerMessage
  <2> QED
    BY <1>0, <2>1, <2>2, <2>3 DEF TypeOK, Files
<1>6. CASE Tick \/ Reboot \/ UNCHANGED vars
  <2>1. /\ file' = file /\ first' = first /\ down' \subseteq down
        /\ pos' = pos /\ lost' = lost
    BY <1>6 DEF Tick, Reboot, vars, playback, machine, history
  <2> QED
    BY <1>0, <2>1 DEF TypeOK, Files
<1> QED
  BY <1>1, <1>2, <1>3, <1>4, <1>5, <1>6 DEF Next

LEMMA TypeStep ==
  ASSUME TypeOK, [Next]_vars
  PROVE  TypeOK'
<1>1. Flags /\ Ages
  BY TypeParts
<1>2. Flags' /\ Ages' /\ Files'
  BY <1>1, FlagsStep, AgesStep, FilesStep
<1> QED
  BY <1>2 DEF TypeOK, Flags, Ages, Files

(* The variables keep their types: the replay cursor stays within the file, *)
(* the tick count within its width, whatever is recorded and replayed.     *)
THEOREM TypeCorrect == Spec => []TypeOK
<1>1. Init => TypeOK
  BY InitTypes, TypeParts
<1>2. TypeOK /\ [Next]_vars => TypeOK'
  BY TypeStep
<1> QED
  BY <1>1, <1>2, PTL DEF Spec

-----------------------------------------------------------------------------
(* The hooks are only installed on the way to a capture, and only the other *)
(* way leads to a replay; mode 5, where the two ways meet, goes nowhere but *)
(* to the exit.                                                            *)

TwoWays ==
  /\ mode \in {0, 2, 4} => ~hooked
  /\ played => ~hooked /\ mode \in {4, 5}

LEMMA TwoWaysStep ==
  ASSUME TypeOK, TwoWays, [Next]_vars
  PROVE  TwoWays'
<1> USE DEF TwoWays, TimerMessage, SampleCtrl, Enter, Stay, control, playback, history
<1>1. CASE Launch
  BY <1>1 DEF Launch
<1>2. CASE CloseWindow
  BY <1>2 DEF CloseWindow, Destroy
<1>3. CASE \E k \in Key \cup {Move} : Input(k)
  BY <1>3 DEF Input
<1>4. CASE Wait
  <2>1. ~hooked /\ ~played /\ played' = played
    BY <1>4 DEF Wait
  <2>2. \/ mode' = 1
        \/ mode' \in {0, 2} /\ hooked' = hooked
    BY <1>4 DEF Wait, SetCaptureMode
  <2> QED
    BY <2>1, <2>2
<1>5. CASE PrepareCapture \/ PreparePlayback
  BY <1>5 DEF PrepareCapture, PreparePlayback, Prepare
<1>6. CASE Capture
  BY <1>6 DEF Capture
<1>7. CASE StopPlayback
  BY <1>7 DEF StopPlayback
<1>8. CASE ClosePass \/ NoRecording \/ Play
  BY <1>8 DEF ClosePass, NoRecording, Play, Playback
<1>9. CASE Leave
  BY <1>9 DEF Leave, Destroy
<1>10. CASE Tick \/ Reboot
  BY <1>10 DEF Tick, Reboot
<1>11. CASE UNCHANGED vars
  BY <1>11 DEF vars
<1> QED
  BY <1>1, <1>2, <1>3, <1>4, <1>5, <1>6, <1>7, <1>8, <1>9, <1>10, <1>11
  DEF Next, WmTimer

(* A run that has replayed anything leaves the file alone to its end.      *)
THEOREM PlaybackNeverRecordsHolds == Spec => PlaybackNeverRecords
<1>1. Init => TwoWays
  BY DEF Init, TwoWays
<1>2. TypeOK /\ TwoWays /\ [Next]_vars => TwoWays'
  BY TwoWaysStep
<1>3. TwoWays /\ [Next]_vars => [played => file' = file]_vars
  <2> SUFFICES ASSUME TwoWays, Next, played PROVE file' = file
    OBVIOUS
  <2>1. ~hooked
    BY DEF TwoWays
  <2>2. ASSUME NEW k \in Key \cup {Move}, Input(k) PROVE file' = file
    BY <2>1, <2>2 DEF Input, Hook, Recording
  <2>3. CASE WmTimer
    BY <2>3 DEF WmTimer, Wait, PrepareCapture, PreparePlayback, Prepare, Capture,
       StopPlayback, ClosePass, NoRecording, Play, Playback, Leave, TimerMessage
  <2> QED
    BY <2>2, <2>3 DEF Next, Launch, CloseWindow, Tick, Reboot
<1> QED
  BY <1>1, <1>2, <1>3, TypeCorrect, PTL DEF Spec, PlaybackNeverRecords

-----------------------------------------------------------------------------
(* The latch remembers an accepted press for as long as a key of the pair   *)
(* is down.  A replay may move the Ctrl keys without the user, but it is   *)
(* only reached by a run that never accepted one.                          *)

Held ==
  ~lifted =>
    /\ alive
    /\ \/ mode = 5
       \/ /\ mode \in {0, 1, 3} /\ ctrlLatch /\ Ctrl \cap down # {}
          /\ mode = 0 => ~timer

LEMMA HeldStep ==
  ASSUME Held, [Next]_vars
  PROVE  Held'
<1> USE DEF Held, TimerMessage, SampleCtrl, DoublePress, NextLatch, Enter, Stay
<1>0. Ctrl \subseteq down => Ctrl \cap down # {}
  BY DEF Ctrl
<1>1. CASE Launch
  <2>1. lifted /\ lifted' = lifted
    BY <1>1 DEF Launch
  <2> QED
    BY <2>1
<1>2. CASE CloseWindow
  BY <1>2 DEF CloseWindow, Destroy
<1>3. CASE \E k \in Key \cup {Move} : Input(k)
  <2>1. lifted' = (lifted \/ Ctrl \cap down' = {})
    BY <1>3 DEF Input
  <2>2. UNCHANGED <<alive, mode, timer, ctrlLatch>>
    BY <1>3 DEF Input, control
  <2> QED
    BY <2>1, <2>2
<1>4. CASE Wait
  <2>1. lifted /\ mode = 0 /\ down' = down
    BY <1>4 DEF Wait
  <2>2. CASE DoublePress(Ctrl, ctrlLatch)
    <3>1. ctrlLatch' /\ Ctrl \cap down # {}
      BY <1>0, <1>4, <2>2 DEF Wait
    <3>2. mode' = 1 \/ (mode' = 0 /\ ~timer')
      BY <1>4, <2>2 DEF Wait, SetCaptureMode
    <3>3. alive'
      BY <1>4 DEF Wait
    <3> QED
      BY <2>1, <3>1, <3>2, <3>3
  <2>3. CASE ~DoublePress(Ctrl, ctrlLatch)
    <3>1. lifted'
      BY <1>4, <2>1, <2>3 DEF Wait
    <3> QED
      BY <3>1
  <2> QED
    BY <2>2, <2>3
<1>5. CASE PrepareCapture
  <2>0. alive'
    BY <1>5 DEF PrepareCapture, Prepare
  <2>1. down' = down /\ mode' \in {1, 3, 5}
    BY <1>5 DEF PrepareCapture, Prepare
  <2>2. mode' = 5 \/ lifted' = lifted
    BY <1>5 DEF PrepareCapture, Prepare
  <2>3. ~lifted => ctrlLatch' /\ Ctrl \cap down # {}
    <3>1. ~lifted => ctrlLatch /\ Ctrl \cap down # {}
      BY <1>5 DEF PrepareCapture, Prepare
    <3>2. ctrlLatch' = NextLatch(Ctrl, ctrlLatch)
      BY <1>5 DEF PrepareCapture, Prepare
    <3> QED
      BY <3>1, <3>2
  <2>4. CASE mode' = 5
    BY <2>0, <2>4
  <2>5. CASE mode' # 5
    <3>1. mode' \in {0, 1, 3} /\ mode' # 0 /\ down' = down
      BY <2>1, <2>5
    <3> QED
      BY <2>0, <2>2, <2>3, <2>5, <3>1
  <2> QED
    BY <2>4, <2>5
<1>6. CASE PreparePlayback
  <2>1. lifted /\ ((mode' = 5 /\ alive') \/ lifted' = lifted)
    BY <1>6 DEF PreparePlayback, Prepare
  <2> QED
    BY <2>1
<1>7. CASE Capture
  <2>0. alive'
    BY <1>7 DEF Capture
  <2>1. down' = down /\ mode' \in {3, 5}
    BY <1>7 DEF Capture
  <2>2. mode' = 5 \/ lifted' = lifted
    BY <1>7 DEF Capture
  <2>3. ~lifted => ctrlLatch' /\ Ctrl \cap down # {}
    <3>1. ~lifted => ctrlLatch /\ Ctrl \cap down # {}
      BY <1>7 DEF Capture
    <3>2. ctrlLatch' = NextLatch(Ctrl, ctrlLatch)
      BY <1>7 DEF Capture
    <3> QED
      BY <3>1, <3>2
  <2> QED
    BY <2>0, <2>1, <2>2, <2>3
<1>8. CASE StopPlayback \/ ClosePass \/ NoRecording \/ Play
  <2>1. lifted /\ lifted' = lifted
    BY <1>8 DEF StopPlayback, ClosePass, NoRecording, Play, Playback
  <2> QED
    BY <2>1
<1>9. CASE Leave
  <2>1. lifted' \/ (mode' = mode /\ mode = 5 /\ alive')
    BY <1>9 DEF Leave, Destroy
  <2> QED
    BY <2>1
<1>10. CASE Tick
  BY <1>10 DEF Tick
<1>11. CASE Reboot
  <2>1. lifted /\ lifted' = lifted
    BY <1>11 DEF Reboot, history
  <2> QED
    BY <2>1
<1>12. CASE UNCHANGED vars
  BY <1>12 DEF vars, control, machine, history
<1> QED
  BY <1>1, <1>2, <1>3, <1>4, <1>5, <1>6, <1>7, <1>8, <1>9, <1>10, <1>11, <1>12
  DEF Next, WmTimer

(* A command by the double Ctrl needs a press of its own.                  *)
THEOREM OnePressOneStepHolds == Spec => OnePressOneStep
<1>1. Init => Held
  BY DEF Init, Held
<1>2. Held /\ [Next]_vars => Held'
  BY HeldStep
<1>3. Held /\ [Next]_vars =>
        [alive' /\ <<mode, mode'>> \in CtrlStep => lifted]_vars
  <2> SUFFICES ASSUME Held, Next, <<mode, mode'>> \in CtrlStep, alive' PROVE lifted
    OBVIOUS
  <2>1. mode' # mode /\ mode \in {0, 1, 2, 3} /\ mode' \in {1, 5}
    BY DEF CtrlStep
  <2>2. Wait \/ PrepareCapture \/ PreparePlayback \/ Capture
    <3>1. Launch \/ Tick \/ Reboot \/ (\E k \in Key \cup {Move} : Input(k))
            => mode' = mode
      BY DEF Launch, Tick, Reboot, Input, control
    <3>2. CloseWindow => ~alive'
      BY DEF CloseWindow, Destroy
    <3>3. StopPlayback \/ ClosePass \/ NoRecording \/ Play => mode = 4
      BY DEF StopPlayback, ClosePass, NoRecording, Play, Playback
    <3>4. Leave => mode = 5
      BY DEF Leave
    <3> QED
      BY <2>1, <3>1, <3>2, <3>3, <3>4 DEF Next, WmTimer
  <2>3. DoublePress(Ctrl, ctrlLatch) /\ timer
    BY <2>1, <2>2 DEF Wait, PrepareCapture, PreparePlayback, Prepare, Capture,
       TimerMessage, Enter, Stay
  <2> QED
    BY <2>1, <2>3 DEF Held, DoublePress
<1> QED
  BY <1>1, <1>2, <1>3, PTL DEF Spec, OnePressOneStep

-----------------------------------------------------------------------------
(* A run writes nothing before its capture begins, and without hooks it     *)
(* never does; so what it has recorded, it recorded of the user, and        *)
(* nothing else has moved a key since.                                     *)

Untouched == alive /\ (mode \in {0, 1, 2, 4} \/ ~hooked) => first = Len(Records)

LEMMA NothingRecorded ==
  ASSUME TypeOK, first = Len(Records)
  PROVE  LastRecordIsState
<1>1. \A k : OfThisRun(k) = {}
  BY FileFact DEF OfThisRun
<1> QED
  BY <1>1 DEF LastRecordIsState

(* One record more, the last of its key.                                    *)
LEMMA RecordedKeepsState ==
  ASSUME TypeOK, LastRecordIsState, Recording,
         NEW k \in Key \cup {Move}, Input(k),
         file' = Append(Records, [what |-> k, down |-> k \in down', time |-> clock]),
         lost' = lost \ {k}
  PROVE  LastRecordIsState'
<1> DEFINE r == [what |-> k, down |-> k \in down', time |-> clock]
           n == Len(Records)
<1>1. r \in Record /\ r.what = k /\ r.down = (k \in down')
  BY DEF TypeOK, Record
<1> HIDE DEF r
<1>2. /\ Records \in Seq(Record) /\ n \in Nat /\ file' = Append(Records, r)
      /\ \A i \in 1..n : file[i] = Records[i]
  BY FileFact DEF r, Records
<1>3. /\ file' \in Seq(Record) /\ Len(file') = n + 1 /\ file'[n + 1] = r
      /\ \A i \in 1..n : file'[i] = file[i]
  BY <1>1, <1>2
<1>4. Len(Records') = n + 1
  BY <1>3, FileAssumption DEF Records
<1>5. first' = first /\ first \in 0..n /\ \A q \in Key \ {k} : q \in down' <=> q \in down
  BY DEF TypeOK, Input
<1>6. alive /\ hooked /\ mode \in {3, 5}
  BY DEF Recording
<1> SUFFICES ASSUME NEW q \in Key \ lost', NEW i \in OfThisRun(q)',
                    \A j \in OfThisRun(q)' : j <= i
             PROVE  file'[i].down = (q \in down')
  BY DEF LastRecordIsState
<1>7. i \in first+1..n+1 /\ file'[i].what = q
  BY <1>4, <1>5 DEF OfThisRun
<1>8. CASE q = k
  <2>1. n + 1 \in OfThisRun(q)'
    BY <1>1, <1>2, <1>3, <1>4, <1>5, <1>8 DEF OfThisRun
  <2>2. i = n + 1
    BY <1>2, <1>5, <1>7, <2>1
  <2> QED
    BY <1>1, <1>3, <1>8, <2>2
<1>9. CASE q # k
  <2>1. i \in first+1..n
    BY <1>1, <1>2, <1>3, <1>5, <1>7, <1>9
  <2>2. file'[i] = file[i]
    BY <1>2, <1>3, <1>5, <2>1
  <2>3. i \in OfThisRun(q)
    BY <1>7, <2>1, <2>2 DEF OfThisRun
  <2>4. ASSUME NEW j \in OfThisRun(q) PROVE j <= i
    <3>1. j \in first+1..n /\ file[j].what = q
      BY DEF OfThisRun
    <3>2. file'[j].what = q /\ j \in first+1..n+1
      BY <1>2, <1>3, <1>5, <3>1
    <3>3. j \in OfThisRun(q)'
      BY <1>4, <1>5, <3>2 DEF OfThisRun
    <3> QED
      BY <3>3
  <2>5. q \in Key \ lost
    BY <1>9
  <2>6. file[i].down = (q \in down)
    BY <1>6, <2>3, <2>4, <2>5 DEF LastRecordIsState
  <2>7. (q \in down') = (q \in down)
    BY <1>5, <1>9
  <2> QED
    BY <2>2, <2>6, <2>7
<1> QED
  BY <1>8, <1>9

LEMMA InputKeepsState ==
  ASSUME TypeOK, Untouched, LastRecordIsState, NEW k \in Key \cup {Move}, Input(k)
  PROVE  Untouched' /\ LastRecordIsState'
<1>1. UNCHANGED <<alive, mode, hooked, first>> /\ \A q \in Key \ {k} : q \in down' <=> q \in down
  BY DEF Input, control
<1>2. CASE ~Recording
  <2>1. file' = file
    BY <1>2 DEF Input, Hook
  <2> QED
    BY <1>1, <1>2, <2>1 DEF Recording, Untouched, LastRecordIsState, Records
<1>3. CASE Recording
  <2>1. Untouched'
    BY <1>1, <1>3 DEF Recording, Untouched
  <2>2. CASE file' = file /\ lost' = lost \cup {k}
    <3>1. \A q : OfThisRun(q)' = OfThisRun(q)
      BY <1>1, <2>2 DEF OfThisRun, Records
    <3> QED
      BY <1>1, <2>1, <2>2, <3>1 DEF LastRecordIsState
  <2> QED
    BY <1>3, <2>1, <2>2, RecordedKeepsState DEF Input, Hook
<1> QED
  BY <1>2, <1>3

LEMMA StateStep ==
  ASSUME TypeOK, TypeOK', TwoWays, Untouched, LastRecordIsState, [Next]_vars
  PROVE  Untouched' /\ LastRecordIsState'
<1> USE DEF TimerMessage, SampleCtrl, Enter, Stay, control, playback, history
<1>1. CASE Launch
  <2>1. (first = Len(Records))'
    BY <1>1 DEF Launch, Records
  <2> QED
    BY <2>1, NothingRecorded, PTL DEF Untouched
<1>2. CASE CloseWindow
  BY <1>2 DEF CloseWindow, Destroy, Untouched, LastRecordIsState
<1>3. CASE \E k \in Key \cup {Move} : Input(k)
  BY <1>3, InputKeepsState
<1>4. CASE Wait \/ PrepareCapture \/ PreparePlayback
  <2>1. alive /\ mode \in {0, 1, 2} /\ file' = file /\ first' = first
    BY <1>4 DEF Wait, PrepareCapture, PreparePlayback, Prepare
  <2>2. (first = Len(Records))'
    BY <2>1 DEF Untouched, Records
  <2>3. Untouched'
    BY <2>2 DEF Untouched
  <2> QED
    BY <2>2, <2>3, NothingRecorded, PTL
<1>5. CASE Capture
  <2>1. UNCHANGED <<alive, hooked, file, first, lost, down>> /\ mode = 3 /\ mode' \in {3, 5}
    BY <1>5 DEF Capture
  <2> QED
    BY <2>1 DEF Untouched, LastRecordIsState, OfThisRun, Records
<1>6. CASE StopPlayback \/ ClosePass \/ NoRecording \/ Play
  <2>1. UNCHANGED <<alive, hooked, file, first>> /\ mode = 4
    BY <1>6 DEF StopPlayback, ClosePass, NoRecording, Play, Playback
  <2>2. ~hooked
    BY <2>1 DEF TwoWays
  <2> QED
    BY <2>1, <2>2 DEF Untouched, LastRecordIsState, Records
<1>7. CASE Leave
  <2>1. CASE Destroy
    BY <2>1 DEF Destroy, Untouched, LastRecordIsState
  <2>2. CASE ~Destroy
    <3>1. UNCHANGED <<alive, mode, hooked, file, first, lost, down>>
      BY <1>7, <2>2 DEF Leave
    <3> QED
      BY <3>1 DEF Untouched, LastRecordIsState, OfThisRun, Records
  <2> QED
    BY <2>1, <2>2
<1>8. CASE Tick \/ UNCHANGED vars
  <2>1. UNCHANGED <<alive, mode, hooked, file, first, lost, down>>
    BY <1>8 DEF Tick, vars, machine
  <2> QED
    BY <2>1 DEF Untouched, LastRecordIsState, OfThisRun, Records
<1>9. CASE Reboot
  BY <1>9 DEF Reboot, Untouched, LastRecordIsState
<1> QED
  BY <1>1, <1>2, <1>3, <1>4, <1>5, <1>6, <1>7, <1>8, <1>9 DEF Next, WmTimer

(* A capture ends in the state of the keyboard: for every key whose last    *)
(* event could be written, the last record of it says whether it is down,   *)
(* until the window is destroyed.                                          *)
THEOREM LastRecordIsStateHolds == Spec => []LastRecordIsState
<1>1. Init => TwoWays /\ Untouched /\ LastRecordIsState
  BY DEF Init, TwoWays, Untouched, LastRecordIsState
<1>2. TypeOK /\ TypeOK' /\ TwoWays /\ Untouched /\ LastRecordIsState /\ [Next]_vars
        => TwoWays' /\ Untouched' /\ LastRecordIsState'
  BY TwoWaysStep, StateStep
<1> QED
  BY <1>1, <1>2, TypeCorrect, PTL DEF Spec

-----------------------------------------------------------------------------
(* What is played at a timer message: all that is due, up to a record that  *)
(* is not.                                                                 *)

LEMMA LeastNumber ==
  ASSUME NEW S \in SUBSET Nat, S # {}
  PROVE  \E x \in S : \A y \in S : x <= y
<1> DEFINE R == {p \in Nat \X Nat : p[1] < p[2]}
<1>1. IsWellFoundedOn(R, Nat)
  BY NatLessThanWellFounded DEF OpToRel
<1>2. PICK x \in S : \A y \in S : <<y, x>> \notin R
  <2> HIDE DEF R
  <2> QED
    BY <1>1, WFMin
<1>3. ASSUME NEW y \in S PROVE x <= y
  <2>1. x \in Nat /\ y \in Nat
    OBVIOUS
  <2>2. ~(y < x)
    BY <1>2, <2>1, Zenon
  <2> QED
    BY <2>1, <2>2
<1> QED
  BY <1>3

LEMMA LastDueIs ==
  ASSUME NEW n \in Nat, NEW start \in 0..n, NEW age, Len(file) = n
  PROVE  /\ LastDue(start, age) \in start..n
         /\ \A j \in start+1..LastDue(start, age) : Offset(j) <= age
         /\ LastDue(start, age) < n => ~(Offset(LastDue(start, age) + 1) <= age)
<1> DEFINE Due == {i \in start+1..Len(file) : \A j \in start+1..i : Offset(j) <= age}
           Late == {i \in start+1..n : ~(Offset(i) <= age)}
<1>1. LastDue(start, age) = start + Cardinality(Due)
  BY DEF LastDue
<1>2. CASE Late = {}
  <2>1. Due = start+1..n
    BY <1>2
  <2>2. Cardinality(start+1..n) = IF start + 1 > n THEN 0 ELSE n - (start + 1) + 1
    BY FS_Interval
  <2>3. Cardinality(Due) = n - start
    <3> HIDE DEF Due, Late
    <3>1. start \in Int /\ n \in Int /\ start <= n
      OBVIOUS
    <3>2. Cardinality(Due) = Cardinality(start+1..n)
      BY <2>1
    <3> QED
      BY <2>2, <3>1, <3>2
  <2>4. LastDue(start, age) = n
    <3> HIDE DEF Due
    <3> QED
      BY <1>1, <2>3
  <2> QED
    BY <1>2, <2>4
<1>3. CASE Late # {}
  <2>1. Late \in SUBSET Nat
    OBVIOUS
  <2>2. PICK m \in Late : \A i \in Late : m <= i
    BY <1>3, <2>1, LeastNumber
  <2>3. m \in start+1..n /\ ~(Offset(m) <= age)
    OBVIOUS
  <2>4. \A j \in start+1..m-1 : Offset(j) <= age
    BY <2>2, <2>3
  <2>5. Due = start+1..m-1
    BY <2>3, <2>4
  <2>6. Cardinality(start+1..m-1) = IF start + 1 > m - 1 THEN 0 ELSE m - 1 - (start + 1) + 1
    BY <2>3, FS_Interval
  <2>7. Cardinality(Due) = m - 1 - start
    <3>1. start \in Int /\ m \in Int /\ start + 1 <= m
      BY <2>3
    <3> HIDE DEF Due, Late
    <3>2. Cardinality(Due) = Cardinality(start+1..m-1)
      BY <2>5
    <3> QED
      BY <2>6, <3>1, <3>2
  <2>8. LastDue(start, age) = m - 1
    <3> HIDE DEF Due
    <3> QED
      BY <1>1, <2>3, <2>7
  <2> QED
    BY <2>3, <2>4, <2>8
<1> QED
  BY <1>2, <1>3

LEMMA OffsetType ==
  ASSUME TypeOK, file # NoFile
  PROVE  /\ file \in Seq(Record) /\ Len(file) \in Nat /\ Records = file
         /\ \A j \in 1..Len(file) : Offset(j) \in Int /\ Offset(j) < W
         /\ Len(file) > 0 => Offset(1) = 0
<1>1. file \in Seq(Record) /\ Len(file) \in Nat /\ Records = file
  BY DEF TypeOK, Records
<1>2. \A j \in 1..Len(file) : file[j] \in Record
  BY <1>1
<1>3. \A j \in 1..Len(file) : file[j].time \in 0..W-1
  BY <1>2 DEF Record
<1>4. Len(file) > 0 => 1 \in 1..Len(file)
  BY <1>1
<1> QED
  BY <1>1, <1>3, <1>4, NumberAssumption DEF Offset

(* While a replay runs, its age is the age of the pass; what was played was *)
(* due, and the next record was not when the last timer message came.       *)
PassAge == pass = gap
BeforePlayback ==
  /\ mode \in {0, 1, 2, 3} => load /\ ~open /\ pos = 0
  /\ mode \in {1, 2, 3, 4} => alive /\ timer
Playing ==
  mode = 4 =>
    /\ open => file # NoFile
    /\ ~open => load /\ pos = 0
    /\ ~load => /\ pos < Len(file)
                /\ \A j \in 1..pos : Offset(j) <= gap
                /\ gap < Offset(pos + 1) + quiet

LEMMA PlayPlaysDue ==
  ASSUME TypeOK, PassAge, Playing, Play
  PROVE  /\ PassAge' /\ Playing'
         /\ \A i \in 1..Len(Records) : PlayedNow(i) =>
              /\ \A j \in 1..i : Offset(j) <= pass'
              /\ \E j \in 1..i : pass' - Offset(j) < MaxLag
<1> DEFINE age == IF load THEN 0 ELSE gap
           n == Len(file)
           upTo == LastDue(pos, age)
<1>1. /\ file # NoFile /\ (load => ~open) /\ mode = 4 /\ mode' = mode /\ file' = file /\ quiet' = 0
      /\ pos' = upTo /\ gap' = age /\ load' = PassOver(upTo) /\ open' = TRUE
      /\ pass' = IF load THEN 0 ELSE pass
  BY DEF Play, Playback, TimerMessage, Stay
<1>2. /\ n \in Nat /\ Records = file /\ pos \in 0..n
      /\ \A j \in 1..n : Offset(j) \in Int /\ Offset(j) < W
      /\ n > 0 => Offset(1) = 0
  BY <1>1, OffsetType DEF TypeOK
<1>3. age \in Nat /\ gap \in Nat /\ quiet \in Nat /\ quiet <= MaxLag /\ MaxLag \in Nat \ {0}
  BY NumberAssumption DEF TypeOK, GapCap
<1>4. PassAge'
  BY <1>1 DEF PassAge
<1>5. /\ upTo \in pos..n
      /\ \A j \in pos+1..upTo : Offset(j) <= age
      /\ upTo < n => ~(Offset(upTo + 1) <= age)
  BY <1>2, LastDueIs
<1> HIDE DEF upTo
<1>6. \A j \in 1..pos : Offset(j) <= age
  <2>1. CASE load
    BY <1>1, <1>2, <2>1 DEF Playing
  <2>2. CASE ~load
    BY <1>1, <2>2 DEF Playing
  <2> QED
    BY <2>1, <2>2
<1>7. \A j \in 1..upTo : Offset(j) <= age
  BY <1>2, <1>5, <1>6
<1> HIDE DEF age
<1>8. Playing'
  <2> SUFFICES ASSUME ~load'
               PROVE  /\ pos' < Len(file)
                      /\ \A j \in 1..pos' : Offset(j) <= gap'
                      /\ gap' < Offset(pos' + 1) + quiet'
    BY <1>1 DEF Playing, Offset
  <2>1. upTo < n
    <3>1. upTo # n
      BY <1>1, Zenon DEF PassOver
    <3> QED
      BY <1>2, <1>5, <3>1
  <2>2. Offset(upTo + 1) \in Int
    BY <1>2, <1>5, <2>1
  <2>3. age < Offset(upTo + 1)
    BY <1>3, <1>5, <2>1, <2>2
  <2> QED
    BY <1>1, <1>3, <1>7, <2>1, <2>2, <2>3
<1>9. ASSUME NEW i \in 1..Len(Records), PlayedNow(i)
      PROVE  /\ \A j \in 1..i : Offset(j) <= pass'
             /\ \E j \in 1..i : pass' - Offset(j) < MaxLag
  <2>1. pos < i /\ i <= upTo /\ i \in 1..n
    BY <1>1, <1>2, <1>9 DEF PlayedNow
  <2>2. pass' = age
    BY <1>1 DEF age, PassAge
  <2>3. \A j \in 1..i : Offset(j) <= pass'
    BY <1>2, <1>5, <1>7, <2>1, <2>2
  <2>4. CASE load
    <3>1. age = 0 /\ Offset(1) = 0 /\ 1 \in 1..i
      BY <1>2, <2>1, <2>4 DEF age
    <3>2. pass' - Offset(1) < MaxLag
      BY <1>3, <2>2, <3>1
    <3> QED
      BY <2>3, <3>1, <3>2
  <2>5. CASE ~load
    <3>1. gap < Offset(pos + 1) + quiet
      BY <1>1, <2>5 DEF Playing
    <3>2. pos + 1 \in 1..i /\ Offset(pos + 1) \in Int
      BY <1>2, <2>1
    <3>3. pass' - Offset(pos + 1) < MaxLag
      BY <1>3, <2>2, <2>5, <3>1, <3>2 DEF age
    <3> QED
      BY <2>3, <3>2, <3>3
  <2> QED
    BY <2>4, <2>5
<1> QED
  BY <1>4, <1>8, <1>9

(* Only a replay plays: the other steps keep what was played due.           *)
LEMMA PaceStep ==
  ASSUME TypeOK, TypeOK', TwoWays, PassAge, BeforePlayback, Playing, [Next]_vars
  PROVE  PassAge' /\ BeforePlayback' /\ Playing'
<1> USE DEF SampleCtrl, Enter, Stay, control, playback, history
<1>1. CASE Launch
  BY <1>1 DEF Launch, PassAge, BeforePlayback, Playing
<1>2. CASE CloseWindow \/ (Leave /\ Destroy)
  BY <1>2 DEF CloseWindow, Destroy, PassAge, BeforePlayback, Playing
<1>3. CASE \E k \in Key \cup {Move} : Input(k)
  <2>1. UNCHANGED <<control, playback, quiet, pass>>
    BY <1>3 DEF Input
  <2>2. mode = 4 => file' = file
    BY <1>3 DEF Input, Hook, Recording
  <2> QED
    BY <2>1, <2>2 DEF PassAge, BeforePlayback, Playing, Offset
<1>4. CASE Wait \/ PrepareCapture \/ PreparePlayback \/ Capture
  <2>1. UNCHANGED <<alive, load, open, pos, gap, pass>> /\ alive /\ timer /\ mode \in {0, 1, 2, 3}
    BY <1>4 DEF Wait, PrepareCapture, PreparePlayback, Prepare, Capture, TimerMessage
  <2>2. ASSUME Wait
        PROVE  mode' \in {1, 2, 3, 4} => timer'
    <3>1. mode' = 0 \/ timer' = timer
      BY <2>2 DEF Wait, SetCaptureMode
    <3>2. CASE mode' = 0
      BY <3>2
    <3>3. CASE timer' = timer
      BY <2>1, <3>3, Zenon
    <3> QED
      BY <3>1, <3>2, <3>3
  <2>3. ASSUME PrepareCapture \/ PreparePlayback \/ Capture
        PROVE  timer'
    <3>1. timer' = timer
      BY <2>3 DEF PrepareCapture, PreparePlayback, Prepare, Capture
    <3> QED
      BY <2>1, <3>1
  <2>4. mode' \in {1, 2, 3, 4} => timer'
    BY <1>4, <2>2, <2>3
  <2> QED
    BY <2>1, <2>4 DEF PassAge, BeforePlayback, Playing, TypeOK
<1>5. CASE StopPlayback \/ NoRecording
  <2>1. mode' = 5 /\ UNCHANGED <<gap, pass>>
    BY <1>5 DEF StopPlayback, NoRecording
  <2> QED
    BY <2>1 DEF PassAge, BeforePlayback, Playing
<1>6. CASE ClosePass
  <2>1. /\ mode = 4 /\ mode' = 4 /\ load /\ load' /\ ~open' /\ pos' = 0
        /\ UNCHANGED <<alive, timer, gap, pass, file>>
    BY <1>6 DEF ClosePass, Playback, TimerMessage
  <2> QED
    BY <2>1 DEF PassAge, BeforePlayback, Playing
<1>7. CASE Play
  <2>1. mode = 4 /\ mode' = 4 /\ UNCHANGED <<alive, timer>>
    BY <1>7 DEF Play, Playback
  <2>2. BeforePlayback'
    BY <2>1 DEF BeforePlayback
  <2> QED
    BY <1>7, <2>2, PlayPlaysDue
<1>8. CASE Leave /\ ~Destroy
  <2>1. mode = 5 /\ mode' = 5 /\ UNCHANGED <<gap, pass>>
    BY <1>8 DEF Leave
  <2> QED
    BY <2>1 DEF PassAge, BeforePlayback, Playing
<1>9. CASE Tick
  <2>1. UNCHANGED <<alive, timer, mode, load, open, pos, file>>
    BY <1>9 DEF Tick
  <2>2. PassAge'
    BY <1>9 DEF Tick, PassAge
  <2>3. BeforePlayback'
    BY <2>1 DEF BeforePlayback
  <2>4. mode = 4 => Playing'
    <3> SUFFICES ASSUME mode = 4
                 PROVE  Playing'
      OBVIOUS
    <3>1. quiet' = quiet + 1 /\ quiet \in Nat
      BY <1>9 DEF Tick, BeforePlayback, TypeOK
    <3>2. gap \in Nat /\ gap' \in Nat /\ gap <= gap' /\ gap' <= gap + 1
      BY <1>9, NumberAssumption DEF Tick, Older, TypeOK, GapCap
    <3>3. CASE ~load
      <4>1. file # NoFile /\ open
        BY <3>3 DEF Playing
      <4>2. /\ Len(file) \in Nat /\ pos \in 0..Len(file)
            /\ \A j \in 1..Len(file) : Offset(j) \in Int
        BY <4>1, OffsetType DEF TypeOK
      <4>3. /\ pos < Len(file)
            /\ \A j \in 1..pos : Offset(j) <= gap
            /\ gap < Offset(pos + 1) + quiet
        BY <3>3 DEF Playing
      <4>4. pos + 1 \in 1..Len(file)
        BY <4>2, <4>3
      <4>5. gap' < Offset(pos + 1) + quiet'
        BY <3>1, <3>2, <4>2, <4>3, <4>4
      <4>6. \A j \in 1..pos : Offset(j) <= gap'
        BY <3>2, <4>2, <4>3
      <4> QED
        BY <2>1, <4>1, <4>3, <4>5, <4>6 DEF Playing, Offset
    <3>4. CASE load
      BY <2>1, <3>4 DEF Playing
    <3> QED
      BY <3>3, <3>4
  <2> QED
    BY <2>1, <2>2, <2>3, <2>4 DEF Playing
<1>10. CASE Reboot \/ UNCHANGED vars
  <2>1. UNCHANGED <<alive, timer, mode, load, open, pos, file, gap, pass, quiet>>
    BY <1>10 DEF Reboot, vars, machine
  <2> QED
    BY <2>1 DEF PassAge, BeforePlayback, Playing, Offset
<1> QED
  BY <1>1, <1>2, <1>3, <1>4, <1>5, <1>6, <1>7, <1>8, <1>9, <1>10 DEF Next, WmTimer

LEMMA OnlyPlayPlays ==
  ASSUME TypeOK, [Next]_vars, alive', mode = 4, ~Play
  PROVE  ~(\E i \in 1..Len(Records) : PlayedNow(i))
<1> USE DEF control, playback, history
<1>1. pos' = pos \/ pos' = 0
  <2>1. CASE Launch \/ CloseWindow \/ Tick \/ Reboot \/ UNCHANGED vars
    BY <2>1 DEF Launch, CloseWindow, Destroy, Tick, Reboot, vars
  <2>2. CASE \E k \in Key \cup {Move} : Input(k)
    BY <2>2 DEF Input
  <2>3. CASE WmTimer
    <3>1. StopPlayback \/ ClosePass \/ NoRecording
      BY <2>3 DEF WmTimer, Wait, PrepareCapture, PreparePlayback, Capture, Leave
    <3> QED
      BY <3>1 DEF StopPlayback, ClosePass, NoRecording
  <2> QED
    BY <2>1, <2>2, <2>3 DEF Next
<1>2. pos \in Nat
  BY DEF TypeOK
<1> QED
  BY <1>1, <1>2 DEF PlayedNow

(* Every record is replayed after the ones before it, not before its time,  *)
(* and at the first timer message after the time of the latest of them.    *)
THEOREM PlaybackPaceHolds == Spec => PlaybackPace
<1> DEFINE Due(i) == /\ \A j \in 1..i : Offset(j) <= pass'
                     /\ \E j \in 1..i : pass' - Offset(j) < MaxLag
           InTime == alive' /\ mode = 4 /\ played' =>
                       \A i \in 1..Len(Records) : PlayedNow(i) => Due(i)
<1>1. Init => TwoWays /\ PassAge /\ BeforePlayback /\ Playing
  BY DEF Init, TwoWays, PassAge, BeforePlayback, Playing
<1>2. /\ TypeOK /\ TypeOK' /\ TwoWays /\ PassAge /\ BeforePlayback /\ Playing /\ [Next]_vars
      => TwoWays' /\ PassAge' /\ BeforePlayback' /\ Playing'
  BY TwoWaysStep, PaceStep
<1>3. TypeOK /\ PassAge /\ Playing /\ [Next]_vars => InTime
  BY PlayPlaysDue, OnlyPlayPlays
<1>4. TypeOK /\ PassAge /\ Playing /\ [Next]_vars => [InTime]_vars
  BY <1>3
<1> QED
  BY <1>1, <1>2, <1>4, TypeCorrect, PTL DEF Spec, PlaybackPace
=============================================================================
