--------------------------- MODULE MateCommProofs ---------------------------
(***************************************************************************)
(* Proofs about MateComm, for any number of pairs of stations, any timing  *)
(* constants and any bounds.                                               *)
(***************************************************************************)
EXTENDS MateComm, TLAPS

USE DEF MS_UNKNOWN, MS_SLAVE, MS_MASTER

\* The saturation points of the ages lie above everything they are compared
\* with.
LEMMA Caps ==
  /\ D \in Nat /\ D > 0 /\ MaxUiLag \in Nat /\ MaxInc \in Nat
  /\ MaxFaults \in Nat /\ MaxData \in Nat
  /\ RxCap \in Nat /\ TxCap \in Nat
  /\ RxCap = D + D
  /\ TxCap = D + D + D + MaxUiLag + MaxUiLag + MaxUiLag
BY BoundAssumption DEF RxCap, TxCap

\* The contents SendMessage can carry.
LEMMA NoticeType ==
  /\ Quiet \in Notice
  /\ \A m \in Message, k \in Nat : [what |-> m, inc |-> k] \in Notice
BY DEF Quiet, Message, Notice

-----------------------------------------------------------------------------
(* What the helpers do to the types of the variables they assign.          *)

ThreadType ==
  /\ pc \in [Node -> PC]
  /\ rx \in [Node -> 0..RxCap]
  /\ tx \in [Node -> 0..TxCap]
  /\ wait \in [Node -> 0..D]
  /\ lag \in [Node -> 0..MaxUiLag]
  /\ ka \in [Node -> MSState]
  /\ notice \in [Node -> Notice]
  /\ beat \in [Node -> BOOLEAN]

\* ResetThread gives every local of the worker a value of its type.
LEMMA ResetThreadType ==
  ASSUME TypeOK, NEW n \in Node, ResetThread(n), pc' \in [Node -> PC]
  PROVE  ThreadType'
<1>1. /\ rx' \in [Node -> 0..RxCap] /\ tx' \in [Node -> 0..TxCap]
      /\ wait' \in [Node -> 0..D] /\ lag' \in [Node -> 0..MaxUiLag]
  BY Caps DEF TypeOK, ResetThread
<1>2. ka' \in [Node -> MSState] /\ beat' \in [Node -> BOOLEAN]
  BY DEF TypeOK, ResetThread, MSState
<1>3. notice' \in [Node -> Notice]
  BY NoticeType DEF TypeOK, ResetThread
<1>4. QED
  BY <1>1, <1>2, <1>3 DEF ThreadType

\* So does the loop head (CMateComm.cpp:96), whether the loop goes on or ends.
LEMMA LoopHeadType ==
  ASSUME TypeOK, NEW n \in Node, NEW t \in 0..TxCap, NEW b \in BOOLEAN,
         LoopHead(n, t, b)
  PROVE  ThreadType' /\ running' \in [Node -> BOOLEAN]
<1>1. CASE GoesOn(n)
  <2>1. pc' \in [Node -> PC] /\ running' \in [Node -> BOOLEAN]
    BY <1>1 DEF LoopHead, TypeOK, PC
  <2>2. /\ rx' \in [Node -> 0..RxCap] /\ tx' \in [Node -> 0..TxCap]
        /\ wait' \in [Node -> 0..D] /\ lag' \in [Node -> 0..MaxUiLag]
    <3>1. /\ rx \in [Node -> 0..RxCap] /\ tx \in [Node -> 0..TxCap]
          /\ wait \in [Node -> 0..D] /\ lag \in [Node -> 0..MaxUiLag]
      BY DEF TypeOK
    <3>2. /\ rx' = rx /\ tx' = [tx EXCEPT ![n] = t]
          /\ wait' = [wait EXCEPT ![n] = 0] /\ lag' = [lag EXCEPT ![n] = 0]
      BY <1>1 DEF LoopHead
    <3>3. QED
      BY <3>1, <3>2, Caps
  <2>3. ka' \in [Node -> MSState] /\ beat' \in [Node -> BOOLEAN]
    BY <1>1 DEF LoopHead, TypeOK, MSState
  <2>4. notice' \in [Node -> Notice]
    BY <1>1, NoticeType DEF LoopHead, TypeOK
  <2>5. QED
    BY <2>1, <2>2, <2>3, <2>4 DEF ThreadType
<1>2. CASE ~(GoesOn(n))
  <2>1. ResetThread(n) /\ pc' \in [Node -> PC] /\ running' \in [Node -> BOOLEAN]
    BY <1>2 DEF LoopHead, EndThread, TypeOK, PC
  <2>2. QED
    BY <2>1, ResetThreadType
<1>3. QED
  BY <1>1, <1>2

\* So do the return of RecvData and the two ways on from there.
LEMMA WakeType ==
  ASSUME TypeOK, NEW n \in Node, Wake(n)
  PROVE  /\ tx' \in [Node -> 0..TxCap] /\ wait' \in [Node -> 0..D]
         /\ lag' \in [Node -> 0..MaxUiLag]
         /\ ka' \in [Node -> MSState] /\ beat' \in [Node -> BOOLEAN]
<1>1. /\ tx \in [Node -> 0..TxCap] /\ wait \in [Node -> 0..D]
      /\ lag \in [Node -> 0..MaxUiLag] /\ beat \in [Node -> BOOLEAN]
      /\ ka \in [Node -> MSState] /\ role \in [Node -> MSState]
  BY DEF TypeOK
<1>2. QED
  BY <1>1, Caps DEF Wake

LEMMA NotifyType ==
  ASSUME TypeOK, NEW n \in Node, NEW m \in Message, NEW k \in Nat, Notify(n, m, k)
  PROVE  pc' \in [Node -> PC] /\ notice' \in [Node -> Notice]
<1>1. pc \in [Node -> PC] /\ notice \in [Node -> Notice]
  BY DEF TypeOK
<1>2. [what |-> m, inc |-> k] \in Notice
  BY NoticeType
<1>3. QED
  BY <1>1, <1>2 DEF Notify, PC

LEMMA ToTransmitType ==
  ASSUME TypeOK, NEW n \in Node, ToTransmit(n)
  PROVE  pc' \in [Node -> PC] /\ notice' \in [Node -> Notice]
BY DEF TypeOK, ToTransmit, PC

\* sendto keeps the buffers well formed.
LEMMA SendType ==
  ASSUME TypeOK, NEW n \in Node, NEW d \in Datagram, Send(n, d)
  PROVE  net' \in [Node -> [Slot -> Datagram \cup {NoMsg}]]
<1>1. CASE Free(n) = {}
  BY <1>1 DEF Send, TypeOK
<1>2. CASE Free(n) # {}
  <2>1. (CHOOSE s \in Free(n) : TRUE) \in Slot
    BY <1>2 DEF Free
  <2>2. QED
    BY <1>2, <2>1 DEF Send, TypeOK
<1>3. QED
  BY <1>1, <1>2

-----------------------------------------------------------------------------

LEMMA InitTypeOK == Init => TypeOK
BY Caps, NoticeType DEF Init, TypeOK, UiState, MSState, PC

LEMMA NextTypeOK == TypeOK /\ [Next]_vars => TypeOK'
<1> SUFFICES ASSUME TypeOK, [Next]_vars PROVE TypeOK'
  OBVIOUS
<1> USE Caps
<1>1. ASSUME NEW n \in Node, RecvTimeout(n) PROVE TypeOK'
  <2>1. role' \in [Node -> MSState]
    BY <1>1 DEF RecvTimeout, TypeOK, MSState
  <2>2. pc' \in [Node -> PC] /\ notice' \in [Node -> Notice]
    <3>1. "slaveToMaster" \in Message /\ 0 \in Nat
      BY DEF Message
    <3>2. Notify(n, "slaveToMaster", 0) \/ ToTransmit(n)
      BY <1>1 DEF RecvTimeout
    <3>3. QED
      BY <3>1, <3>2, NotifyType, ToTransmitType
  <2>3. Wake(n)
    BY <1>1 DEF RecvTimeout
  <2>4. QED
    BY <1>1, <2>1, <2>2, <2>3, WakeType DEF RecvTimeout, TypeOK
<1>2. ASSUME NEW n \in Node, NEW s \in Slot, RecvKeepAlive(n, s) PROVE TypeOK'
  <2> DEFINE v == Verdict(Joined(role[n]), net[n][s].role)
  <2>1. net[n][s] \in Datagram
    BY <1>2 DEF RecvKeepAlive, TypeOK
  <2>2. v \in Message /\ net[n][s].inc \in Nat
    BY <2>1 DEF Verdict, Message, Datagram
  <2>3. Notify(n, v, net[n][s].inc) \/ ToTransmit(n)
    BY <1>2 DEF RecvKeepAlive
  <2> HIDE DEF v
  <2>4. pc' \in [Node -> PC] /\ notice' \in [Node -> Notice]
    BY <2>2, <2>3, NotifyType, ToTransmitType
  <2>5. role' \in [Node -> MSState]
    BY <1>2 DEF RecvKeepAlive, TypeOK, Joined, MSState
  <2>6. net' \in [Node -> [Slot -> Datagram \cup {NoMsg}]]
    BY <1>2 DEF RecvKeepAlive, TypeOK, Remove
  <2>7. Wake(n) /\ rx' = [rx EXCEPT ![n] = 0]
    BY <1>2 DEF RecvKeepAlive
  <2>8. QED
    BY <1>2, <2>4, <2>5, <2>6, <2>7, WakeType DEF RecvKeepAlive, TypeOK
<1>3. ASSUME NEW n \in Node, NEW s \in Slot, RecvMateMessage(n, s) PROVE TypeOK'
  <2>1. net[n][s].inc \in Nat /\ "mateMessage" \in Message
    BY <1>3 DEF RecvMateMessage, TypeOK, Datagram, Message
  <2>2. Wake(n) /\ Notify(n, "mateMessage", net[n][s].inc)
    BY <1>3 DEF RecvMateMessage
  <2>3. pc' \in [Node -> PC] /\ notice' \in [Node -> Notice]
    BY <2>1, <2>2, NotifyType
  <2>4. net' \in [Node -> [Slot -> Datagram \cup {NoMsg}]]
    BY <1>3 DEF RecvMateMessage, TypeOK, Remove
  <2>5. QED
    BY <1>3, <2>2, <2>3, <2>4, WakeType DEF RecvMateMessage, TypeOK, object
<1>4. ASSUME NEW n \in Node, RecvError(n) \/ SelectError(n) PROVE TypeOK'
  <2>1. Wake(n) /\ ToTransmit(n)
    BY <1>4 DEF RecvError, SelectError
  <2>2. pc' \in [Node -> PC] /\ notice' \in [Node -> Notice]
    BY <2>1, ToTransmitType
  <2>3. CASE RecvError(n)
    BY <2>1, <2>2, <2>3, WakeType DEF RecvError, TypeOK, object
  <2>4. CASE SelectError(n)
    BY <2>1, <2>2, <2>4, WakeType DEF SelectError, Fail, TypeOK
  <2>5. QED
    BY <1>4, <2>3, <2>4
<1>5. ASSUME NEW n \in Node, SendMessageReturns(n) PROVE TypeOK'
  <2>1. CASE notice[n].what = "slaveToMaster"
    <3>1. LoopHead(n, tx[n], beat[n]) /\ tx[n] \in 0..TxCap /\ beat[n] \in BOOLEAN
      BY <1>5, <2>1 DEF SendMessageReturns, TypeOK
    <3>2. ThreadType' /\ running' \in [Node -> BOOLEAN]
      BY <3>1, LoopHeadType
    <3>3. QED
      BY <1>5, <3>2 DEF SendMessageReturns, TypeOK, ThreadType
  <2>2. CASE notice[n].what # "slaveToMaster"
    <3>1. pc' \in [Node -> PC] /\ notice' \in [Node -> Notice]
      <4>1. pc \in [Node -> PC] /\ notice \in [Node -> Notice] /\ Quiet \in Notice
        BY NoticeType DEF TypeOK
      <4>2. /\ pc' = [pc EXCEPT ![n] = "tx"]
            /\ notice' = [notice EXCEPT ![n] = Quiet]
        BY <1>5, <2>2 DEF SendMessageReturns
      <4>3. QED
        BY <4>1, <4>2 DEF PC
    <3>2. QED
      BY <1>5, <2>2, <3>1 DEF SendMessageReturns, TypeOK, clocks
  <2>3. QED
    BY <2>1, <2>2
<1>6. ASSUME NEW n \in Node, SendKeepAlive(n) PROVE TypeOK'
  <2> DEFINE d == [kind |-> "keepalive", role |-> ka[n], inc |-> inc[n]]
  <2>1. d \in Datagram /\ lag[n] \in 0..TxCap
    BY DEF TypeOK, Datagram
  <2>2. LoopHead(n, lag[n], TRUE) /\ Send(Mate[n], d) /\ Mate[n] \in Node
    BY <1>6, MateAssumption DEF SendKeepAlive
  <2> HIDE DEF d
  <2>3. ThreadType' /\ running' \in [Node -> BOOLEAN]
    BY <2>1, <2>2, LoopHeadType
  <2>4. net' \in [Node -> [Slot -> Datagram \cup {NoMsg}]]
    BY <2>1, <2>2, SendType
  <2>5. role' \in [Node -> MSState]
    BY <1>6 DEF SendKeepAlive, TypeOK, Joined, MSState
  <2>6. QED
    BY <1>6, <2>3, <2>4, <2>5 DEF SendKeepAlive, TypeOK, ThreadType
<1>7. ASSUME NEW n \in Node, SendKeepAliveFails(n) PROVE TypeOK'
  <2>1. ResetThread(n) /\ pc' \in [Node -> PC] /\ running' \in [Node -> BOOLEAN]
    BY <1>7 DEF SendKeepAliveFails, EndThread, TypeOK, PC
  <2>2. ThreadType'
    BY <2>1, ResetThreadType
  <2>3. QED
    BY <1>7, <2>1, <2>2 DEF SendKeepAliveFails, Fail, TypeOK, ThreadType
<1>8. ASSUME NEW n \in Node, KeepAliveNotDue(n) PROVE TypeOK'
  <2>1. LoopHead(n, tx[n], beat[n]) /\ tx[n] \in 0..TxCap /\ beat[n] \in BOOLEAN
    BY <1>8 DEF KeepAliveNotDue, TypeOK
  <2>2. ThreadType' /\ running' \in [Node -> BOOLEAN]
    BY <2>1, LoopHeadType
  <2>3. QED
    BY <1>8, <2>2 DEF KeepAliveNotDue, TypeOK, ThreadType
<1>9. ASSUME NEW n \in Node, Start(n) PROVE TypeOK'
  <2>1. inc' \in [Node -> 0..MaxInc] /\ faults' \in 0..MaxFaults
    BY <1>9 DEF Start, Fail, TypeOK
  <2>2. /\ sock' \in [Node -> BOOLEAN] /\ running' \in [Node -> BOOLEAN]
        /\ pc' \in [Node -> PC]
    BY <1>9 DEF Start, TypeOK, PC
  <2>3. ui' \in [Node -> UiState] /\ role' \in [Node -> MSState]
    BY <1>9 DEF Start, TypeOK, UiState, MSState
  <2>4. QED
    BY <1>9, <2>1, <2>2, <2>3 DEF Start, TypeOK, clocks, locals
<1>10. ASSUME NEW n \in Node, Click(n) PROVE TypeOK'
  <2> DEFINE d == [kind |-> "data", role |-> MS_UNKNOWN, inc |-> inc[n]]
  <2>1. d \in Datagram /\ Mate[n] \in Node
    BY MateAssumption DEF TypeOK, Datagram, MSState
  <2>2. Send(Mate[n], d)
    BY <1>10 DEF Click
  <2> HIDE DEF d
  <2>3. net' \in [Node -> [Slot -> Datagram \cup {NoMsg}]]
    BY <2>1, <2>2, SendType
  <2>4. QED
    BY <1>10, <2>3 DEF Click, TypeOK, object, clocks, locals
<1>11. ASSUME NEW n \in Node, CloseWindow(n) \/ BeginDelete(n) PROVE TypeOK'
  BY <1>11 DEF CloseWindow, BeginDelete, TypeOK, UiState, object, clocks, locals
<1>12. ASSUME NEW n \in Node, EndDelete(n) \/ ExitProcess(n) PROVE TypeOK'
  BY <1>12 DEF EndDelete, ExitProcess, TypeOK, UiState, PC, object, clocks, locals
<1>13. ASSUME NEW n \in Node, Crash(n) PROVE TypeOK'
  <2>1. ResetThread(n) /\ pc' \in [Node -> PC]
    BY <1>13 DEF Crash, TypeOK, PC
  <2>2. ThreadType'
    BY <2>1, ResetThreadType
  <2>3. QED
    BY <1>13, <2>2 DEF Crash, Fail, TypeOK, ThreadType, UiState
<1>14. ASSUME NEW n \in Node, NEW s \in Slot, Lose(n, s) \/ Unread(n, s)
       PROVE  TypeOK'
  <2>1. CASE Lose(n, s)
    BY <2>1 DEF Lose, Fail, Remove, TypeOK, object, clocks, locals
  <2>2. CASE Unread(n, s)
    BY <2>2, MateAssumption DEF Unread, Remove, TypeOK, object, clocks, locals
  <2>3. QED
    BY <1>14, <2>1, <2>2
<1>15. ASSUME NEW n \in Node, NEW s \in Slot, Duplicate(n, s) PROVE TypeOK'
  <2>1. net[n][s] \in Datagram /\ Send(n, net[n][s])
    BY <1>15 DEF Duplicate, TypeOK
  <2>2. net' \in [Node -> [Slot -> Datagram \cup {NoMsg}]]
    BY <2>1, SendType
  <2>3. QED
    BY <1>15, <2>2 DEF Duplicate, Fail, TypeOK, object, clocks, locals
<1>16. CASE Tick
  BY <1>16 DEF Tick, Older, TypeOK, object, locals
<1>17. CASE UNCHANGED vars
  BY <1>17 DEF vars, TypeOK, object, clocks, locals
<1>18. QED
  BY <1>1, <1>2, <1>3, <1>4, <1>5, <1>6, <1>7, <1>8, <1>9, <1>10, <1>11, <1>12,
     <1>13, <1>14, <1>15, <1>16, <1>17 DEF Next, WorkerStep, UiStep

\* Every reachable state is well formed; in particular the ages the code's
\* timeout comparisons (CMateComm.cpp:115, 156) look at stay within the range
\* in which they are exact.
THEOREM TypeCorrect == Spec => []TypeOK
BY InitTypeOK, NextTypeOK, PTL DEF Spec

-----------------------------------------------------------------------------
(* The object and its thread.                                              *)

\* The strengthening of ObjectOutlivesThread: the socket can only be gone in
\* the pass in which select() failed, after the point where the worker blocks.
LifeInv ==
  \A n \in Node :
    /\ Alive(n) => ui[n] \in {"open", "closed", "joining"}
    /\ pc[n] \in {"recv", "notify"} => sock[n]

\* What each step needs to know of the part of the state LifeInv is about.
LifeType ==
  /\ ui \in [Node -> UiState]
  /\ pc \in [Node -> PC]
  /\ sock \in [Node -> BOOLEAN]
  /\ running \in [Node -> BOOLEAN]

LEMMA LifeStep ==
  ASSUME LifeType, LifeInv, [Next]_vars
  PROVE  LifeInv'
<1> USE DEF LifeType, LifeInv, Alive
<1>1. ASSUME NEW n \in Node, WorkerStep(n) \/ SelectError(n) PROVE LifeInv'
  <2>1. CASE RecvTimeout(n)
    BY <2>1 DEF RecvTimeout, InRecv, Notify, ToTransmit
  <2>2. ASSUME NEW s \in Slot, RecvKeepAlive(n, s) PROVE LifeInv'
    BY <2>2 DEF RecvKeepAlive, InRecv, Notify, ToTransmit
  <2>3. ASSUME NEW s \in Slot, RecvMateMessage(n, s) PROVE LifeInv'
    BY <2>3 DEF RecvMateMessage, InRecv, Notify, object
  <2>4. CASE RecvError(n)
    BY <2>4 DEF RecvError, InRecv, ToTransmit, object
  <2>5. CASE SendMessageReturns(n)
    BY <2>5 DEF SendMessageReturns, LoopHead, GoesOn, EndThread
  <2>6. CASE SendKeepAlive(n) \/ KeepAliveNotDue(n)
    BY <2>6 DEF SendKeepAlive, KeepAliveNotDue, LoopHead, GoesOn, EndThread
  <2>7. CASE SendKeepAliveFails(n)
    BY <2>7 DEF SendKeepAliveFails, EndThread
  <2>8. CASE SelectError(n)
    BY <2>8 DEF SelectError, InRecv, ToTransmit
  <2>9. QED
    BY <1>1, <2>1, <2>2, <2>3, <2>4, <2>5, <2>6, <2>7, <2>8 DEF WorkerStep
<1>2. ASSUME NEW n \in Node, Start(n) PROVE LifeInv'
  BY <1>2 DEF Start
<1>3. ASSUME NEW n \in Node,
             Click(n) \/ CloseWindow(n) \/ BeginDelete(n) \/ ExitProcess(n)
      PROVE  LifeInv'
  BY <1>3 DEF Click, CloseWindow, BeginDelete, ExitProcess, object
<1>4. ASSUME NEW n \in Node, EndDelete(n) PROVE LifeInv'
  BY <1>4 DEF EndDelete, ThreadEnded
<1>5. ASSUME NEW n \in Node, Crash(n) PROVE LifeInv'
  BY <1>5 DEF Crash
<1>6. ASSUME NEW n \in Node, NEW s \in Slot,
             Lose(n, s) \/ Duplicate(n, s) \/ Unread(n, s)
      PROVE  LifeInv'
  BY <1>6 DEF Lose, Duplicate, Unread, object
<1>7. CASE Tick \/ UNCHANGED vars
  BY <1>7 DEF Tick, vars, object
<1>8. QED
  BY <1>1, <1>2, <1>3, <1>4, <1>5, <1>6, <1>7 DEF Next, UiStep

LEMMA LifeCorrect == Spec => []LifeInv
<1>1. Init => LifeInv
  BY DEF Init, LifeInv, Alive
<1>2. TypeOK => LifeType
  BY DEF TypeOK, LifeType
<1>3. LifeInv /\ LifeType /\ [Next]_vars => LifeInv'
  BY LifeStep
<1>4. QED
  BY <1>1, <1>2, <1>3, TypeCorrect, PTL DEF Spec

\* The worker never runs on a CMateComm object that the UI thread has freed,
\* nor waits on a socket that is closed: the destructor's wait
\* (CMateComm.cpp:28) and RecvData's own closesocket (UDPSocket.cpp:92).
THEOREM ObjectOutlivesThreadHolds == Spec => []ObjectOutlivesThread
<1>1. TypeOK => LifeType
  BY DEF TypeOK, LifeType
<1>2. LifeInv /\ LifeType => ObjectOutlivesThread
  BY DEF LifeInv, LifeType, ObjectOutlivesThread, Alive, PC
<1>3. QED
  BY <1>1, <1>2, LifeCorrect, TypeCorrect, PTL

-----------------------------------------------------------------------------
\* How long a running station can stay silent: KeepAliveGap, for any
\* MATE_COMM_MAX_DELAY and any UI lag.  What its steps need of TypeOK.
GapType ==
  /\ role \in [Node -> MSState]
  /\ pc \in [Node -> PC]
  /\ tx \in [Node -> Int]
  /\ wait \in [Node -> 0..D]
  /\ lag \in [Node -> 0..MaxUiLag]
  /\ notice \in [Node -> Notice]
  /\ beat \in [Node -> BOOLEAN]

\* The silence a pass of the loop may begin with: a pass that ended on time, and
\* for a master perhaps the pass of the take-over, which sends nothing.
Before(n) == IF role[n] = MS_MASTER THEN 2 * D - 1 + 2 * MaxUiLag
                                    ELSE D - 1 + MaxUiLag

\* The worker is in the SendMessage of a take-over.
InTakeover(n) == pc[n] = "notify" /\ notice[n].what = "slaveToMaster"

\* In select() the silence is that of Before and the time waited; after it,
\* that of a whole select() and the time since the wake-up.
Gap(n) ==
  /\ ~Alive(n) => ~beat[n]
  /\ InTakeover(n) => role[n] = MS_MASTER
  /\ beat[n] =>
       /\ pc[n] = "recv" => tx[n] <= wait[n] + Before(n)
       /\ pc[n] \in {"notify", "tx"} => tx[n] <= lag[n] + D + Before(n)
       /\ InTakeover(n) => tx[n] <= lag[n] + 2 * D - 1 + MaxUiLag

GapInv == \A n \in Node : Gap(n)

\* A step of one station's threads does not touch the other's.
Only(m) ==
  \A n \in Node \ {m} :
    /\ pc'[n] = pc[n] /\ role'[n] = role[n] /\ tx'[n] = tx[n]
    /\ wait'[n] = wait[n] /\ lag'[n] = lag[n]
    /\ notice'[n] = notice[n] /\ beat'[n] = beat[n]

LEMMA OnlyStep ==
  ASSUME GapInv, NEW m \in Node, Only(m), Gap(m)'
  PROVE  GapInv'
BY DEF GapInv, Only, Gap, Alive, Before, InTakeover

\* The end of a pass: the loop head keeps or resets what Gap is about.
LEMMA PassEnds ==
  ASSUME GapType, GapType', NEW m \in Node, NEW t \in Int, NEW b \in BOOLEAN,
         LoopHead(m, t, b) \/ EndThread(m),
         b => t <= (IF role'[m] = MS_MASTER THEN 2 * D - 1 + 2 * MaxUiLag
                                            ELSE D - 1 + MaxUiLag)
  PROVE  Gap(m)'
<1> USE BoundAssumption DEF GapType, Gap, Alive, Before, InTakeover
<1>1. CASE pc'[m] = "recv" /\ tx'[m] = t /\ wait'[m] = 0 /\ beat'[m] = b
  BY <1>1
<1>2. CASE pc'[m] = "done" /\ beat'[m] = FALSE
  BY <1>2
<1>3. QED
  BY <1>1, <1>2 DEF LoopHead, EndThread, ResetThread

LEMMA PassEndsAlone ==
  ASSUME GapType, NEW m \in Node, NEW t \in Int, NEW b \in BOOLEAN,
         LoopHead(m, t, b) \/ EndThread(m),
         \A n \in Node \ {m} : role'[n] = role[n]
  PROVE  Only(m)
BY DEF GapType, Only, LoopHead, EndThread, ResetThread

\* RecvData returns with a notice to send, or with none: select() has taken at
\* most MATE_COMM_MAX_DELAY.
LEMMA ReceiveEnds ==
  ASSUME GapType, GapType', NEW m \in Node, Gap(m), InRecv(m), Wake(m),
         \/ pc'[m] = "tx"
         \/ pc'[m] = "notify" /\ notice'[m].what # "slaveToMaster",
         role'[m] = role[m] \/ role'[m] = Joined(role[m])
  PROVE  Gap(m)'
<1> USE BoundAssumption DEF GapType
<1>1. /\ pc[m] = "recv" /\ beat'[m] = beat[m] /\ tx'[m] = tx[m] /\ lag'[m] = lag[m]
      /\ ~InTakeover(m)' /\ wait[m] <= D /\ lag[m] >= 0
  BY DEF InRecv, Wake, InTakeover
<1>2. Before(m)' = Before(m)
  BY DEF Before, Joined
<1>3. Before(m) \in Int
  BY DEF Before
<1>4. beat[m] => tx[m] <= wait[m] + Before(m)
  BY <1>1 DEF Gap
<1>5. beat[m] => tx[m] <= lag[m] + D + Before(m)
  BY <1>1, <1>3, <1>4
<1>6. QED
  BY <1>1, <1>2, <1>5 DEF Gap, Alive

\* Each step of a worker keeps Gap for its station.
LEMMA GapWorker ==
  ASSUME GapType, GapType', NEW m \in Node, Gap(m), WorkerStep(m) \/ SelectError(m)
  PROVE  Gap(m)'
<1> USE BoundAssumption DEF GapType
<1>1. CASE RecvTimeout(m) /\ TakeoverDue(m)
  <2>1. /\ pc[m] = "recv" /\ pc'[m] = "notify" /\ notice'[m].what = "slaveToMaster"
        /\ role[m] = MS_SLAVE /\ role'[m] = MS_MASTER /\ beat'[m] = beat[m]
        /\ tx'[m] = tx[m] /\ lag'[m] = lag[m] /\ wait[m] <= D /\ lag[m] >= 0
    BY <1>1 DEF RecvTimeout, TakeoverDue, InRecv, Wake, Notify
  <2>2. beat[m] => tx[m] <= D + D - 1 + MaxUiLag
    BY <2>1 DEF Gap, Before
  <2>3. QED
    BY <2>1, <2>2 DEF Gap, Alive, Before, InTakeover
<1>2. CASE (RecvTimeout(m) /\ ~TakeoverDue(m)) \/ RecvError(m) \/ SelectError(m)
  <2>1. InRecv(m) /\ Wake(m) /\ pc'[m] = "tx" /\ role'[m] = role[m]
    BY <1>2 DEF RecvTimeout, RecvError, SelectError, InRecv, ToTransmit, object
  <2>2. QED
    BY <2>1, ReceiveEnds
<1>3. ASSUME NEW s \in Slot, RecvKeepAlive(m, s) PROVE Gap(m)'
  <2> DEFINE v == Verdict(Joined(role[m]), net[m][s].role)
  <2>1. InRecv(m) /\ Wake(m) /\ role'[m] = Joined(role[m])
    BY <1>3 DEF RecvKeepAlive
  <2>2. v # "slaveToMaster"
    BY DEF Verdict
  <2>3. IF v = "none" THEN ToTransmit(m) ELSE Notify(m, v, net[m][s].inc)
    BY <1>3 DEF RecvKeepAlive
  <2> HIDE DEF v
  <2>4. \/ pc'[m] = "tx"
        \/ pc'[m] = "notify" /\ notice'[m].what # "slaveToMaster"
    BY <2>2, <2>3 DEF ToTransmit, Notify
  <2>5. QED
    BY <2>1, <2>4, ReceiveEnds
<1>4. ASSUME NEW s \in Slot, RecvMateMessage(m, s) PROVE Gap(m)'
  <2>1. /\ InRecv(m) /\ Wake(m) /\ role'[m] = role[m]
        /\ pc'[m] = "notify" /\ notice'[m].what # "slaveToMaster"
    BY <1>4 DEF RecvMateMessage, Notify, object
  <2>2. QED
    BY <2>1, ReceiveEnds
<1>5. CASE SendMessageReturns(m) /\ notice[m].what = "slaveToMaster"
  <2>1. LoopHead(m, tx[m], beat[m]) /\ InTakeover(m) /\ role'[m] = role[m]
    BY <1>5 DEF SendMessageReturns, InTakeover
  <2>2. beat[m] => tx[m] <= 2 * D - 1 + 2 * MaxUiLag
    BY <2>1 DEF Gap
  <2>3. role[m] = MS_MASTER
    BY <2>1 DEF Gap
  <2>4. QED
    BY <2>1, <2>2, <2>3, PassEnds
<1>6. CASE SendMessageReturns(m) /\ notice[m].what # "slaveToMaster"
  <2>1. /\ pc[m] = "notify" /\ pc'[m] = "tx" /\ role'[m] = role[m]
        /\ tx'[m] = tx[m] /\ lag'[m] = lag[m] /\ beat'[m] = beat[m]
    BY <1>6 DEF SendMessageReturns, clocks
  <2>2. QED
    BY <2>1 DEF Gap, Alive, Before, InTakeover
<1>7. CASE SendKeepAlive(m)
  <2>1. LoopHead(m, lag[m], TRUE)
    BY <1>7 DEF SendKeepAlive
  <2>2. lag[m] <= MaxUiLag /\ lag[m] \in Int
    OBVIOUS
  <2>3. lag[m] <= D - 1 + MaxUiLag /\ lag[m] <= 2 * D - 1 + 2 * MaxUiLag
    BY <2>2
  <2>4. QED
    BY <2>1, <2>2, <2>3, PassEnds
<1>8. CASE SendKeepAliveFails(m)
  BY <1>8, PassEnds DEF SendKeepAliveFails, EndThread, ResetThread, Gap, Alive,
     InTakeover
<1>9. CASE KeepAliveNotDue(m)
  <2>1. LoopHead(m, tx[m], beat[m]) /\ tx[m] - lag[m] < D /\ lag[m] <= MaxUiLag
    BY <1>9 DEF KeepAliveNotDue, KeepAliveDue
  <2>2. tx[m] <= D - 1 + MaxUiLag /\ tx[m] <= 2 * D - 1 + 2 * MaxUiLag
    BY <2>1
  <2>3. QED
    BY <2>1, <2>2, PassEnds
<1>10. QED
  BY <1>1, <1>2, <1>3, <1>4, <1>5, <1>6, <1>7, <1>8, <1>9 DEF WorkerStep

\* And it leaves the other stations alone.
LEMMA WorkerAlone ==
  ASSUME GapType, NEW m \in Node, WorkerStep(m) \/ SelectError(m)
  PROVE  Only(m)
<1> USE DEF GapType
<1>1. CASE RecvTimeout(m)
  BY <1>1 DEF RecvTimeout, Wake, Notify, ToTransmit, Only
<1>2. CASE \E s \in Slot : RecvKeepAlive(m, s) \/ RecvMateMessage(m, s)
  BY <1>2 DEF RecvKeepAlive, RecvMateMessage, Wake, Notify, ToTransmit, Only, object
<1>3. CASE RecvError(m) \/ SelectError(m)
  BY <1>3 DEF RecvError, SelectError, Wake, ToTransmit, Only, object
<1>4. CASE SendMessageReturns(m) \/ KeepAliveNotDue(m)
  BY <1>4 DEF SendMessageReturns, KeepAliveNotDue, LoopHead, EndThread, ResetThread,
     Only, clocks
<1>5. CASE SendKeepAlive(m) \/ SendKeepAliveFails(m)
  BY <1>5 DEF SendKeepAlive, SendKeepAliveFails, LoopHead, EndThread, ResetThread, Only
<1>6. QED
  BY <1>1, <1>2, <1>3, <1>4, <1>5 DEF WorkerStep

LEMMA GapStep ==
  ASSUME GapType, GapType', GapInv, LifeInv, [Next]_vars
  PROVE  GapInv'
<1>0. \A n \in Node : Gap(n)
  BY DEF GapInv
<1>1. ASSUME NEW m \in Node, WorkerStep(m) \/ SelectError(m)
      PROVE  GapInv'
  BY <1>0, <1>1, GapWorker, WorkerAlone, OnlyStep
<1>2. ASSUME NEW m \in Node, Start(m)
      PROVE  GapInv'
  <2>1. ~Alive(m) /\ ~beat[m]
    BY <1>0, <1>2 DEF Start, LifeInv, Gap
  <2>2. Only(m) /\ beat' = beat /\ ~InTakeover(m)'
    BY <1>2, <2>1 DEF Start, clocks, locals, Only, GapType, InTakeover, Alive
  <2>3. Gap(m)'
    BY <2>1, <2>2 DEF Gap, Alive
  <2>4. QED
    BY <2>2, <2>3, OnlyStep
<1>3. ASSUME pc' = pc, role' = role, tx' = tx, wait' = wait, lag' = lag,
             notice' = notice, beat' = beat
      PROVE  GapInv'
  BY <1>3 DEF GapInv, Gap, Alive, Before, InTakeover
<1>4. ASSUME NEW m \in Node, UiStep(m), ~Start(m), ~ExitProcess(m)
      PROVE  GapInv'
  BY <1>3, <1>4 DEF UiStep, Click, CloseWindow, BeginDelete, EndDelete, object,
     clocks, locals
<1>5. ASSUME NEW m \in Node, ExitProcess(m)
      PROVE  GapInv'
  <2>1. ~Alive(m) /\ ~beat[m]
    BY <1>0, <1>5 DEF ExitProcess, LifeInv, Gap
  <2>2. Only(m) /\ beat' = beat /\ pc'[m] = "none"
    BY <1>5 DEF ExitProcess, object, clocks, locals, Only, GapType
  <2>3. Gap(m)'
    BY <2>1, <2>2 DEF Gap, Alive, InTakeover
  <2>4. QED
    BY <2>2, <2>3, OnlyStep
<1>6. ASSUME NEW m \in Node, Crash(m)
      PROVE  GapInv'
  <2>1. Only(m) /\ pc'[m] = "none" /\ ~beat'[m]
    BY <1>6 DEF Crash, ResetThread, Only, GapType
  <2>2. Gap(m)'
    BY <2>1 DEF Gap, Alive, InTakeover
  <2>3. QED
    BY <2>1, <2>2, OnlyStep
<1>7. ASSUME NEW m \in Node, NEW s \in Slot,
             Lose(m, s) \/ Duplicate(m, s) \/ Unread(m, s)
      PROVE  GapInv'
  BY <1>3, <1>7 DEF Lose, Duplicate, Unread, object, clocks, locals
<1>8. CASE UNCHANGED vars
  BY <1>3, <1>8 DEF vars, object, clocks, locals
<1>9. CASE Tick
  <2> SUFFICES ASSUME NEW n \in Node PROVE Gap(n)'
    BY DEF GapInv
  <2>1. /\ pc' = pc /\ role' = role /\ notice' = notice /\ beat' = beat
    BY <1>9 DEF Tick, object, locals
  <2>2. Alive(n) => tx'[n] <= tx[n] + 1
    BY <1>9 DEF Tick, Older, GapType
  <2>3. pc[n] = "recv" => wait'[n] = wait[n] + 1
    BY <1>9, BoundAssumption DEF Tick, Older, Urgent, GapType
  <2>4. pc[n] = "notify" => lag'[n] = lag[n] + 1
    BY <1>9, BoundAssumption DEF Tick, Older, Urgent, GapType
  <2>5. pc[n] # "tx"
    BY <1>9 DEF Tick, Urgent
  <2>6. Before(n)' = Before(n) /\ Before(n) \in Int /\ InTakeover(n)' = InTakeover(n)
    BY <2>1, BoundAssumption DEF Before, InTakeover
  <2>7. Gap(n) /\ tx[n] \in Int /\ tx'[n] \in Int /\ wait[n] \in Int /\ lag[n] \in Int
    BY <1>0, BoundAssumption DEF GapType
  <2>8. pc[n] = "recv" /\ beat[n] => tx'[n] <= wait'[n] + Before(n)
    BY <2>2, <2>3, <2>6, <2>7 DEF Gap, Alive
  <2>9. pc[n] = "notify" /\ beat[n] => tx'[n] <= lag'[n] + D + Before(n)
    BY <2>2, <2>4, <2>6, <2>7, BoundAssumption DEF Gap, Alive
  <2>10. InTakeover(n) /\ beat[n] => tx'[n] <= lag'[n] + 2 * D - 1 + MaxUiLag
    BY <2>2, <2>4, <2>7, BoundAssumption DEF Gap, Alive, InTakeover
  <2>11. QED
    BY <2>1, <2>5, <2>6, <2>7, <2>8, <2>9, <2>10 DEF Gap, Alive, InTakeover
<1>10. QED
  BY <1>1, <1>2, <1>4, <1>5, <1>6, <1>7, <1>8, <1>9 DEF Next

LEMMA GapCorrect == Spec => []GapInv
<1>1. TypeOK => GapType
  BY Caps, BoundAssumption DEF TypeOK, GapType
<1>2. Init => GapInv
  BY DEF Init, GapInv, Gap, Alive, InTakeover
<1>3. GapType /\ GapType' /\ GapInv /\ LifeInv /\ [Next]_vars => GapInv'
  BY GapStep
<1> QED
  BY <1>1, <1>2, <1>3, TypeCorrect, LifeCorrect, PTL DEF Spec

\* The mate of a running station hears from it, on a perfect network, at least
\* every 2 * D - 1 ticks and the time of two messages, and once after a
\* take-over every 3 * D - 1 ticks and the time of three (CMateComm.cpp:108,
\* 121, 156): close to, or beyond, the limit of two periods it is judged by.
THEOREM KeepAliveGapHolds == Spec => []KeepAliveGap
<1>1. TypeOK => GapType
  BY Caps, BoundAssumption DEF TypeOK, GapType
<1>2. GapType /\ GapInv => KeepAliveGap
  <2> SUFFICES ASSUME GapType, GapInv, NEW n \in Node, Alive(n), beat[n]
               PROVE  tx[n] <= IF role[n] = MS_MASTER THEN 3 * D - 1 + 3 * MaxUiLag
                                                      ELSE 2 * D - 1 + 2 * MaxUiLag
    BY DEF KeepAliveGap
  <2>1. /\ wait[n] \in Int /\ lag[n] \in Int /\ wait[n] <= D /\ lag[n] <= MaxUiLag
        /\ tx[n] \in Int
    BY BoundAssumption DEF GapType
  <2>2. tx[n] <= wait[n] + Before(n) \/ tx[n] <= lag[n] + D + Before(n)
    BY DEF GapInv, Gap, Alive
  <2>3. QED
    BY <2>1, <2>2, BoundAssumption DEF Before
<1>3. QED
  BY <1>1, <1>2, TypeCorrect, GapCorrect, PTL

-----------------------------------------------------------------------------
(* What a station says of itself is true for as long as its program runs,  *)
(* and a conflict it reports is real.  Both rest on two facts about single *)
(* steps: no step but a restart lowers a role, and whatever is in flight   *)
(* was in flight before or is what its sender has just said.               *)

\* What the steps of the rest need of TypeOK.
HistoryType ==
  /\ inc \in [Node -> 0..MaxInc]
  /\ role \in [Node -> MSState]
  /\ pc \in [Node -> PC]
  /\ ka \in [Node -> MSState]
  /\ notice \in [Node -> Notice]
  /\ net \in [Node -> [Slot -> Datagram \cup {NoMsg}]]

-----------------------------------------------------------------------------
(* Single steps.                                                           *)

\* A step leaves a role, raises it, or belongs to a new start of the program.
Grows(n) ==
  /\ inc[n] <= inc'[n]
  /\ inc'[n] = inc[n] => role[n] <= role'[n]

\* No line of the worker lowers m_nMSState (CMateComm.cpp:119, 130, 167), so
\* within one run of the program the role only grows.
LEMMA RoleGrows ==
  ASSUME HistoryType, [Next]_vars
  PROVE  \A n \in Node : Grows(n)
<1> USE DEF HistoryType, Grows
<1>1. ASSUME NEW m \in Node, WorkerStep(m) \/ SelectError(m)
      PROVE  \A n \in Node : Grows(n)
  <2>0. inc' = inc
    BY <1>1 DEF WorkerStep, SelectError, RecvTimeout, RecvKeepAlive,
       RecvMateMessage, RecvError, SendMessageReturns, SendKeepAlive,
       SendKeepAliveFails, KeepAliveNotDue
  <2>1. \/ role' = role
        \/ role' = [role EXCEPT ![m] = Joined(@)]
        \/ TakeoverDue(m) /\ role' = [role EXCEPT ![m] = MS_MASTER]
    <3>1. CASE RecvTimeout(m)
      BY <3>1 DEF RecvTimeout
    <3>2. CASE SendKeepAlive(m) \/ \E s \in Slot : RecvKeepAlive(m, s)
      BY <3>2 DEF SendKeepAlive, RecvKeepAlive
    <3>3. CASE SendMessageReturns(m) \/ SendKeepAliveFails(m) \/ KeepAliveNotDue(m)
      BY <3>3 DEF SendMessageReturns, SendKeepAliveFails, KeepAliveNotDue
    <3>4. CASE RecvError(m) \/ SelectError(m) \/ \E s \in Slot : RecvMateMessage(m, s)
      BY <3>4 DEF RecvError, SelectError, RecvMateMessage, object
    <3>5. QED
      BY <1>1, <3>1, <3>2, <3>3, <3>4 DEF WorkerStep
  <2>2. QED
    BY <2>0, <2>1 DEF Joined, TakeoverDue, MSState
<1>2. ASSUME NEW m \in Node, Start(m)
      PROVE  \A n \in Node : Grows(n)
  BY <1>2 DEF Start, MSState
<1>3. ASSUME inc' = inc, role' = role
      PROVE  \A n \in Node : Grows(n)
  BY <1>3 DEF MSState
<1>4. ASSUME NEW m \in Node, UiStep(m), ~Start(m)
      PROVE  inc' = inc /\ role' = role
  BY <1>4 DEF UiStep, Click, CloseWindow, BeginDelete, EndDelete, ExitProcess,
     object
<1>5. ASSUME NEW m \in Node, NEW s \in Slot,
             Lose(m, s) \/ Duplicate(m, s) \/ Unread(m, s)
      PROVE  inc' = inc /\ role' = role
  BY <1>5 DEF Lose, Duplicate, Unread, object
<1>6. ASSUME NEW m \in Node, Crash(m)
      PROVE  inc' = inc /\ role' = role
  BY <1>6 DEF Crash
<1>7. ASSUME Tick \/ UNCHANGED vars
      PROVE  inc' = inc /\ role' = role
  BY <1>7 DEF Tick, vars, object
<1>8. QED
  BY <1>1, <1>2, <1>3, <1>4, <1>5, <1>6, <1>7 DEF Next

\* What station m can put on the network now.
Sayable(m) ==
  { [kind |-> "data", role |-> MS_UNKNOWN, inc |-> inc[m]],
    [kind |-> "keepalive", role |-> ka[m], inc |-> inc[m]] }

\* The datagrams for station n after a step: those before it, and at most what
\* the mate says in it.
Explained(n) ==
  \A s \in Slot : \/ net'[n][s] = NoMsg
                  \/ \E x \in Slot : net'[n][s] = net[n][x]
                  \/ net'[n][s] \in Sayable(Mate[n])

\* sendto() adds nothing but the datagram it is given.
LEMMA SendExplained ==
  ASSUME HistoryType, NEW m \in Node, NEW d,
         \/ d \in Sayable(Mate[m])
         \/ \E x \in Slot : d = net[m][x],
         Send(m, d)
  PROVE  \A n \in Node : Explained(n)
<1>1. CASE Free(m) = {}
  BY <1>1 DEF Send, Explained
<1>2. CASE Free(m) # {}
  <2> DEFINE t == CHOOSE s \in Free(m) : TRUE
  <2>1. net' = [net EXCEPT ![m][t] = d]
    BY <1>2 DEF Send
  <2> HIDE DEF t
  <2>2. ASSUME NEW n \in Node, NEW s \in Slot
        PROVE  net'[n][s] = net[n][s] \/ (n = m /\ net'[n][s] = d)
    BY <2>1 DEF HistoryType
  <2>3. QED
    BY <2>2 DEF Explained
<1>3. QED
  BY <1>1, <1>2

\* A datagram on its way was sent by the mate, or is a copy of one that was.
LEMMA NetExplained ==
  ASSUME HistoryType, [Next]_vars
  PROVE  \A n \in Node : Explained(n)
<1>1. ASSUME net' = net
      PROVE  \A n \in Node : Explained(n)
  BY <1>1 DEF Explained
<1>2. ASSUME NEW m \in Node, NEW s \in Slot, Remove(m, s)
      PROVE  \A n \in Node : Explained(n)
  BY <1>2 DEF Remove, Explained, HistoryType
<1>3. ASSUME NEW m \in Node, SendKeepAlive(m) \/ Click(m)
      PROVE  \A n \in Node : Explained(n)
  <2>1. Mate[m] \in Node /\ Mate[Mate[m]] = m
    BY MateAssumption
  <2>2. PICK d : d \in Sayable(m) /\ Send(Mate[m], d)
    BY <1>3 DEF SendKeepAlive, Click, Sayable
  <2>3. QED
    BY <2>1, <2>2, SendExplained
<1>4. ASSUME NEW m \in Node, NEW s \in Slot, Duplicate(m, s)
      PROVE  \A n \in Node : Explained(n)
  BY <1>4, SendExplained DEF Duplicate
<1>5. ASSUME NEW m \in Node, WorkerStep(m) \/ SelectError(m), ~SendKeepAlive(m)
      PROVE  net' = net \/ \E s \in Slot : Remove(m, s)
  BY <1>5 DEF WorkerStep, SelectError, RecvTimeout, RecvKeepAlive,
     RecvMateMessage, RecvError, SendMessageReturns, SendKeepAliveFails,
     KeepAliveNotDue
<1>6. ASSUME NEW m \in Node, UiStep(m) \/ Crash(m), ~Click(m)
      PROVE  net' = net
  BY <1>6 DEF UiStep, Start, CloseWindow, BeginDelete, EndDelete, ExitProcess,
     Crash
<1>7. ASSUME NEW m \in Node, NEW s \in Slot, Lose(m, s) \/ Unread(m, s)
      PROVE  Remove(m, s)
  BY <1>7 DEF Lose, Unread
<1>8. ASSUME Tick \/ UNCHANGED vars
      PROVE  net' = net
  BY <1>8 DEF Tick, vars
<1>9. QED
  BY <1>1, <1>2, <1>3, <1>4, <1>5, <1>6, <1>7, <1>8 DEF Next

-----------------------------------------------------------------------------
(* The inductive invariant.                                                *)

\* What is on its way to n is true of the mate, or of an earlier run of it.
Truthful(n) ==
  \A s \in Slot : net[n][s] # NoMsg =>
    /\ net[n][s].inc <= inc[Mate[n]]
    /\ net[n][s].inc = inc[Mate[n]] => net[n][s].role <= role[Mate[n]]

\* The copied role byte is at most the role; without a worker there is none.
SnapshotOld(n) ==
  /\ ka[n] <= role[n]
  /\ ~Alive(n) => ka[n] = MS_UNKNOWN

\* A notice exists only inside SendMessage, is about this run of the mate or an
\* earlier one, and reports a conflict that is there.
NoticeTrue(n) ==
  /\ pc[n] # "notify" => notice[n] = Quiet
  /\ notice[n].inc <= inc[Mate[n]]
  /\ notice[n].what = "masterConflict" =>
       /\ role[n] = MS_MASTER
       /\ notice[n].inc = inc[Mate[n]] => role[Mate[n]] = MS_MASTER
  /\ notice[n].what = "slaveConflict" =>
       /\ role[n] = MS_SLAVE
       /\ notice[n].inc = inc[Mate[n]] => role[Mate[n]] >= MS_SLAVE

HistoryInv == \A n \in Node : Truthful(n) /\ SnapshotOld(n) /\ NoticeTrue(n)

\* Whatever is said is true, and stays so while roles only grow.
LEMMA TruthStep ==
  ASSUME HistoryType, HistoryType', HistoryInv,
         \A n \in Node : Grows(n) /\ Explained(n)
  PROVE  \A n \in Node : Truthful(n)'
<1> SUFFICES ASSUME NEW n \in Node, NEW s \in Slot, net'[n][s] # NoMsg
             PROVE  /\ net'[n][s].inc <= inc'[Mate[n]]
                    /\ net'[n][s].inc = inc'[Mate[n]] =>
                         net'[n][s].role <= role'[Mate[n]]
  BY DEF Truthful
<1> DEFINE p == Mate[n]
<1>1. p \in Node
  BY MateAssumption
<1>2. Grows(p) /\ inc[p] \in Nat /\ inc'[p] \in Nat /\ role[p] \in MSState
      /\ role'[p] \in MSState /\ ka[p] \in MSState /\ ka[p] <= role[p]
  BY <1>1, BoundAssumption DEF HistoryType, HistoryInv, SnapshotOld
<1>3. ASSUME NEW d \in Datagram, d.inc <= inc[p], d.inc = inc[p] => d.role <= role[p]
      PROVE  d.inc <= inc'[p] /\ (d.inc = inc'[p] => d.role <= role'[p])
  BY <1>2, <1>3 DEF Grows, Datagram, MSState
<1>4. ASSUME NEW x \in Slot, net'[n][s] = net[n][x]
      PROVE  /\ net[n][x] \in Datagram /\ net[n][x].inc <= inc[p]
             /\ net[n][x].inc = inc[p] => net[n][x].role <= role[p]
  BY <1>4 DEF HistoryType, HistoryInv, Truthful
<1>5. ASSUME NEW d \in Sayable(p)
      PROVE  /\ d \in Datagram /\ d.inc <= inc[p]
             /\ d.inc = inc[p] => d.role <= role[p]
  BY <1>2 DEF Sayable, Datagram, MSState
<1>6. \/ \E x \in Slot : net'[n][s] = net[n][x]
      \/ net'[n][s] \in Sayable(p)
  BY DEF Explained
<1>7. QED
  BY <1>3, <1>4, <1>5, <1>6

\* The role byte is copied when RecvData returns and forgotten at the loop head.
LEMMA SnapshotStep ==
  ASSUME HistoryType, HistoryInv, LifeInv, [Next]_vars, \A n \in Node : Grows(n)
  PROVE  \A n \in Node : SnapshotOld(n)'
<1> USE DEF HistoryType, SnapshotOld, Alive
<1>0. \A n \in Node : SnapshotOld(n)
  BY DEF HistoryInv
<1>1. ASSUME NEW m \in Node, pc' = [pc EXCEPT ![m] = pc'[m]],
             ka' = [ka EXCEPT ![m] = ka'[m]], role' = [role EXCEPT ![m] = role'[m]],
             SnapshotOld(m)'
      PROVE  \A n \in Node : SnapshotOld(n)'
  BY <1>0, <1>1
<1>2. ASSUME NEW m \in Node, WorkerStep(m) \/ SelectError(m)
      PROVE  \A n \in Node : SnapshotOld(n)'
  <2>1. /\ pc' = [pc EXCEPT ![m] = pc'[m]] /\ ka' = [ka EXCEPT ![m] = ka'[m]]
        /\ role' = [role EXCEPT ![m] = role'[m]]
    <3>1. CASE RecvTimeout(m)
      BY <3>1 DEF RecvTimeout, Wake, Notify, ToTransmit
    <3>2. CASE \E s \in Slot : RecvKeepAlive(m, s) \/ RecvMateMessage(m, s)
      BY <3>2 DEF RecvKeepAlive, RecvMateMessage, Wake, Notify, ToTransmit, object
    <3>3. CASE RecvError(m) \/ SelectError(m)
      BY <3>3 DEF RecvError, SelectError, Wake, ToTransmit, object
    <3>4. CASE SendMessageReturns(m) \/ KeepAliveNotDue(m)
      BY <3>4 DEF SendMessageReturns, KeepAliveNotDue, LoopHead, EndThread,
         ResetThread
    <3>5. CASE SendKeepAlive(m) \/ SendKeepAliveFails(m)
      BY <3>5 DEF SendKeepAlive, SendKeepAliveFails, LoopHead, EndThread,
         ResetThread
    <3>6. QED
      BY <1>2, <3>1, <3>2, <3>3, <3>4, <3>5 DEF WorkerStep
  <2>2. SnapshotOld(m)'
    <3>1. CASE RecvTimeout(m)
      BY <3>1, <1>0 DEF RecvTimeout, Wake, Notify, ToTransmit, TakeoverDue, MSState
    <3>2. CASE \E s \in Slot : RecvKeepAlive(m, s) \/ RecvMateMessage(m, s)
      BY <3>2, <1>0 DEF RecvKeepAlive, RecvMateMessage, Wake, Notify, ToTransmit,
         Joined, object, MSState
    <3>3. CASE RecvError(m) \/ SelectError(m)
      BY <3>3, <1>0 DEF RecvError, SelectError, Wake, ToTransmit, object, MSState
    <3>4. CASE SendMessageReturns(m) \/ KeepAliveNotDue(m)
      BY <3>4, <1>0 DEF SendMessageReturns, KeepAliveNotDue, LoopHead, EndThread,
         ResetThread, MSState
    <3>5. CASE SendKeepAlive(m) \/ SendKeepAliveFails(m)
      BY <3>5, <1>0 DEF SendKeepAlive, SendKeepAliveFails, LoopHead, EndThread,
         ResetThread, Joined, MSState
    <3>6. QED
      BY <1>2, <3>1, <3>2, <3>3, <3>4, <3>5 DEF WorkerStep
  <2>3. QED
    BY <1>1, <2>1, <2>2
<1>3. ASSUME NEW m \in Node, UiStep(m)
      PROVE  \A n \in Node : SnapshotOld(n)'
  <2>1. CASE Start(m)
    <3>1. ~Alive(m) /\ ka[m] = MS_UNKNOWN
      BY <2>1, <1>0 DEF Start, LifeInv
    <3>2. QED
      BY <2>1, <3>1, <1>0 DEF Start, locals, MSState
  <2>2. CASE Click(m) \/ CloseWindow(m) \/ BeginDelete(m) \/ EndDelete(m)
    BY <2>2, <1>0 DEF Click, CloseWindow, BeginDelete, EndDelete, object, locals
  <2>3. CASE ExitProcess(m)
    BY <2>3, <1>0 DEF ExitProcess, LifeInv, object, locals
  <2>4. QED
    BY <1>3, <2>1, <2>2, <2>3 DEF UiStep
<1>4. ASSUME NEW m \in Node, Crash(m)
      PROVE  \A n \in Node : SnapshotOld(n)'
  BY <1>4, <1>0 DEF Crash, ResetThread, MSState
<1>5. ASSUME NEW m \in Node, NEW s \in Slot,
             Lose(m, s) \/ Duplicate(m, s) \/ Unread(m, s)
      PROVE  \A n \in Node : SnapshotOld(n)'
  BY <1>5, <1>0 DEF Lose, Duplicate, Unread, object, locals
<1>6. ASSUME Tick \/ UNCHANGED vars
      PROVE  \A n \in Node : SnapshotOld(n)'
  BY <1>6, <1>0 DEF Tick, vars, object, locals
<1>7. QED
  BY <1>2, <1>3, <1>4, <1>5, <1>6 DEF Next

\* A notice that stays is as true as before, as long as the own role stays too.
LEMMA NoticeKept ==
  ASSUME HistoryType, HistoryType', NEW n \in Node, NoticeTrue(n),
         Grows(Mate[n]), notice'[n] = notice[n],
         pc'[n] # "notify" => notice[n] = Quiet,
         notice[n] = Quiet \/ role'[n] = role[n]
  PROVE  NoticeTrue(n)'
<1> DEFINE p == Mate[n]
<1>1. p \in Node
  BY MateAssumption
<1>2. /\ inc[p] \in Nat /\ inc'[p] \in Nat /\ notice[n].inc \in Nat
      /\ role[p] \in MSState /\ role'[p] \in MSState
  BY <1>1, BoundAssumption DEF HistoryType, Notice
<1>3. notice[n].inc = inc'[p] =>
        notice[n].inc = inc[p] /\ role[p] <= role'[p]
  BY <1>2 DEF Grows, NoticeTrue
<1>4. notice[n].inc <= inc'[p]
  BY <1>2 DEF Grows, NoticeTrue
<1>5. QED
  BY <1>2, <1>3, <1>4 DEF NoticeTrue, Quiet, MSState

\* Without a notice there is nothing to say.
LEMMA NoticeGone ==
  ASSUME HistoryType', NEW n \in Node, notice'[n] = Quiet
  PROVE  NoticeTrue(n)'
<1>1. Mate[n] \in Node /\ inc'[Mate[n]] \in Nat
  BY MateAssumption, BoundAssumption DEF HistoryType
<1>2. QED
  BY <1>1 DEF NoticeTrue, Quiet

\* The verdict on a keepalive is about the roles both stations have: the own
\* one as it is now, the mate's because the keepalive is truthful.
LEMMA VerdictTrue ==
  ASSUME HistoryType, HistoryType', HistoryInv, NEW m \in Node, NEW s \in Slot,
         RecvKeepAlive(m, s)
  PROVE  NoticeTrue(m)'
<1> DEFINE p == Mate[m]
           d == net[m][s]
           v == Verdict(Joined(role[m]), d.role)
<1>1. p \in Node /\ p # m
  BY MateAssumption
<1>2. d \in Datagram /\ d.inc <= inc[p] /\ (d.inc = inc[p] => d.role <= role[p])
  BY DEF RecvKeepAlive, HistoryType, HistoryInv, Truthful
<1>3. inc' = inc /\ role'[m] = Joined(role[m]) /\ role'[p] = role[p]
  BY <1>1 DEF RecvKeepAlive, HistoryType
<1>4. v = "none" \/ (pc'[m] = "notify" /\ notice'[m] = [what |-> v, inc |-> d.inc])
  BY DEF RecvKeepAlive, Notify, HistoryType
<1>5. CASE v = "none"
  <2>1. notice'[m] = notice[m] /\ notice[m] = Quiet
    BY <1>5 DEF RecvKeepAlive, InRecv, ToTransmit, HistoryInv, NoticeTrue
  <2>2. QED
    BY <2>1, NoticeGone
<1>6. CASE v # "none"
  <2>1. \/ v = "masterConflict" /\ d.role = MS_MASTER /\ Joined(role[m]) = MS_MASTER
        \/ v = "slaveConflict" /\ d.role = MS_SLAVE /\ Joined(role[m]) = MS_SLAVE
    BY <1>6 DEF Verdict
  <2>2. role[p] \in MSState
    BY <1>1 DEF HistoryType
  <2> HIDE DEF v, d, p
  <2>3. notice'[m].what = v /\ notice'[m].inc = d.inc /\ pc'[m] = "notify"
    BY <1>4, <1>6
  <2>4. QED
    BY <1>2, <1>3, <2>1, <2>2, <2>3 DEF NoticeTrue, MSState, p
<1>7. QED
  BY <1>5, <1>6

\* Notices are made from truthful keepalives and stay while roles only grow.
LEMMA NoticeStep ==
  ASSUME HistoryType, HistoryType', HistoryInv, LifeInv, [Next]_vars,
         \A n \in Node : Grows(n)
  PROVE  \A n \in Node : NoticeTrue(n)'
<1>0. \A n \in Node : NoticeTrue(n) /\ Mate[n] \in Node
  BY MateAssumption DEF HistoryInv
<1>1. ASSUME NEW n \in Node, notice'[n] = notice[n],
             pc'[n] # "notify" => notice[n] = Quiet,
             notice[n] = Quiet \/ role'[n] = role[n]
      PROVE  NoticeTrue(n)'
  BY <1>0, <1>1, NoticeKept
<1>2. ASSUME NEW m \in Node, pc' = [pc EXCEPT ![m] = pc'[m]],
             notice' = [notice EXCEPT ![m] = notice'[m]],
             role' = [role EXCEPT ![m] = role'[m]], NoticeTrue(m)'
      PROVE  \A n \in Node : NoticeTrue(n)'
  <2>1. ASSUME NEW n \in Node, n # m PROVE NoticeTrue(n)'
    <3>1. notice'[n] = notice[n] /\ pc'[n] = pc[n] /\ role'[n] = role[n]
      BY <1>2, <2>1 DEF HistoryType
    <3>2. QED
      BY <3>1, <1>0, <1>1 DEF NoticeTrue
  <2>2. QED
    BY <1>2, <2>1
<1>3. ASSUME pc' = pc, notice' = notice, role' = role
      PROVE  \A n \in Node : NoticeTrue(n)'
  BY <1>0, <1>1, <1>3 DEF NoticeTrue
<1>4. ASSUME NEW m \in Node, WorkerStep(m) \/ SelectError(m)
      PROVE  \A n \in Node : NoticeTrue(n)'
  <2>1. /\ pc' = [pc EXCEPT ![m] = pc'[m]]
        /\ notice' = [notice EXCEPT ![m] = notice'[m]]
        /\ role' = [role EXCEPT ![m] = role'[m]]
    <3> USE DEF HistoryType
    <3>1. CASE RecvTimeout(m)
      BY <3>1 DEF RecvTimeout, Notify, ToTransmit
    <3>2. CASE \E s \in Slot : RecvKeepAlive(m, s) \/ RecvMateMessage(m, s)
      BY <3>2 DEF RecvKeepAlive, RecvMateMessage, Notify, ToTransmit, object
    <3>3. CASE RecvError(m) \/ SelectError(m)
      BY <3>3 DEF RecvError, SelectError, ToTransmit, object
    <3>4. CASE SendMessageReturns(m) \/ KeepAliveNotDue(m)
      BY <3>4 DEF SendMessageReturns, KeepAliveNotDue, LoopHead, EndThread,
         ResetThread
    <3>5. CASE SendKeepAlive(m) \/ SendKeepAliveFails(m)
      BY <3>5 DEF SendKeepAlive, SendKeepAliveFails, LoopHead, EndThread,
         ResetThread
    <3>6. QED
      BY <1>4, <3>1, <3>2, <3>3, <3>4, <3>5 DEF WorkerStep
  <2>2. NoticeTrue(m)'
    <3>1. CASE (RecvTimeout(m) /\ ~TakeoverDue(m)) \/ RecvError(m) \/ SelectError(m)
      <4>1. notice'[m] = notice[m] /\ notice[m] = Quiet
        BY <3>1, <1>0 DEF RecvTimeout, RecvError, SelectError, InRecv, ToTransmit,
           NoticeTrue
      <4>2. QED
        BY <4>1, NoticeGone
    <3>2. CASE RecvTimeout(m) /\ TakeoverDue(m)
      <4>1. pc'[m] = "notify" /\ notice'[m] = [what |-> "slaveToMaster", inc |-> 0]
        BY <3>2 DEF RecvTimeout, Notify, HistoryType
      <4>2. inc'[Mate[m]] \in Nat
        BY <1>0, BoundAssumption DEF HistoryType
      <4>3. QED
        BY <4>1, <4>2 DEF NoticeTrue
    <3>3. ASSUME NEW s \in Slot, RecvKeepAlive(m, s) PROVE NoticeTrue(m)'
      BY <3>3, VerdictTrue
    <3>4. ASSUME NEW s \in Slot, RecvMateMessage(m, s) PROVE NoticeTrue(m)'
      <4> DEFINE d == net[m][s]
      <4>1. pc'[m] = "notify" /\ notice'[m] = [what |-> "mateMessage", inc |-> d.inc]
            /\ inc' = inc
        BY <3>4 DEF RecvMateMessage, Notify, HistoryType
      <4>2. d.inc <= inc[Mate[m]]
        BY <3>4 DEF RecvMateMessage, HistoryInv, Truthful
      <4>3. QED
        BY <4>1, <4>2 DEF NoticeTrue
    <3>5. CASE SendMessageReturns(m)
      <4>1. notice'[m] = Quiet
        BY <3>5 DEF SendMessageReturns, LoopHead, EndThread, ResetThread, HistoryType
      <4>2. QED
        BY <4>1, NoticeGone
    <3>6. CASE SendKeepAlive(m) \/ SendKeepAliveFails(m) \/ KeepAliveNotDue(m)
      <4>1. notice'[m] = Quiet
        BY <3>6 DEF SendKeepAlive, SendKeepAliveFails, KeepAliveNotDue, LoopHead,
           EndThread, ResetThread, HistoryType
      <4>2. QED
        BY <4>1, NoticeGone
    <3>7. QED
      BY <1>4, <3>1, <3>2, <3>3, <3>4, <3>5, <3>6 DEF WorkerStep
  <2>3. QED
    BY <1>2, <2>1, <2>2
<1>5. ASSUME NEW m \in Node, Start(m)
      PROVE  \A n \in Node : NoticeTrue(n)'
  <2>1. ~Alive(m) /\ notice[m] = Quiet
    BY <1>5, <1>0 DEF Start, LifeInv, NoticeTrue, Alive
  <2>2. /\ notice' = notice /\ pc' = [pc EXCEPT ![m] = pc'[m]]
        /\ role' = [role EXCEPT ![m] = role'[m]]
    BY <1>5 DEF Start, locals, HistoryType
  <2>3. NoticeTrue(m)'
    BY <2>1, <2>2, NoticeGone
  <2>4. QED
    BY <1>2, <2>2, <2>3 DEF HistoryType
<1>6. ASSUME NEW m \in Node, UiStep(m), ~Start(m), ~ExitProcess(m)
      PROVE  \A n \in Node : NoticeTrue(n)'
  BY <1>3, <1>6 DEF UiStep, Click, CloseWindow, BeginDelete, EndDelete, object,
     locals
<1>7. ASSUME NEW m \in Node, ExitProcess(m)
      PROVE  \A n \in Node : NoticeTrue(n)'
  <2>1. ~Alive(m) /\ notice[m] = Quiet
    BY <1>7, <1>0 DEF ExitProcess, LifeInv, NoticeTrue, Alive
  <2>2. notice' = notice /\ role' = role /\ pc' = [pc EXCEPT ![m] = pc'[m]]
    BY <1>7 DEF ExitProcess, locals, object, HistoryType
  <2>3. NoticeTrue(m)'
    BY <2>1, <2>2, NoticeGone
  <2>4. QED
    BY <1>2, <2>2, <2>3 DEF HistoryType
<1>8. ASSUME NEW m \in Node, Crash(m)
      PROVE  \A n \in Node : NoticeTrue(n)'
  <2>1. /\ role' = role /\ pc' = [pc EXCEPT ![m] = pc'[m]]
        /\ notice' = [notice EXCEPT ![m] = notice'[m]] /\ notice'[m] = Quiet
    BY <1>8 DEF Crash, ResetThread, HistoryType
  <2>2. NoticeTrue(m)'
    BY <2>1, NoticeGone
  <2>3. QED
    BY <1>2, <2>1, <2>2 DEF HistoryType
<1>9. ASSUME NEW m \in Node, NEW s \in Slot,
             Lose(m, s) \/ Duplicate(m, s) \/ Unread(m, s)
      PROVE  \A n \in Node : NoticeTrue(n)'
  BY <1>3, <1>9 DEF Lose, Duplicate, Unread, object, locals
<1>10. ASSUME Tick \/ UNCHANGED vars
       PROVE  \A n \in Node : NoticeTrue(n)'
  BY <1>3, <1>10 DEF Tick, vars, object, locals
<1>11. QED
  BY <1>4, <1>5, <1>6, <1>7, <1>8, <1>9, <1>10 DEF Next

-----------------------------------------------------------------------------
(* The theorems.                                                           *)

LEMMA HistoryStep ==
  ASSUME HistoryType, HistoryType', HistoryInv, LifeInv, [Next]_vars
  PROVE  HistoryInv'
<1>1. \A n \in Node : Grows(n) /\ Explained(n)
  BY RoleGrows, NetExplained
<1>2. QED
  BY <1>1, TruthStep, SnapshotStep, NoticeStep DEF HistoryInv

LEMMA HistoryCorrect == Spec => []HistoryInv
<1>1. Init => HistoryInv
  <2> SUFFICES ASSUME Init, NEW n \in Node
               PROVE  Truthful(n) /\ SnapshotOld(n) /\ NoticeTrue(n)
    BY DEF HistoryInv
  <2>1. Mate[n] \in Node
    BY MateAssumption
  <2>2. QED
    BY <2>1 DEF Init, Truthful, SnapshotOld, NoticeTrue, Quiet, Alive
<1>2. TypeOK => HistoryType
  BY DEF TypeOK, HistoryType
<1>3. Spec => []LifeInv
  BY LifeCorrect
<1>4. HistoryType /\ HistoryType' /\ LifeInv /\ HistoryInv /\ [Next]_vars
        => HistoryInv'
  BY HistoryStep
<1>5. QED
  BY <1>1, <1>2, <1>3, <1>4, TypeCorrect, PTL DEF Spec

\* A keepalive in flight, however old, never claims more than its sender's
\* current run is (the copy of CMateComm.cpp:109 against lines 119, 130, 167).
THEOREM NeverOverstatedHolds == Spec => []NeverOverstated
<1>1. HistoryType /\ HistoryInv => NeverOverstated
  <2> SUFFICES ASSUME HistoryType, HistoryInv PROVE NeverOverstated
    OBVIOUS
  <2>1. ASSUME NEW n \in Node, NEW s \in Slot, net[n][s] # NoMsg
        PROVE  \/ net[n][s].inc < inc[Mate[n]]
               \/ net[n][s].inc = inc[Mate[n]] /\ net[n][s].role <= role[Mate[n]]
    <3>1. net[n][s] \in Datagram /\ inc[Mate[n]] \in Nat
      BY <2>1, MateAssumption, BoundAssumption DEF HistoryType
    <3>2. QED
      BY <2>1, <3>1 DEF HistoryInv, Truthful, Datagram
  <2>2. QED
    BY <2>1 DEF NeverOverstated, HistoryInv, SnapshotOld
<1>2. TypeOK => HistoryType
  BY DEF TypeOK, HistoryType
<1>3. QED
  BY <1>1, <1>2, TypeCorrect, HistoryCorrect, PTL

\* WM_MASTER_CONFLICT and WM_SLAVE_CONFLICT (CMateComm.cpp:135-144) are never
\* sent for a conflict that the present runs of the two programs do not have.
THEOREM ConflictIsRealHolds == Spec => []ConflictIsReal
<1>1. HistoryInv => ConflictIsReal
  BY DEF HistoryInv, NoticeTrue, ConflictIsReal
<1>2. QED
  BY <1>1, HistoryCorrect, PTL

-----------------------------------------------------------------------------
(***************************************************************************)
(* The prompt network: what a station may conclude from the silence of its *)
(* mate.  For any MATE_COMM_MAX_DELAY, any number of starts, crashes and   *)
(* failing calls, there is one MASTER at most (OneMaster), and nobody      *)
(* takes over from a mate that is at work (NoFalseTakeover).               *)
(***************************************************************************)
\* Nothing is lost, what is sent arrives within the tick, and the UI thread
\* answers at once.  Stations may still crash, start anew, and have any of
\* their calls fail.
PromptNetwork == Prompt /\ MaxUiLag = 0 /\ "lose" \notin Faults

\* No socket buffer is full, so sendto never drops a datagram.
Room == \A n \in Node : Free(n) # {}

\* What the steps of this section need of TypeOK.
PromptType ==
  /\ role \in [Node -> MSState]
  /\ pc \in [Node -> PC]
  /\ rx \in [Node -> Nat]
  /\ tx \in [Node -> Nat]
  /\ wait \in [Node -> 0..D]
  /\ lag \in [Node -> 0..MaxUiLag]
  /\ notice \in [Node -> Notice]
  /\ beat \in [Node -> BOOLEAN]
  /\ net \in [Node -> [Slot -> Datagram \cup {NoMsg}]]

\* The first pass of a worker is about to end, with a keepalive.
Speaks(n) == Alive(n) /\ ~beat[n] /\ (pc[n] # "recv" \/ wait[n] = D)

\* Before time passes, n will hear from its mate: the keepalive is there, or
\* the mate's next one is due and something ends its select() at once.
Soon(n) ==
  \/ Arriving(n)
  \/ tx[Mate[n]] >= D /\ (Arriving(Mate[n]) \/ Speaks(n))

\* A worker begins as if it had never sent and had just heard, its first pass
\* ends with a keepalive, and only one that has sent can become MASTER.
Fresh(n) ==
  /\ ~Alive(n) => ~beat[n] /\ rx[n] = 0
  /\ pc[n] # "recv" => wait[n] = 0
  /\ wait[n] <= tx[n]
  /\ ~beat[n] => tx[n] = TxCap
  /\ ~beat[n] /\ pc[n] = "recv" => rx[n] <= wait[n] /\ role[n] = MS_UNKNOWN
  /\ ~beat[n] /\ Alive(n) => role[n] # MS_MASTER

\* A keepalive on its way was sent in this very tick.
InTime(n) == Arriving(n) => wait[Mate[n]] = 0

\* A station has heard its mate as recently as the mate has sent, or is about to.
Heard(n) ==
  Alive(n) /\ beat[Mate[n]] => rx[n] <= tx[Mate[n]] \/ Arriving(n)

\* The mate of a MASTER never misses it for two periods: although the MASTER
\* skips a keepalive when it takes over, it then makes up for that in time.
Held(n) ==
  Alive(n) /\ Alive(Mate[n]) /\ role[Mate[n]] = MS_MASTER =>
    /\ rx[n] < D + D
    /\ pc[Mate[n]] = "recv" \/ InTakeover(Mate[n]) =>
         rx[n] < D + wait[Mate[n]] \/ Soon(n)

Side(n) == InTime(n) /\ Heard(n) /\ Held(n)
PromptInv == \A n \in Node : Fresh(n) /\ Side(n)

\* A step of station m's threads leaves the workers of the others alone.
Apart(m) ==
  \A n \in Node \ {m} :
    /\ pc'[n] = pc[n] /\ role'[n] = role[n] /\ rx'[n] = rx[n] /\ tx'[n] = tx[n]
    /\ wait'[n] = wait[n] /\ notice'[n] = notice[n] /\ beat'[n] = beat[n]

\* A step of m's threads concerns m, its mate, and the datagrams between them.
LEMMA PairStep ==
  ASSUME PromptInv, NEW m \in Node, Apart(m),
         \A n \in Node \ {m, Mate[m]} : net'[n] = net[n],
         Fresh(m)', Side(m)', Side(Mate[m])'
  PROVE  PromptInv'
<1> USE DEF PromptInv
<1>1. ASSUME NEW n \in Node, n # m PROVE Fresh(n)'
  BY <1>1 DEF Apart, Fresh, Alive
<1>2. ASSUME NEW n \in Node, n # m, n # Mate[m] PROVE Side(n)'
  <2>1. Mate[n] \in Node /\ Mate[n] # m /\ Mate[n] # Mate[m]
    BY <1>2, MateAssumption
  <2>2. Arriving(n)' = Arriving(n)
    BY <1>2 DEF Arriving
  <2>3. net'[Mate[n]] = net[Mate[n]]
    BY <2>1
  <2>4. Arriving(Mate[n])' = Arriving(Mate[n])
    BY <2>3 DEF Arriving
  <2>5. /\ pc'[n] = pc[n] /\ rx'[n] = rx[n] /\ beat'[n] = beat[n] /\ wait'[n] = wait[n]
        /\ pc'[Mate[n]] = pc[Mate[n]] /\ role'[Mate[n]] = role[Mate[n]]
        /\ tx'[Mate[n]] = tx[Mate[n]] /\ wait'[Mate[n]] = wait[Mate[n]]
        /\ notice'[Mate[n]] = notice[Mate[n]] /\ beat'[Mate[n]] = beat[Mate[n]]
    BY <1>2, <2>1 DEF Apart
  <2>6. Side(n)
    OBVIOUS
  <2>7. InTime(n)'
    BY <2>2, <2>5, <2>6 DEF Side, InTime
  <2>8. Heard(n)'
    BY <2>2, <2>5, <2>6 DEF Side, Heard, Alive
  <2>9. Soon(n)' = Soon(n)
    BY <2>2, <2>4, <2>5 DEF Soon, Speaks, Alive
  <2>10. Held(n)'
    BY <2>5, <2>6, <2>9 DEF Side, Held, Alive, InTakeover
  <2> QED
    BY <2>7, <2>8, <2>10 DEF Side
<1> QED
  BY <1>1, <1>2

\* With room, sendto puts its datagram where its receiver finds it.
LEMMA SendArrives ==
  ASSUME PromptType, Room, NEW m \in Node, NEW d \in Datagram, Send(m, d)
  PROVE  /\ \A n \in Node \ {m} : net'[n] = net[n]
         /\ Arriving(m)' <=> Arriving(m) \/ d.kind = "keepalive"
<1> DEFINE t == CHOOSE s \in Free(m) : TRUE
<1>1. t \in Free(m)
  BY DEF Room
<1>2. net' = [net EXCEPT ![m][t] = d]
  BY DEF Room, Send
<1> HIDE DEF t
<1>3. t \in Slot /\ net[m][t] = NoMsg /\ d # NoMsg
  BY <1>1, NoMsgAssumption DEF Free
<1>4. net'[m][t] = d /\ \A s \in Slot \ {t} : net'[m][s] = net[m][s]
  BY <1>2, <1>3 DEF PromptType
<1> QED
  BY <1>2, <1>3, <1>4 DEF PromptType, Arriving

LEMMA RemoveLeaves ==
  ASSUME PromptType, NEW m \in Node, NEW s \in Slot, Remove(m, s)
  PROVE  /\ \A n \in Node \ {m} : net'[n] = net[n]
         /\ Arriving(m)' => Arriving(m)
         /\ net[m][s].kind # "keepalive" => (Arriving(m) => Arriving(m)')
BY DEF PromptType, Remove, Arriving

\* Where station m's side of a step is known, its mate's is as it was.
LEMMA ApartMate ==
  ASSUME NEW m \in Node, Apart(m)
  PROVE  /\ Mate[m] \in Node /\ Mate[m] # m /\ Mate[Mate[m]] = m
         /\ pc'[Mate[m]] = pc[Mate[m]] /\ role'[Mate[m]] = role[Mate[m]]
         /\ rx'[Mate[m]] = rx[Mate[m]] /\ tx'[Mate[m]] = tx[Mate[m]]
         /\ wait'[Mate[m]] = wait[Mate[m]] /\ notice'[Mate[m]] = notice[Mate[m]]
         /\ beat'[Mate[m]] = beat[Mate[m]]
BY MateAssumption DEF Apart

\* RecvData returns, and not for a take-over.
LEMMA WakeUp ==
  ASSUME PromptType, PromptInv, NEW m \in Node, Apart(m),
         \A n \in Node \ {m} : net'[n] = net[n],
         pc[m] = "recv", pc'[m] \in {"notify", "tx"}, ~InTakeover(m)',
         wait'[m] = 0, tx'[m] = tx[m], beat'[m] = beat[m],
         role'[m] = role[m] \/ role'[m] = Joined(role[m]),
         \/ rx'[m] = rx[m] /\ Arriving(m)' = Arriving(m)
         \/ rx'[m] = 0 /\ (Arriving(m)' => Arriving(m))
  PROVE  PromptInv'
<1> DEFINE p == Mate[m]
<1>1. /\ p \in Node /\ p # m /\ Mate[p] = m
      /\ pc'[p] = pc[p] /\ role'[p] = role[p] /\ rx'[p] = rx[p] /\ tx'[p] = tx[p]
      /\ wait'[p] = wait[p] /\ notice'[p] = notice[p] /\ beat'[p] = beat[p]
  BY ApartMate
<1>2. net'[p] = net[p]
  BY <1>1
<1>3. Arriving(p)' = Arriving(p)
  BY <1>2 DEF Arriving
<1>4. Fresh(m) /\ Side(m) /\ Side(p)
  BY <1>1 DEF PromptInv
<1>5. /\ rx[m] \in Nat /\ tx[m] \in Nat /\ tx[p] \in Nat /\ wait[p] \in Nat
      /\ D \in Nat /\ D > 0
  BY <1>1, BoundAssumption DEF PromptType
<1>6. role'[m] = MS_MASTER <=> role[m] = MS_MASTER
  BY DEF Joined
<1>7. Fresh(m)'
  BY <1>4, <1>5, <1>6 DEF Fresh, Alive
<1> HIDE DEF p
<1>8. Side(m)'
  <2>1. InTime(m)'
    BY <1>1, <1>4 DEF Side, InTime, p
  <2>2. Heard(m)'
    BY <1>1, <1>4, <1>5 DEF Side, Heard, Alive, p
  <2>3. Held(m)'
    <3>1. CASE rx'[m] = 0
      BY <1>1, <1>5, <3>1 DEF Held, p
    <3>2. CASE rx'[m] = rx[m] /\ Arriving(m)' = Arriving(m)
      <4>1. Soon(m) => Soon(m)'
        BY <1>1, <1>3, <3>2 DEF Soon, Speaks, Alive, p
      <4> QED
        BY <1>1, <1>4, <3>2, <4>1 DEF Side, Held, Alive, InTakeover, p
    <3> QED
      BY <3>1, <3>2
  <2> QED
    BY <2>1, <2>2, <2>3 DEF Side
<1>9. Side(p)'
  <2>1. InTime(p)'
    BY <1>1 DEF InTime
  <2>2. Heard(p)'
    BY <1>1, <1>3, <1>4 DEF Side, Heard, Alive
  <2>3. Held(p)'
    BY <1>1, <1>4, <1>6 DEF Side, Held, Alive
  <2> QED
    BY <2>1, <2>2, <2>3 DEF Side
<1> QED
  BY <1>7, <1>8, <1>9, PairStep DEF p

\* The worker's thread is over, with or without a last keepalive.
LEMMA Stops ==
  ASSUME PromptInv, NEW m \in Node, Apart(m), ResetThread(m), PromptType,
         \A n \in Node \ {m, Mate[m]} : net'[n] = net[n],
         net'[m] = net[m], pc'[m] \in {"none", "done"}
  PROVE  PromptInv'
<1> DEFINE p == Mate[m]
<1>1. /\ p \in Node /\ p # m /\ Mate[p] = m
      /\ pc'[p] = pc[p] /\ beat'[p] = beat[p] /\ wait'[p] = wait[p]
  BY ApartMate
<1>2. Arriving(m)' = Arriving(m)
  BY DEF Arriving
<1>3. Side(m)
  BY DEF PromptInv
<1>4. /\ rx'[m] = 0 /\ tx'[m] = TxCap /\ wait'[m] = 0 /\ beat'[m] = FALSE
  BY DEF ResetThread, PromptType
<1>5. Fresh(m)'
  BY <1>4, Caps DEF Fresh, Alive
<1>6. Side(m)'
  BY <1>1, <1>2, <1>3 DEF Side, InTime, Heard, Held, Alive
<1>7. Side(p)'
  BY <1>1, <1>4 DEF Side, InTime, Heard, Held, Alive
<1> QED
  BY <1>5, <1>6, <1>7, PairStep

\* The loop goes on, after a keepalive, without one that is not due, or after
\* the message of a take-over.
LEMMA GoesRound ==
  ASSUME PromptType, PromptType', PromptInv, NEW m \in Node, Apart(m),
         \A n \in Node \ {m, Mate[m]} : net'[n] = net[n], net'[m] = net[m],
         pc'[m] = "recv", pc[m] \in {"notify", "tx"},
         wait'[m] = 0, rx'[m] = rx[m], beat'[m] = TRUE,
         role'[m] = role[m] \/ role'[m] = Joined(role[m]),
         \/ Arriving(Mate[m])'
         \/ /\ Arriving(Mate[m])' = Arriving(Mate[m])
            /\ tx'[m] = tx[m] /\ beat[m]
            /\ tx[m] < D \/ InTakeover(m)
  PROVE  PromptInv'
<1> DEFINE p == Mate[m]
<1>1. /\ p \in Node /\ p # m /\ Mate[p] = m
      /\ pc'[p] = pc[p] /\ role'[p] = role[p] /\ rx'[p] = rx[p] /\ tx'[p] = tx[p]
      /\ wait'[p] = wait[p] /\ notice'[p] = notice[p] /\ beat'[p] = beat[p]
  BY ApartMate
<1>2. Arriving(m)' = Arriving(m)
  BY DEF Arriving
<1>3. Fresh(m) /\ Side(m) /\ Side(p)
  BY <1>1 DEF PromptInv
<1>4. /\ rx[p] \in Nat /\ tx[m] \in Nat /\ tx'[m] \in Nat /\ wait[m] \in Nat
      /\ D \in Nat /\ D > 0
  BY <1>1, BoundAssumption DEF PromptType
<1>5. role'[m] = MS_MASTER <=> role[m] = MS_MASTER
  BY DEF Joined
<1>6. Alive(m) /\ Alive(m)' /\ wait[m] = 0
  BY <1>3 DEF Alive, Fresh
<1>7. Fresh(m)'
  BY <1>4, <1>6 DEF Fresh
<1> HIDE DEF p
<1>8. Side(m)'
  <2>1. InTime(m)' /\ Heard(m)'
    BY <1>1, <1>2, <1>3, <1>6 DEF Side, InTime, Heard, p
  <2>2. Soon(m) => Soon(m)'
    <3>1. CASE Arriving(p)'
      BY <1>1, <1>2, <3>1 DEF Soon, p
    <3>2. CASE Arriving(p)' = Arriving(p) /\ beat[m]
      BY <1>1, <1>2, <3>2 DEF Soon, Speaks, p
    <3> QED
      BY <3>1, <3>2 DEF p
  <2>3. Held(m)'
    BY <1>1, <1>3, <1>6, <2>2 DEF Side, Held, Alive, InTakeover, p
  <2> QED
    BY <2>1, <2>3 DEF Side
<1>9. Side(p)'
  <2>1. InTime(p)'
    BY <1>1 DEF InTime
  <2>2. CASE Arriving(p)'
    <3>1. Heard(p)'
      BY <2>2 DEF Heard
    <3>2. Soon(p)'
      BY <2>2 DEF Soon
    <3>3. Held(p)'
      BY <1>1, <1>3, <1>5, <1>6, <3>2 DEF Side, Held, Alive
    <3> QED
      BY <2>1, <3>1, <3>3 DEF Side
  <2>3. CASE /\ Arriving(p)' = Arriving(p)
             /\ tx'[m] = tx[m] /\ beat[m]
             /\ tx[m] < D \/ InTakeover(m)
    <3>1. Heard(p)'
      BY <1>1, <1>3, <2>3 DEF Side, Heard, Alive
    <3>2. Soon(p) => Soon(p)'
      BY <1>1, <1>2, <2>3 DEF Soon, Speaks, Alive
    <3>3. Alive(p) /\ role[m] = MS_MASTER => rx[p] < D \/ Soon(p)
      <4>1. CASE tx[m] < D
        BY <1>1, <1>3, <1>4, <2>3, <4>1 DEF Side, Heard, Soon
      <4>2. CASE InTakeover(m)
        BY <1>1, <1>3, <1>4, <1>6, <4>2 DEF Side, Held
      <4> QED
        BY <2>3, <4>1, <4>2
    <3>4. Held(p)'
      <4> SUFFICES ASSUME Alive(p)', role'[m] = MS_MASTER
                   PROVE  rx'[p] < D + D /\ (rx'[p] < D + wait'[m] \/ Soon(p)')
        BY <1>1 DEF Held
      <4>1. Alive(p) /\ role[m] = MS_MASTER
        BY <1>1, <1>5 DEF Alive
      <4>2. rx[p] < D + D
        BY <1>1, <1>3, <1>6, <4>1 DEF Side, Held
      <4>3. rx[p] < D + wait'[m] \/ Soon(p)'
        BY <1>4, <3>2, <3>3, <4>1
      <4> QED
        BY <1>1, <4>2, <4>3
    <3> QED
      BY <2>1, <3>1, <3>4 DEF Side
  <2> QED
    BY <2>2, <2>3 DEF p
<1> QED
  BY <1>7, <1>8, <1>9, PairStep DEF p

\* A station takes over.  Its mate, if at work, has heard of it within two
\* periods; and either it will hear of it again before it can take over too, or
\* it is in its first pass, as it has been silent for two periods.
LEMMA TakesOver ==
  ASSUME PromptType, PromptInv, GapInv, PromptNetwork, NEW m \in Node, Apart(m),
         net' = net, pc[m] = "recv", wait[m] = D, TakeoverDue(m),
         InTakeover(m)', rx'[m] = rx[m], tx'[m] = tx[m], beat'[m] = beat[m],
         wait'[m] = 0
  PROVE  PromptInv'
<1> DEFINE p == Mate[m]
<1>1. /\ p \in Node /\ p # m /\ Mate[p] = m
      /\ pc'[p] = pc[p] /\ role'[p] = role[p] /\ rx'[p] = rx[p] /\ tx'[p] = tx[p]
      /\ wait'[p] = wait[p] /\ notice'[p] = notice[p] /\ beat'[p] = beat[p]
  BY ApartMate
<1>2. Arriving(m)' = Arriving(m) /\ Arriving(p)' = Arriving(p)
  BY DEF Arriving
<1>3. Fresh(m) /\ Fresh(p) /\ Side(m) /\ Side(p)
  BY <1>1 DEF PromptInv
<1>4. /\ rx[m] \in Nat /\ rx[p] \in Nat /\ tx[m] \in Nat /\ tx[p] \in Nat
      /\ wait[p] \in 0..D /\ D \in Nat /\ D > 0
      /\ lag[p] = 0 /\ MaxUiLag = 0 /\ pc[p] \in PC
  BY <1>1, BoundAssumption DEF PromptType, PromptNetwork
<1>5. role[m] = MS_SLAVE /\ rx[m] >= D + D /\ Alive(m) /\ beat[m]
  BY <1>3, <1>4 DEF TakeoverDue, Fresh, Alive
<1>6. ~Arriving(p)
  BY <1>1, <1>3, <1>4 DEF Side, InTime
<1>7. D <= tx[m] /\ tx[m] < D + D
  BY <1>3, <1>4, <1>5 DEF Fresh, GapInv, Gap, Before
<1>8. Alive(p) => rx[p] < D + D
  BY <1>1, <1>3, <1>4, <1>5, <1>6, <1>7 DEF Side, Heard
<1>9. Alive(p) => rx[p] < D \/ Arriving(m) \/ Speaks(p)
  <2> SUFFICES ASSUME Alive(p), ~Arriving(m)
               PROVE  rx[p] < D \/ Speaks(p)
    OBVIOUS
  <2>1. role[p] # MS_MASTER
    BY <1>3, <1>4, <1>5 DEF Side, Held
  <2>2. ~beat[p]
    <3> SUFFICES ASSUME beat[p] PROVE FALSE
      OBVIOUS
    <3>1. tx[p] < D + D
      BY <1>1, <1>4, <2>1 DEF GapInv, Gap, Before, Alive
    <3> QED
      BY <1>3, <1>4, <1>5, <3>1 DEF Side, Heard
  <2>3. CASE pc[p] = "recv"
    BY <1>3, <1>4, <2>2, <2>3 DEF Fresh, Speaks
  <2>4. CASE pc[p] # "recv"
    BY <2>2, <2>4 DEF Speaks
  <2> QED
    BY <2>3, <2>4
<1>10. Alive(m)' /\ pc'[m] = "notify"
  BY DEF Alive, InTakeover
<1>11. Fresh(m)'
  BY <1>4, <1>5, <1>10 DEF Fresh
<1> HIDE DEF p
<1>12. Side(m)'
  <2>1. InTime(m)' /\ Heard(m)'
    BY <1>1, <1>2, <1>3, <1>5 DEF Side, InTime, Heard, p
  <2>2. Held(m)'
    BY <1>1, <1>3, <1>4, <1>5 DEF Side, Held, Alive, p
  <2> QED
    BY <2>1, <2>2 DEF Side
<1>13. Side(p)'
  <2>1. InTime(p)' /\ Heard(p)'
    BY <1>1, <1>2, <1>3, <1>6 DEF Side, InTime, Heard, Alive
  <2>2. Alive(p)' => rx'[p] < D + D
    BY <1>1, <1>8 DEF Alive
  <2>3. Alive(p)' => rx'[p] < D \/ Soon(p)'
    BY <1>1, <1>2, <1>7, <1>9 DEF Alive, Soon, Speaks
  <2>4. Held(p)'
    BY <1>1, <1>4, <2>2, <2>3 DEF Held
  <2> QED
    BY <2>1, <2>4 DEF Side
<1> QED
  BY <1>11, <1>12, <1>13, PairStep DEF p

\* Each step of a worker is one of these.
LEMMA PromptWorker ==
  ASSUME PromptType, PromptType', PromptInv, GapInv, PromptNetwork, Room,
         TypeOK, NEW m \in Node, WorkerStep(m) \/ SelectError(m)
  PROVE  PromptInv'
<1> USE DEF PromptType
<1>1. /\ Mate[m] \in Node /\ Mate[m] # m /\ Mate[Mate[m]] = m
      /\ Gap(m) /\ Fresh(m) /\ lag[m] = 0 /\ MaxUiLag = 0 /\ D \in Nat /\ D > 0
  BY MateAssumption, BoundAssumption DEF GapInv, PromptInv, PromptNetwork
<1>2. Apart(m)
  <2>1. Only(m)
    <3>1. GapType
      BY Caps, BoundAssumption DEF TypeOK, GapType
    <3> QED
      BY <3>1, WorkerAlone
  <2>2. \A n \in Node \ {m} : rx'[n] = rx[n]
    BY DEF WorkerStep, SelectError, RecvTimeout, RecvKeepAlive, RecvMateMessage,
       RecvError, SendMessageReturns, SendKeepAlive, SendKeepAliveFails,
       KeepAliveNotDue, LoopHead, EndThread, ResetThread, clocks
  <2> QED
    BY <2>1, <2>2 DEF Only, Apart
<1>3. CASE RecvTimeout(m) /\ TakeoverDue(m)
  <2>1. /\ net' = net /\ pc[m] = "recv" /\ wait[m] = D /\ InTakeover(m)' /\ rx' = rx
        /\ tx' = tx /\ beat' = beat /\ wait'[m] = 0
    BY <1>3 DEF RecvTimeout, InRecv, Wake, Notify, InTakeover
  <2> QED
    BY <1>2, <1>3, <2>1, TakesOver
<1>4. CASE (RecvTimeout(m) /\ ~TakeoverDue(m)) \/ RecvError(m) \/ SelectError(m)
  <2>1. /\ net' = net /\ pc[m] = "recv" /\ pc'[m] = "tx" /\ rx' = rx /\ tx' = tx
        /\ beat' = beat /\ wait'[m] = 0 /\ role' = role
    BY <1>4 DEF RecvTimeout, RecvError, SelectError, InRecv, Wake, ToTransmit, object
  <2>2. ~InTakeover(m)' /\ Arriving(m)' = Arriving(m)
    BY <2>1 DEF InTakeover, Arriving
  <2> QED
    BY <1>2, <2>1, <2>2, WakeUp
<1>5. ASSUME NEW s \in Slot, RecvKeepAlive(m, s) PROVE PromptInv'
  <2> DEFINE v == Verdict(Joined(role[m]), net[m][s].role)
  <2>1. /\ Remove(m, s) /\ pc[m] = "recv" /\ rx'[m] = 0 /\ tx' = tx
        /\ beat' = beat /\ wait'[m] = 0 /\ role'[m] = Joined(role[m])
    BY <1>5 DEF RecvKeepAlive, InRecv, Wake
  <2>2. v # "slaveToMaster"
    BY DEF Verdict
  <2>3. IF v = "none" THEN ToTransmit(m) ELSE Notify(m, v, net[m][s].inc)
    BY <1>5 DEF RecvKeepAlive
  <2> HIDE DEF v
  <2>4. pc'[m] \in {"notify", "tx"} /\ ~InTakeover(m)'
    BY <2>2, <2>3 DEF ToTransmit, Notify, InTakeover
  <2>5. (\A n \in Node \ {m} : net'[n] = net[n]) /\ (Arriving(m)' => Arriving(m))
    BY <2>1, RemoveLeaves
  <2> QED
    BY <1>2, <2>1, <2>4, <2>5, WakeUp
<1>6. ASSUME NEW s \in Slot, RecvMateMessage(m, s) PROVE PromptInv'
  <2>1. /\ Remove(m, s) /\ net[m][s].kind # "keepalive" /\ pc[m] = "recv" /\ rx' = rx
        /\ tx' = tx /\ beat' = beat /\ wait'[m] = 0 /\ role' = role
        /\ pc'[m] = "notify" /\ ~InTakeover(m)'
    BY <1>6 DEF RecvMateMessage, InRecv, Wake, Notify, InTakeover, object
  <2>2. \A n \in Node \ {m} : net'[n] = net[n]
    BY <2>1, RemoveLeaves
  <2>3. Arriving(m)' = Arriving(m)
    BY <2>1, RemoveLeaves DEF Arriving
  <2> QED
    BY <1>2, <2>1, <2>2, <2>3, WakeUp
<1>7. ASSUME EndThread(m), net' = net PROVE PromptInv'
  BY <1>2, <1>7, Stops DEF EndThread
<1>8. CASE SendMessageReturns(m) /\ notice[m].what = "slaveToMaster"
  <2>1. /\ pc[m] = "notify" /\ InTakeover(m) /\ LoopHead(m, tx[m], beat[m])
        /\ net' = net /\ role' = role
    BY <1>8 DEF SendMessageReturns, InTakeover
  <2>2. beat[m]
    BY <1>1, <2>1 DEF Gap, Fresh, Alive
  <2>3. CASE GoesOn(m)
    <3>1. /\ pc'[m] = "recv" /\ wait'[m] = 0 /\ rx' = rx /\ beat'[m] = TRUE
          /\ tx'[m] = tx[m]
      BY <2>1, <2>2, <2>3 DEF LoopHead
    <3>2. Arriving(Mate[m])' = Arriving(Mate[m])
      BY <2>1 DEF Arriving
    <3> QED
      BY <1>2, <2>1, <2>2, <3>1, <3>2, GoesRound
  <2>4. CASE ~GoesOn(m)
    BY <1>7, <2>1, <2>4 DEF LoopHead
  <2> QED
    BY <2>3, <2>4
<1>9. CASE SendMessageReturns(m) /\ notice[m].what # "slaveToMaster"
  <2>1. /\ pc[m] = "notify" /\ pc'[m] = "tx" /\ net' = net /\ role' = role
        /\ rx' = rx /\ tx' = tx /\ wait' = wait /\ beat' = beat
    BY <1>9 DEF SendMessageReturns, clocks
  <2>2. \A n \in Node : Arriving(n)' = Arriving(n)
    BY <2>1 DEF Arriving
  <2>3. Fresh(m)'
    BY <1>1, <2>1 DEF Fresh, Alive
  <2>4. Side(m) /\ Side(Mate[m])
    BY <1>1 DEF PromptInv
  <2>5. /\ pc'[Mate[m]] = pc[Mate[m]] /\ notice'[Mate[m]] = notice[Mate[m]]
    BY <1>1, <1>2 DEF Apart
  <2>6. Soon(m) => Soon(m)'
    BY <1>1, <2>1, <2>2 DEF Soon, Speaks, Alive
  <2>7. Side(m)'
    BY <2>1, <2>2, <2>4, <2>5, <2>6 DEF Side, InTime, Heard, Held, Alive, InTakeover
  <2>8. Side(Mate[m])'
    <3>1. InTime(Mate[m])' /\ Heard(Mate[m])'
      BY <1>1, <2>1, <2>2, <2>4, <2>5 DEF Side, InTime, Heard, Alive
    <3>2. Held(Mate[m])'
      BY <1>1, <2>1, <2>4, <2>5 DEF Side, Held, Alive, InTakeover
    <3> QED
      BY <3>1, <3>2 DEF Side
  <2> QED
    BY <1>2, <2>1, <2>3, <2>7, <2>8, PairStep
<1>10. CASE SendKeepAlive(m)
  <2> DEFINE d == [kind |-> "keepalive", role |-> ka[m], inc |-> inc[m]]
  <2>1. /\ pc[m] = "tx" /\ Send(Mate[m], d) /\ LoopHead(m, lag[m], TRUE)
        /\ role'[m] = Joined(role[m])
    BY <1>10 DEF SendKeepAlive
  <2>2. d \in Datagram /\ d.kind = "keepalive"
    BY BoundAssumption DEF TypeOK, Datagram
  <2> HIDE DEF d
  <2>3. /\ \A n \in Node \ {Mate[m]} : net'[n] = net[n]
        /\ Arriving(Mate[m])'
    BY <1>1, <2>1, <2>2, SendArrives
  <2>4. net'[m] = net[m] /\ \A n \in Node \ {m, Mate[m]} : net'[n] = net[n]
    BY <1>1, <2>3
  <2>5. CASE GoesOn(m)
    <3>1. pc'[m] = "recv" /\ wait'[m] = 0 /\ rx' = rx /\ beat'[m] = TRUE
      BY <2>1, <2>5 DEF LoopHead
    <3> QED
      BY <1>2, <2>1, <2>3, <2>4, <3>1, GoesRound
  <2>6. CASE ~GoesOn(m)
    <3>1. ResetThread(m) /\ pc'[m] = "done"
      BY <2>1, <2>6 DEF LoopHead, EndThread
    <3> QED
      BY <1>2, <2>4, <3>1, Stops
  <2> QED
    BY <2>5, <2>6
<1>11. CASE SendKeepAliveFails(m)
  BY <1>7, <1>11 DEF SendKeepAliveFails
<1>12. CASE KeepAliveNotDue(m)
  <2>1. /\ pc[m] = "tx" /\ tx[m] < D /\ LoopHead(m, tx[m], beat[m]) /\ net' = net
        /\ role' = role
    BY <1>1, <1>12 DEF KeepAliveNotDue, KeepAliveDue
  <2>2. beat[m]
    BY <1>1, <2>1, Caps DEF Fresh
  <2>3. CASE GoesOn(m)
    <3>1. /\ pc'[m] = "recv" /\ wait'[m] = 0 /\ rx' = rx /\ beat'[m] = TRUE
          /\ tx'[m] = tx[m]
      BY <2>1, <2>2, <2>3 DEF LoopHead
    <3>2. Arriving(Mate[m])' = Arriving(Mate[m])
      BY <2>1 DEF Arriving
    <3> QED
      BY <1>2, <2>1, <2>2, <3>1, <3>2, GoesRound
  <2>4. CASE ~GoesOn(m)
    BY <1>7, <2>1, <2>4 DEF LoopHead
  <2> QED
    BY <2>3, <2>4
<1> QED
  BY <1>3, <1>4, <1>5, <1>6, <1>8, <1>9, <1>10, <1>11, <1>12 DEF WorkerStep

\* Where no worker moves and no keepalive comes or goes, nothing changes; one
\* that goes where no worker reads is no loss.
LEMMA Unmoved ==
  ASSUME PromptInv, UNCHANGED <<pc, role, rx, tx, wait, notice, beat>>,
         \A n \in Node : Arriving(n)' => Arriving(n),
         \A n \in Node : Alive(n) /\ Arriving(n) => Arriving(n)'
  PROVE  PromptInv'
<1> SUFFICES ASSUME NEW n \in Node
             PROVE  Fresh(n)' /\ InTime(n)' /\ Heard(n)' /\ Held(n)'
  BY DEF PromptInv, Side
<1>1. Fresh(n) /\ InTime(n) /\ Heard(n) /\ Held(n) /\ Mate[n] \in Node
  BY MateAssumption DEF PromptInv, Side
<1>2. Fresh(n)'
  BY <1>1 DEF Fresh, Alive
<1>3. InTime(n)'
  BY <1>1 DEF InTime
<1>4. Heard(n)'
  BY <1>1 DEF Heard, Alive
<1>5. Alive(n) /\ Alive(Mate[n]) /\ Soon(n) => Soon(n)'
  BY <1>1 DEF Soon, Speaks, Alive
<1>6. Held(n)'
  BY <1>1, <1>5 DEF Held, Alive, InTakeover
<1> QED
  BY <1>2, <1>3, <1>4, <1>6

\* The UI thread starts no second worker and ends none.
LEMMA PromptUi ==
  ASSUME PromptType, PromptType', PromptInv, LifeInv, Room, TypeOK,
         NEW m \in Node, UiStep(m)
  PROVE  PromptInv'
<1> USE DEF PromptType
<1>1. CASE Start(m) \/ ExitProcess(m)
  <2> DEFINE p == Mate[m]
  <2>1. ~Alive(m) /\ Fresh(m) /\ Side(m) /\ Side(p)
    BY <1>1, MateAssumption DEF Start, ExitProcess, LifeInv, PromptInv
  <2>2. /\ UNCHANGED <<rx, tx, wait, notice, beat, net>>
        /\ \A n \in Node \ {m} : pc'[n] = pc[n] /\ role'[n] = role[n]
        /\ pc'[m] = "recv" => role'[m] = MS_UNKNOWN
        /\ pc'[m] = "recv" \/ pc'[m] = pc[m] \/ pc'[m] = "none"
    BY <1>1 DEF Start, ExitProcess, clocks, locals, object
  <2>3. Apart(m)
    BY <2>2 DEF Apart
  <2>4. /\ p \in Node /\ p # m /\ Mate[p] = m
        /\ pc'[p] = pc[p] /\ role'[p] = role[p] /\ notice'[p] = notice[p]
    BY <2>3, ApartMate
  <2>5. \A n \in Node : Arriving(n)' = Arriving(n)
    BY <2>2 DEF Arriving
  <2>6. ~beat[m] /\ rx[m] = 0 /\ wait[m] = 0 /\ tx[m] = TxCap /\ wait[p] \in Nat
        /\ D \in Nat /\ D > 0 /\ ~(pc'[m] \in {"notify", "tx"})
    BY <2>1, <2>2, <2>4, BoundAssumption DEF Fresh, Alive
  <2>7. Fresh(m)'
    BY <2>2, <2>6, Caps DEF Fresh, Alive
  <2> HIDE DEF p
  <2>8. Side(m)'
    BY <2>1, <2>2, <2>4, <2>5, <2>6 DEF Side, InTime, Heard, Held, p
  <2>9. Side(p)'
    <3>1. InTime(p)' /\ Heard(p)'
      BY <2>1, <2>2, <2>4, <2>5, <2>6 DEF Side, InTime, Heard
    <3>2. Alive(m)' => role'[m] # MS_MASTER
      BY <2>2, <2>6 DEF Alive
    <3> QED
      BY <2>4, <3>1, <3>2 DEF Side, Held
  <2> QED
    BY <2>2, <2>3, <2>7, <2>8, <2>9, PairStep DEF p
<1>2. CASE Click(m)
  <2> DEFINE d == [kind |-> "data", role |-> MS_UNKNOWN, inc |-> inc[m]]
  <2>1. Send(Mate[m], d) /\ UNCHANGED <<pc, role, rx, tx, wait, notice, beat>>
    BY <1>2 DEF Click, object, clocks, locals
  <2>2. d \in Datagram /\ d.kind # "keepalive" /\ Mate[m] \in Node
    BY BoundAssumption, MateAssumption DEF TypeOK, Datagram, MSState
  <2> HIDE DEF d
  <2>3. /\ \A n \in Node \ {Mate[m]} : net'[n] = net[n]
        /\ Arriving(Mate[m])' <=> Arriving(Mate[m])
    BY <2>1, <2>2, SendArrives
  <2>4. \A n \in Node : Arriving(n)' <=> Arriving(n)
    BY <2>3 DEF Arriving
  <2> QED
    BY <2>1, <2>4, Unmoved
<1>3. CASE CloseWindow(m) \/ BeginDelete(m) \/ EndDelete(m)
  <2>1. UNCHANGED <<pc, role, rx, tx, wait, notice, beat, net>>
    BY <1>3 DEF CloseWindow, BeginDelete, EndDelete, object, clocks, locals
  <2>2. \A n \in Node : Arriving(n)' = Arriving(n)
    BY <2>1 DEF Arriving
  <2> QED
    BY <2>1, <2>2, Unmoved
<1> QED
  BY <1>1, <1>2, <1>3 DEF UiStep

\* The network loses nothing; a copy is as fresh as the keepalive it copies.
LEMMA PromptNet ==
  ASSUME PromptType, PromptInv, PromptNetwork, Room, NEW m \in Node, NEW s \in Slot,
         Lose(m, s) \/ Duplicate(m, s) \/ Unread(m, s)
  PROVE  PromptInv'
<1>1. ~Lose(m, s)
  BY DEF Lose, Fail, PromptNetwork
<1>2. UNCHANGED <<pc, role, rx, tx, wait, notice, beat>>
  BY <1>1 DEF Duplicate, Unread, object, clocks, locals
<1>3. CASE Duplicate(m, s)
  <2>1. net[m][s] \in Datagram /\ Send(m, net[m][s])
    BY <1>3 DEF Duplicate, PromptType
  <2>2. /\ \A n \in Node \ {m} : net'[n] = net[n]
        /\ Arriving(m)' <=> Arriving(m) \/ net[m][s].kind = "keepalive"
    BY <2>1, SendArrives
  <2>3. net[m][s].kind = "keepalive" => Arriving(m)
    BY <1>3 DEF Duplicate, Arriving
  <2>4. \A n \in Node : Arriving(n)' <=> Arriving(n)
    BY <2>2, <2>3 DEF Arriving
  <2> QED
    BY <1>2, <2>4, Unmoved
<1>4. CASE Unread(m, s)
  <2>1. Remove(m, s) /\ ~Alive(m)
    BY <1>4 DEF Unread
  <2>2. (\A n \in Node \ {m} : net'[n] = net[n]) /\ (Arriving(m)' => Arriving(m))
    BY <2>1, RemoveLeaves
  <2>3. /\ \A n \in Node : Arriving(n)' => Arriving(n)
        /\ \A n \in Node : Alive(n) /\ Arriving(n) => Arriving(n)'
    BY <2>1, <2>2 DEF Arriving
  <2> QED
    BY <1>2, <2>3, Unmoved
<1> QED
  BY <1>1, <1>3, <1>4

\* When time passes nothing is on its way, and every worker at work waits in
\* select() with time left.
LEMMA PromptTick ==
  ASSUME PromptType, PromptType', PromptInv, PromptNetwork, Tick,
         TypeOK
  PROVE  PromptInv'
<1>1. /\ UNCHANGED <<pc, role, notice, beat, net>>
      /\ \A n \in Node : ~Urgent(n)
      /\ \A n \in Node : Free(n) = Slot \/ pc[n] \in {"notify", "tx"}
  BY DEF Tick, object, locals, PromptNetwork
<1>2. \A n \in Node : pc[n] \notin {"notify", "tx"} /\ (pc[n] = "recv" => wait[n] # D)
  BY <1>1 DEF Urgent, PromptType, PromptNetwork
<1>3. \A n \in Node : ~Arriving(n) /\ ~Arriving(n)'
  BY <1>1, <1>2 DEF Arriving, Free
<1>4. ASSUME NEW n \in Node
      PROVE  /\ Alive(n) <=> pc[n] = "recv"
             /\ Alive(n)' <=> Alive(n)
             /\ rx[n] \in Nat /\ rx'[n] \in Nat /\ tx[n] \in Nat /\ tx'[n] \in Nat
             /\ wait[n] \in Nat /\ wait'[n] \in Nat
             /\ rx[n] <= D + D /\ tx[n] <= TxCap
             /\ Alive(n) => /\ rx'[n] = IF rx[n] < D + D THEN rx[n] + 1 ELSE D + D
                            /\ tx'[n] = IF tx[n] < TxCap THEN tx[n] + 1 ELSE TxCap
                            /\ wait[n] < D /\ wait'[n] = wait[n] + 1
             /\ ~Alive(n) => rx'[n] = rx[n] /\ tx'[n] = tx[n] /\ wait'[n] = wait[n]
  <2>1. Alive(n) <=> pc[n] = "recv"
    BY <1>2 DEF Alive
  <2>2. Alive(n)' <=> Alive(n)
    BY <1>1 DEF Alive
  <2>3. /\ rx[n] \in 0..RxCap /\ tx[n] \in 0..TxCap /\ wait[n] \in 0..D
        /\ rx'[n] \in Nat /\ tx'[n] \in Nat /\ wait'[n] \in 0..D
    BY DEF TypeOK, PromptType
  <2>4. /\ rx'[n] = IF Alive(n) THEN Older(rx[n], RxCap) ELSE rx[n]
        /\ tx'[n] = IF Alive(n) THEN Older(tx[n], TxCap) ELSE tx[n]
        /\ wait'[n] = IF pc[n] = "recv" THEN Older(wait[n], D) ELSE wait[n]
    BY DEF Tick
  <2>5. pc[n] = "recv" => wait[n] < D
    BY <1>2, <2>3, Caps
  <2> QED
    BY <2>1, <2>2, <2>3, <2>4, <2>5, Caps DEF Older
<1>5. ASSUME NEW n \in Node PROVE Fresh(n)'
  <2>1. Fresh(n)
    BY DEF PromptInv
  <2> QED
    BY <1>1, <1>2, <1>4, <2>1, Caps DEF Fresh
<1>6. ASSUME NEW n \in Node PROVE Side(n)'
  <2>1. Mate[n] \in Node /\ Mate[Mate[n]] = n /\ Side(n) /\ Fresh(Mate[n])
    BY MateAssumption DEF PromptInv
  <2>2. InTime(n)'
    BY <1>3 DEF InTime
  <2>3. Heard(n)'
    <3> SUFFICES ASSUME Alive(n), beat[Mate[n]]
                 PROVE  rx'[n] <= tx'[Mate[n]]
      BY <1>1, <1>4 DEF Heard
    <3>1. Alive(Mate[n]) /\ rx[n] <= tx[Mate[n]]
      BY <1>3, <2>1 DEF Side, Heard, Fresh
    <3> QED
      BY <1>4, <2>1, <3>1, Caps
  <2>4. Held(n)'
    <3> SUFFICES ASSUME Alive(n), Alive(Mate[n]), role[Mate[n]] = MS_MASTER
                 PROVE  rx'[n] < D + D /\ rx'[n] < D + wait'[Mate[n]]
      BY <1>1, <1>4, <2>1 DEF Held
    <3>1. ~Soon(n)
      BY <1>2, <1>3, <1>4, <2>1 DEF Soon, Speaks
    <3>2. rx[n] < D + wait[Mate[n]]
      BY <1>4, <2>1, <3>1 DEF Side, Held
    <3> QED
      BY <1>4, <2>1, <3>2, Caps
  <2> QED
    BY <2>2, <2>3, <2>4 DEF Side
<1> QED
  BY <1>5, <1>6 DEF PromptInv

LEMMA PromptStep ==
  ASSUME TypeOK, TypeOK', LifeInv, GapInv, PromptInv, PromptNetwork, Room, [Next]_vars
  PROVE  PromptInv'
<1>1. PromptType /\ PromptType'
  BY Caps DEF TypeOK, PromptType
<1>2. ASSUME NEW m \in Node, Crash(m) PROVE PromptInv'
  <2>1. ResetThread(m) /\ pc'[m] = "none" /\ net' = net /\ Apart(m)
    BY <1>1, <1>2 DEF Crash, ResetThread, Apart, PromptType
  <2> QED
    BY <1>1, <2>1, Stops
<1>3. CASE UNCHANGED vars
  <2>1. UNCHANGED <<pc, role, rx, tx, wait, notice, beat, net>>
    BY <1>3 DEF vars, object, clocks, locals
  <2>2. \A n \in Node : Arriving(n)' = Arriving(n)
    BY <2>1 DEF Arriving
  <2> QED
    BY <2>1, <2>2, Unmoved
<1> QED
  BY <1>1, <1>2, <1>3, PromptWorker, PromptUi, PromptNet, PromptTick DEF Next

LEMMA PromptCorrect ==
  ASSUME PromptNetwork
  PROVE  Spec /\ []Room => []PromptInv
<1>1. Init => PromptInv
  <2> SUFFICES ASSUME Init, NEW n \in Node PROVE Fresh(n) /\ Side(n)
    BY DEF PromptInv
  <2>1. Mate[n] \in Node
    BY MateAssumption
  <2> QED
    BY <2>1, Caps DEF Init, Fresh, Side, InTime, Heard, Held, Alive, Arriving
<1>2. TypeOK /\ TypeOK' /\ LifeInv /\ GapInv /\ PromptInv /\ Room /\ [Next]_vars
        => PromptInv'
  BY PromptStep
<1> QED
  BY <1>1, <1>2, TypeCorrect, LifeCorrect, GapCorrect, PTL DEF Spec

\* Who takes over: a SLAVE whose mate is not an active MASTER.
LEMMA TakeoverIsAlone ==
  ASSUME TypeOK, PromptInv, GapInv, PromptNetwork, [Next]_vars,
         NEW n \in Node, role[n] # MS_MASTER, role'[n] = MS_MASTER
  PROVE  /\ RecvTimeout(n) /\ Alive(n) /\ rx[n] >= D + D
         /\ ~(Alive(Mate[n]) /\ role[Mate[n]] = MS_MASTER)
         /\ ~Announced(Mate[n]) \/ Arriving(n)
<1>1. RecvTimeout(n) /\ TakeoverDue(n)
  <2> USE DEF TypeOK
  <2>1. ASSUME NEW m \in Node, RecvTimeout(m) PROVE m = n /\ TakeoverDue(n)
    BY <2>1 DEF RecvTimeout
  <2>2. ASSUME NEW m \in Node, SendKeepAlive(m) \/ \E s \in Slot : RecvKeepAlive(m, s)
        PROVE  FALSE
    <3>1. role' = [role EXCEPT ![m] = Joined(@)]
      BY <2>2 DEF SendKeepAlive, RecvKeepAlive
    <3> QED
      BY <3>1 DEF Joined
  <2>3. ASSUME NEW m \in Node,
               \/ SendMessageReturns(m) \/ SendKeepAliveFails(m) \/ KeepAliveNotDue(m)
               \/ RecvError(m) \/ SelectError(m) \/ Crash(m)
               \/ \E s \in Slot : RecvMateMessage(m, s)
        PROVE  FALSE
    BY <2>3 DEF SendMessageReturns, SendKeepAliveFails, KeepAliveNotDue, RecvError,
       SelectError, RecvMateMessage, Crash, object
  <2>4. ASSUME NEW m \in Node, UiStep(m) PROVE FALSE
    BY <2>4 DEF UiStep, Start, Click, CloseWindow, BeginDelete, EndDelete, ExitProcess,
       object
  <2>5. ASSUME NEW m \in Node, NEW s \in Slot,
               Lose(m, s) \/ Duplicate(m, s) \/ Unread(m, s)
        PROVE  FALSE
    BY <2>5 DEF Lose, Duplicate, Unread, object
  <2>6. CASE Tick \/ UNCHANGED vars
    BY <2>6 DEF Tick, vars, object
  <2> QED
    BY <2>1, <2>2, <2>3, <2>4, <2>5, <2>6 DEF Next, WorkerStep
<1>2. /\ Alive(n) /\ rx[n] >= D + D /\ rx[n] \in Nat /\ D \in Nat /\ MaxUiLag = 0
      /\ Mate[n] \in Node /\ tx[Mate[n]] \in Nat /\ wait[Mate[n]] \in 0..D
      /\ lag[Mate[n]] = 0
  BY <1>1, MateAssumption, Caps
     DEF RecvTimeout, TakeoverDue, InRecv, Alive, TypeOK, PromptNetwork
<1>3. Heard(n) /\ Held(n) /\ Gap(Mate[n])
  BY <1>2 DEF PromptInv, Side, GapInv
<1>4. ~(Alive(Mate[n]) /\ role[Mate[n]] = MS_MASTER)
  BY <1>2, <1>3 DEF Held
<1>5. ~Announced(Mate[n]) \/ Arriving(n)
  <2> SUFFICES ASSUME Announced(Mate[n]), ~Arriving(n) PROVE FALSE
    OBVIOUS
  <2>1. tx[Mate[n]] < D + D
    BY <1>2, <1>3, <1>4 DEF Announced, Gap, Before, Alive
  <2> QED
    BY <1>2, <1>3, <2>1 DEF Heard, Announced
<1> QED
  BY <1>1, <1>2, <1>4, <1>5

\* A worker that was not at work begins with its role UNKNOWN.
LEMMA StartedUnknown ==
  ASSUME TypeOK, [Next]_vars, NEW n \in Node, ~Alive(n), Alive(n)'
  PROVE  role'[n] = MS_UNKNOWN
<1> USE DEF TypeOK, Alive
<1>1. ASSUME NEW m \in Node, WorkerStep(m) \/ SelectError(m) PROVE FALSE
  <2>1. Alive(m)
    BY <1>1 DEF WorkerStep, SelectError, RecvTimeout, RecvKeepAlive, RecvMateMessage,
       RecvError, SendMessageReturns, SendKeepAlive, SendKeepAliveFails,
       KeepAliveNotDue, InRecv
  <2>2. GapType
    BY Caps, BoundAssumption DEF GapType
  <2>3. Only(m)
    BY <1>1, <2>2, WorkerAlone
  <2> QED
    BY <2>1, <2>3 DEF Only
<1>2. ASSUME NEW m \in Node, Start(m) PROVE role'[n] = MS_UNKNOWN
  BY <1>2 DEF Start
<1>3. ASSUME NEW m \in Node, UiStep(m), ~Start(m) PROVE FALSE
  BY <1>3 DEF UiStep, Click, CloseWindow, BeginDelete, EndDelete, ExitProcess
<1>4. ASSUME NEW m \in Node, Crash(m) PROVE FALSE
  BY <1>4 DEF Crash
<1>5. ASSUME NEW m \in Node, NEW s \in Slot,
             Lose(m, s) \/ Duplicate(m, s) \/ Unread(m, s)
      PROVE  FALSE
  BY <1>5 DEF Lose, Duplicate, Unread
<1>6. CASE Tick \/ UNCHANGED vars
  BY <1>6 DEF Tick, vars
<1> QED
  BY <1>1, <1>2, <1>3, <1>4, <1>5, <1>6 DEF Next

\* On a prompt network two stations are never both at work as MASTER, whatever
\* else fails and for every MATE_COMM_MAX_DELAY (CMateComm.cpp:108-121, 156).
THEOREM OneMasterHolds ==
  ASSUME PromptNetwork
  PROVE  Spec /\ []Room => []OneMaster
<1>1. Init => OneMaster
  BY DEF Init, OneMaster, Alive
<1>2. TypeOK /\ PromptInv /\ GapInv /\ LifeInv /\ OneMaster /\ [Next]_vars => OneMaster'
  <2> SUFFICES ASSUME TypeOK, PromptInv, GapInv, LifeInv, OneMaster, [Next]_vars,
                      NEW n \in Node, Alive(n)', role'[n] = MS_MASTER,
                      Alive(Mate[n])', role'[Mate[n]] = MS_MASTER
               PROVE  FALSE
    BY DEF OneMaster
  <2>1. Mate[n] \in Node /\ Mate[Mate[n]] = n
    BY MateAssumption
  <2>2. ASSUME NEW k \in Node, Alive(k)', role'[k] = MS_MASTER PROVE Alive(k)
    BY <2>2, StartedUnknown
  <2>3. ASSUME NEW k \in Node, role[k] # MS_MASTER, role'[k] = MS_MASTER,
               Alive(Mate[k])', role'[Mate[k]] = MS_MASTER, Mate[k] \in Node
        PROVE  FALSE
    <3>1. RecvTimeout(k) /\ ~(Alive(Mate[k]) /\ role[Mate[k]] = MS_MASTER)
      BY <2>3, TakeoverIsAlone
    <3>2. role'[Mate[k]] = role[Mate[k]]
      BY <2>3, <3>1, MateAssumption DEF RecvTimeout, TypeOK
    <3> QED
      BY <2>2, <2>3, <3>1, <3>2
  <2>4. Alive(n) /\ Alive(Mate[n]) /\ role[n] = MS_MASTER /\ role[Mate[n]] = MS_MASTER
    BY <2>1, <2>2, <2>3
  <2> QED
    BY <2>4 DEF OneMaster
<1> QED
  BY <1>1, <1>2, TypeCorrect, LifeCorrect, GapCorrect, PromptCorrect, PTL DEF Spec

\* Nor does a station ever take over from a mate that is at work, but for a
\* keepalive that arrives as the timeout expires (CMateComm.cpp:118).
THEOREM NoFalseTakeoverHolds ==
  ASSUME PromptNetwork
  PROVE  Spec /\ []Room => NoFalseTakeover
<1> DEFINE Justified == \A n \in Node :
             role[n] = MS_SLAVE /\ role'[n] = MS_MASTER => ~Announced(Mate[n]) \/ Arriving(n)
<1>1. TypeOK /\ PromptInv /\ GapInv /\ [Next]_vars => Justified
  BY TakeoverIsAlone
<1>2. TypeOK /\ PromptInv /\ GapInv /\ [Next]_vars => [Justified]_vars
  BY <1>1
<1> QED
  BY <1>2, TypeCorrect, GapCorrect, PromptCorrect, PTL DEF Spec, NoFalseTakeover
=============================================================================
