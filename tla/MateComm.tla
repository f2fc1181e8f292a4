------------------------------ MODULE MateComm ------------------------------
(***************************************************************************)
(* The master/slave redundancy program (redundancy/Win32RedundancyTest):   *)
(* two stations exchange UDP keepalives and each keeps a role, UNKNOWN,    *)
(* SLAVE or MASTER.  A station is a process with two threads that share    *)
(* one CMateComm object:                                                   *)
(*   - the UI thread (wWinMain, InitInstance, WndProc) creates the object, *)
(*     sends data when the window is clicked, and deletes the object when  *)
(*     the window is gone;                                                 *)
(*   - the worker (InnerMateCommThreadProc) receives, decides the role,    *)
(*     notifies the window with the synchronous SendMessage, and sends the *)
(*     keepalives.                                                         *)
(* Time advances by Tick, in units of MATE_COMM_MAX_DELAY / D.  A step of  *)
(* the worker takes no time; only select() and SendMessage() do.  The tick *)
(* values the code stores (qwTickKeepAliveRx, qwTickKeepAliveTx) are kept  *)
(* as ages, which saturate where no comparison can tell them apart.        *)
(***************************************************************************)
EXTENDS Integers

CONSTANTS
  Node,       \* the stations
  Mate,       \* the station m_ulMateBaseIP + m_nMateNo addresses
  Slot,       \* bound: datagrams on their way to a station, or in its buffer
  NoMsg,      \* the content of a free slot
  D,          \* MATE_COMM_MAX_DELAY, in ticks
  MaxUiLag,   \* bound: ticks the UI thread takes to serve a sent message
  Prompt,     \* TRUE: a datagram its receiver waits for arrives within a tick
  Faults,     \* the kinds of failure the environment may inject
  MaxFaults,  \* bound: failures in a behaviour
  MaxInc,     \* bound: times each program is started
  MaxData     \* bound: clicks that send a data datagram

FaultKind ==
  {"lose", "duplicate", "crash", "bind", "thread", "select", "sendto"}

ASSUME MateAssumption ==
  /\ Mate \in [Node -> Node]
  /\ \A n \in Node : Mate[n] # n /\ Mate[Mate[n]] = n

ASSUME BoundAssumption ==
  /\ D \in Nat \ {0}
  /\ MaxUiLag \in Nat /\ MaxFaults \in Nat /\ MaxInc \in Nat /\ MaxData \in Nat
  /\ Prompt \in BOOLEAN
  /\ Faults \subseteq FaultKind

MS_UNKNOWN == 0
MS_SLAVE   == 1
MS_MASTER  == 2
MSState == {MS_UNKNOWN, MS_SLAVE, MS_MASTER}

(***************************************************************************)
(* inc is history: which start of the sender's program sent the datagram.  *)
(* A data datagram is 10 to 109 bytes long, so it never has the 3 bytes of *)
(* a keepalive; its content is of no interest.                             *)
(***************************************************************************)
Datagram == [kind : {"keepalive", "data"}, role : MSState, inc : Nat]

ASSUME NoMsgAssumption == NoMsg \notin Datagram

Message ==
  {"none", "slaveToMaster", "masterConflict", "slaveConflict", "mateMessage"}

VARIABLES
  (* the process *)
  ui,       \* UI thread: window open, window destroyed, in ~CMateComm, object
            \* deleted, no process
  inc,      \* history: how often the program was started
  (* the CMateComm object *)
  running,  \* m_bRunning
  role,     \* m_nMSState; after the process ends, the last value it had
  sock,     \* IsValid(): m_sock # INVALID_SOCKET
  (* the worker's control and locals *)
  pc,       \* in select, in SendMessage, before line 156, ended, or no thread
  rx,       \* age of qwTickKeepAliveRx
  tx,       \* age of qwTickKeepAliveTx
  wait,     \* time spent in this select()
  lag,      \* age of qwTickNow, while the worker is in SendMessage
  ka,       \* the role byte of aucMateKeepAlive
  notice,   \* what SendMessage carries; history: the mate's run it is about
  beat,     \* history: this run of the worker has sent a keepalive
  (* the environment *)
  net,      \* for each station, the datagrams from its mate not yet received
  icmp,     \* a port-unreachable error is queued on the station's socket
  faults,   \* failures injected so far
  clicks    \* data datagrams sent so far

object == <<running, role, sock>>
clocks == <<rx, tx, wait, lag>>
locals == <<ka, notice, beat>>
vars == <<ui, inc, object, pc, clocks, locals, net, icmp, faults, clicks>>

UiState == {"open", "closed", "joining", "deleted", "down"}
PC == {"none", "recv", "notify", "tx", "done"}

RxCap == 2 * D
TxCap == 3 * D + 3 * MaxUiLag

Notice == [what : Message, inc : Nat]
Quiet == [what |-> "none", inc |-> 0]

TypeOK ==
  /\ ui \in [Node -> UiState]
  /\ inc \in [Node -> 0..MaxInc]
  /\ running \in [Node -> BOOLEAN]
  /\ role \in [Node -> MSState]
  /\ sock \in [Node -> BOOLEAN]
  /\ pc \in [Node -> PC]
  /\ rx \in [Node -> 0..RxCap]
  /\ tx \in [Node -> 0..TxCap]
  /\ wait \in [Node -> 0..D]
  /\ lag \in [Node -> 0..MaxUiLag]
  /\ ka \in [Node -> MSState]
  /\ notice \in [Node -> Notice]
  /\ beat \in [Node -> BOOLEAN]
  /\ net \in [Node -> [Slot -> Datagram \cup {NoMsg}]]
  /\ icmp \in [Node -> BOOLEAN]
  /\ faults \in 0..MaxFaults
  /\ clicks \in 0..MaxData

Init ==
  /\ ui = [n \in Node |-> "down"]
  /\ inc = [n \in Node |-> 0]
  /\ running = [n \in Node |-> FALSE]
  /\ role = [n \in Node |-> MS_UNKNOWN]
  /\ sock = [n \in Node |-> FALSE]
  /\ pc = [n \in Node |-> "none"]
  /\ rx = [n \in Node |-> 0]
  /\ tx = [n \in Node |-> TxCap]
  /\ wait = [n \in Node |-> 0]
  /\ lag = [n \in Node |-> 0]
  /\ ka = [n \in Node |-> MS_UNKNOWN]
  /\ notice = [n \in Node |-> Quiet]
  /\ beat = [n \in Node |-> FALSE]
  /\ net = [n \in Node |-> [s \in Slot |-> NoMsg]]
  /\ icmp = [n \in Node |-> FALSE]
  /\ faults = 0
  /\ clicks = 0

-----------------------------------------------------------------------------
(* Helpers.                                                                *)

Alive(n) == pc[n] \in {"recv", "notify", "tx"}

Fail(kind) == kind \in Faults /\ faults < MaxFaults /\ faults' = faults + 1

Free(n) == {s \in Slot : net[n][s] = NoMsg}

\* sendto() to station n: without a free slot the datagram is dropped, as a
\* full socket buffer does.
Send(n, d) ==
  net' = IF Free(n) = {} THEN net
         ELSE [net EXCEPT ![n][CHOOSE s \in Free(n) : TRUE] = d]

Remove(n, s) == net' = [net EXCEPT ![n][s] = NoMsg]

\* The thread's locals, as they are before the first pass and, since nothing
\* can read them any more, after the thread: never sent, just heard.
ResetThread(n) ==
  /\ rx' = [rx EXCEPT ![n] = 0]
  /\ tx' = [tx EXCEPT ![n] = TxCap]
  /\ wait' = [wait EXCEPT ![n] = 0]
  /\ lag' = [lag EXCEPT ![n] = 0]
  /\ ka' = [ka EXCEPT ![n] = MS_UNKNOWN]
  /\ notice' = [notice EXCEPT ![n] = Quiet]
  /\ beat' = [beat EXCEPT ![n] = FALSE]

\* The loop has ended: m_bRunning = false, return.
EndThread(n) ==
  /\ pc' = [pc EXCEPT ![n] = "done"]
  /\ running' = [running EXCEPT ![n] = FALSE]
  /\ ResetThread(n)

\* Mutant: the loop does not look at m_bRunning.
GoesOnUnlessClosed(n) == sock[n]

\* The loop condition.
GoesOn(n) == running[n] /\ sock[n]

\* The end of a pass, and the way into select() of the next one.  What the loop
\* body declares (ka, qwTickNow) starts afresh.
LoopHead(n, newTx, newBeat) ==
  IF GoesOn(n)
  THEN /\ pc' = [pc EXCEPT ![n] = "recv"]
       /\ tx' = [tx EXCEPT ![n] = newTx]
       /\ wait' = [wait EXCEPT ![n] = 0]
       /\ lag' = [lag EXCEPT ![n] = 0]
       /\ ka' = [ka EXCEPT ![n] = MS_UNKNOWN]
       /\ notice' = [notice EXCEPT ![n] = Quiet]
       /\ beat' = [beat EXCEPT ![n] = newBeat]
       /\ UNCHANGED <<running, rx>>
  ELSE EndThread(n)

\* RecvData has returned: the role is copied, then qwTickNow is read.
Wake(n) ==
  /\ ka' = [ka EXCEPT ![n] = role[n]]
  /\ wait' = [wait EXCEPT ![n] = 0]
  /\ UNCHANGED <<tx, lag, beat>>

\* The worker blocks in SendMessage, or goes on to the keepalive at once.
Notify(n, what, peer) ==
  /\ pc' = [pc EXCEPT ![n] = "notify"]
  /\ notice' = [notice EXCEPT ![n] = [what |-> what, inc |-> peer]]

ToTransmit(n) == pc' = [pc EXCEPT ![n] = "tx"] /\ UNCHANGED notice

\* Mutant: the assignment without its test for MS_UNKNOWN.
JoinedAlways(r) == MS_SLAVE

\* Hearing a keepalive, or sending one, makes an UNKNOWN station a SLAVE.
Joined(r) == IF r = MS_UNKNOWN THEN MS_SLAVE ELSE r

-----------------------------------------------------------------------------
(* The UI thread.                                                          *)

\* InitInstance: new CMateComm, CreateMateCommThread.
Start(n) ==
  /\ ui[n] = "down" /\ inc[n] < MaxInc
  /\ inc' = [inc EXCEPT ![n] = @ + 1]
  /\ ui' = [ui EXCEPT ![n] = "open"]
  /\ role' = [role EXCEPT ![n] = MS_UNKNOWN]
  /\ \/ /\ sock' = [sock EXCEPT ![n] = TRUE]
        /\ running' = [running EXCEPT ![n] = TRUE]
        /\ pc' = [pc EXCEPT ![n] = "recv"]
        /\ UNCHANGED faults
     \/ \* socket() or bind() fails: CreateMateCommThread returns at once
        /\ Fail("bind")
        /\ UNCHANGED <<sock, running, pc>>
     \/ \* CreateThread fails: m_bRunning stays set, m_hThread is NULL
        /\ Fail("thread")
        /\ sock' = [sock EXCEPT ![n] = TRUE]
        /\ running' = [running EXCEPT ![n] = TRUE]
        /\ UNCHANGED pc
  /\ UNCHANGED <<clocks, locals, net, icmp, clicks>>

\* WM_LBUTTONDOWN: SendToMate.
Click(n) ==
  /\ ui[n] = "open" /\ sock[n] /\ clicks < MaxData
  /\ clicks' = clicks + 1
  /\ Send(Mate[n], [kind |-> "data", role |-> MS_UNKNOWN, inc |-> inc[n]])
  /\ UNCHANGED <<ui, inc, object, pc, clocks, locals, icmp, faults>>

\* DestroyWindow, WM_DESTROY, PostQuitMessage.
CloseWindow(n) ==
  /\ ui[n] = "open"
  /\ ui' = [ui EXCEPT ![n] = "closed"]
  /\ UNCHANGED <<inc, object, pc, clocks, locals, net, icmp, faults, clicks>>

\* The message loop has ended: delete gMateComm, down to the wait.
BeginDelete(n) ==
  /\ ui[n] = "closed"
  /\ ui' = [ui EXCEPT ![n] = "joining"]
  /\ running' = [running EXCEPT ![n] = FALSE]
  /\ UNCHANGED <<inc, role, sock, pc, clocks, locals, net, icmp, faults, clicks>>

\* Mutant: m_bRunning is polled, and the thread is not waited for.
ThreadToldToEnd(n) == ~running[n]

\* WaitForSingleObject on the thread, if there is one, is satisfied.
ThreadEnded(n) == pc[n] \in {"none", "done"}

\* The wait returns (at once if there is no thread); ~UDPSocket closes the
\* socket, and the object is freed.
EndDelete(n) ==
  /\ ui[n] = "joining" /\ ThreadEnded(n)
  /\ ui' = [ui EXCEPT ![n] = "deleted"]
  /\ sock' = [sock EXCEPT ![n] = FALSE]
  /\ icmp' = [icmp EXCEPT ![n] = FALSE]
  /\ UNCHANGED <<inc, running, role, pc, clocks, locals, net, faults, clicks>>

\* wWinMain returns, and the process ends with whatever threads it has.
ExitProcess(n) ==
  /\ ui[n] = "deleted"
  /\ ui' = [ui EXCEPT ![n] = "down"]
  /\ pc' = [pc EXCEPT ![n] = "none"]
  /\ UNCHANGED <<inc, object, clocks, locals, net, icmp, faults, clicks>>

-----------------------------------------------------------------------------
(* The worker.                                                             *)

InRecv(n) == pc[n] = "recv" /\ sock[n]

\* Mutants: one period of silence is enough; the wrong role is compared.
TakeoverDueSoon(n) == rx[n] >= D /\ role[n] = MS_SLAVE
TakeoverDueUnknown(n) == rx[n] >= 2 * D /\ role[n] = MS_UNKNOWN

\* select() timed out: the only place where the mate's silence is looked at.
TakeoverDue(n) == rx[n] >= 2 * D /\ role[n] = MS_SLAVE

RecvTimeout(n) ==
  /\ InRecv(n) /\ wait[n] = D
  /\ Wake(n)
  /\ \/ /\ TakeoverDue(n)
        /\ role' = [role EXCEPT ![n] = MS_MASTER]
        /\ Notify(n, "slaveToMaster", 0)
     \/ /\ ~TakeoverDue(n)
        /\ ToTransmit(n)
        /\ UNCHANGED role
  /\ UNCHANGED <<ui, inc, running, sock, rx, net, icmp, faults, clicks>>

\* Mutants: the own role is not compared; only the MASTER case is handled.
VerdictOfTheirs(mine, theirs) ==
  IF theirs = MS_MASTER THEN "masterConflict" ELSE "none"
VerdictMasterOnly(mine, theirs) ==
  IF theirs = MS_MASTER /\ mine = MS_MASTER THEN "masterConflict" ELSE "none"

\* The message the two roles call for when a keepalive has arrived.
Verdict(mine, theirs) ==
  IF theirs = MS_MASTER /\ mine = MS_MASTER THEN "masterConflict"
  ELSE IF theirs = MS_SLAVE /\ mine = MS_SLAVE THEN "slaveConflict"
  ELSE "none"

RecvKeepAlive(n, s) ==
  LET d == net[n][s]
      v == Verdict(Joined(role[n]), d.role)
  IN  /\ InRecv(n)
      /\ d # NoMsg /\ d.kind = "keepalive"
      /\ Remove(n, s)
      /\ Wake(n)
      /\ rx' = [rx EXCEPT ![n] = 0]
      /\ role' = [role EXCEPT ![n] = Joined(@)]
      /\ IF v = "none" THEN ToTransmit(n) ELSE Notify(n, v, d.inc)
      /\ UNCHANGED <<ui, inc, running, sock, icmp, faults, clicks>>

RecvMateMessage(n, s) ==
  LET d == net[n][s]
  IN  /\ InRecv(n)
      /\ d # NoMsg /\ d.kind = "data"
      /\ Remove(n, s)
      /\ Wake(n)
      /\ Notify(n, "mateMessage", d.inc)
      /\ UNCHANGED <<ui, inc, object, rx, icmp, faults, clicks>>

\* recvfrom() fails with the queued port-unreachable error; the mate's
\* silence is not looked at.
RecvError(n) ==
  /\ InRecv(n) /\ icmp[n]
  /\ icmp' = [icmp EXCEPT ![n] = FALSE]
  /\ Wake(n) /\ ToTransmit(n)
  /\ UNCHANGED <<ui, inc, object, rx, net, faults, clicks>>

\* select() fails: RecvData closes the socket.
SelectError(n) ==
  /\ InRecv(n) /\ Fail("select")
  /\ sock' = [sock EXCEPT ![n] = FALSE]
  /\ icmp' = [icmp EXCEPT ![n] = FALSE]
  /\ Wake(n) /\ ToTransmit(n)
  /\ UNCHANGED <<ui, inc, running, role, rx, net, clicks>>

\* The UI thread has served the message, or the window is gone and SendMessage
\* fails: the worker goes on, after a take-over at the loop head (continue),
\* past the keepalive.
SendMessageReturns(n) ==
  /\ pc[n] = "notify"
  /\ \/ /\ notice[n].what = "slaveToMaster"
        /\ LoopHead(n, tx[n], beat[n])
     \/ /\ notice[n].what # "slaveToMaster"
        /\ pc' = [pc EXCEPT ![n] = "tx"]
        /\ notice' = [notice EXCEPT ![n] = Quiet]
        /\ UNCHANGED <<running, clocks, ka, beat>>
  /\ UNCHANGED <<ui, inc, role, sock, net, icmp, faults, clicks>>

\* Mutant: > for >=.
KeepAliveDueLater(n) == tx[n] - lag[n] > D

\* The test of line 156, on the qwTickNow read when RecvData returned.
KeepAliveDue(n) == tx[n] - lag[n] >= D

SendKeepAlive(n) ==
  /\ pc[n] = "tx" /\ KeepAliveDue(n) /\ sock[n]
  /\ Send(Mate[n], [kind |-> "keepalive", role |-> ka[n], inc |-> inc[n]])
  /\ role' = [role EXCEPT ![n] = Joined(@)]
  /\ LoopHead(n, lag[n], TRUE)
  /\ UNCHANGED <<ui, inc, sock, icmp, faults, clicks>>

\* SendData <= 0, for an invalid socket or a failed sendto(): the loop ends.
SendKeepAliveFails(n) ==
  /\ pc[n] = "tx" /\ KeepAliveDue(n)
  /\ \/ ~sock[n] /\ UNCHANGED faults
     \/ sock[n] /\ Fail("sendto")
  /\ EndThread(n)
  /\ UNCHANGED <<ui, inc, role, sock, net, icmp, clicks>>

KeepAliveNotDue(n) ==
  /\ pc[n] = "tx" /\ ~KeepAliveDue(n)
  /\ LoopHead(n, tx[n], beat[n])
  /\ UNCHANGED <<ui, inc, role, sock, net, icmp, faults, clicks>>

-----------------------------------------------------------------------------
(* The network, the process and the clock.                                 *)

Lose(n, s) ==
  /\ net[n][s] # NoMsg /\ Fail("lose")
  /\ Remove(n, s)
  /\ UNCHANGED <<ui, inc, object, pc, clocks, locals, icmp, clicks>>

Duplicate(n, s) ==
  /\ net[n][s] # NoMsg /\ Free(n) # {} /\ Fail("duplicate")
  /\ Send(n, net[n][s])
  /\ UNCHANGED <<ui, inc, object, pc, clocks, locals, icmp, clicks>>

\* A datagram reaches a station where no worker will read it.  Without a socket
\* there, the sender may be told that the port is unreachable.
Unread(n, s) ==
  /\ net[n][s] # NoMsg /\ ~Alive(n)
  /\ Remove(n, s)
  /\ \/ UNCHANGED icmp
     \/ /\ ~sock[n] /\ sock[Mate[n]]
        /\ icmp' = [icmp EXCEPT ![Mate[n]] = TRUE]
  /\ UNCHANGED <<ui, inc, object, pc, clocks, locals, faults, clicks>>

\* The process is killed.
Crash(n) ==
  /\ ui[n] # "down" /\ Fail("crash")
  /\ ui' = [ui EXCEPT ![n] = "down"]
  /\ running' = [running EXCEPT ![n] = FALSE]
  /\ sock' = [sock EXCEPT ![n] = FALSE]
  /\ pc' = [pc EXCEPT ![n] = "none"]
  /\ ResetThread(n)
  /\ icmp' = [icmp EXCEPT ![n] = FALSE]
  /\ UNCHANGED <<inc, role, net, clicks>>

\* Station n has a step to take before time can pass.
Urgent(n) ==
  \/ pc[n] = "tx"
  \/ pc[n] = "recv" /\ (icmp[n] \/ wait[n] = D)
  \/ pc[n] = "notify" /\ lag[n] = MaxUiLag

\* x one tick later, as far as cap.
Older(x, cap) == IF x < cap THEN x + 1 ELSE cap

Tick ==
  /\ \A n \in Node : ~Urgent(n)
  /\ Prompt => \A n \in Node : Free(n) = Slot \/ pc[n] \in {"notify", "tx"}
  /\ rx' = [n \in Node |-> IF Alive(n) THEN Older(rx[n], RxCap) ELSE rx[n]]
  /\ tx' = [n \in Node |-> IF Alive(n) THEN Older(tx[n], TxCap) ELSE tx[n]]
  /\ wait' = [n \in Node |-> IF pc[n] = "recv" THEN Older(wait[n], D) ELSE wait[n]]
  /\ lag' = [n \in Node |->
               IF pc[n] = "notify" THEN Older(lag[n], MaxUiLag) ELSE lag[n]]
  /\ UNCHANGED <<ui, inc, object, pc, locals, net, icmp, faults, clicks>>

-----------------------------------------------------------------------------

WorkerStep(n) ==
  \/ RecvTimeout(n)
  \/ \E s \in Slot : RecvKeepAlive(n, s) \/ RecvMateMessage(n, s)
  \/ RecvError(n)
  \/ SendMessageReturns(n)
  \/ SendKeepAlive(n)
  \/ SendKeepAliveFails(n)
  \/ KeepAliveNotDue(n)

UiStep(n) ==
  \/ Start(n) \/ Click(n) \/ CloseWindow(n)
  \/ BeginDelete(n) \/ EndDelete(n) \/ ExitProcess(n)

Next ==
  \/ \E n \in Node : WorkerStep(n) \/ UiStep(n) \/ SelectError(n) \/ Crash(n)
  \/ \E n \in Node, s \in Slot : Lose(n, s) \/ Duplicate(n, s) \/ Unread(n, s)
  \/ Tick

Spec == Init /\ [][Next]_vars

(***************************************************************************)
(* Fairness: the clock runs, the worker is scheduled, a datagram nobody    *)
(* loses arrives, and once the window is closed the UI thread runs to its  *)
(* end.  A port-unreachable error that comes in the very tick in which     *)
(* select() times out does not win that race for ever (strong fairness of  *)
(* RecvTimeout).  Nothing makes a user start, click or close, or anything  *)
(* fail.                                                                   *)
(***************************************************************************)
FairSpec ==
  /\ Spec
  /\ WF_vars(Tick)
  /\ \A n \in Node : WF_vars(WorkerStep(n)) /\ SF_vars(RecvTimeout(n))
  /\ \A n \in Node : WF_vars(BeginDelete(n)) /\ WF_vars(EndDelete(n))
                    /\ WF_vars(ExitProcess(n))
  /\ \A n \in Node, s \in Slot : WF_vars(Unread(n, s))

-----------------------------------------------------------------------------
(* Properties.                                                             *)

\* A keepalive never claims more than its sender is: what a station says of
\* itself, in flight or about to be sent by the current run of its program, is
\* at most the role it has now (the byte is copied before the role changes,
\* CMateComm.cpp:109, and no step lowers a role).
NeverOverstated ==
  /\ \A n \in Node, s \in Slot : net[n][s] # NoMsg =>
       \/ net[n][s].inc < inc[Mate[n]]
       \/ net[n][s].inc = inc[Mate[n]] /\ net[n][s].role <= role[Mate[n]]
  /\ \A n \in Node : ka[n] <= role[n]

\* A reported conflict is a real one, although the report is made from a
\* datagram of any age: when the worker sends WM_MASTER_CONFLICT it is MASTER,
\* and so is the mate, unless the mate's program was started anew since; with
\* WM_SLAVE_CONFLICT the mate is at least SLAVE.
ConflictIsReal ==
  \A n \in Node :
    LET sameRun == notice[n].inc = inc[Mate[n]]
    IN  /\ notice[n].what = "masterConflict" =>
             role[n] = MS_MASTER /\ (sameRun => role[Mate[n]] = MS_MASTER)
        /\ notice[n].what = "slaveConflict" =>
             role[n] = MS_SLAVE /\ (sameRun => role[Mate[n]] >= MS_SLAVE)

\* How long a running station can stay quiet.  The keepalive is only looked at
\* after RecvData returns, so the period is not MATE_COMM_MAX_DELAY but may
\* come close to twice that, and the continue after a take-over (line 121)
\* skips one more occasion; each SendMessage adds the lag of the UI thread.
KeepAliveGap ==
  \A n \in Node : Alive(n) /\ beat[n] =>
    tx[n] <= IF role[n] = MS_MASTER THEN 3 * D - 1 + 3 * MaxUiLag
                                    ELSE 2 * D - 1 + 2 * MaxUiLag

\* The object outlives its thread: while the worker runs the CMateComm object
\* has not been freed, and its socket is closed by nobody but the worker (so
\* only between a failed select and the end of that pass of the loop).
ObjectOutlivesThread ==
  \A n \in Node : Alive(n) =>
    /\ ui[n] \in {"open", "closed", "joining"}
    /\ sock[n] \/ pc[n] = "tx"

\* Announced(n): the worker runs and has told its mate so.
Announced(n) == Alive(n) /\ beat[n]

\* A keepalive of n's mate is arriving at this very instant.
Arriving(n) ==
  \E s \in Slot : net[n][s] # NoMsg /\ net[n][s].kind = "keepalive"

\* On a prompt network and with a responsive UI a station becomes MASTER only
\* if its mate's worker is not at work, whatever else fails; the one exception
\* is a keepalive that arrives as the timeout expires.
NoFalseTakeover ==
  [][\A n \in Node :
       role[n] = MS_SLAVE /\ role'[n] = MS_MASTER
         => ~Announced(Mate[n]) \/ Arriving(n)]_vars

\* There the two stations are never both at work as MASTER.
OneMaster ==
  \A n \in Node : ~( /\ Alive(n) /\ role[n] = MS_MASTER
                     /\ Alive(Mate[n]) /\ role[Mate[n]] = MS_MASTER )

\* A station left alone takes over: if its worker goes on and the mate's never
\* again runs, the station ends up MASTER.
SurvivorTakesOver ==
  \A n \in Node : (<>[](Alive(n) /\ ~Alive(Mate[n]))) => <>[](role[n] = MS_MASTER)

\* Two working stations that keep the same role, both SLAVE or both MASTER,
\* are reported to the window of each of them again and again.
ConflictIsReported ==
  \A n \in Node :
    (<>[](Alive(n) /\ Alive(Mate[n]) /\ role[n] = role[Mate[n]]))
       => []<>(notice[n].what \in {"masterConflict", "slaveConflict"})

\* Closing the window ends the program: the destructor's wait is not for ever,
\* although the worker may be inside a SendMessage to the thread that waits.
ShutdownEnds == \A n \in Node : ui[n] = "closed" ~> ui[n] = "down"
=============================================================================
