# Formal models of the Win32 WinAPI programs

The repository is a collection of small Windows programs. Most of them are one
process with a window, a timer and a hook or a worker thread; two talk to each
other over UDP. One carries the JPEG library of the Independent JPEG Group (libjpeg 6b)
as source, which is by far the largest body of code here, and is modelled too. This
directory holds TLA+ models of the parts that have a behaviour worth checking, TLC
configurations for small instances, and proofs that TLAPS checks for every value of
the constants.

## 1. Inventory

| Component | State it keeps | Operations | Hard behaviour | What makes it correct |
|---|---|---|---|---|
| **Redundancy** `redundancy/Win32RedundancyTest` | role (UNKNOWN, SLAVE, MASTER), running flag, socket, times of the last keepalive received and sent | start, click, close; worker: receive, take over, report, send keepalive | two threads per station, two stations, UDP loss and reordering, crashes, timeouts, a blocking `SendMessage` to a thread that may be waiting for the worker | no two masters while messages are prompt; the survivor takes over; conflicts reported are real; shutdown ends |
| **Input recorder** `MouseKeyboardEmulator` | mode 0..5, capture file, playback cursor and time base, latched double-key detectors | 100 ms timer, low level hooks, playback | the file is appended to by the hooks, replayed by the timer; injected keys feed the key detectors | records are replayed in order, none early; the program can end |
| **Region mirror** `WindowsFormsApp1` (sender) and `WinAppMoveResize` (receiver) | rectangle, drag origin; last rectangles, learnt minimum size of the target window | drag, send; receive, choose the moved edge, clamp, place | the receiver infers the dragged edge from the difference of two datagrams, of which UDP may lose or reorder some; the target changes under it | the anchored edge does not move; the last rectangle wins |
| **Starter of windows** `RunCloseWindow` | table of starts: window, process handle | run, close all, look at the desktop | polls, races between a window's life and its handle, kill after a grace period | one window per start; what was started is closed, and only that |
| **Wheel agent** `MouseWheelInvoker` | hook, buttons held, where they were pressed, two timers | low level mouse hook; timers that inject wheel events | pressing order, releases the hook does not see, a timer message that outlives its timer | no wheel events once both buttons are up; never both directions |
| **Crypto library** `crypto_lib` | none (pure), buffers of the caller | big number arithmetic, RSA, Base64, CRC-16, SHA-256, Blowfish, issue and check of activation codes | carries, borrows, shifts by 0 and by a whole digit, lengths that do not fill a block | the arithmetic is that of numbers; decode inverts encode; a code tells what was issued |
| **Licensing** `licensing` | `sequence.txt` | `key_generate`, `check_license` (C#) | a file that cannot be read or written, lengths that do not fill a block | a licence tells what was put in, and where it is accepted |
| **libjpeg compressor** `ScreenCaptureJpeg/libjpeg` | `global_state`, the pass, row counters of four controllers, table slots with `sent_table`, restart counters | start, write rows, raw rows or coefficients, finish, abort, write tables | a destination that suspends anywhere, several passes over an image, tables that outlive an image | the stream is the one the image decides; each table a decoder needs has been sent; the image ends |
| **libjpeg decompressor** | marker reader, scan and restart state, coefficient arrays, window of rows with context, output passes | read header, start, read rows, buffered images, finish, abort | a source that suspends anywhere, input and output side by side, lost and doubled restart markers, damaged data | every row is its row; what survived the damage is in its place; reading ends |
| **libjpeg memory** | pools of small and large objects, windows of virtual arrays, backing files | allocate, request, realize, access, abort, destroy | limits, failures half way, windows that move over dirty and undefined rows | an array is an array; nothing overlaps, leaks or is freed twice |
| **libjpeg coders and samples** | bit buffers, runs and correction bits; histograms, colour caches, error rows; tables of transforms | entropy coding, DCT, colours, sampling, two quantizers, lossless transformations | suspension within a block, statistics and output that must agree, caches that go stale, edges | what was written is read; pictures come back near what they were |
| **Screen capture** `ScreenCaptureJpeg` | bitmaps of GDI | copy the screen in a loop | none: the use of libjpeg, `CompressByJpeg`, is called from a line that is commented out | - |
| **Password generator** `SQLiteDBPasswordGenerator` | edit fields | hex conversion, generate | none | conversion inverts |
| **Window finder** `FindWindowTextOnMouse`, **Explorer restarter** `RestartExplorerExe`, **SQLite test** `test_sqlite` | little | one pass over windows, processes or a database | none | - |

Resources, project files, the header of SQLite (its code is not here) and documents
(`HDMI-rs232`, `algo`) have no behaviour of their own.

Interactions: the redundancy worker and its window share one `CMateComm` object
and talk by `SendMessage`; two redundancy programs talk by UDP port 0x5563. The
region sender talks to the region receiver by UDP port 27123, whose worker hands
each datagram to its window by `SendMessage`. The recorder's hooks and timer run on
one thread and share the capture file. `keygen.c` calls everything else in the crypto
library. In libjpeg an application calls the `jc*` or `jd*` interface, which calls the
controllers, which call each other through method pointers set up for the image; they
suspend by returning `FALSE` all the way up, and go on where they were when called again.

## 2. Plan

| Order | Modules | State |
|---|---|---|
| 1 | `MateComm`, `MCMateComm`, `MateCommProofs`: the redundancy protocol, its threads and its environment | done |
| 2 | `Recorder`, `RecorderProofs`: modes, capture and replay | done |
| 3 | `BnDigit`, `BnCarry`, `BnCarryProofs`, `BnMul`, `BnDiv`, `ModExp`: the arithmetic of the crypto library against the numbers | done |
| 4 | `RsaPadding`, and `Rsa`, which composes padding and block operations and implements `RsaPadding`; `RsaProofs` for both | done |
| 5 | `Codecs`, `ActivationCode`, `License`: codecs, digests, activation codes, licences; `MCCrypto` for all of 3 to 5 | done |
| 6 | `RunClose`, `WheelAgent`, `MCDesktop`, `DesktopProofs`: the starter of windows and the browser it works with; the wheel agent | done |
| 7 | `MoveResize`, `MCMoveResize`, `MoveResizeProofs`: sender, lossy channel, receiver, target windows | done |
| 8 | `JpegFrame`, `JpegMarkers`, `JpegStream`, `JpegCompress`, `MCJpeg`: libjpeg's compressor against the stream it has to write; `JpegCompressProofs` | done |
| 9 | `JpegInput`, `JpegDecompress`, `MCJpegRead`: its decompressor, with damaged files | done |
| 10 | `JpegArray`, `JpegVirtArray`, `JpegPools`: virtual arrays against arrays, pools; `JpegMemoryProofs` for both | done |
| 11 | `JpegHuffman`, `JpegEntropy`, `JpegQuant1`, `JpegQuant2`, `JpegDct`, `JpegColor`, `JpegTransform`: codes, colours, samples; `MCJpegData` for 10 and 11 | done |
| 12 | `OneMaster` for a prompt network, the last record of a key, the pace of a replay, the desktop, the mirror, that a virtual array implements an array, that `Rsa` implements `RsaPadding`, that `bn_mul` and `bn_div` are exact, that the windows of `bn_mod_exp` compute a power, that no table and no code is missing in what the compressor writes, and that the memory manager's pools and shares are sound, as theorems | done |
| 13 | Proofs left: bytes to digits and back; the rows of the decompressor | open |

`Rsa` extends `RsaPadding`; `BnCarry`, `BnMul`, `BnDiv` and `ModExp` extend `BnDigit`;
`ActivationCode` extends `Codecs`. `JpegMarkers` extends `JpegFrame`, and both `JpegCompress` and
`JpegInput` extend `JpegMarkers`, so that what is
written and what is read are compared with one and the same description of a file;
`JpegDecompress` extends `JpegInput`, and `JpegEntropy` takes the tables of `JpegHuffman`. A
proof module extends the module it is about, and an MC module gives constants
that a `.cfg` cannot express. Where a run is about several small parts, its MC module has a
variable that names the part of the behaviour (`op`, `tool`, `part`) and takes each part by
`INSTANCE`; the parts share nothing else.

There are three refinements: `JpegCompress` implements `JpegStream`, `JpegVirtArray`
implements `JpegArray`, `Rsa` implements `RsaPadding`; the last two are proved as well.

An operator that comes before a definition and whose comment says
"mutant" is a plausible mistake in that definition. Nothing uses it; it shows
that a property would notice the mistake, and which one.

## 3. MateComm: the redundancy program

`MateComm.tla` models `CMateComm.cpp`, `UDPSocket.cpp` and the part of
`Win32RedundancyTest.cpp` that creates, uses and deletes the object. `Node` is the
set of stations and `Mate` pairs them.

State. `running`, `role`, `sock` are `m_bRunning`, `m_nMSState` and the socket; `pc`,
`rx`, `tx`, `wait`, `lag`, `ka`, `notice` are the worker's place and locals; `ui` is the
UI thread from the open window over `~CMateComm` to no process; `net` holds the
datagrams on their way and `icmp` a port-unreachable error that waits in the socket.
Times taken from `GetTickCount64` are ages, which stop growing where no comparison
can tell them apart any more. `Tick` lets time pass, in units of
`MATE_COMM_MAX_DELAY / D`; only `select` and `SendMessage` take time.

Actions. The worker's loop is cut where it can be interrupted: in `select`, in
`SendMessage`, and before the keepalive is sent (line 156). The UI thread opens,
clicks, closes, waits in the destructor and deletes. The environment loses,
duplicates and reorders datagrams, kills a process, and makes `bind`, `CreateThread`,
`select` and `sendto` fail, as far as `Faults` and `MaxFaults` allow; it starts a
program again up to `MaxInc` times.

What was learnt from the model:
- A keepalive is only considered after `RecvData` returns. So the period is not
  `MATE_COMM_MAX_DELAY` but nearly twice that, and after a take-over, where the
  `continue` of line 121 skips one more occasion, three times (`KeepAliveGap`). The
  mate takes over after two periods: there is no reserve for a lost or late datagram,
  and `OneMaster` and `NoFalseTakeover` hold only where datagrams arrive promptly
  and the UI answers at once (`Prompt`, `MaxUiLag = 0`).
- No step lowers a role. Two slaves or two masters stay so; the program reports it,
  again and again (`ConflictIsReported`), and what it reports is true of the present
  runs, although the datagram it saw may be of any age (`ConflictIsReal`). The proof
  needs exactly this monotony: an old keepalive can only understate its sender.
- A failed `sendto` ends the worker while its window stays, and still sends on a click.

| Run | Instance | Shows |
|---|---|---|
| `mate_restart` | one slot per station, two starts, one failure of five kinds, UI lag 1 | the four safety properties, each a theorem as well |
| `mate_prompt` | `D = 2`, two slots, two failures, two starts, prompt | `OneMaster`, `NoFalseTakeover` |
| `mate_live` | two slots, reordering, one loss, duplicate, crash or failed `sendto` | `SurvivorTakesOver`, `ConflictIsReported`, `ShutdownEnds` |

Two stations are all there are. `D = 2` makes the phases of the two loops differ by
half a period, `D = 1` is enough for the order of events. The properties of
`mate_restart` are proved for every bound. Safety of a prompt network is checked
for two failures, which is one for each station, and proved for any number. Fairness: a running
worker goes on, the UI thread serves its messages and finishes a deletion, time passes, a
datagram nobody reads is dropped by the system; and a timeout of `select` that
keeps meeting datagrams at the same instant wins once in a while (strong fairness of
`RecvTimeout`). Nothing is assumed of the user or of failures, nor of the network
beyond what `Prompt` says. Deadlock is checked.

Not modelled: datagrams of strangers, datagrams without content, the constructor
without a window (the worker then spins at line 79; nobody uses it), the data race
on `m_bRunning` beyond a value that is seen at the head of the loop, logging.

Proved (`MateCommProofs`), for any number of stations, slots, failures, starts, `D` and lag:
- `TypeCorrect`, the type invariant.
- `ObjectOutlivesThreadHolds`, from `LifeInv`: which states of the UI thread go with a
  worker that lives, and who may have closed the socket.
- `NeverOverstatedHolds` and `ConflictIsRealHolds`, from `HistoryInv`: every datagram
  in the net claims at most what its sender's run is (`Truthful`), the role byte copied
  at line 109 is old but not wrong (`SnapshotOld`), and so a notice is true
  (`NoticeTrue`). `RoleGrows` is the lemma all three rest on.
- `KeepAliveGapHolds`, from `GapInv`, which bounds the age of the last keepalive at
  each place of the loop.

Proved (`MateCommProofs`), for any number of stations, `D`, starts, crashes, duplicated
datagrams and failing calls: `OneMasterHolds` and `NoFalseTakeoverHolds`. They assume
`PromptNetwork` (nothing is lost, what is sent arrives before time passes, the UI answers
at once) and `[]Room`: no socket buffer is full, so that no datagram is
dropped for want of room. The run checks the same without `Room`, for two slots.
The invariant, `PromptInv`, is about what one station knows of the other's clock. `Fresh`: a
worker that has not sent yet is no MASTER and its first pass ends in a keepalive. `InTime`: a keepalive
on its way was sent in this tick. `Heard`: a station has heard its mate as recently as the mate
has sent. `Held` is the heart: the mate of a MASTER is always less than two periods
from its last keepalive, and where the MASTER sits in `select`, or has just taken over and skipped a
keepalive, either less than one period more than the MASTER has waited, or a keepalive is there or about to be
sent (`Soon`). So a take-over, which needs two silent periods, finds no MASTER
(`TakeoverIsAlone`). `Held` alone is not inductive: it needs `KeepAliveGap`'s bounds, and
that a first keepalive is due from the start. TLC checked `PromptInv` on instances
with `D` of 2 and 3 before it was proved.

`TypeOK` is not repeated by a run. Liveness is model-checked only.

## 4. Recorder: the input recorder

`Recorder.tla` models `MouseKeyboardEmulator.cpp`: modes 0 to 5 (`gnState`), the
100 ms timer with its sampling of double Ctrl and double Shift, the two hooks, the
capture file that several runs of the program append to, and the replay.
`file` outlives a run. Mouse buttons are keys; `Move` stands for moving and the wheel.

`WmTimer` is the whole handler: sampling, then the disjunct of the mode. `Input` is
the user pressing or releasing, with the hook's record; a hook may fail to be
installed or to write, if `Failures` says so. `Play` is one timer message of the
replay, with every record due. `Tick` advances the 32-bit clock modulo `W`; `Reboot`
resets it between runs.

| Run | Instance | Shows |
|---|---|---|
| `rec_safe` | two Ctrl keys and the mouse, `W = 3`, a timer up to 2 ticks late, files of two records, two runs, failing hooks | `LastRecordIsState`, `OnePressOneStep`, `PlaybackPace` |
| `rec_live` | all four keys, `W = 2`, fair timer | `PlaybackNeverRecords`, `ReplaysForever`, `ExitHappens` |

Two records are the fewest with an order and an offset, and two runs the fewest
where a file is replayed or continued. `W` is smaller than the times that occur so
that the clock wraps in every instance. `Prep` and `Linger` stand for the 2 and 4
seconds of preparation and leaving. Fairness: the timer is delivered and time passes;
the user owes nothing.

What was learnt: the hooks go on recording in mode 5, and must: the double Ctrl that
ends a capture is on record as pressed, and its release comes later
(`LastRecordIsState`). The same mode is reached from a replay, where recording would
grow the file that is replayed; it does not happen because no hook is installed there.
After a wrap or a reboot between two captures, offsets are negative and records due at once;
`PlaybackPace` says so much and no more. A replay that is stopped in the middle of
a pass leaves the keys down that it pressed.

Proved (`RecorderProofs`), for any user, files, delays, clock and failing hooks:
- `TypeCorrect`, with a lemma about the cardinality that `LastDue` counts.
- `PlaybackNeverRecordsHolds` from `TwoWays`: hooks exist only on the capture way.
- `OnePressOneStepHolds` from `Held`: the latch remembers an accepted press until one key is
  let go.
- `LastRecordIsStateHolds`. The property is inductive together with `TwoWays` and
  `Untouched`: where no hook is installed or nothing is to be recorded, the file is as long as it
  was when the run began.
- `PlaybackPaceHolds`, from `PassAge` (the time in the pass is the time since the base was
  taken), `BeforePlayback` (a replay begins with a file to be opened at its start) and `Playing`
  (what was played was due, and the next record was not when the last timer message came).
  `LastDueIs` finds the record before the first that is not due, by the least element of a set.

Liveness is model-checked only. Not modelled: torn records, a file deleted by somebody else,
key repeat, the conversion of pixels and flags.

## 5. The arithmetic: BnDigit, BnCarry, BnMul, BnDiv, ModExp

`BnDigit.tla` has the bodies of the four carry loops of `bignum.c`, with a digit of
`B` values and every operation modulo `B`, and such a loop over part of an array. `BnCarry.tla` runs them over
arrays of any content, kept as the numbers they stand for. `BnMul.tla` is `bn_mul`, and the
conversions of bytes to digits and back. `BnDiv.tla` is `bn_div`
with its arrays: normalising shift, estimate, correction, remainder. `ModExp.tla` is
`bn_mod_exp`, two bits of the exponent at a time.

Run `crypto` (`MCCrypto`), as far as it is about numbers: digits of 3 bits, arrays of two
of them for the carry loops and for `bn_mul`, a dividend of three and a divisor of two for
`bn_div`, all contents; for `bn_mod_exp` digits of 4 bits, an exponent of two, moduli to 7.
`Exact` says that array and carry are the sum, difference or product at each digit;
`ComputesExactly` that a product, quotient, remainder or power is the one of the numbers,
that `bn_div` never corrects an estimate more than twice, and that bytes keep a number.

A digit of 3 bits is the smallest with which an estimate is two too small and the
divisor's top digit is the largest one (the separate case of line 140). Two digits
of exponent and four bits have every position of the window and of leading zeros.

Notes. `bn_div` leaves quotient and remainder unset for a divisor 0. With an exponent 0 and
modulus 1 `bn_mod_exp` gives 1, which is not reduced. The comment at `bignum.h:32`
(`a = b / c, d = b % c`) does not name the parameters as the code uses them:
quotient in `a`, remainder in `b`, of `c` by `d`.

Proved (`BnCarryProofs`), for every `B >= 2` and any number of digits: `ExactHolds`,
`CarryTellsHolds` (what the value that `bn_add` and `bn_sub` return tells) and
`TypeCorrect`, from lemmas on one step of each loop
(`AddDigitFact`, `SubDigitFact`, `AddMulDigitFact`, `SubMulDigitFact`). Among them is that the
carry of a multiplication fits into a digit (`CarryFits`).

`MulExact`, `DivExact` and `FewCorrectionsHolds`, in the same module, are about arrays: `Low(x, k)` is the
number the first `k` digits of `x` stand for (`ValueIsLow`: with all digits it is `Value`), and `LoopFact` says what
a carry loop makes of it, from what it does to a digit. The recursion of both is over the
number of digits, by the least number of which a set has one (`Induction`, `RecursionExists`).
- `bn_mul`: `MulInv`, that `t` is the product of `c` and the digits of `b` so far, and is 0 from there on, where
  the carry is added.
- `bn_div`: `DivInv`, that what is left below the current digit and the quotient so far times the
  divisor make up the dividend, all shifted, and that less is left than one more digit of the quotient
  can take; while a digit is corrected, that what is left is less than `3 - tries` divisors, which
  is also the end of the loop. `EstimateFact` is where the top bit of the divisor is needed: the estimate is not too large,
  and too small by two at most. `BorrowedFact` says that the last borrow never exceeds its digit, `CmpFact`
  that `bn_cmp` compares the numbers, `ShiftLeftFact` and `ShiftRightFact` that the shifts multiply and, of
  what is a multiple, divide by a power of two. The hypothesis is `DivSetting`: `B` is a power of two, as
  unsigned integers have it (`TwoTo` is all that is used of powers), and the bounds are numbers.

Proved too (`RsaProofs`): `WindowsComputePower`, that `bn_mod_exp` computes the power of the
numbers for every size of a digit that is a number of windows, length of the exponent and
modulus (`Setting` is the relation of window and digit, and that the two bounds are numbers),
and `WindowsAreOneStep`, that it is what `Rsa` takes for it in one step. The
invariant, `ExpInv`, says of some part E of the exponent that `t` is `b^E` modulo `d`, and that
E with the bits still in `ci` behind it is the exponent's upper digits, shifted by the windows
of this digit that are done. While the leading zeros are skipped E is 0 and `t` is 1, not reduced
yet: the remark on the exponent 0 is just this case. `bn_decode` and `bn_encode` (`BytesKeepNumber`) are
model-checked only.

## 6. RSA, codecs, activation codes, licences

`RsaPadding.tla` states what the four functions of `rsa.c` promise each other: the
block layouts, and which blocks are accepted. What happens to the block between them
is one step: it arrives as it was, or, with other keys or after damage, as any block.
`Rsa.tla` puts `private_block_operation` (the two exponentiations and their
combination) and `public_block_operation` there, and `ImplementsPadding` says
that each step of it is one of `RsaPadding`.

`Codecs.tla` has Base64, Blowfish (rounds, key schedule, buffers of any length), the checksum
with its table, and the blocks SHA-256 is given, with the buffer that keeps what it held.
`ActivationCode.tla` is `crypto_keygen`, a copy that may be broken into lines or cut off, and
`activation_checkout`. `License.tla` is its C# relative: `key_generate` with
`sequence.txt`, and `check_license`; the numbers there have their true widths, and
signature, cipher and Base64 are other libraries'.

Run `crypto`, as far as it is about these. RSA: blocks of 6 bytes of 2 bits instead of 256 of
8, overhead of 4 instead of 11, two keys with primes of one length; every message that fits,
every content, both directions, and any damaged block. It checks `RoundTrip` and
`OnlyPadded` of the composition, and the refinement. Codecs: bytes of 4 bits with blocks
of as many bytes as the code's (so Base64 has characters of 3 bits and the checksum 8 bits),
2 rounds instead of 16, blocks of SHA-256 of 8 bytes with a count of 2, messages of 1 to 14
bytes, which end at every place of every block. Codes: three devices whose lengths need filling
or not, signatures of 8 bytes, key pairs that fit, are another's, or are too short; a text
broken at one place, or without its last 1, 2, 3 or 7 characters. Licences: texts of the
device that differ in a letter's place, in one digit, that are empty, and of a length
that the cipher has to fill up. Each is a conjunct of `ComputesExactly`: `CodecsSound`,
`CodeTellsIssue`, `LicenseTellsIssue`.

Stand-ins: what `sha256_transform` makes of its blocks is a sum, and the RSA operation within
an activation code adds the key's number; what they hide is that two messages do not have
one digest, and the number theory. The tables of Blowfish are arbitrary constants.

Notes. `rsa_public_encrypt` pads an empty message, `rsa_private_decrypt` refuses it. The
combination needs p > q: line 223 borrows otherwise, and with 41 and 61 some messages
do not come back. `KeyAssumption` asks for it; the keys come from Windows
(`CryptGenKey`), so nothing in the repository settles it. `activation_checkout` compares one
byte of the hash (`keygen.c:137` hands `memcmp` the value of a comparison). A licence for a
device text of 3 to 6 characters more than a multiple of 8 is refused where it belongs:
`crypto_custom.cs:400` fills up to four bytes, the cipher to eight, behind the signature.
The text of the device itself has 32 characters, for which it does not happen. All its
letters become one byte (`GetByteFromString`), so that a licence is accepted wherever the
digits are the same at the same places; `LicenseTellsIssue` says it so.

Proved (`RsaProofs`) of the blocks, for every length of the modulus, every overhead and
every set of bytes: `TypeCorrect`, `RoundTripHolds` (from `Sent`: what is in the block on
its way), `OnlyPaddedHolds`.

Proved of the whole, for all keys and sizes: `ImplementsPaddingHolds`, and from it
`MessagesComeBack`, `RoundTrip` and `OnlyPadded` of the composition. The argument:
- `KeyAssumption` and `PrimeAssumption` say what a key is: p > q > 1, a product of as many bytes
  as a block, an inverse of q modulo p, and that modulo each prime alone raising to
  e and to d mod (r - 1) undo each other. The last is Fermat's theorem for primes, which
  is assumed; the rest of what RSA needs is derived.
- Powers modulo p q are, modulo p and q, powers of the remainders (`PowerReduced`), numbers below
  p q are known by their two remainders (`KnownByRemainders`), and the combination of lines 219 to
  228 has the remainders it is made of and leaves no array (`CombinationFact`, `CombinedFact`,
  `WideEnough`). So the two block operations undo each other in both orders
  (`PublicAfterPrivate`, `PrivateAfterPublic`).
- Bytes to a number and back is the identity on blocks (`EncodeDecode`), and on numbers that fit
  (`DecodeEncode`); a padded block is below the modulus since its first byte is 0 (`DecodeRange`).
- `RsaInv`, the inductive invariant, adds where the number is on its way: `Stage` says that it
  is, for the padded block that was sent, the number of that block before the first operation and after
  the second, and between them what the first makes of it. With it each step is one of
  `RsaPadding` or changes nothing there.

The powers, and the numbers of arrays, are recursive functions. The provers do not
induct over those; the proofs take the least element of the set of numbers for which something fails
(`LeastNumber`, `Induction`, `RecursionExists`). The codecs are folds over their messages
and stay with TLC.

## 7. The desktop: RunClose, WheelAgent

`RunClose.tla` models `RunWindow` and `CloseAll` of `RunCloseWindow.cpp` with the browser
and the user as environment. A process that is started becomes the browser or hands
over to the one that runs and ends; a window appears later, gets its title
later, and may be closed, or ask back, when it gets `WM_CLOSE`. `TerminateProcess`
works later, too. The program's steps are the snapshot before a start, the
start, each look at the desktop, each request to close, and the end.

`WheelAgent.tla` models the hook of `MouseWheelInvoker.cpp`, its two timers, and the user
who presses, moves and releases. The hook may be passed over by an event (`missed`), and a
message of a timer that was posted before `KillTimer` still arrives.

Run `desktop` (`MCDesktop`): three windows, two processes, two starts, up to two looks and
requests, a prompt browser, or one that is not and a user who opens and closes windows; or the agent, with up to
two missed events. 12 starts, 10 looks and 10 requests become 2, 1 or 2, and 1 or 2: one start
can meet the window of one before, and a look or request can be the last or not.
`StartsRemembered`: no window is remembered twice and, with a prompt browser, none is forgotten.
`ClosedByAsking`: what `CloseAll` is done with is gone, and, with a prompt browser, by its own
will. "Prompt" means that the window is there and titled before the last look, that it closes
before the last request, and that nobody else opens or closes windows. `CloseAllTerminates` is liveness. `WheelRests`: never two timers,
and none, and no wheel but for messages already posted, once no button is held.
Fairness: the program's steps are taken, and a process told to end does. Deadlock is not
checked: the program ends.

Notes. A window that comes after the last look may be remembered with the next start. A
remembered window that the user has closed makes `CloseAll` terminate its process,
which by then has all the other windows, too. Handles and process numbers are not
reused in the model, a window keeps its title, and `OpenProcess` fails only
for a process that has ended. A release the hook did not see leaves the wheel turning until
the buttons are pressed and released again.

Proved (`DesktopProofs`), for any windows, processes, starts, looks, requests, mouse moves and
missed events. `WheelRestsHolds`, from `WheelInv`: what the hook remembers of a button it saw last is
true, a timer runs only while an old press is remembered, and the wheel turns no more often than there
are messages in the queue. `StartsRememberedHolds` and `ClosedByAskingHolds`, from
`RunTypes` and `RunInv`: an entry has a titled window and that window's process (`EntriesTrue`), a remembered window that is open was
seen before the next start (`SeenBefore`), and with a prompt browser (`PromptInv`) what is open and not
remembered is the one window of the start that is going on (`Starting`), and what is open and has been asked is the one being
asked now. `CloseAllTerminates` is model-checked only.

## 8. MoveResize: the region mirror

`MoveResize.tla` models the form that sends a rectangle (`Form1.cs`: press, drag,
send), UDP, and the handlers of `WinAppMoveResize.cpp`. A rectangle has two
axes with two edges each, because all the code says of left and right it says of top
and bottom. Numbers are sent as four bytes and read back as a signed `int`, then
multiplied by 3 as the code does. The worker thread hands over one datagram at a
time. `Place` is the handler up to `SetWindowPos`, `Learn` the rest: between them the
target can do something else. The target is a window that has a least size
(`Plain`) or one that goes to full screen and back on F11 as well (`Browser`); both are external.

Run `mirror`: one window of each kind, three drags of the left or the bottom edge, two
datagrams on their way, one repeated, any lost. Three datagrams are needed: a
first, one that teaches the least size, one that is clamped by it. The
sizes are such that a rectangle enlarged for one window is one that is sent for the other.
It checks `LearntIsTrue`, `OneJump`, `ShowsLast` and `FullScreenReached`. Datagrams are finite
in number: the user's mouse may rest. Dragging the middle and
the other two edges is in the model and not in this instance.

`FullScreenReached` is about F11, which toggles. The timer posts it every 100 ms as long as it does not see the target at full
screen, whether the last one was handled or not (`PressF11`); the queue of the window holds two here,
10000 in Windows, and what finds it full is lost, as the code does not look at what `PostMessage` returns. However late the window
answers, it gets to full screen again and again; and once it
answers before the next timer message (`Prompt`), it stays there. Without that it need not: a slower window is seen out of full
screen with a key under way and gets another, which may go on for ever. This is the code's behaviour, no document says otherwise, and
the model has it: two keys that wait are enough for it. Fairness: the message loop takes the timer's messages, the handler returns from `GetWindowRect`, and a
window handles its messages some time.

Notes. `oldMRRect` and `oldViewRect` survive a change of the target, so that the first
rectangle for the new window may be taken for the last one's and not be
passed on; `ShowsLast` starts with the first that is. A window that goes to full screen just
after `SetWindowPos` teaches its screen size as the least size. When an edge of one axis is dragged the other axis is not clamped. The last datagram of a drag
is not repeated when lost. Not modelled: the choice of the part by the pointer, painting,
moving to the foreground. Deadlock is not checked: the user may stop.

Proved (`MoveResizeProofs`), for any windows and least sizes, any base of a byte, any drags, and any
loss, duplication and order of datagrams: `TypeCorrect`, and from `MirrorInv` the three safety properties.
`LearntIsTrueHolds` needs that a plain window is where `SetWindowPos` put it while the handler waits (`Waiting`) and that
none is smaller than it can be (`SizesOK`). `OneJumpHolds` needs that after a jump the handler knows the least size or is about to
ask for it (`JumpKnown`). `ShowsLastHolds` needs that the rectangle remembered is the one the
window was asked for, on each axis where it can be as small (`Follows`). Assumed are that a window that goes to full screen
fits there (`ScreenAssumption`) and that the sender's region is a rectangle (`RegionAssumption`).
`FullScreenReached` is model-checked only.

## 9. The JPEG compressor: JpegFrame, JpegMarkers, JpegStream, JpegCompress, JpegCompressProofs

`JpegFrame.tla` has the geometry of an image and its parameters: sizes of components, the
layout of MCUs, the defaults of `jcparam.c`, and the check of a scan script. `JpegMarkers.tla`
is `jcmarker.c`, with markers as records; tables are in slots with their `sent_table`. Its
second half is the reference: the markers and MCUs a file of this image has, from the image
alone, with every block known by the rows its samples come from. `JpegStream.tla` is
what a writer promises: there is an image, its file grows along that sequence by whole markers
and MCUs, and is finished or given up.

`JpegCompress.tla` is the library as it works. The application sets parameters, starts, hands
over one to three rows, raw rows or coefficients, writes tables alone, finishes or aborts.
`PreProcess`, `PassRow`, `EncodeMCU`, `RefuseMCU`, `ReturnRows`, `FinishRow`, the end of a
pass and of the image are the places between which the controllers hand on; each is the code
of its controller with its counters (`rowgroup_ctr`, `mcu_ctr`, `MCU_vert_offset`,
`iMCU_row_num`, `next_buf_row`). `RefuseMCU` is a destination without room: everything returns
to the application, which comes again.

Run `jpeg_write`: fourteen images, with both edges, smoothing's context rows, two MCU rows in a row
of iMCUs, nine restarts, separate scans, a progressive script, optimised tables, raw data,
transcoding, and three that are refused; two of them one after another with one object, by
any portions of rows, and a refusal at any MCU. `Refines`: each step of the compressor is one
of `JpegStream`. `TablesSuffice`: whoever reads the streams in turn has every table an
MCU was coded with, and the statistics counted every symbol that is written. `Finishes`: the image
ends or is refused. Fairness: the application that began goes on (`WF` of supplying rows, of
ending, and of the library's own steps, which are one thread), and a destination that refuses
an MCU again and again takes it in the end (`SF` of `EncodeMCU`).

Bounds: a block has two rows and columns instead of eight, and four coefficients; with one
it would have no row within, with two every counter has a first, a last and a next value.
Images are up to ten rows high, at most two follow each other.

Proved (`JpegCompressProofs`), for every set of images and scripts, any size of a block, any
number of images one after another, any portions of rows, and MCUs refused any number of times:
`ReceiverHasTables` and, with it, `NoTableMissing`, which is `TablesSuffice`. It rests on
`BlockAssumption`, that a block is not empty, and on `ImagesAssumption`: what an application
asks for is `WellFormed`, which is that table numbers are among the four slots, and that
without optimisation the Huffman tables are of the two that `jpeg_set_defaults` fills. Sizes, sampling
factors and scripts may be wrong; the checks of `initial_setup` and `validate_script`
are part of what is proved about. The argument has two halves, each with its inductive invariant.

- `TablesInv`, for the tables. What each of the writer's routines appends is a
  sequence of markers after which a receiver has just the tables that are marked as sent (`Wrote`,
  `TablesAgree`, over `FileHeaderWritten` to `TablesOnlyWritten`); it has them
  from this stream or from an earlier one. `Coder` says that what the coder derived is what the
  slots hold, and that all of it is sent once the pass writes; `Passes` knows which pass of which
  scan is on, since tables of one scan replace those of the last; `Standard` keeps the two default
  slots filled. An abort ends the agreement (`synced`): tables marked as sent may have gone nowhere.
- `CodesInv`, for the codes. A statistics pass and its output pass go through the same MCUs only if
  the same positions are visited with the same predictions. A position is the row of iMCUs, the row and
  column in it, the predictors, and the MCUs left to a restart. `Gathered` says of a pass that
  collects: there is a set of positions, with the first one and the present one, which contains
  with each position but the present one the position after it, and a count for every difference coded
  there. An MCU that is refused leaves the position as it was. At the end of the pass
  the set is closed, the counts become the tables, and `Complete` hands it to
  the output pass, whose position never leaves it. The first pass of an image reads coefficients
  while they are still being stored: a row of iMCUs that is stored leaves the earlier ones as they were
  (`GatheredHandedOver`). That at the end of that pass every row has come is
  `RowsGathered`, which follows the rows from the application through the row groups of the two
  preprocessing controllers (`PreparedData`, `PreparedContext`) to the coder: an image cannot be
  finished with a row of iMCUs still in a buffer.

Neither half holds by itself at a single step: the second needs that the scan's parameters and
layout are the same in both passes (`Passes`), and `RowsGathered` needs of the geometry that the
image has rows and that they fill `total_iMCU_rows` rows of iMCUs, the last one maybe in part (`GeometryIs`).

## 10. The JPEG decompressor: JpegInput, JpegDecompress

`JpegInput.tla` reads: the marker reader, the input controller and the coefficients' controller
with restarts, `jpeg_resync_to_restart`, insufficient data, and the latching of tables. A file is
a sequence of markers and MCUs, `GAP` being data that are not to be decoded. `JpegDecompress.tla`
puts out: the master control, the main controller with its context rows and funny pointers,
single-pass and whole-image coefficient controllers, smoothing of blocks, upsampling with
and without merging, quantizing in one and two passes, buffered images, raw data and coefficients.
A sample is known by its place and by the scans its block has absorbed, so that a row that is shown
tells what it is made of. A source may refuse at every marker and every MCU.

Run `jpeg_read`: forty jobs, each a file with a way of reading it. Nineteen are whole,
and between them use every controller; nine are damaged: a restart marker or a whole
segment is lost, two are, one comes twice, the file is cut off, a marker stands within data, data are not to
be decoded; twelve are no images. `RowsComplete`: a row that
is delivered is made of the rows that belong there (and, where upsampling mixes two, the right
neighbour), with every scan the pass owes. `SurvivorsInPlace`: at the end what undamaged segments
carry is in its place, and nothing is anywhere else. `DecoderEnds`: the reading comes to its end or
to an error. Fairness: the library goes on (`WF`); a source that has refused has data
again, and an application that was returned to calls again, in the end (`SF`): both are
outside and may do something else in between, such as finishing one pass and starting another.

Run `jpeg_target` is a disagreement of code and documentation. `jpeg_start_output` for a scan that
has not begun makes the tables of the inverse transform first and waits for the scan after, and
`jddctmgr.c:156` leaves the table of a component all zero whose quantization table is not
known. `libjpeg.doc:1890` says that the pass waits and is then the same as without a
buffered image; the component is gray to its end, although its coefficients have come.
`TargetShown` says what the document says; TLC shows the pass that does not.

## 11. Memory, codes and samples of libjpeg

Run `jpeg_data` (`MCJpegData`) has nine parts, each with its own property or conjunct of one.

- `JpegVirtArray` is `access_virt_sarray` with its window, its file and the line below which the
  array is defined; `JpegArray` is an array. `ImplementsArray`: four rows, strips of up to
  two (and one too many), in any order, read or written, zeroed or not. Proved for every number
  of rows, access, window and content (`JpegMemoryProofs`): `VirtualArrayIsArray`, the refinement
  itself, from `WindowHolds`. Its invariant says that every row that holds something is in the window or in the
  file (`FileHasOthers`), that a window which is not dirty agrees with the file (`CleanAgrees`), and
  that who may write does so in a dirty window (`WriterInWindow`); the mapping takes a row from the window if
  it is there, else from the file, else it is not written yet.
- `JpegPools` is the rest of `jmemmgr.c`: small objects with their slop, large ones, the sharing of
  memory among virtual arrays, failures of an allocation or a file anywhere, abort and
  destroy. `PoolsSound`: the count of memory is that of the blocks, each is in a list, files are open that
  should be, objects are aligned, within their block and apart. `ShareFits`: buffers
  keep to what is available where that is possible at all.
  Both are proved in `JpegMemoryProofs`, for every size of header, slop, chunk and object and every room
  malloc may have left: the assumptions are that headers and the largest chunk are whole units of alignment,
  that `MIN_SLOP` is not zero, and that arrays have rows, a width and an access. `PoolsSound` is not
  inductive: that a block has room behind its last object, and that a count is right after
  `free_pool` has added up what the headers say, needs to know that each block is in one list only, at one
  place, and that its header's `used` and `left` are its size (`HeldOnce`), that `used` is
  whole units and bounds every object (`ObjectsApart`), and which arrays may have a file
  (`PoolsInv`). Each allocator keeps this whether it ends well or by an error exit at any strip
  (`AllocSmallSound`, `AllocLargeSound`, `AllocRowsSound`), `realize_virt_arrays` array by array
  (`RealizeOne`), and `free_pool` because the sum over the blocks freed and the sum over those left are the
  sum over all (`SumGone`). `SharesFit` bounds each buffer by the number of strips times the array's
  smallest, and adds up. Sums are folds, whose recursion the module unfolds first and then proves
  what it needs by induction over a set of sets.
- `JpegHuffman` makes optimal tables, and from them the encoder's and the decoder's; all
  frequencies of five symbols out of six values, codes of at most three bits, so that they must
  be shortened. `JpegEntropy` are the four coders: bytes of three bits, blocks of five
  coefficients, restart intervals of 0, 1 and 2, data that come in pieces of one or three bytes, a script of
  five progressive scans with runs and correction bits at their limits. `CodesReadBack`:
  what is read is what was written, at every moment and to the precision of the scan.
- `JpegQuant1`, `JpegQuant2`: samples of four bits, images of two rows of two or of three
  of three, two passes, every dither; the application may put in its own map between.
  `ColoursFit`: the nearest colour of this map, whatever the cache held before; the boxes of the median
  cut share out the colours; errors stay within their tables; in one pass, a level within
  half a step (the code rounds, where the comment at `jquant1.c:263` says halfway), or a whole one
  if dithered.
- `JpegDct`, with the code's own numbers: both integer transforms and the reduced sizes; five blocks that
  are flat, sloped, an edge and a single point. `JpegColor`: pictures of four rows and odd widths,
  gray, of three and of four components, each way of sampling. `JpegTransform`: all transformations on files whose edges
  are no whole iMCU. `SamplesComeBack`: samples near what they were whichever transforms coded and
  show them, colours that come back, junk beyond the edge never seen, merged
  steps equal to separate ones, and pixels moved and nothing else by a transformation.

Bounds are named in `MCJpegData`; each is the smallest at which the special case (a
full byte of ones, a symbol for a run at its largest, a box that cannot be cut, an edge that is not a whole
iMCU) occurs. Of these parts the virtual array and the pools are proved; most other definitions are folds and functions
over data.

## 12. Not modelled

- Within modelled components: libjpeg's floating point transforms; the saving of application markers
  while reading, and the formula of block smoothing; `sha256_transform`, which has no property short of its own
  definition, the contents of constant tables, and `crc_modbus` and other checksums nobody calls;
  the generation of keys in Windows' key store and the files keys are kept in; the queries a device's
  text is made of, and `lic.cs`, which no window uses any more; datagrams of strangers;
  reuse of handles; torn records.
- libjpeg's programs (`cjpeg`, `djpeg`) and the readers and writers of other formats: conversions of
  pixels without a state between two rows; the memory of DOS and of the Macintosh; texts.
- The loop of the screen capture, which calls GDI and none of libjpeg; the Explorer restarter, the
  window finder, the password generator and the SQLite test: one pass over something that is
  not theirs. SQLite and the licensing packages are third parties' and not in source here.

## 13. What is proved and what is only checked

Proved for every value of the constants, by inductive invariants: types and four safety
properties of `MateComm` and, for a prompt network with room in its buffers, two more (section 3); types and
four properties of `Recorder` (4); exactness and types of the carry loops, `bn_mul`, `bn_div` and the windows of `bn_mod_exp` (5); types and two properties of
RSA's padding, and that RSA as a whole implements it (6); the safety properties of the desktop tools (7) and of the region mirror (8);
the tables and codes of the compressor (9); the
refinement of the virtual array, the pools and the sharing of memory (11). The assumptions are the modules' named
`ASSUME`s, which TLC evaluates on the instances, and the hypotheses that sections 3 and 5 name. A property a run checks
was proved only after TLC agreed, and so were the invariants its proof needs.

Only checked:
- Liveness everywhere, which is out of the provers' reach: `SurvivorTakesOver`, `ConflictIsReported`, `ShutdownEnds`, `ReplaysForever`,
  `ExitHappens`, `CloseAllTerminates`, `FullScreenReached`, `Finishes`, `DecoderEnds`.
- `ComputesExactly` as a whole. Its parts about `bn_mul`, `bn_div` and `bn_mod_exp` are `MulExact`, `DivExact`,
  `FewCorrectionsHolds` and `WindowsComputePower`; bytes to digits and back, Base64, Blowfish, digests and
  licences are folds over bytes and words, which would need an induction each.
- `CodesReadBack`, `ColoursFit`, `SamplesComeBack`: folds over symbols, bits and samples; two of them
  also depend on the numbers in the code's tables, so that their bounds (within half a step, near what they were) are
  calculations and no consequence of a general fact.
- `RowsComplete`, `SurvivorsInPlace`: input and output side of the decompressor run past each other with
  their own counters, and the expected file is put together by folds over scans and MCUs. `Refines`: the same
  expected file, of which `NoTableMissing` proves the part that concerns tables and codes.

## 14. Running the checks

`tlc -config <file>.cfg <module>` model-checks a run, with the pairs of `PROJECT.json`;
no run takes more than a few minutes with two workers. `tlapm <module>Proofs.tla` checks
proofs. Constants called "bound" in a module limit only what TLC explores; the
others are parameters of the program, scaled down in the `.cfg` and arbitrary in the proofs.
