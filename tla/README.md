# A TLA+ verification of PolKit

PolKit is a collection of Objective-C classes for Mac OS X and iPhone: file
transfers over several protocols, directory scanning, networking and a small
multiplayer game layer, worker threads, child processes and device access.
This directory holds TLA+ models of its stateful parts, the TLC configurations
that check them on small instances, and TLAPS proofs. Line numbers refer to the
files under `src/`.

## 1. Inventory

| Component | State | Operations | Hard behaviour | What makes it correct |
|---|---|---|---|---|
| `WorkerThread` | two mutexes, a condition, the flag `_running` | `start...`, `waitUntilDone`, the detached thread | callers racing past an unlocked test; signal and wait; spurious wakeups | targets exclude each other, no lost wakeup, calls return, the two comments of the header |
| `StreamTransferController` | the two streams, transfer buffer, offset and length, `_result` | `runReadStream`, `runWriteStream`, both stream callbacks, `invalidate` | events, errors, time-out and abort in any order; partial writes; a polled and an event driven loop | one outcome told to the delegate and returned, no byte lost or repeated, the time-out, termination |
| `FileTransferController` data path, `DataStream` | cipher and digest contexts, digest buffer, lengths | open, read, write, flush, close | block and chunk boundaries, short reads and writes, opens that fail half-way, contexts left over | nothing in clear, announced lengths, digests of whole files, storing ends |
| `FileTransferController` speed limits | two process-wide times under spin locks | read and write | times sampled before the lock is taken | (planned) the rate over all transfers |
| HTTP, FTP, SFTP, Local back ends and remote mounts | session or mount, per operation | list, create, move, copy, delete, upload, download | reconnects, retries, half-done moves, counted mounts | (planned) outcome told once; mounts are unmounted exactly when unused |
| `DirectoryScanner` | snapshot, root item, revision, exclusion predicate | scan, scan-and-compare, update, remove, user info, archive | the disk changes during the walk; calls that fail; aborts | snapshots account for the disk, reports explain changes, revisions |
| `TCPConnection`, `TCPService`, `TCPServer` | two CF streams, `_opened`, `_invalidating`; the set of connections | open, send, receive, invalidate; start, stop, accept | connection threads against `stop`; re-entrant callbacks | (planned) opened and closed exactly once, the set is exact, `stop` closes all |
| `GamePeer`, `GameClient`, `GameServer` | connection, socket, sets of connecting and connected peers | connect, hand-shake, disconnect, send | delegate callbacks that disconnect; failing hand-shakes | (planned) each peer connects and disconnects once, sets agree with the peers |
| `Task` | pipes, buffers, timer | `_runTask` | a child and a parent that wait for each other; the time-out | (planned) the call returns |
| `UDPSocket`, browsers, reachability, watchers | callbacks handed on | | | thin wrappers, not planned |
| `StreamCoding`, `MiniXMLParser`, `MD5`, extensions | none | sequential conversions | | not planned |
| Devices, `SourceTextView`, disk images, keychain | system services | | | not modelled |
| libssh2 transport (`transport.c`) | read buffer, packet being read, packet half sent, blocked directions | `_libssh2_transport_read`, `_libssh2_transport_write`, the wait of a blocking call | packets cut anywhere, the switch to encryption in the middle of a buffer, a reply that blocks inside a read | packets whole, once and in order in both directions; a blocked call wakes up |
| libssh2 channels (`channel.c`, `packet.c`) | windows, flags for end and close, saved states, the brigade of packets | read, write, flush, window adjust, eof, close, free | every call may be left at a packet and repeated; the peer goes on sending | no byte lost, windows agree, nothing after a close |
| libssh2 requests and login (`channel.c`, `packet.c`, `userauth.c`) | one saved state per function | open, requests, forwarding, X11, five login methods | answers matched by type and channel only; time-outs and late answers; functions resumed after EAGAIN | an answer goes to its request; both sides agree on channels and login |
| libssh2 session and key exchange (`session.c`, `kex.c`) | startup and exchange states, methods, keys, flags | startup, key exchange at any time, disconnect | an exchange left half done by a call and gone on with by another | both sides use the same keys and methods, verified ones; an offer is answered |
| libssh2 SFTP (`sftp.c`) | request ids, replies read, partial reply, handles | start, every operation, shutdown | replies in pieces, late, out of order; partial writes | data read and names listed exact, what is reported written is stored, calls return |
| libssh2 scp, publickey, agent, known hosts, poll; ciphers and keys | | | | not called by PolKit, or calls of crypto libraries: not modelled |

Interactions. The HTTP, FTP and local controllers run their transfers through
`StreamTransferController`, which calls the data path of its superclass for
every chunk; `DataStream` adapts memory buffers to `NSStream`. The controllers
call the delegate from inside the loop. `GameServer` owns a `TCPServer`, both
game classes own `GamePeer`s, and each `GamePeer` is the delegate of one
`TCPConnection`. `DirectoryScanner` shares the disk with every other program.
`SFTPTransferController` is built on libssh2, which PolKit keeps in its tree and
compiles into the framework: SFTP runs in a channel, channels, requests and the
key exchange share one list of packets (the brigade) and one transport, and every
one of these functions can return EAGAIN and be called again.

`PROJECT.json` lists the hazards, each at its line, with the properties that
would notice them going wrong.

## 2. Modules

| Module | Code | State and actions |
|---|---|---|
| `WorkerThread` | `Utilities/WorkerThread.m` | one variable per field, a program counter per caller and per detached thread; every lock, unlock, signal, wait and access to `_running` is an action |
| `WorkerThreadProofs` | | the theorems of section 5 |
| `StreamTransfer` | `FileTransferController.m` 953-1330 | `_activeStream`, `_dataStream`, `_transferOffset`, `_transferLength`, `_result`, the local `readStream`/`writeStream` and the log of delegate callbacks; one action per event, per interval of the run loop and per pass of the polled loop |
| `TransferData` | `FileTransferController.m` 353-940, `DataStream.m` | the two contexts, bytes held by the cipher, bytes digested, what left or was stored; one action per call, and one per pass of the loop that stores |
| `DirectoryScanner` | `DirectoryScanner.m` 47-1370 | the disk, `_directories`, `_root`, `_revision` and the stack of `_scanSubdirectory` calls; one action per directory entry, one per end of a directory, one for the comparison and the swap of the snapshots |
| `PacketLink` | `transport.h` | abstract specification: packets of the peer handed over whole, once, in order; packets of the library written whole, one at a time |
| `SshTransport` | libssh2 `transport.c`, `_libssh2_wait_socket`, `BLOCK_ADJUST` | `struct transportpacket` as counts of bytes, the saved states of the reader, the wire; one action per `recv`, per packet cut, per `send` and per wait. Implements `PacketLink` |
| `SshChannel` | libssh2 `channel.c` 1405-2473, `packet.c` 603-885 | windows, flags and saved states of a channel, the brigade; one action per packet read or written by a call |
| `SshRequests` | libssh2 `channel.c` 40-1403, `packet.c` 40-413 and 960-1202, `userauth.c` | each function as a program: what it does in a saved state and what follows; actions run the program of the call a packet at a time |
| `SshSession` | libssh2 `session.c` 83-686 and 951-1032, `kex.c`, `packet.c` 888-1140 | `startup_state`, the nested states of an exchange, methods, keys, flags; one action per packet written, read, taken from the brigade or burnt |
| `Sftp` | libssh2 `sftp.c`, `FileTransferController_SFTP.m` 318-345 | the state of every operation, the replies read, the partial reply, the handles; one group of actions per operation |
| `Totals` | | sums over a sequence and parts of one, as recursive functions: the counts of bytes in queues and the brigade |
| `StreamTransferProofs`, `TransferDataProofs`, `SshTransportProofs`, `SshSessionProofs`, `SshRequestsProofs`, `SshChannelProofs`, `DirectoryScannerProofs` | | the theorems of section 5 |
| `MC*` | | constants of the runs |

Abstractions.

* `StreamTransfer`: the data are the positions 1, 2, ... of the bytes, so loss,
  repetition and order are visible. Time is counted in run loop intervals.
  `idle` is what the loop computes from `lastTime`, `quiet` is the real time
  without an event. Runs of progress callbacks are one entry of the log. The
  flush and the subclass's `processReadResultStream` succeed or fail.
* `StreamTransfer`: a transfer is given a data stream or not (`given`); without one
  the bytes of a download are discarded and an upload ends at once.
* `StreamTransfer`: in the polled loop a data callback that fails releases the
  stream whose status the loop reads next (1152, 1295). That is undefined, and
  modelled as any status at all; the properties name this case (`released`).
* `TransferData`: bytes are counted, and marked encrypted or clear. AES is what
  it does to lengths: whole blocks leave, the rest is held, the end is padded.
  A digest is the length of the prefix it covers.
* `DirectoryScanner`: `lstat` and the metadata calls are abstracted to kind,
  node, modification date and metadata. The entries of a directory are those
  that exist when it is opened, in any order; one that is created later is not
  seen by this scan, one that is deleted is met and found missing. The order of
  reports (`sortPaths`) is left out.
* `DirectoryScanner`: names matter where a scan leaves entries out because of them
  (676-698): AppleDouble and `.afpDeleted` names always (`SystemFiles`), names with a
  dot (`DotFiles`) and `.DS_Store` (`DSStores`) as `_excludeHidden` and
  `_excludeDSStore` say, before `lstat` and without a report unless `_reportHidden`
  is set (`hiding`). What the predicate excludes, or the UF_HIDDEN flag with
  `_excludeHidden`, is the set `excluded`, which is always reported.
* `SshTransport`: bytes are counted; what matters is where the stream of the peer
  is cut and which bytes go through the cipher. Padding and MAC are lengths.
* `SshChannel`, `SshRequests`: the session is blocking, as a new one is and as
  `SFTPTransferController` leaves it: a call ends before the next begins, but after
  each EAGAIN the function is entered anew, and what it did not save is gone. The transport below them is the packet link, with the rule of
  `SshTransport` that a half-sent packet has to be gone on with first.
* `SshChannel`: five history components record what the code forgets: bytes that
  were cut off or that a repeated read no longer knows (`lost`), those of a stream
  that is ignored (`ignored`), by how much the window has come to differ from what
  the peer was granted (`slipped`), whether an adjustment of it ever could not be
  sent (`stalled`), and what a refused packet was refused for (`refused`).
* `SshSession`, `Sftp`: the session is not blocking, so that a call that returned
  EAGAIN may be left for another one. A key is named by the exchange it comes
  from, a signature is right or wrong; a reply is four units long, of which the
  first two are its length. The channel under `Sftp` is external.
* libssh2: allocations succeed.
* Memory management is modelled where it decides behaviour (released streams),
  not as reference counts.

Variables marked "history" record what happened for the properties and never
guard an action.

## 3. Runs

| Run | Checks | Shows |
|---|---|---|
| `worker` | `TypeOK`, `TargetsExclude`, `RunningIsOwned`, `NoLostWakeup`, `CallsReturn` | two callers, three thread slots, spurious wakeups |
| `stream` | `ReturnTellsOutcome`, `DataIsComplete`, `TimeOutIsExact`, `TransferReturns` | both directions, both loops, transfers one after the other |
| `data` | `NothingInClear`, `UploadIsComplete`, `DigestIsOfWholeFile`, `DownloadIsComplete`, `StoreReturns` | sizes 0 to 7 with blocks of 2 and chunks of 3, with and without password and digest, enough room or not |
| `data_shortreads` | `NothingInClear` violated | a read that does not fill a block is taken for the end of the file (686) |
| `scanner` | `ScanIsComplete`, `ReportExplainsChanges`, `RevisionsRecordChanges`, `QuietRescanReportsNothing` | two scans of a tree three levels deep with names that are left out, two changes of the disk, the items or the settings at any moment, one failing call or abort |
| `scanner_readdir` | `ErrorsAreReported` violated | a `readdir_r` error hidden by the result of the last subdirectory (661, 786) |
| `transport` | `StreamInSync`, `WireIsWhole`, `BlockingNeverMisuses`, `ImplementsLink`, `BlockedCallReturns` | packets of one and two blocks in any pieces, the switch to encryption, requests answered inside a read, corrupt packets, a peer that leaves; refinement of `PacketLink` |
| `channel` | `NothingLost`, `WindowIsGrant`, `WireDiscipline`, `ZeroMeansEnd`, `FreeReturns` | three calls of any kind, two packets of the peer, every write may block, stderr normal, merged or ignored, a connection that breaks |
| `requests` | `AnswersAreOwn`, `NothingLeftBehind`, `LoginAgrees`, `ChannelsAgree` | two calls of any kind on two channels, a listener of one place, connections the server opens, one time-out |
| `session` | `KeysAgree`, `KeysAreVerified`, `OfferIsAnswered`, `StartupReturns` | startup and two later exchanges, six offers with and without a packet sent ahead, writes that block, wrong signatures |
| `sftp` | `DownloadIsExact`, `ListingIsExact`, `WrittenIsStored`, `CallReturns` | four requests, two operations under way at a time, one fault |
| `sftp_write` | `UploadIsStored` violated | a partial write is reported as data written and then sent again from the start (`sftp.c` 1473) |

The properties that pass say where they stop: `ReturnTellsOutcome`,
`DataIsComplete` and `TransferReturns` except the polled loop on a released
stream; `StoreReturns` a destination that is full, where `DataWriteStream`
returns 0 for ever (FileTransferController.m:495, DataStream.m:286) and the loop
never ends; the scanner's properties the directories whose error was hidden and
the items edited in place; `KeysAgree` and `OfferIsAnswered` the sessions in which
data was written during an exchange, or a packet was half sent when it began;
`DownloadIsExact` a read that failed with a part of its buffer filled;
`CallReturns` a channel closed in the middle of a reply; `NothingLost`,
`WindowIsGrant` and `ZeroMeansEnd` a channel an adjustment of whose window could once
not be sent (`stalled`), of which they say what is lost and by how much the window has
slipped; `WireDiscipline` half-sent adjustments and failure replies, for which another
packet may be refused; `AnswersAreOwn` the
answer to a request of the same sort on the same channel that was given up.
Section 4 has the code behind each.

Only the run `worker` lists a type invariant. The other modules that have a
`TypeOK` state it for the reader and the proofs: it holds on the instances of
their runs, and section 5 says where it is proved.

Bounds. Two callers are needed for a race and three slots let a third thread
exist while two have not yet finished. Four bytes through a buffer of three give
a full chunk, a short chunk and every partial write; three intervals tell the
first, a middle and the last one apart. Blocks of 2 and chunks of 3 are coprime,
so that every alignment of chunk and block ends occurs up to size 7, among them
sizes that are multiples of the block. The disk of `scanner` has a directory in
a directory with a file in it, so that a directory that is given up takes more
than one level with it, and a second place to move to; the file is a
`.DS_Store`, the second place begins with a dot, and an AppleDouble file may
appear; two changes are enough for a move and a change on top of it, or one
before and one during a scan; two scans give a snapshot and a comparison with
it, and what holds for longer histories is proved (section 5).

Blocks of 6 bytes are the smallest that hold a packet header, and a buffer of 9
never holds two packets, so that a packet ends, and encryption begins, at every
offset of it. Three calls on a channel let one find what the others left: an
adjustment put off, one that is half sent, a packet not taken, a close under way; a
window of one packet of the peer, which is granted again piece by piece, is wrong at
once when a piece is.
Two requests on two channels are what it takes for one to find the other's
answer. Three exchanges are the first, one that replaces its keys and one after
that; two writes that block let one of our packets and one of an exchange be half
sent. Four SFTP requests are an open, two reads (or a write of each block) and a
close, or an unrelated operation among them.

Left out for size: in `requests`, `direct-tcpip` and process startup, whose
programs are those of `open` and `setenv`, and SSH_MSG_IGNORE and DISCONNECT of
the server, with which alone the four properties hold as well; in `sftp`,
servers of versions below 3, for which `sftp_rename` or `sftp_symlink` make no
request.

The behaviours of `scanner`, `channel`, `requests`, `session` and `sftp` end when
the bounds are used up, or when the session is over, hence `CHECK_DEADLOCK FALSE`
there; it is checked in the others.

Fairness.

* `WorkerThread`: strong fairness of each thread. Threads are scheduled, a
  target returns, and a mutex that keeps being released is obtained. No call and
  no spurious wakeup has to happen. Without the last clause of `CallsReturn` it
  fails: `pthread_cond_signal` may wake any waiter, so one caller can be passed
  over as long as others keep starting threads.
* `StreamTransfer`: weak fairness of the thread in the method. The run loop
  returns within its interval; no event has to come.
* `TransferData`: weak fairness of the storing thread.
* `SshTransport`: weak fairness of the library and of bytes under way, strong
  fairness of progress in a write: a socket that keeps becoming writable takes
  bytes at some time.
* `SshChannel`: weak fairness of the call, of the peer's answer to a close, and
  strong fairness of the completion of a half-sent packet.
* `SshSession`: weak fairness of the startup and the exchange, which the
  application repeats, and of the server's answers. The server may leave.
* `Sftp`: weak fairness of a function that was called. No answer has to come.

## 4. Observations that no run singles out

* A data stream that does not open returns `nil` without any delegate callback
  (FileTransferController.m:1116, 1258); `ReturnTellsOutcome` allows it.
* After a failed write to the data stream the delegate hears `DidFail` and then
  `DidUpdateProgress` (1063-1070).
* With moved items and all removed items asked for, an item of a vanished
  directory is listed for both, and can be reported as moved and as removed
  (DirectoryScanner.m:1013-1047); `ReportExplainsChanges` therefore does not ask
  the two lists to be disjoint.
* `scanRootDirectory` sets the revision to 1 before the scan succeeds (1096), so
  a first scan that fails leaves a scanner that a comparison accepts and that
  has no snapshot.
* If the metadata of the root cannot be read, `newRoot` is NULL and
  `_ItemMetadataHasChanged` is called with it (1100, 1111). The model lets the
  root's metadata always be read.
* `updateDirectoryItemAtSubpath` can turn a file item into a directory item
  without entries (1326).
* `pthread_cond_wait` (WorkerThread.m:97) is not in a loop on `_running`: a
  spurious wakeup lets `waitUntilDone` return before the target has run.
* `lastTime` starts at 0.0 (FileTransferController.m:1111, 1253), so the first
  idle interval of a transfer is a time-out.
* An open that fails on an empty password leaves the digest context behind (421,
  600), and the next listing is digested.

libssh2:

* `send_existing` refuses every packet but the one that is half sent
  (transport.c:621). A channel write that meets a half-sent reply to the peer is
  refused as misuse (channel.c:2021, where EAGAIN of the reads is ignored), and a
  key exchange that begins while data is half sent fails; `packet_add` drops that
  result (packet.c:949).
* `transport_write` does not look at `LIBSSH2_STATE_EXCHANGING_KEYS`: data may be
  written in the middle of an exchange. The methods agreed on are used from the
  agreement on, not from NEWKEYS. `packet_burn` burns any packet of the brigade.
* `banner_send` adds the -1 of a send that would block to what was sent
  (session.c:176-254).
* Window: after EAGAIN only the adjustment of the repeating call is added
  (channel.c:1579), while the packet that goes out has the amount of the first; and
  the adjustment that gives back what an ignored packet took adds to a window from
  which nothing was taken (packet.c:660-672). A flush refunds `data_len - 13` for
  stream 0 too (1459). For a packet of fewer than 4 bytes on stream 0 that is
  negative, and `flush_refund_bytes` is unsigned: the refund wraps around.
  `ChannelAssumption` therefore lets the peer send packets of 4 bytes or more.
* A read that has bytes and then gets EAGAIN from the window adjustment loses
  their count (1847-1867): repeated, it returns 0 though "It is important to not
  return 0 until the currently read channel is complete" (`ZeroMeansEnd`).
* `channel_close` stops waiting at any packet, though its comment says otherwise
  (2273-2277); `channel_wait_eof` spins when the session is disconnected
  (2202-2214); `channel_free` on a broken socket returns without freeing (2403).
* `request_pty_size` (1103), a denied X11 request and a password change that
  fails half-way leave their state behind; `NothingLeftBehind` excepts them.
* A request given up leaves its answer to others (packet.c:1178-1200). The next one
  of its sort takes it, if on the same channel. One on another channel fails, since
  `_libssh2_packet_requirev` gives up when a packet of the right type does not match
  (1194), and then its own answer is left to the next one on its channel.
* `channel_forward_cancel` writes the state of the listener after freeing it
  (693-695).
* A stale EAGAIN in `err_code` makes a failed open be repeated
  (libssh2_priv.h:1252-1269).
* `sftp_packet_read` loses a length of which fewer than four bytes have arrived
  (sftp.c:176-182), and spins at the end of the channel in the middle of a reply
  (203). `sftp_read` advances the offset of data it then drops (1156). One timer
  serves all waits (`requirev_start`), and the operations that use
  `sftp_packet_require` have none.
* `sftp_write`: the finding of `sftp_write`. PolKit's blocks of 32 * 1024 bytes
  (FileTransferController_SFTP.m:29) do not fit into one packet of the channel
  with the header in front, so that every full block meets it.

## 5. Proofs

`WorkerThreadProofs` proves for every finite set of callers and of thread slots,
with or without spurious wakeups (`ConstantsAssumption`):

* `InvariantHolds`: `IInv`, and from it `TypeCorrect`, `MutualExclusion`,
  `WakeupsAreNotLost` and `RunningTellsTheTruth`;
* `DocumentedUse`: with a single caller and no spurious wakeups, both comments
  of the header hold. The second premise cannot be dropped (section 4).

The argument. None of the properties is inductive. `MutexesAreHeld` says that
the holders of the two mutexes are exactly the threads between lock and unlock;
mutual exclusion follows at once, and `RunningIsOwned` is preserved because only
the holder of `_threadMutex` touches the flag. `SlotsAreFree` is needed because a
slot for the thread is chosen before `_mutex` is taken. `NoLostWakeup` compares
two cardinalities: a caller begins to need a signal in the step in which its
thread comes into being (`StartDetaches`), and a thread stops owing one in the
step in which it wakes a waiter or finds none (`WorkerSignals`); in the latter
case nobody is in need, since a caller between detach and wait holds `_mutex`.
The lemmas `SetsAreFinite` and `SameSetsSameWakeups` carry the facts about
cardinality. `DocumentedUse` adds `HandShake`: with one caller the only thread
that has still to signal is the one it waits for.

`StreamTransferProofs` proves for data, buffers, time-outs and numbers of
transfers of any size, with a data stream and without (`StreamAssumption`): `TypeCorrect`, `EveryByteArrives`
(`DataIsComplete`), `TimeOutsAreExact` (`TimeOutIsExact`) and `OutcomeIsTold`
(`ReturnTellsOutcome`). The invariant says of the clock how `idle` and `quiet`
compare (`ClockInv`), where the loop is and which streams it holds then
(`LoopInv`), what the delegate has heard against what will be returned
(`OutcomeInv`), and of the data that a chunk that is partly written is the last
`transferLength` bytes taken, so that `Len(out) = pos - transferLength +
transferOffset` (`DataInv`). `DataIsComplete` alone is not inductive because it
does not say what is in the buffer.

`TransferDataProofs` proves for every block, chunk and file size
(`DataAssumption`) `DownloadsAreComplete`, and for streams that are encrypted and
return what they are asked for, as files do (`FullReads`), `TypeCorrect`,
`UploadsAreSecret` (`NothingInClear`), `UploadsAreComplete` and
`DigestsAreOfTheFile`. The run `data_shortreads` shows that the premise is needed.
The invariant counts: on the way in, what is stored and what is pending is what
the cipher has given for the bytes that arrived (`DownloadInv`); on the way out,
what has left is the whole blocks of what was read, the cipher holds the rest,
and the end adds one block of padding (`UploadInv`); the digest covers what was
read until it is there (`DigestInv`); contexts exist while they are needed
(`ContextInv`).

`SshTransportProofs` proves for every block size that holds a header, every MAC
length, every buffer of at least a block and packets of any whole number of
blocks (`TransportAssumption`): `TypeCorrect`, `ReaderStaysInSync`
(`StreamInSync`), `WireStaysWhole` (`WireIsWhole`), `BlockingIsSafe`
(`BlockingNeverMisuses`) and `TransportImplementsLink`, the refinement of
`PacketLink`. The invariant: the stream of the peer is one packet after the other,
encrypted from NEWKEYS on (`StreamLaid`); the buffer begins where the reader
stands, and all of a packet that it has taken, but for the MAC, is decrypted in
whole blocks (`ReaderInSync`); a packet with a wrong MAC is the last from which
anything is taken (`VerdictStands`); what the writer keeps is the rest of the last
packet on the wire, and in a blocking session it belongs to the call being
executed (`WriterInSync`, `CallOwnsPacket`). Lemma
`StepOfLink` maps each step to a step of `PacketLink` or to none.

`SshSessionProofs` proves for all lists of methods, offers of the server and
numbers of exchanges (`SessionAssumption`) `KeysComeFromTheHost`
(`KeysAreVerified`): keys that are in use come from an exchange whose reply the
host key signed. The invariant: the server concludes one exchange after the
other (`ServerInv`); keys in use are signed ones (`SessionInv`); what the client
has got to in an exchange (`ExchangeInv`); a rightly signed reply, in the socket
or in the brigade, belongs to an exchange that was concluded with it, and
whatever was read before a KEXINIT is older (`TrafficInv`), which is needed
because reading a KEXINIT resets the exchange while older packets are still in
the brigade; a group is asked for with those methods only that need one
(`RequestInv`), since its answer has the number of another method's reply. Lemma
`SameChoice` shows that both sides choose the same methods from the two lists.

Its second part proves under the same assumption `KeysOfBothSidesAgree`
(`KeysAgree`) and `OffersAreAnswered` (`OfferIsAnswered`). Both speak of packets
that are on their way, so that the invariant has to say what these can be. It reads
each direction as a sentence: a stage (`Stages`) says how far a conversation has
come and how many exchanges have given keys, a packet leads from a stage to the
next and bears the keys of the one it leaves (`Moves`), and a sequence of packets is
a path between two stages (`Path`). `Agreement` says that the packets in the socket
lead from the stage at which the client reads (`HeardInv`) to the one at which the
server writes, and those under way to the server from the stage at which it reads
(`Served`) to the one at which the client writes (`Speaks`). What the client hears
next depends on more than its state: KEXINIT may be in the brigade and not yet
taken, and a packet sent ahead may still be to burn, which is what `Hears` has to
tell apart. `HeldInv`, `CallInv`, `PendInv` and `CipherInv` add which keys are held,
who is at work, what may be half sent, and that ciphers go with keys; `CauseInv`
that an exchange fails for a cause; `ByeInv` that nothing follows a DISCONNECT of
ours. The invariant ends where an exchange has failed and the session goes on
(`Ok`), and lets a client be rude, as `KeysAgree` does. It was checked by TLC on
the instance of the run `session` before it was proved.
`KeysAgree` follows at each read because the reader is at the stage the packet
leaves (`MismatchHasCause` for the server), and `OfferIsAnswered` because a path that leaves
`quiet` does so with a KEXINIT (`QuietTurns`), and one that leaves `bound` with
NEWKEYS (`BoundTurns`).

`SshRequestsProofs` proves for any set of calls and of open channels, any number of
calls, time-outs, questions and packets sent unasked, and any packets that may block
(`RequestsAssumption`): `TypeCorrect`, `OwnAnswers` (`AnswersAreOwn`),
`NothingIsLeft` (`NothingLeftBehind`), `LoginsAgree` (`LoginAgrees`) and
`ChannelsAreAgreed` (`ChannelsAgree`). The properties speak of the state between two
calls, so that the invariant `Inv` has to say what can be on its way during one.

* `Types`: what a function can be doing in each of its states (lemma `Shapes`, for
  every step of every program: what is written leads to a state in which all answers
  to it are required), and that only the function being called, or one that leaves its
  state, is not in its first one (`SavedOK`).
* `OrderInv`: requests are numbered as they are made and answered in that order, and
  the numbers rise through brigade, socket and server.
* `AnswersInv`: every answer in the brigade, in the socket or still to be given is
  the one the call being executed waits for (`Owner`), or was given up (`GivenUp`);
  what a call finds in the brigade when it goes on to read is not for it. With no
  call and nothing given up there is none, which gives `NothingLeftBehind`.
* `HalfInv`: a half-sent packet belongs to the connection of the server's that is
  being met, or is the one the call being executed is about to write. A write inside a
  read is therefore never refused for another, and a read that fails has met the end
  of the connection.
* `LoginInv`: the server has accepted exactly when the client is logged in or the word
  of it is on its way.
* `IdsInv` and `OpenInv`: every number of a channel is below the next one, so that a
  new channel's is nobody's; server and client have the same channels open but for the
  one being opened, of which the answer on its way tells whether the server has it.

The properties were checked by TLC with the parts of the invariant before the proof.
`AnswersAreOwn` could not be proved as it was stated at first: it held nothing given up
but what had timed out. With three calls, one more than in the run, that is false, as
section 4 tells: `late` is now filled by both ways to give up (`GivesUp`), and the
property excepts answers of the same sort on the same channel only.

`SshChannelProofs` proves for any number of channels, any calls with any
arguments, packets and windows of any size, and any number of packets and calls
(`ChannelAssumption`):

* `WireKeepsProtocol` (`WireDiscipline`), `NoByteIsLost` (`NothingLost`),
  `WindowAgrees` (`WindowIsGrant`) and `ZeroBytesMeanTheEnd` (`ZeroMeansEnd`).

There is no premise on which packets block or which modes are set. The invariant
`IInv`: where a call can be and what its channel looks like then (`PlaceOK`); a
half-sent packet is an adjustment or a failure reply, which anybody may have begun
(`Loose`), or belongs to the call being executed, which goes on with it before it
reads or sends anything else (`PendOK`), so that nothing is refused for it; a write
that is under way, and a close that was sent and is not yet done, belong to the call
as well (`HeldBy`), which with `CloseOK` is why no data follows a close; what is left
to send fits into the peer's window even before the adjustments under way (`LocalOK`);
what the peer may still send and what is on its way are the window, up to what is
counted in `slipped` and `ignored`, and nothing has slipped, or waits to be sent
again, on a channel that never stalled (`RemoteOK`), so that `_libssh2_packet_add`
cuts data only of one that did. `BytesInv` is the account itself. Steps that read a
packet (`TransportReads`) and steps of a call on its own channel (`OwnStep`) are
proved once, and each action is shown to be one of them. Two more invariants serve
`ZeroBytesMeanTheEnd`: `ReadInv` says that a read goes on with a window adjustment
(`jump1`) either in the execution that has the bytes in its buffer, or on a channel
that has stalled and lost some; `EndInv` that in the socket no data of a channel
follows its end of file or close, so that what a read has not found by then is not on
its way. `Totals` are sums over sequences; that a total exists, is unique, and
changes by one number when one is appended, taken from the front or added at each
place is proved by induction over the length of the sequence, carried out on a set
(`Induction`: a set that holds 0 and the successor of each of its numbers holds
all), since the library's induction theorems cannot be used.

`DirectoryScannerProofs` proves for every finite set of paths that is closed under
prefixes, every tree on it, every set of excluded paths and of names to leave out, and any
number of scans, changes and faults (`ScannerAssumption`): `TypeCorrect`, `ScansAreComplete`
(`ScanIsComplete`), `SnapshotsCanBeWalked` (`DirectoryItemsHaveContents`, the part
of it about the snapshot alone), `ReportsExplain` (`ReportExplainsChanges`),
`RevisionsAreRight` (`RevisionsRecordChanges`) and `QuietRescansAreQuiet`
(`QuietRescanReportsNothing`). The invariants build on each other.

* `BaseInv`: types; the stack, on which each directory is in the one before and
  nothing that is still to be visited is above one that is open (`StackInv`); the
  disk is a tree (`IsTree`), which every change keeps; no items before the first
  scan (`RevisionInv`).
* `ContentsInv`: a directory item has its entry in the snapshot, also in the
  snapshot that is being built and among the items of the open calls.
* `WalkInv`: while nobody touches the disk, each of its paths is still to be
  visited, a directory that is open, absent, recorded as the disk has it, or below
  something that was skipped for a reason, a report or a name that is left out without
  one (`WalkCovers`). At the end the stack is
  empty and the first two are gone, which gives `AccountsInv` (`ScanIsComplete`).
  The walk needs the disk to be a tree: what is below an absent path is absent.
* `QuietInv`: since the last scan that failed nowhere on a disk that nobody has
  touched since, the snapshot is the disk, which `QuietRescansAreQuiet` needs of
  the snapshot the comparison begins with.

`Finished`, `HasRead`, `Drops`, `Opens` and the like say what a step does without the
local names of the action. `ReportsExplain` failed at first, rightly: it took for
orphans of a directory that was given up only the items in it, and not those
further down, and the disk of the run was too flat to show it. `IsOrphan` has
both, and the disk of the run is a level deeper.

Only model-checked:

* liveness (`CallsReturn`, `TransferReturns`, `StoreReturns`, `BlockedCallReturns`,
  `FreeReturns`, `StartupReturns`, `CallReturns`): fairness is out of the reach of
  TLAPS;
* `Sftp.DownloadIsExact` and `Sftp.ListingIsExact`: they compare the contents of
  sequences that are recursive in the data;
* `Sftp.WrittenIsStored`: its invariant would have to relate the packets of a write in
  the channel to the stored file, which is not stated yet;
* `SshChannel.TypeOK`: `Types` is proved as a part of `IInv`; that the counters of
  a write and of the account are never negative is not.

## 6. Plan

What is done is marked.

1. `WorkerThread`, its run and proofs. Done.
2. `StreamTransfer` and `TransferData`, their runs and proofs. Done.
3. `DirectoryScanner`, its runs and proofs. Done but for the archive and the
   enumerations.
4. libssh2: `SshTransport` with the abstract `PacketLink`, `SshChannel`,
   `SshRequests`, `SshSession`, `Sftp`. Done, with the proofs of the transport, of
   its refinement, of the channels, of the keys and of the requests; to be proved
   next: `WrittenIsStored`.
5. `TCPConnection` and `TCPServer`: stream events, sending, receiving and
   invalidation of one connection; accept, connection threads and `stop`.
6. `GameSession`: `GamePeer` on both sides of a connection, with `GameClient`
   and `GameServer`.
7. The rest of the transfer back ends, `Throttle` and `Task`.

## 7. Not modelled

`session_free`, the getters and setters of a session, scp, the publickey
subsystem, the agent, known hosts and `libssh2_poll`: PolKit does not call them,
or they free what they find. Diffie-Hellman, ciphers, MACs, compression and key
files are calls of OpenSSL, libgcrypt and zlib; the models use what they promise.
Device access, user interface, wrappers of system services and converters without
state keep nothing that could be checked. The networking and game classes, `Task`,
the HTTP and FTP back ends and the archive of the scanner are planned.
