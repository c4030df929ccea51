# embassy-nina in TLA+

Specifications of `embassy-nina`, an async `no_std` driver for the u-blox NINA-W102 running the
Arduino WiFiNINA firmware (`src/src/*.rs`), the TLC runs that check them on small instances, and
TLAPS proofs for every value of the constants. Line numbers are those of `src/src/driver.rs`
unless another file is named.

## 1. Inventory

The host is one async driver object, `Nina`, that owns an SPI bus and four pins. It keeps no
protocol state of its own: everything that lasts is in the chip, in the levels of the pins CS and
ACK, and in the handles the callers hold. Operations take `&mut self`, so two of them never
overlap; `NinaStack` puts the object behind an async mutex and lets tasks share it.

| component | code | state | operations | what makes it correct |
|---|---|---|---|---|
| framing | 1098-1479, `proto.rs` | none | build a frame with 8-bit or 16-bit lengths, pad it, read a reply with one of three functions | lengths fit what carries them; a reply that does not fit or does not match is refused |
| transactions | 1098-1345 | CS, ACK, the chip's phase | command window, reply window, their error returns | an answer belongs to its request; both sides stay in phase; CS idles HIGH; every call returns |
| reset (`init`) | 94-128 | RESETN, GPIO0 | pulse, boot wait, three disconnects | brings both sides into phase from any state |
| operations | 130-1093 | none | one or more exchanges each | the right opcode, framing, buffer and check of the payload |
| `tcp_send` | 797-854, `tcp.rs`, `nal.rs` 204-208 | loop counters, `total: u16` | chunks of 64, 5 attempts, 20 `DATA_SENT` polls | the stream holds the caller's bytes once and in order, and the count reported is true |
| socket `read` | `nal.rs` 172-191, `tcp.rs` 77-96 | the mutex | `tcp_recv`, then `tcp_state`, then 50 ms | `Ok(0)` is the end; a reader does not block the others nor wait for nothing |
| connections | 699-761, 984-1032, `nal.rs` 101-134, 233-258 | the chip's slot table, `Socket` handles | open, start, poll, close, listen, accept | slots are not leaked, handles do not go stale |
| Wi-Fi | 178-230, 605-645, 1034-1043 | association in the chip | connect loop, status poll, AP | Connected means the network asked for |
| DNS | 666-697, `nal.rs` 273-284 | the chip's resolver | request, poll the result | the address is that of the name |
| UDP | 873-982 | the chip's datagram buffer | begin, write, end, remote | a datagram is one caller's |
| scan | 148-176, 253-303, `scan.rs` | caller's scratch buffer | start, fetch, iterate | iteration stays in the buffer |
| decode tables, errors, `NoPin`, re-exports | `proto.rs`, `error.rs`, `nopin.rs`, `lib.rs` | none | total functions | - |

They interact by calls downwards (sockets -> operations -> transactions -> bus) and by the mutex
sideways. The chip acts concurrently with all of it: it raises and lowers ACK, carries commands
out, buffers data and sees peers close while the host is between two awaits.

What is hard here: the two-window handshake has no sequence number, only an opcode; a future may
be dropped at any await; every error return cuts a frame short; the wait for ACK after CS gives up
after 5 ms and goes on; the methods that need two exchanges (bytes, then state; send, then sent)
see a chip that moved in between; counters and buffers are u8, u16 and 256 bytes. `PROJECT.json`
lists these hazards line by line.

## 2. Modules

| module | what it is |
|---|---|
| `NinaFrame` | lengths and limits of frames, and what the receive functions decide from a reply header |
| `FrameReader` | the receive functions byte by byte, and the readers of what they leave: scan iterator, addresses, acknowledgements |
| `NinaOps` | one descriptor per exchange of each public method: opcode, framing, parameter lengths, receive function, buffer size, accepted payloads |
| `NinaLink` | the transaction layer and `init`, with the chip as environment |
| `NinaRpc` | the abstract promise: a remote procedure call carried out at most once |
| `ByteStream` | the abstract promise to a reader: the bytes of the peer in order and once, gaps only at errors, the end told last |
| `WifiConnect` | `init`, `connect`, `wait_for_connected` against a radio |
| `NinaStack` | tasks that share the chip: lookups, connecting, closing, the chip's slots |
| `SocketRead` | `read` on sockets that share the chip behind the mutex |
| `TcpSend` | `tcp_send`, `check_data_sent` under a `write_all` caller |
| `UdpSend` | `udp_send` and its three steps, for tasks that share the chip |
| `MCNinaLink`, `MCUdpSend` | sets of exchanges, reply shapes and senders, symmetry |
| `*Proofs` | theorems, see section 4 |

The layers compose by what they promise. `FrameReader` is what happens inside one reply window,
and `NinaLink` keeps of it which outcome a reply of some shape gives. `WifiConnect`, `NinaStack`,
`SocketRead`, `TcpSend` and `UdpSend` take an exchange as one step that succeeds or fails without
saying what the chip did. That is what `NinaRpc` states and `NinaLink` is shown to implement; that
an exchange ends at all is `NinaLink!OperationsReturn`. `NinaStack` reduces a read or a write to
what it does to its slot, which `SocketRead` and `TcpSend` detail.

### FrameReader

`pc` is the position in a frame; a step is one transfer (the header is one, a length one, a byte
of payload one). `fn` selects the function: `one` (1416-1479), `one16` (1221-1285), `into`
(1347-1414), which differ in the header (`HeaderOne`, `HeaderOne16`, `HeaderInto`) and the lengths
(`Length16`, `LengthInto`) and share the rest. The chip may clock out any byte at any position.
`heard` holds everything clocked in since START_CMD and exists only in the model. `Iter`,
`NextItem` and `NoItem` are `Scan::iter` and `ScanIter::next` (`scan.rs` 44-72); `ip_config`,
`udp_remote` and `Acked` are operators on the buffer a function left.

### NinaLink

`hpc` is the await at which the current operation stands; a step runs from one await to the next.
All the bytes of a phase (header, parameters with END_CMD and padding, reply header, payload) are
one step, with `SendError` and `RecvError` for a bus error at any of them; the START_CMD loop is
one step per transfer.

| code | action |
|---|---|
| a public method starts an exchange | `Call`, `InitDisconnect` (by `Begin`) |
| `ack.wait_for_low`, `cs.set_low` (1102-1104, 1184-1186, 1206-1208, 1309-1311) | `SendOpen`, `RecvOpen`; `OpenError` for their `?` |
| `select(ack.wait_for_high, 5 ms)` (1105-1109) | `Select` |
| `send_cmd` writes (1111-1125) | `SendHeader`, `SendRest` |
| `send_cmd_mixed` (1140-1196) | `MixedOverflow`, `SendMixed` |
| `let _ = cs.set_high()` (1127, 1195, 1217, 1320) | `EndWindow`, part of every action that leaves a window |
| START_CMD loop (1227-1242, 1353-1368, 1424-1439) | `PollStart`, `PollErrCmd`, `PollDummy`, `PollTimeout` |
| header checks (1244-1264, 1370-1402, 1442-1456) | `RecvHeader` |
| payload, END_CMD, the method's own check | `RecvBody` (with `Decode`) |
| a dropped future, part of the transfer under way clocked or not (`Clocked`) | `Cancel` |
| `init` (111-128) | `InitReset`, `InitRelease`, `InitBoot`, `InitDisconnect`, `InitRefused`, `InitPinError` |

`call.cmd`, `rx`, `job`, `got` abstract frames to a kind, an opcode, the number of the request and
the reply's shape (parameter lengths, END_CMD in place or not, a payload that means success or
not). The number of the request exists only in the model: it is what ReplyMatchesRequest compares.

The chip is external. What is assumed is what the driver relies on: it serves a window only if it
was armed when CS fell, commands and replies in turn; it arms by lowering ACK; a reply window ends
with the rising edge even if the host stopped reading. It may answer any request with any shape or
with ERR_CMD, carry out a truncated frame or refuse it. After RESETN it boots by itself (`ChipBoot`),
within RESET_BOOT_MS. Faults are switched on by the constant `Faults`: `"spi"`, bus errors;
`"pin"`, errors of `set_low`, `set_high` and `wait_for_low`; `"high"`, errors of `wait_for_high`,
which the code drops with the result of `select`, so that the wait is over while ACK is still LOW;
`"cancel"`, dropped futures; `"lag"`, a chip whose ACK lags behind CS by more than 5 ms. To the
host `"high"` and `"lag"` look the same.

### TcpSend

A byte is its position in the buffer. `Write` and `WriteOk` are the caller's `write_all` around
`write`; `NextChunk`, `SendAnswered`, `SendFailed`, `SendRefused` are the two loops of lines
810-831; `CheckSent`, `CheckAgain`, `CheckFailed` are `check_data_sent` and line 833. `total`
saturates at `TotalMax` (65535 in the code). With `PartialAccept` the chip may take a part of a
chunk, which the code's `written > 0` accepts.

### SocketRead

One task per socket and one mutex. `Lock`, the outcome of `tcp_recv`, the outcome of `tcp_state`
and `Wake` are separate steps, so that `Arrive` and `Close` of the peers and the other tasks come
in between. `ByteStream` is what a reader is promised, without chip, mutex and polling, for each
socket by itself; `SocketRead` implements it with the mapping of `Stream`. `StateSeesData` tells whether the chip reports a close-side state only once it has
handed out its bytes; nina-fw is not part of the repository, so both are examined (section 3).

### NinaStack

A step is one exchange. A task is in an operation (`op`) at a place of it (`pc`), with the socket
it has or is opening (`sock`). `table` is the chip's slot table: whom a slot was opened for and
what its connection does.

| code | action |
|---|---|
| `connect`, `tcp_connect`, `connect_hostname`, `get_host_by_name`, read or write | `Connect`, `Resolve`, `Use`, then `Lock` |
| `dns_lookup` (669-697) | `Requested`, `RequestRefused`, `RequestFails`; `NotResolved`, `Resolved`, `PollFails`, `ResolveTimeout` |
| `tcp_open_socket` (703-711) | `Opened`, `NoneFree`, `OpenFails` |
| `tcp_start_client`, `..._hostname` (715-761) | `Started`, `StartFails` |
| the loop over `tcp_state` (`nal.rs` 122-131, 246-255; 1011-1029) | `Established`, `NotYet`, `StateFails`, `GiveUp` |
| `tcp_close` (986-999), after the loop or by `NinaTcpSocket::close` | `Closed`, `CloseFails` |
| what read and write do to the slot (`nal.rs` 172-191, 204-208) | `UseOk`, `UseEof`, `UseFails` |
| a socket is dropped; a future is, while it waits for the mutex or a timer | `Drop`, `Cancel` |

`tcp_connect` borrows the chip for the life of its socket; its caller keeps the guard of the
mutex meanwhile (`Borrowed`). The network and the resolver are the environment: `Accepted`,
`Refused`, `Gone`, `Lookup`. An address is the name it belongs to, and a chip that answers one
request with the result of another would give the wrong one.

Every action ending in `Fails` stands for an error of the exchange and for a future dropped in the
middle of it, after the request took effect on the chip or before. `read` and `write` borrow the
`NinaSocket`, which therefore outlives their errors: after Ok(0), an error or a dropped call the
task keeps it and is in `doubt`, for the chip may have freed the slot. `Ask` is GET_CLIENT_STATE:
it frees the slot asked for for sure when the connection is gone, and possibly while there is none
yet, since the comments speak of every slot that is not connected.

Three constants say what the repository leaves open. `LateAnswers`: a lookup given up may still
answer. `PoisonsOthers`: GET_CLIENT_STATE frees the other slots that are not connected too, as the
comment at 994-996 says (those at 311-315 and 766-771 speak of the slot asked for). `UsesDoubtful`:
callers go on with a socket in doubt.

### WifiConnect

`round` counts the loops of `init` (three disconnects) and `connect` (five rounds). `Flush`,
`Join`, `Leave` and `Connected`/`NotConnected` are the exchanges with their effect on the radio;
the actions ending in `Fails` have the effect or lose it, and the code goes on in the same way,
because it discards those results. The clock is a flag: `Deadline` may come at any time, and
`Poll` and `GiveUp` look at it between two polls, as line 205 does. `stuck` is the state the
comment at 105-110 describes: requests are acked and nothing comes of them until a disconnect.
`InitFails` are the returns of `init` by Error::Pin ahead of its disconnects. `reached`, `missed`
and `met` exist only in the model, for the properties.

### UdpSend

The chip has one packet under construction per socket: destination and bytes. `Begin`, `Write`
and `End` are the three exchanges, each also refused, failed or dropped, before or after its
effect. `udp_send` takes `&mut self` and keeps the chip from the first to the last; a task in
`Steppers` calls the three methods itself and has the chip for one exchange at a time.

Operators whose name continues an action's with an underscore and whose comment says "Faulty
variant" are not part of any specification. Each is the action with a plausible mistake, and shows
that the property it is meant for can fail.

## 3. Runs

`tlc -config X.cfg M` for each row; `stack` and `udp` take about a minute, the others seconds.
Deadlock is not checked: callers may stop calling at any time, and the bounds on calls end every
behaviour.

| cfg | module | checks | instance |
|---|---|---|---|
| `link_faults` | MCNinaLink | TypeOK, ReplyMatchesRequest, ImplementsRpc | 2 commands, 2 shapes, pin errors (not of `wait_for_high`) + bus errors + dropped futures, 5 calls |
| `link_phase` | MCNinaLink | WindowsInPhase, CsIdleHigh | 12 commands, 9 shapes, no host faults, 6 calls |
| `link_returns` | MCNinaLink | CsIdleHigh, AckComesBack, OperationsReturn | 2 commands, bus errors + lagging ACK + errors of `wait_for_high`, 5 calls, fair |
| `frames` | FrameReader | TypeOK, OkIsFrame, ReadsBounded, IterComplete, AddressesRead, AckIsHeard | bytes 0..4, framing bytes among them, buffers of 0, 1, 5, 9 |
| `wifi` | WifiConnect | TypeOK, OkMeansJoined, Unstuck, NoLateJoin, CallsReturn | the code's 3 disconnects and 5 rounds, 2 networks, 4 failures, 1 restart, fair |
| `stack` | NinaStack | TypeOK, StreamsSeparate, OneSlotPerMishap, AddressOfName, CallsReturn, OperationsAdvance | 2 tasks, 2 slots, 2 names, 1 mishap, 1 to 2 polls, no use of sockets in doubt, only the slot asked for is freed, fair |
| `send_whole` | TcpSend | TypeOK, StreamIntact, OkMeansAll, WriteAllEnds | the code's constants (64, 5, 20, 65535), 200 bytes |
| `send_partial` | TcpSend | NeverOverReports, WriteAllEnds, LoopsAdvance | partial acks, 6 bytes, chunks of 2, total capped at 3 |
| `read_shared` | SocketRead | TypeOK, EofMeansEnd, ReadReturns, ImplementsStream | 2 tasks, 3 bytes, buffer of 2, one failure each, fair |
| `udp` | MCUdpSend | TypeOK, DatagramWhole, SentAsReported | 2 tasks with `udp_send` on one socket, 1 that steps on its own, 2 packets each, 2 mishaps |

Bounds. Five calls are enough for a call that fails or is dropped, its effect on the next one, a
reset (which takes three disconnects) and a call after it. Two polls stand for the 1000 of
START_TIMEOUT_ITERS: the loop does the same every time and only its end matters; the proofs hold
for every number. Two commands give replies with the same and with another opcode; `link_phase`
has a command for every receive function and payload check and a shape for every branch of each,
with `udp_write(247)` and `udp_write(253)` on the two sides of the 256-byte frame. In `send_whole`
200 bytes are three full chunks and a short one. In `read_shared` three bytes against a buffer of
two give a read that drains the chip and one that does not.

In `frames` five byte values hold the four framing bytes, so that every length and the bytes of a
payload can be mistaken for framing; a buffer of 9 takes three addresses of `AddrLen` 2, one of 5
an address and a port (and a 16-bit length above it), and 0 and 1 are the edges. In `stack` two
slots for two tasks make the table run full after one leak, and one mishap is what
OneSlotPerMishap compares with; the loops of 40, 80 and 40 polls become 1 and 2, with
different ends for `connect` and `connect_hostname`. In `wifi` four failures can swallow every
disconnect of `init` and one of a round. In `udp` two mishaps are an error that leaves bytes and
another that hits the packet after it.

Fairness. `NinaLink!FairSpec` has the executor poll a future that can go on (weak fairness of the
host's steps taken together, faults and calls excluded) and the firmware finish what it began
(ACK to busy; command to reply, reply to next command). Nothing makes a caller call. A chip that
hangs with ACK HIGH hangs the operation for ever, since `wait_for_low` has no timeout: that is
outside of what OperationsReturn promises. AckComesBack is the part of it that needs no fairness:
the wait is only entered when the firmware has something left to do that lowers the pin. `TcpSend!FairSpec` is weak fairness of the next step,
by OperationsReturn. `SocketRead!FairSpec` has strong fairness for taking the mutex: embassy-sync's
mutex keeps no queue, and what lets a task in is that the others leave the mutex free for 50 ms
or do not read; peers send finitely many bytes in the model. A task that reads a stream which
never pauses, without ever waiting, is not covered.

### Where code and documentation differ

In two places a comment says one thing and TLC shows that the code does another.

| cfg | property | shows |
|---|---|---|
| `link_cancel` | CsIdleHigh | a dropped future leaves CS LOW ("idle HIGH", line 61), and the next operation makes no edge |
| `send_long` | OkMeansAll | the u16 total saturates: Ok(65535) for more than 65535 bytes (800-801, 833) |

Other values of the constants of the passing runs show what their properties lean on:

* `read_shared` with `StateSeesData = FALSE`: EofMeansEnd fails. Bytes and the peer's close arrive
  between `tcp_recv` and `tcp_state` (`nal.rs` 179, 185), and Ok(0) is returned with bytes in the
  chip. It takes a chip that reports CloseWait before its bytes are read.
* `read_shared` with `Out = 0`: ReadReturns fails. An empty buffer asks for 0 bytes, gets 0, and
  the loop goes on, although `tcp.rs` 75 promises to block only until a byte is available.
* `link_faults` with `"high"` or `"lag"` added to `Faults`: ReplyMatchesRequest fails, and with it
  ImplementsRpc. `error.rs` 5-6 says that pin errors become `Error::Pin`, but one of `wait_for_high`
  is dropped with the result of `select` (1105-1109, 1187-1191, 1209-1213, 1312-1316, 1335-1339), as
  the end of the 5 ms is. The command window is over before the chip has raised ACK,
  `wait_for_low` sees the level from before it, and the reply window opens on a chip at work, although
  line 1308 waits for it "to finish processing the request". It ends in Timeout, and the next request
  with the same opcode reads the reply left behind as its own Ok.
* `stack` with `UsesDoubtful = TRUE`, and no mishap: StreamsSeparate fails. A peer hangs up, `read`
  asks for the state, which frees the slot, and returns Ok(0); the `NinaSocket` keeps its number
  (`nal.rs` 137-146, 185-187). Another task's connect is given the slot. Whoever then writes on the
  socket, as half-closed TCP allows, writes on that connection. The comment at 769-770 calls
  `tcp_state` safe on a client socket. An error of `tcp_state` and a read dropped in the middle of it
  leave the same socket behind.
* `stack` with `PoisonsOthers = TRUE`, and no mishap: StreamsSeparate fails. The comment at 994-996
  says that GET_CLIENT_STATE frees the other slots that are not connected, "so the only safe thing is
  a fixed wait"; `connect`, `connect_hostname`, `tcp_connect` and `read` poll it all the same. A peer
  hangs up, a poll of another task's connect frees the slot and its next connect opens it again, under
  a socket that has seen neither an error nor Ok(0). With either constant, or both, OneSlotPerMishap
  still holds, as is proved.
* `wifi` without the exception for a call none of whose requests reached the chip (`reached`):
  OkMeansJoined fails, an association from before passes for the one asked for.
* `stack` with `LateAnswers = TRUE`: AddressOfName fails, a lookup that timed out answers the next.
* `udp` without the exception for refused packets (`Astray`): DatagramWhole fails.
  `tcp_start_client` accepts a reply without parameters, the firmware's failure (728-734), so
  that `udp_send` goes on and its bytes go to the destination of the packet before. The same
  happens to two tasks that build packets on one socket step by step (`SocketsAssumption`).

## 4. Proofs

All obligations are discharged by SMT, Zenon and LS4. The constants' assumptions are those stated
in the modules (types, positive bounds) and what each theorem names.

* `NinaLinkProofs!TypeCorrect`: `[]TypeOK`, inductive as it stands given that `Header`,
  `Decode` and `Received` yield members of their ranges (lemmas of the same module).
* `NinaPairingProofs!PairingInvariant`, `AnswersMatch`, `LinkImplementsRpc`: with bus errors, errors
  of the other pin operations, dropped futures and resets, but neither with a lagging ACK nor with
  an error of `wait_for_high` (`"lag" \notin Faults`, `"high" \notin Faults`; with either the
  statements are false, section 3), an Ok is the answer to its request and the layer implements
  `NinaRpc`. ReplyMatchesRequest says nothing of a run in
  progress, so it needs a strengthening in three parts: `WindowInv` (a chip that serves a window
  was armed for it, and holds something only when its phase says so), `HandshakeInv` (what the
  pins say of the position of the host; a busy chip keeps ACK HIGH, so that no window opens over
  a command in progress) and `RequestInv` (of which request the frame in the window, in the chip
  or in `got` can be at each position: older than the current one until it is sent, exactly it
  while the host waits for the answer). The opcode check is not used: the handshake alone keeps
  answers and requests paired, as long as ACK goes up within 5 ms and the wait for it is not cut
  short.
* `NinaLinkProofs!CsIdlesHigh`: without pin errors and dropped futures CS is HIGH between
  operations, bus errors and lag included (`CsInv` adds the positions between two windows).
  `AckWaitsEnd` (AckComesBack), under the same assumptions: `ServesInv` says what keeps ACK HIGH (a
  window, a command in progress, a reply not yet cleared away), `OffInv` that the chip is off or
  boots only while `init` waits for it.
  `InPhase`: without host faults, and if every call is `Intact` (no parameter of 256 bytes or
  more under `send_cmd`), every window meets the matching phase. `PhaseInv` gives chip, pins and
  window for each position of the host.
* `TcpSendProofs!SendTypeCorrect`, `ReportsAreCovered` (by `ReportInv`, for every chip),
  `StreamIsIntact` and `OkIsAll` (by `WholeInv`, for a chip that takes chunks whole and
  `N <= TotalMax`). Both are needed: `send_long` shows the second, and with a chunk acked in part
  line 825 goes on with the next chunk and leaves a gap in the stream. `SendAdvances`
  (LoopsAdvance), for every chip: the tuple of call, chunk, exchange, attempt and poll grows
  lexicographically with every step. `CountedInv` says that a call has something to write and that
  only a positive answer leads to `check_data_sent`, so that no call returns Ok(0); TypeOK bounds
  the entries.
* `FrameReaderProofs`, for every alphabet, buffer and sequence of bytes: `WritesStayInside`
  (TypeOK), `OkIsOneFrame` (OkIsFrame), `AcksAreHeard` (AckIsHeard), `IterYieldsAll`
  (IterComplete). `Frame` says for each position how `heard` splits into header, what the buffer
  holds, and the rest; `Zeros` that bytes not yet written are zero under `one`; `Walk` that there
  are marks in the buffer, one per parameter announced, each pointing at a length byte and the
  next one that length further on, which the iterator then follows. Its last part, `Cut`, says
  that what the iterator has yielded lies between the marks; from it `AddressesAreParameters`
  (AddressesRead): whatever the lengths are, the readers at fixed places find an address exactly
  where the iterator finds a parameter of that length. `ReadsAreBounded` (ReadsBounded) by
  `Clocked`: every byte heard is one of the framing or has its place in the buffer.
* `WifiConnectProofs`: `WifiTypes`, `OkIsJoined` (OkMeansJoined), `RetriesUnstick` (Unstuck),
  `TimeoutIsFinal` (NoLateJoin), for any numbers of rounds, failures and restarts. `RadioInv`
  adds what holds at the awaits inside a call: once a request has reached the chip the radio is
  on, or joining, nothing but the network asked for, and a stuck radio has missed a disconnect for
  each round that is over; `Counts` ties the loop counters to the operation.
* `NinaStackProofs`, for any number of tasks and slots: `StackTypes`; `SlotsAreBounded`
  (OneSlotPerMishap), without any condition: no step adds more than one slot to `Leaked`, and one
  that adds one is a mishap; `AddressesMatch`, if a request ends the lookup before it.
  `StreamsAreSeparate` holds under two conditions, `~PoisonsOthers` and `~UsesDoubtful`. The code
  ensures neither: the first is about the firmware and contradicts the comment at 994-996, the
  second is a rule for callers that no type or doc enforces. Section 3 shows that
  each is needed. What the theorem adds is that nothing else is: neither the polls of
  `connect` that free the slot it then closes, nor errors, dropped futures and timeouts anywhere,
  let two sockets meet. `StackInv` strengthens it: a task in an operation has the mutex (`Holds`),
  an operation has a socket or not, depending on its place (`Locals`), a slot is owned if and only
  if it is used (`OwnedIffUsed`), the slot of a new socket, or of a shared one in use, has not been
  freed (`Kept`), a socket that is not in doubt has its slot, or the slot is free while its task
  holds the mutex (`Owns`). A slot freed under a connecting task is safe only because the mutex is
  held to the end of `tcp_close`.
  `OperationsGoForward` (OperationsAdvance) needs no assumption: each step of a task goes to an
  exchange of higher `Rank` or to a later poll, with the mutex from the first to the last
  (`Holds`); what is left to liveness is that the steps are taken.
* `SocketReadProofs`: `ReadTypes`, `RoundsExclude` (the mutex covers both exchanges of a round),
  and `EofIsTheEnd` (EofMeansEnd) under `StateSeesData`, by `Balance`: what was given and what was
  lost is what the chip handed out. `ReadersHaveStreams` (ImplementsStream), under the same
  assumption, is the refinement of `ByteStream`, action by action: an answer with bytes is `Give`,
  a failed exchange `Skip`, a closed state `Tell`, and what concerns the mutex stutters. `Asking`
  says that a call in progress has no result yet. It is stronger than EofMeansEnd: no byte comes
  twice, out of order or from another socket, and none is skipped but by an error.
* `UdpSendProofs`, for any tasks, sockets, packets and pieces: `UdpTypes`, `DatagramsAreWhole`
  (DatagramWhole), `ResultsTellWhatWasSent` (SentAsReported). `Mine` says that past its
  `udp_begin_packet` a task's socket holds exactly the pieces it has written, addressed by it, or
  carries one of them if the beginning was refused; it survives the steps of others because two
  tasks in the middle of a packet that may both talk to the chip have sockets of their own
  (`Alone`, from `SocketsAssumption` and the mutex). `AirWhole` adds that the call of a packet on
  the air is over, so that no later exchange can send it a second time.

Only model-checked: OperationsReturn, WriteAllEnds, ReadReturns and both CallsReturn, since
liveness under fairness is out of the prover's reach, and so is ENABLED. Their safety core is
proved where it is not trivial: LoopsAdvance for WriteAllEnds, OperationsAdvance for CallsReturn of
`NinaStack`, AckComesBack for OperationsReturn. Every invariant and action property of the passing
runs is stated by a theorem.
`NinaFrame!Packed` is a recursive function; what it computes for every sequence would need an
induction with an operator parameter, which the installed provers cannot instantiate, so the
proofs use no more of it than its type, or nothing. No module declares a RECURSIVE operator.

## 5. Not modelled, and what is left

* `tcp_listen` and `tcp_accept` are exchanges of `NinaOps`, but the slots an accept hands out have
  no module: when the firmware creates and frees them, and what a `tcp_state` does to one during
  the handshake (305-316), is told in comments only and differs between them.
* The frames that are sent are lengths, limits and opcodes (`NinaFrame`), not bytes.
* Decode tables (`from_u8`), the mapping of errors to `ErrorKind` and `Display`: total functions
  without state. `NoPin`: its operations do nothing. The example is a board's demonstration.
* Times in milliseconds: only their order and outcome count. The deadline of `wait_for_connected`
  is a flag, the waits between polls are steps.
* The firmware beyond what the driver relies on.

To be done: a module for accepted sockets once the firmware's rules are documented, and an
abstract datagram service for `UdpSend` to implement.

Two disagreements need no run. `proto.rs` 22-23 says that the commands with DATA_FLAG carry 16-bit
lengths, while the GPIO opcodes 0x50-0x54 have the bit and are sent with 8-bit ones (lines
526-603); `NinaOps` has what the code does. The comment of `NinaSocket` (`nal.rs` 137-139) says
the mutex is released between awaits; it is held for both exchanges of a round and for a whole
`tcp_send`.
