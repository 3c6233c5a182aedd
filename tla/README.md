# A formal model of the SAS test framework

The repository is the automated test framework of the SAS screw-fastening
controller: pytest suites that drive a backend (C++, on a Raspberry Pi, not part
of the repository) over WebSocket, over the PFOP TCP protocol and over SSH. What
can go wrong in it is not in the assertions of the tests but beneath them: in how
messages are matched to requests, how pushes are awaited, how the database is put
back between tests. A fault there makes a test fail without cause or, worse, pass
without having tested anything. That layer is what is modelled here, in TLA+,
checked with TLC on small instances and, where it matters most, proved with TLAPS
for every value of the constants.

## 1. The system

| Component | State | Operations | Interacts with |
|---|---|---|---|
| WebSocket client `lib/ws_client.py` | the socket, the receive task, one `asyncio.Queue` per registered response type, the accumulator | `connect`, `disconnect`, `send`, `request`, `request_any`, `wait_for`, `burst_same_response`, `wait_for_condition`, some fifteen convenience calls; `_recv_loop` in the background | backend (frames), accumulator (`push`), the test coroutine |
| Event accumulator `lib/event_accumulator.py` | a list of messages, one `asyncio.Event` | `push`, `clear`, `get_all`, `wait_for_event`, `assert_*` | the receive loop pushes, any number of coroutines wait |
| Work-mode helpers `work_mode/*.py` | a cursor into the accumulator, `send_ts` | `_switch_and_wait`, `_wait_work_mode_after`, `_wait_status_after`, the debounce test | client, accumulator; backend: database, debounce timer, state context, status pushes |
| Verification script `_verify_workmode_sync.py` | a connection of its own without receive loop | `_recv_until`, `check_mode` | the same backend |
| Isolation `lib/db_isolation.py`, `lib/ssh_utils.py`, fixtures in `conftest.py` | the database file, its copy, the service | `snapshot`, `restore`, `use_clean_db`, stop/start/restart/kill, `wait_until_ready` | systemd and the backend's database writer, through SSH |
| PFOP client `lib/pfop_client.py` | a TCP socket, the buffer of one `recv_frame` | `connect`, `send_mid`, `recv_frame`, `close`; parsers of id lists | PFOP server |
| PFOP fixture `pfop/conftest.py` | the configuration read first, `changed`, a WebSocket connection | login, query, enable, check; restore, disconnect | WebSocket client, the tests of a module, the backend's configuration |
| Round-trip tests `spec128/test_screw_mcu_verify.py`, `spec128/test_power_loss.py`, with `lib/mcu_verifier.py` | the value saved, the slot, the image | activate, save, query the row, dump, download, parse, compare, deactivate; kill and read again | client, remote control; backend: memory, database, slot table, MCU |
| Data factories, assertions `lib/helpers.py` | none | payloads of specifications and modules, comparison of snapshots | tests |
| Measurements `lib/performance.py`, `system/monitor_curve_samples.py` | records; counters of one pass over a curve or a stream of frames | `record`, `compare_with_baseline`, `analyze`, `run_ws` | a baseline file, the backend |
| Login fixtures, CRUD / machine-type / peripheral / network / system suites | none of their own; the backend's | sequences of requests with assertions | client |
| `lib/log_collector.py`, the other scripts | - | read-only | - |

What makes each correct, and is hard to test:

* **Client.** Messages are matched by type alone; a queue is created by the first
  call that names its type and lives as long as the client; the accumulator is
  never emptied by the client. Correct means: a queue neither reorders, repeats
  nor loses (but for what `request_any` throws away); an answer goes to its own
  request whenever types allow telling; a type is routed to one place for good;
  every call ends.
* **Accumulator.** All waiters share one Event and each clears it. Correct means
  that nobody sleeps while its event is in the list.
* **Work mode.** A push made before the switch may arrive after it was sent, and a
  push made after the ack may still precede the debounced refresh. Correct means:
  a switch that passes did switch.
* **Isolation.** A backend that still holds an acknowledged write may store it over
  the restored file; commands fail, runs are killed. Correct means: a restore that
  returned has restored, and the backend comes back.
* **PFOP.** TCP cuts frames anywhere. Correct means: what is returned is one whole
  answer, the one to the request just made. Around the tests the protocol is
  switched on and back: correct means that the tests never run without it and that
  module after module leaves it as the first one found it.
* **Round trips.** A save is acknowledged before it is stored or written to the
  MCU, slots move, every dump overwrites the same file, and each step may fail.
  Correct means: a pass rests on what it says, and no way out of a test leaves its
  specification active.
* **Factories and measurements.** A negative test is worth something only if its
  payload breaks the one rule it is named for. Correct means: exactly that rule;
  windows in order after rounding; declared counts that are true; packets, jumps
  and degradations that are there.

## 2. The modules

| Module | Models | State and actions against the code |
|---|---|---|
| `WSClient` | `lib/ws_client.py` with its connection | `ws`, `sock`, `loop` are `_ws`, the socket and `_recv_task`; `registered`/`pending` are the keys and values of `_pending_responses`; `events` is the accumulator's list. `Dispatch` is one turn of `_recv_loop` including the `put` or `push` it makes; `Start`, `Send`, then `Get` / `TaskGet`+`AnyReturn` / `PollReturns` or `Timeout` / `PollTimesOut` / `SendFails` are a call, cut where it awaits. `Reply`, `Push`, `ServerCloses` are the backend |
| `Mailbox` | what the client promises | mailboxes and a board; `Deliver`, `Open`, `Take`, `GiveUp`, `Look`. `WSClient!Box` maps the client to it: a message a finished get-task holds still heads its mailbox |
| `EventAccumulator` | `lib/event_accumulator.py` | `flag` is the Event; a waiter is `idle`, at its `scan`, `parked` in `Event.wait()` or `woken`; `Park` is the scan, the `clear()` and the wait, with no await in between; an event's `id` is its place in the order of the pushes |
| `WorkModeBackend` | the backend as the work-mode tests rely on it (external) | `db`, `ctx` (the state context), the debounce `timer`, FIFO requests and frames |
| `WorkModeSwitch` | switch helpers and debounce test, over `WorkModeBackend` | `Begin` takes `send_ts`; `TakeAck` ends with the cursor being set (`BeginWait`), as the helper's first statement after the ack; `Accept` / `Skip` are one scan each; `Deadline` ends the loop after its sleep |
| `WorkModeVerify` | `_verify_workmode_sync.py`, over `WorkModeBackend` | one action per wait of `check_mode`; `Discard` is a frame `_recv_until` skips |
| `DbIsolation` | isolation, remote control, fixtures | `pc` walks a test through set-up, body and tear-down; every SSH command is a step, so that the backend's own steps (`Store`, `Ready`), SSH errors and the death of the run fall between them. `StopBackend`, `StartBackend`, `RestartBackend`, `KillBackend` and `Copy` are the methods of `RemoteBackend`, none of whose exit codes is looked at: each command may fail, and `missed` collects those that did |
| `PFOPClient` | `lib/pfop_client.py` | `wire` is a stream of bytes, `Recv(n)` takes any first part of it; `Cut` is `buf[:end + 1]`; `Fail` is the timeout of `recv` and the end of the stream |
| `PFOPSession` | `pfop_env` of `pfop/conftest.py`, around `PFOPClient` | `step` is the request the fixture is at; `Login`, `Query`, `Enable`, `Check`, `Restore` are its requests with success, `Refused` the skips, `Raises` and `RestoreFails` the exceptions, after which the backend may have done what was asked (`MayBe`); `original` is what the configuration read first says of `enableProtocol`, if anything, and `PutsBack` what sending it back does; `TestStep` is a step of `PFOPClient` while the fixture is suspended |
| `SpecRoundTrip` | the tests that look for a saved specification in the database, in the MCU or after `kill -9`, with `query_db`, `dump_mcu_to_bin`, `download_mcu_bin` and `McuVerifier` | `Steps(kind)` is the order of the statements of a test, `Try` where its `try` begins: `Raise` goes to the `finally` from inside and leaves the test from outside; `Killed` ends the run without either. `Kill` and `Start` may fail unnoticed. `mem`, `db`, `mcu`, `slot` are the backend's; `bin` and `file` the image on the remote host and its local copy; `Padded` is the filling of the constructor |
| `SpecFactory` | `lib/helpers.py` and the payloads of `test_param_relations_and_safety_zero.py` | operators: `Default`, `WithSteps`, `ComplexFull`, `RandomSpec`, `Manual`, `TorqueArm`, `SnapshotEqual`; `RuleHolds` is what the tests expect of the backend, rule by rule |
| `Measurements` | `lib/performance.py`, `system/monitor_curve_samples.py` | operators: `Record`, `Compare`; `Packets`, `Gaps`; `Statistics`. A loop is a function of the number of elements read. `SamePacket` leaves open on which side of the limit a difference of exactly 3 ms comes out, which the code computes in doubles |
| `IdLists` | the parsers of `pfop/test_pfop_pset.py`, `pfop/test_pfop_job.py` | `ParseIds`, with the width of a field |
| `MCWSClient`, `MCEventAccumulator`, `MCWorkMode`, `MCAlgorithms` | instances for TLC | the calls; the plans, and either the suite or the script as the backend's user; the inputs of the operators |
| `...Proofs` | theorems | section 5 |

Data is reduced to what the properties tell apart: a message is its type, its
place in the backend's sending order and the request it answers; a database is the
number of the last write in it, or one value for each specification; a work mode
is one of two values; the configuration of the PFOP server is `enableProtocol`.
Some small operators are preceded by a faulty variant (`EnqueueInFront`,
`WakesOnlyOne`, `StopForgotten` ...): the change of the code each property is there
to notice. `PROJECT.json` pairs them. No specification uses them.

What is said of the backend, in all modules: it answers a request at most once and
in any order, or never; it pushes when it likes; frames of one connection arrive
in order; acknowledged writes are stored later, or when it is stopped in order,
and lost when it is killed. `PFOPSession` and `SpecRoundTrip` take a request and
its answer as one step, which may also fail with or without effect: what happens
between the two is the subject of `WSClient`.

## 3. What is checked

| Run | Properties | Bounds |
|---|---|---|
| `ws_requests` | `TypeOK`, `QueueInOrder`, `AnswersItsRequest`, `NothingDropped`, `RoutedOnce`, `ImplementsMailbox`, `CallsEnd`, `FramesHandled` | a one-type request, a two-type request, a burst of two, a queue wait and a poll over three types, one of them pushed, and frames that are no JSON; 2 calls, 3 requests, 3 frames, 2 connections |
| `ev_waiters` | `TypeOK`, `NoLostWakeup`, `EventNoticed` | 2 waiters of 2 calls each, 3 pushes, 1 clear, 2 types |
| `wm_modes` | `OneTypeOK`, `PassMeansSwitched`, `SwitchEnds`; `PassMeansInSync`, `FailMeansDefect` | the suite with 3 updates, as three single switches or one debounce test, or the script with 3 rounds; 3 pushes; the refresh may fail |
| `iso_restore` | `TypeOK`, `Restored`, `DownOnlyBetween`, `BackendReturns` | 3 tests, 2 writes, any command failing unnoticed, SSH errors and killed runs |
| `pfop_frames` | `AnswerIsWhole`, `FramesNeverMix`, `PutBack`, `SuiteRunsEnabled`, `ModulesEnd` | 2 modules, enabled or not at first, a configuration with `enableProtocol` or without; 3 requests, 1 unsolicited frame, 2 connections, frames of 3 and 5 bytes over a header of 2 |
| `spec_roundtrip` | `TypeOK`, `Tidy`, `PassMeansInMcu`, `PassMeansStored`, `TestsEnd` | 2 tests of six kinds, 2 values, 2 slots, 2 moves of the slot; commands that raise or fail unnoticed, killed runs |
| `lib_algorithms` | `TestsAreSharp`, `RandomIsSafe`, `ModulesFit`, `DegradationsAreTold`, `PacketsArePieces`, `NoJumpMeansNoRepeat`, `ListsParse` | the real limits of 8 steps and 16 points; the corners of what `random` draws; runs and baselines of up to 2 records; sequences of up to 4 points, frames or ids of 0, 7 and 99, cut off at every digit; time stamps in milliseconds (`PacketGap` is 3), with each gap of exactly 3 ms on either side |

Five further runs end with a counterexample; they are in section 4.

Why the bounds suffice. The interference the properties are about takes two or
three actors: an abandoned request, its late answer and the request that is given
it (the second connection shows what a reconnect keeps); two waiters, one of which
clears what woke the other; a switch, an old push and a new one; a test that leaves
a write behind, one that restores, one that follows; a module that changes a
configuration and one that takes what it finds for the original; a test that
leaves an image and one that might read it. More of the same adds no new kind of
interleaving, and the theorems of section 5 hold for all bounds. The loops of
`lib_algorithms` look at one element and its neighbour, so that four elements hold
every case of beginning, middle and end, and two records both a name that is
measured and one that is measured again.

Fairness. `CallsEnd`, `FramesHandled`, `SwitchEnds`, `EventNoticed`, `TestsEnd`,
`ModulesEnd` and `BackendReturns` assume only that asyncio runs tasks that are
ready and fires timers (`WF` of the caller's and the loop's steps), that pytest
goes on with a test or fixture, whose requests and waits have timeouts and whose
commands return or raise, that a socket timeout fires, and that a backend systemd
has started gets ready. Nothing is asked of the backend's answers or of the
network. `EventNoticed` assumes nothing of the timers either: an event must not
need its waiter's timeout to be noticed. `FairSession` gives weak fairness to the
fixture's steps, to the reading side of `recv_frame` and to the closing of a
socket, and none to sending or to the server. The backend in `BackendReturns` is
excused after an SSH error or a killed run (`aborted`), or if the last start of
the test failed unnoticed (`LeftDown`): the code then really leaves it down. A
command that hangs ends with the run, by the timeout of `pytest.ini`; that is
`Die` in `DbIsolation` and `Killed` in `SpecRoundTrip` and `PFOPSession`, which no
fairness is asked of.

Some properties are conditional, and the condition is part of what they say. A
switch is judged when it starts from the other mode with nothing of an earlier
switch in flight: a switch to the mode the backend is in already, as some tests
make, is passed by any push. An answer is judged when its type is neither pushed
nor still owed to an abandoned request. `Restored` rests on three commands whose
failure the code does not notice, the two copies and the stop between them;
`DownOnlyBetween` on the starts. Whatever else fails unnoticed is no excuse.
`PutBack` excepts what `pfop_env` does not make good (`spoiled`): a run killed, or
a request failed, after it had begun to change the configuration, and a
configuration that lacks `enableProtocol`, which counts as disabled, is enabled,
and sent back as it was. `Tidy` excepts a deactivation that failed, an answer lost
before the `try`, and a killed run, in which no `finally` is entered.
`PassMeansStored` excepts a kill that failed, and says that the value is in the
database, not that this test put it there: the save is not asserted and its value
is the same in every run. `AnswerIsWhole` is about connections on which nothing
was pushed, `PacketsArePieces` leaves a gap of exactly 3 ms to the rounding.

## 4. Where the code and its comments disagree

Each is a run that TLC ends with a counterexample.

* `ws_loop_dies`: "exits when the connection is closed or the task cancelled"
  (`ws_client.py:318`). A frame that is JSON but no object (the backend echoes
  what it is sent), or bytes that are not UTF-8, raises in the loop. From then on
  every call times out, and `disconnect` raises before it closes the socket.
* `ws_late_answer`: "request-response matching" (`ws_client.py:1`). After a timeout
  the late answer is given to the next request of the type.
* `ws_stale_params`: "visible to get_system_params at once"
  (`barcode/test_barcode_autobind.py:5`). The second call on a connection returns
  the response to the first, unless some call has registered `data_response`; then
  it returns nothing.
* `wm_debounce`: "the final state is that of the last message"
  (`test_work_mode_switch.py:404`). The test accepts any push of `module`, also one
  made before the backend has settled on the last update.
* `iso_next_test`: "isolation of the test environment" (`db_isolation.py:1`).
  `restore` does not wait until the backend it started accepts connections, as
  `use_clean_db` does; the next test is refused.

Seen while modelling, and visible in the models, without a run of their own:

* `request_any` returns an arbitrary one of two answers that are both there and
  loses the other; `get_work_mode_from_status` returns the first push of the
  connection's life; `_wait_status_after` skips the pushes between `send_ts` and the
  ack; in the debounce test the acks that arrive before the first `wait_for` are in
  the accumulator, so that the wait for them runs into its timeout.
* No exit code of `systemctl stop`, `start`, `restart`, `kill`, `cp` or `rm` is
  looked at (`ssh_utils.py:49-67`, `:106-116`, `db_isolation.py:33`). Without the
  word `missed`, `Restored` is violated by a stop or a copy that fails, and without
  `LeftDown`, `DownOnlyBetween` and `BackendReturns` by a start that does. A
  `systemctl kill` that fails lets the power-loss test pass on what the surviving
  process serves from memory: without `clean`, `PassMeansStored` is violated. The
  snapshot is per test, not per suite.
* `pfop_env` promises to "restore when done" (`pfop/conftest.py:21`), but has no
  `try`: a second query that raises (`:54`) leaves the protocol enabled, and a
  restore that is refused, or raises, is not noticed (`:69`); if the configuration
  read first has no `enableProtocol`, the protocol is enabled (`:42`) and the
  restore does not mention it. Without the word `~spoiled`, `PutBack` is violated.
* `McuVerifier` promises `ValueError` for a file that is too small
  (`lib/mcu_verifier.py:57`) and fills it up with zeros instead (`:69`). The tests
  save values other than zero, so that a pass is still sound.
* `test_power_loss` compares with a name that is the same in every run and does
  not assert its save: it passes on what an earlier run stored.
* `analyze` guards the coverage against a curve of no duration and divides by the
  duration on the next line (`monitor_curve_samples.py:38`, `:39`); `run_ws` takes
  the first index of a frame that may have none (`:85`); `compare_with_baseline`
  divides by a baseline that may be zero (`lib/performance.py:59`). A gap of exactly
  3 ms between two stamps is a gap or not, as doubles have it (`:30`).
* `with_steps` clamps the count, so the test that asks for one step too many sends
  a legal payload; `random` draws references, flags and conditions that break rules.
* `ws_pair` does not disconnect its first client when the second login fails
  (`spec128/conftest.py:34`).

## 5. What is proved

All theorems hold for every value of the constants that satisfies the named
assumption of the module (`ConstantsAssumption`, `LimitsAssumption`,
`RoundTripAssumption` ...: sets where sets are meant, bounds that are naturals, a
call's types are message types). Nothing else is assumed of the bounds, so the
theorems are about runs of any length, but for two theorems of `AlgorithmProofs`
that say so in their statements. Every safety property of a passing run is a
theorem.

* `WSClientProofs`. **TypeCorrect**. **QueuesInOrder**, `Spec => []QueueInOrder`, and
  **RoutingIsSticky**, `Spec => []RoutedOnce`: that a message put in a queue is newer
  than those in it needs the order of the whole way, so the invariant (`OrderInv`)
  adds that the ids on the wire ascend and lie above `seen`, and that everything in
  queues, held by get-tasks or recorded in `taken` and `regAt` lies at or below it.
  **ClientImplementsMailbox**, `Spec => ImplementsMailbox`: each step maps to a step of
  `Mailbox` or a stutter; `TaskInv` says that only `request_any` has get-tasks, with
  a message each at most, so that what it drops is the head of a mailbox.
  **AnswersMatch** and **NothingIsDropped**, `Spec => []AnswersItsRequest` and
  `Spec => []NothingDropped`: the strengthening `ClientInv` says that a request is
  answered at most once wherever the answer is (`OnceInv`), that whatever is in
  flight with a type nobody shares answers the running call (`OwnInv`), and that a
  call reads at least as many answers as it is owed or will ask for (`CountInv`, by
  cardinalities).
* `EventAccumulatorProofs`. **TypeCorrect**, with the order of arrival of the list.
  **WakeupsArrive**, `Spec =>
  []NoLostWakeup`, for any number of waiters. The strengthening is that a set flag
  leaves nobody parked: a waiter parks only after clearing it, and setting it wakes
  all. Then a push that finds the flag set has nobody to wake, and one that does not
  wakes everybody.
* `WorkModeVerifyProofs`. **TypeCorrect**. **VerdictIsSound**, `Spec =>
  [](PassMeansInSync /\ FailMeansDefect)`: the backend answers the one request of
  the step the script waits in; when the parameters are asked for, the timer has
  expired, so that the pushes behind the answer carry what the context holds.
* `WorkModeSwitchProofs`. **TypeCorrect**. **PassesHaveSwitched**, `Spec =>
  []PassMeansSwitched`: the invariant follows the one ack, from the request queue
  over the wire to its queue, and says of every push behind it that one carrying the
  new mode was made with the state context in it (`Fresh`); once the context has
  followed the database, the timer is off and nothing moves. For the composition
  `MCWorkMode`, whose backend serves the tests or the script, **EitherIsTyped**,
  **EitherSwitches**, **ScriptPassIsSound** and **ScriptFailIsSound**: its invariant
  (`EitherInv`) is that of the user that runs, and a step of either is one of its own
  specification that leaves the other alone.
* `DbIsolationProofs`. **TypeCorrect**. **RestoreRestores**, `Spec => []Restored`,
  whichever commands may fail. The invariant adds that from the snapshot to the end
  of restore the backup is the snapshot, if that copy did not fail, and that the
  backend is down with nothing to store while the file is replaced, if the stop did
  not; it is where the order stop, copy, start is needed. **TestsBringItBack**,
  `Spec => []DownOnlyBetween`: what of `BackendReturns` is safety, and can be proved.
* `PFOPClientProofs`. **FramesKeepApart** and **AnswersAreWhole** of `PFOPClient`, and
  **SessionFramesAreWhole**, the same inside the fixture with killed runs. The
  invariant is about the stream as a whole, what is buffered and what is on the way:
  bytes without a NUL between them belong to one frame and none is missing (`Runs`),
  the last frame is complete (`Ends`), and an exchange in which nothing is pushed
  has one answer under way at most. That the cut is at the first NUL uses the
  least-number principle. **ConfigurationIsPutBack**, `SessionSpec => []PutBack`: as
  long as nothing was spoiled, the protocol is as it was found until it is enabled,
  and from then on what was found is in `original`. **SuiteIsEnabled**, `SessionSpec
  => []SuiteRunsEnabled`, holds of spoiled configurations too.
* `SpecRoundTripProofs`. **TypeCorrect**. **TestsAreTidy**: from every place at which a
  test may end without its clean-up, its specification is inactive, whatever a
  killed run left before it, and a test whose first request was answered has a
  backend that stays up. **PassesAreInMcu**: from the
  dump on, `bin`, then `file`, say nothing but what the MCU held. **PassesAreStored**:
  after a kill that did not fail, what is served is what was stored.
* `AlgorithmProofs`, on the operators of `SpecFactory`, `Measurements` and `IdLists`
  for every input, and then on `MCAlgorithms`, whose behaviors pick the inputs.
  - Factories: **WithStepsIsLegal** (a legal payload for any count),
    **RandomWindowIsOrdered** and **RandomIsOrdered** (for any draw, roundings
    included), **EveryModuleFits**, **SnapshotsAreCompared** (behind the comparison of
    lengths, `zip` is equality). **NegativeTestsAreSharp**, `Spec => []TestsAreSharp`,
    if there may be 2 to 31 steps: two are sent by some of the tests, and from the
    32nd on the speed of the full complex payload leaves its window, so that it
    breaks a second rule. The code has 8.
  - **ListIsRead**: of every list that fits fields of 2, 3 or 4 digits, cut off
    anywhere, what is parsed is a beginning, and of a whole list all of it.
    **ListsAlwaysParse**, `Spec => []ListsParse`, for up to 99 ids below 100: the most
    that two digits can count and name.
  - **CurveIsCut**, **NoPointTwice**, **ComparisonTells**: the packets of any curve,
    however its differences of 3 ms are rounded, the points of any sequence of
    frames, any run against any baseline. **RandomIsAlwaysSafe**,
    **ModulesAlwaysFit**, **DegradationsAreAlwaysTold**, **PacketsAreAlwaysPieces** and
    **PointsAreNeverRepeated** conclude `Spec => []` of the property of the run.

The induction theorems of the library take an operator as a parameter, which the
installed provers cannot instantiate. `AlgorithmProofs` does without: its
**Induction** is about a *set* of numbers (from `WFMin`, every nonempty set has a
minimal element), and a property of numbers is turned into the set of those that
have it. A loop of the code is a recursive function, about which nothing is known
until it is known to exist: **LoopRuns** proves once that any step function has a run
of any length, and each loop (`NumberLoop`, `ScanLoop`, `CountLoop`, `CompareLoop`)
is shown to be one. On top of it each loop has an invariant: `Pieces` says where the packets so far
begin, `Exact` that every index counted is distinct and none above the last.

Only model-checked: liveness and fairness (`CallsEnd`, `FramesHandled`, `SwitchEnds`,
`EventNoticed`, `BackendReturns`, `ModulesEnd`, `TestsEnd`), which are out of the
prover's reach, like ENABLED; and the counterexamples of section 4.

## 6. What is not modelled

* `recv()` of the client (no test uses it beside the receive loop), time
  measurement, logging, the report hooks of `conftest.py`, the log collector.
* Parameters other than `WorkMode`, the statistics fields of a status push.
* `replace_database`, whose only test is a placeholder; the transfer of logs.
* In `lib/helpers.py`: `ModuleFactory.random`, which draws one of the point lists,
  `snapshot_spec_list`, which is one request, and names and descriptions. In
  `lib/mcu_verifier.py`: `slot_summary`, `all_active_slots`, and the layout of
  CONFIG_DATA, defined outside the repository; the clone test.
* `run_db` of `monitor_curve_samples.py`, the counts of `summary`, the fields of a
  PFOP header, `_verify_idle_workmode_switch.py` and `_check_torque_constraints.py`,
  which print what they see and decide nothing.
* The login fixtures, whose steps are those at the beginning of `pfop_env`, and
  `ws_pair`.
* The suites of single requests (CRUD, machine types, barcode, network,
  peripheral, torque arm, system, smoke): they add to the client only data and
  assertions about a backend that is not here. A model of it would be invented, not
  translated.
* A command that hangs, as such: what its end, by the timeout of `pytest.ini`,
  leaves behind is modelled (`Die`, `Killed`).
* A PFOP server that sends bytes without end and without NUL: the timeout is that
  of one `recv`, so `recv_frame` would stay in its loop.

`asyncio.wait_for` before Python 3.12 starts an inner task, which would open a gap
between `clear()` and the wait that `EventAccumulator` does not have; the recorded
run (`test_run_1.txt`) used 3.14.

## 7. Plan

1. Done: the client and its contract, accumulator, work-mode switching and
   verification, isolation, PFOP framing inside its fixture, round trips, factories,
   measurements and parsers; proofs of every safety property the runs check, and of
   the refinement.
2. Next, if the code grows that way: the clone test and `replace_database` once it is
   more than a placeholder; a `Session` shared by the login fixtures when they keep
   state.
3. Compositions left: `WorkModeSwitch` over the client's contract in place of its own
   queue and list; `SpecRoundTrip` within `DbIsolation`, for suites that combine both
   fixtures, which none does today.
4. Proofs left: liveness, should a prover for it become available.
