# Verification of the camera application and of BitBake

The repository is a Yocto board support package for the RZ/V2L. This directory holds TLA+ models of
the two programs in it that have concurrency of their own:

- **`app-usbcam-http`** (C++, `src/meta-mxt-rzv2l/recipes-app/app-usbcam-http/app-usbcam-http/src/`),
  the camera application of the board: it captures camera frames, runs neural networks on the DRP-AI
  accelerator and sends images and results over a web socket. The build defines `INFERENE_ON`,
  `SEND_INFERENCE_RESULT_ON`, `SEND_CAMERA_ON` and not `SEQUENCTCIAL`; the models follow it.
- **BitBake** (Python, `src/poky/bitbake/`), the build tool that makes the image and the largest
  program in the repository: processes that share a download directory and caches through lock
  files, and a run queue that decides which of thousands of tasks may run.

## Parts of the system

| Part | State | Operations | Interacts with |
|---|---|---|---|
| Frame pipeline (`recognize/recognize_base.cpp`) | `capture_enabled`, `wake_`, `capture_address`, `input_data`, running flags, thread ids | `capture_thread`, `inference_thread`, `end_all_threads` | camera, DRP-AI, web socket server |
| Camera (`camera/camera.cpp`) | descriptors, four mapped buffers, `buf_capture`, `inference_buf_capture` | start, `capture_image`, `capture_qbuf`, `inference_capture_qbuf`, close | V4L2 driver |
| DRP-AI access (`drp/drp_proc.cpp`) | descriptor | open, read the address map, load, start, wait, read, close | DRP-AI driver |
| Session (`recognize_start`, `recognize_end`, `recognize_proc.cpp`) | model, threads, camera and driver objects | start, end, switch model | all of the above |
| Process (`main.cpp`, `ws_server.cpp`, the systemd unit) | client socket, message thread, callbacks, `g_rc`, `blRunPredict`, `blRunThread` | accept, receive loop, `command_rsv`, `on_disconnect`, exit, restart | session, page |
| Lock files (`bb/utils.py` `lockfile`, `unlockfile`) | a file per lock, `flock` locks on it | take (shared or not, waiting or not), give back and remove | fetcher, caches, all processes |
| Cache of the parsers (`bb/cache.py` `MultiProcessCache`) | `cachedata`, `<file>`, `<file>-<n>` | `init_cache`, `save_extras`, `save_merge` | lock files, parser processes, server |
| Fetcher (`bb/fetch2`) | downloads, done stamps, mirrors | `download`, `unpack`, `clean` | lock files, servers, tasks |
| Run queue (`bb/runqueue.py` `RunQueueExecute`) | `runq_*`, `sq_*`, `scenequeue_*`, `tasks_covered`, `tasks_notcovered`, `holdoff_tasks`, stamps | `execute`, `task_*`, `sq_task_*`, `process_possible_migrations`, `finish` | workers, hash equivalence server, sstate |
| The rest | | | see *Not modelled* |

What is hard in the application: four threads share unlocked state; a frame is handed over through a
flag, a condition variable and three plain variables; buffers are owned by the driver or by two
threads in turn; every thread can end on an error of its own; sessions are ended with timed
joins that may leave threads behind; a lost client ends the process and systemd restarts it.

What is hard in BitBake: a lock is a file that its last holder removes, so processes can hold
locks on different files of one name; parsers are terminated at any statement; downloads fail,
bring wrong contents, or are killed between the file and its stamp; and the run queue runs tasks
and what may replace them side by side, while hashes change that decide which is which.

## Modules

| Module | What it is |
|---|---|
| `FramePipeline` | One session: capture thread, inference thread, V4L2 driver, `recognize_end` |
| `FrameHandoff` | What the hand-over promises: a place for one frame |
| `RecognizeSession` | The message thread's commands: end, switch, start, with every failure and the threads that stay |
| `AppLifecycle` | main, message thread, callbacks, clients, exit and restart |
| `ReadersWriterLock` | What `lockfile` promises: a lock that one holds or several share |
| `FileLock` | `lockfile` and `unlockfile` by system call |
| `MultiProcessCache` | The cache of the parsers, on top of `FileLock` |
| `Fetch` | `do_fetch`, `do_unpack`, `do_cleanall` on one download directory, on top of `FileLock` |
| `RunQueue` | `RunQueueExecute` from its constructor to the end of the build |
| `MC...` | Instances for TLC |
| `...Proofs` | Theorems about the module of that name |
| `RunQueueSceneProofs` | Those about the setscene side of `RunQueue`, on top of `RunQueueProofs` |

`MultiProcessCache` and `Fetch` extend `FileLock` and compose its actions with theirs: an action
that calls `lockfile()` contains `Lockfile(h, c)`, and the steps of the lock go on by themselves
(`LockProgress`) until the caller sees `at[h] = "in"`, or `"out"` when a lock without retry is refused.

### FramePipeline

One action per statement that reads or writes shared state; statements that touch only locals
are merged with their neighbours. `capPc`, `infPc` and `stopPc` are the places in
`capture_thread`, `inference_thread` and in `recognize_end` on the message thread. The other
variables carry the names they have in the code. Addresses, image pointers and V4L2 indices
are all represented by the buffer they denote; `NoBuf` is the address 0 of a failed
`capture_image`. `sent_result` is the last result message: the buffer that was inferred and the
buffer whose image goes with it.

The V4L2 driver is external: `drv` is its queue in the order of `VIDIOC_QBUF`, the first
`filled` entries hold frames. `VIDIOC_QBUF` refuses a queued buffer, `VIDIOC_STREAMOFF` empties
the queue and ends a blocked `select`.

Faults are constants: `CameraMayFail` (any camera ioctl), `DrpMayFail` (start, wait, status or
read of the DRP-AI, including its 5 s timeout), `JoinMayTimeout` (the 20 s joins), `MayStop`.

Left out: the framerate thread and its join, the sending of application messages, the time a
send may block, exceptions thrown by a send (they end the process), the unmapping of buffers
under a thread that outlived its join. Exceptions belong to `AppLifecycle`, the last to
`RecognizeSession`.

`Running` names the states where the hand-over is meant to work: `recognize_end` has not begun
and the capture thread has met no error. Outside it the code gives up the guarantees: a stop
sets `capture_enabled` under a running inference, and a capture thread that ends wakes the
inference thread without a frame.

### FrameHandoff

A place for one frame: open, offered, taken, answered, returned. The result published is about
the frame, and the camera's writable set never holds it. `FramePipeline` implements it with
the mapping next to `slot`, for sessions without stop and camera errors.

### RecognizeSession

`FramePipeline` is the inside of one session; `RecognizeSession` is the sequence of them. `pc` is
the place of the message thread in `command_rsv` or `on_disconnect`: `Receive`, the steps of
`recognize_end` (`LowerFlags`, `Join` of each thread, `CloseCamera`, `DrpClose`), `SwitchModel`, the
steps of `recognize_start` (`StartCamera`, `ReadAddrmap`, `DrpOpen`, `LoadDrpaiData`, `Spawn` of each
thread). `ThreadEnds` is all that is left of a thread: it may end when its flag is down or when it
may meet an error (for the inference thread also that of giving its buffer back to the camera). A thread whose join gave up stays in `live`; the next `Spawn` raises its flag
again.

Sessions are numbered by the calls of `recognize_start`; threads, Camera objects and DRP-AI
descriptors carry the number of their session. `pthread` holds the ids, which are never cleared
because the statements that would do it follow `pthread_exit`. `cam` says how far each Camera got:
its device opened, or streaming with its buffers mapped. `addrmap` and `loaded` name the model whose
addresses and data are in use. A join of an id that was joined before is undefined in POSIX; in the
C library it returns an error at once, which is what `Join` does. After a failed `pthread_create`
the id is unspecified: the old one or a new one without a thread.

Faults are constants again: `CameraMayFail`, `StreamoffMayFail`, `DrpMayFail`, `FilesMayFail`,
`SpawnMayFail`, `JoinMayTimeout`. A command that cannot be parsed changes nothing and has no action.
The end of the process after `left` belongs to `AppLifecycle`; `crashed` is the null `_model` of a
first command with an unknown name.

### AppLifecycle

`main` is the place in `main()`, `msg` the one in the message thread of `WebsocketServer`. Starting
the server, the first thing the message thread does is to look at `blRunThread`; main sets the
two callbacks, `g_rc` and `blRunPredict` afterwards, one action each. `Clients` may connect, send a
command, leave, or vanish without closing (`ClientMayVanish`), at any moment. An exception that nobody
catches, a null pointer (`NullPointer`, `NullModel`) and an orderly `Exit` end the process
(`ProcessEnds`), `Restart` is systemd. `hurried` is history: the client left while main was still in
`Starting`.

What a command does in detail is the module before; here the recognition has three flags:
`recognizing`, the run flags of its threads, which `CommandRsv` and `OnDisconnect` lower and
`SwitchModel` raises; `running`, that the threads of the last start run; `overdue`, that threads run on
which a join gave up. The joins are timed and nobody looks at their results (`JoinThreads`): a
thread that is not in time runs on, into the next session or beside the exit, and may still send.
Threads notice a lost client by the exception of a send. That one of them ends by itself on an error,
and that a start creates only a part of them, are in `FramePipeline` and `RecognizeSession`.
The join of the message thread in `stop_server` is timed as well, so `Exit` does not wait for its end.

### FileLock and ReadersWriterLock

A handle is a process and a lock name. `at` is the place in `lockfile()` or `unlockfile()`: `open`,
`opened`, `granted` (flock returned), `in` (returned to the caller), `promoted` (unlockfile has the lock
for itself and is about to unlink), `closing`. `link` is the inode a name refers to, `fd` the one that is
open, `flk` the flock on it. One action is one system call: `OpenLock` creates the file if there is
none, `GrantLock` and `RefuseLock` are `flock`, `KeepLock` and `DropLock` the comparison of `fstat` and
`stat` after it, `PromoteLock` the `LOCK_EX | LOCK_NB` in `unlockfile`, `UnlinkLock` and `CloseLock`
the rest. Inode numbers are used again. `LoseLocks` is the end of a process.

`ReadersWriterLock` has one variable, who holds what. A call holds a name while `at` is `in` or
`promoted`.

### MultiProcessCache

The lock name 0 is `<cachefile>.lock`, which savers share and the server has for itself; the
name `i > 0` goes with the file `<cachefile>-<i>`. A saver takes 0, probes the numbers from its
process id on (`TrySlot`, `NextSlot`, `FreeSlot`), writes in two steps (`OpenExtras` makes an empty
file, `DumpExtras` fills it) and gives both locks back. The server's `save_merge` lists the files
and reads and removes one after the other. Data are represented by the saver they come from. All
savers have the same `CACHE_VERSION`; that `save_merge` drops a file of another version
(`cache.py:867-869`), left by another release of BitBake, is not modelled.

Faults: `KillSaver` at any place, which may leave an empty or a torn file; `KillServer`;
a new process with an old number (`NewParser`). A torn file makes `save_merge` raise
(`MergeTorn`): its lock is closed with the file object, not by `unlockfile`. When the server is killed
between removing a file and writing the cache, what it had collected is lost; a cache may do
that, so `saved` starts anew.

### Fetch

`pc` follows `Fetch.download` through `verify_donestamp`, `try_mirrors`, the method's `download`,
`update_stamp`; `phase` says which of its calls it is in (`first` and `second` verify, `premirror`,
`upstream`, `mirrors`, `final`), `on` the url at work, which in a mirror phase may be the tarball.
A file is the set of revisions it has: a singleton for a download with checksums (its content), any
set for a clone. A stamp is absent, empty (between `open` and the dump, or without checksums) or
has a checksum; `newer` says that it is younger than the file, which `verify_donestamp` takes as
leave to use the stamp's checksum instead of the file's.

Faults: any content from any server, a failing server, another recipe that wants other checksums
of the same file, a clean between a fetch and an unpack, a kill at any place (`Crash`), and calls on
the download directory that fail (`DiskMayFail`). A do_fetch that is killed is run again; a do_unpack
that is killed is run again alone, since do_fetch has its stamp.

What `download()` does with a failing call depends on the exception, and this is in the model. An
`IOError` (`OSError`) goes neither to the mirrors nor to the caller: its handler
(`fetch2/__init__.py:1755-1758`) raises for `ESTALE` only and takes every other errno for no error, so
that `download()` returns as if it had fetched (`DiskError`, then `Swallow` or `Raise`). Inside
`try_mirror_url`, `ESTALE` means that the mirror has nothing, and the rest leaves for the same handler
(`Unwind` gives the tarball's lock back). `swallowed` is history: the fetch ended like this. The `rm` of
the git fetcher's `clean` raises no `IOError` and may have removed a part (`CleanError`, `UnpackFails`).
`rename_bad_checksum` only warns when it cannot rename (`MovedAway`), and a failing `os.utime` of the
stamp is ignored (`StampTouch`). Without the premise `~swallowed` TLC finds both `FetchGivesWanted` and
`UnpackGivesWanted` violated: this is the code's behaviour, and no comment of it promises otherwise.
A call that fails has had no effect of its own; between two calls of one action of the model it may
fail like before the first.

### RunQueue

`execute()` is called by the server's idle loop. A pass goes from place to place, and `pc` is the
place: `read` (messages of the workers), `rehash`, `migrate` and `hardfail`
(`process_possible_migrations`), `scene` (the loop over the setscene tasks), `holdoff`
(`update_holdofftasks` and the test for the end of the setscene side), `task`, `wait`, `idle`. Most
places end the pass when they have done one thing, as the `return True`s in the code do.

The fields of `sq`, `rn` and `sched` are the sets of the code without their prefixes. `stamps` and
`scened` are the stamp files on disk, `there` is history: the tasks whose output exists. The
code's recursions over the graph are recursive functions on task numbers (a task has a higher
number than those it needs).

A hash that changes is modelled by what follows from it (`Rehash`): any set of the tasks above
those that reported may get a new hash, with or without a stamp of an earlier build, and the setscene
tasks among them are tried again (`Migrate`) unless they run or what they replace does
(`MigrateNot`). A report of a task that is not complete, because it runs or has failed, stays in
`reported`, as in `updated_taskhash_queue`.

The fakeroot worker is started with the first task that needs it, and may not start (`SpawnMayFail`).
For a task the `OSError` is caught, and the build has failed without a failed task (`TaskSpawnFails`,
history `unspawned`). For a setscene task it is not: the exception leaves `execute_runqueue`, which
calls the build complete on its way (`SceneSpawnFails`, counted as `stopped`). The model lets every task of
`build.fakeroot` meet this, not only the first, which adds behaviours and removes none.

Where the model is coarser than the code: `UpToDate` looks at the stamps anew each time, the code
keeps the answers in `stampcache`, from which only a task that is moved is purged
(`runqueue.py:1445-1453`, 2100, 2485); `Selectable` and `Next_buildable` let any task with its turn be
chosen, without the test for stamps that two tasks share (233, 250, 2064), and `BB_NUMBER_THREADS` is
the only limit, without that of the pressure of the machine (211-231, 245).

Not in the model: `setscene_enforce`, `setsceneonly`, `dry_run`, `noexec` tasks, and multiconfig.
Two assumptions on the builds: dependencies are acyclic (`RunQueueData.prepare` refuses others), and
a setscene task that others need by a hard dependency needs none itself; the metadata in this
repository has no such chain. In a chain `InputsPresent` would not hold: `sq_revdeps` of the middle task
is emptied (`runqueue.py:2794`) and then names only the task it needs, so it may be skipped as soon as
that is restored, whatever else needs it.
`Migrate` requires that no task was skipped because of the one that is moved; the code gives the build
up there. `MigrationAllowed` proves that this never happens.

## Runs

| Run | Shows | Bounds |
|---|---|---|
| `pipeline` | types, exclusive turn, input kept, result matches image, no double enqueue, hand-over stable | 4 buffers as in the code, all faults, stop at any time |
| `handoff` | refinement of `FrameHandoff` | 4 buffers, DRP-AI errors |
| `pipeline_live` | every offer is answered; `recognize_end` returns; the capture thread ends; the inference thread ends when its flag is down before the last wake-up | 2 buffers, DRP-AI errors, stop, timed joins |
| `buffer_lost` (violation) | a buffer can be lost | 4 buffers, no fault at all |
| `frame_refilled` (violation) | a frame can be overwritten while it is sent | 4 buffers, no fault at all |
| `sessions` | types; no thread of an earlier session when the next is prepared; cameras stream under their threads; the model is not replaced under an inference; only cameras older than the first capture thread stay streaming | 3 sessions, 2 models, every failure of a start |
| `session_faults` | one DRP-AI descriptor; ids joined twice only after a failed start | 2 sessions, 2 models, every failure, join timeouts |
| `app` | the server hangs only after a client that was too quick; main leaves only after the recognition was told to stop and waited for; a lost client frees the server for the next | 2 clients, vanishing ones included |
| `parser_cache` | locks exclude although their files are removed, and only holders remove them; one writer per file; the merge sees whole files; nothing saved is lost | 2 savers with neighbouring numbers, 4 slots, 1 server, 1 new process, 2 merges, kills of both kinds |
| `fetch` | a stamp tells the truth; a fetch that ends without an I/O error has what is wanted; so has the unpack after it; a task changes files under its own locks; every task ends | 2 tasks on a file or on a repository with a tarball, 2 contents, same or different wishes, one of them may be a clean; 1 fault, a kill or a failing call (`MaxFaults`), besides failing renames |
| `runqueue` | tasks run after those they need and find their outputs; a setscene task excludes what it replaces; a build fails only with a task, or for want of a worker; every build ends | 8 builds of 5 tasks, 2 at a time, 2 new hashes, every failure, a fakeroot worker that does not start, stop by the user |
| `covered_or_not` (violation) | a task can be covered and not covered | one build, no fault at all |

Why the bounds are enough:

- `FramePipeline` has no counters, the number of buffers is its only bound. Two are enough for
  liveness: the capture thread can hold one while the other is inferred, and both can be lost,
  which starves the capture. Buffers are symmetric in the safety runs.
- `RecognizeSession`: with three sessions a failed start can come first, in the middle or last, and
  what the first leaves can meet the third. With two, `session_faults` still has a start after a
  failed one, the end after a start that failed after a good one, and threads of the first session
  beside those of the second. Models are symmetric.
- `AppLifecycle`: the server has one client at a time; the second stands for all that wait.
- `MultiProcessCache`: the race for a slot needs two savers with the same number, which the second
  process of a number or a neighbour that moves on provides; that a lock file is removed while another
  waits for it, and created a third time, needs three processes on one name, which the lock of the
  cache has. Two merges let the second meet what the first left.
- `Fetch`: two tasks on one url give every race for it, in six assignments of urls, wishes and cleaning.
  One fault is enough to leave each of the half-done states for the other task, or for the task itself
  when it is run again; the theorems allow any number.
  A third matters for `UnpackGivesWanted` only, when two tasks fetch what another one cleans: after the
  clean and then a killed download, an unpack would find what that left, because `do_unpack` does not
  verify again. Without that case (`CleanerAlone`) it is proved for any number of tasks, and the other
  properties are in any case.
- `RunQueue`: the builds are chosen so that each rule has its case: a restored task replacing others,
  an interrupted build, refused setscene tasks, a hard dependency, a task that runs when its setscene
  becomes worth a try, tasks with the same hash, one of which the deadlock breaker gives up after it was
  covered (`Forced`), no setscene task at all. What these builds show of the safety properties is
  proved for every build. For `BuildEnds`, each of the run queue's
  sets needs at most a chain of three tasks and a task beside it to go wrong; five tasks have both.

Deadlock is not checked where the program may really stop; it is in `runqueue`, where a pass that
cannot go on would be a hang.

Fairness:

- pipeline: each thread is scheduled (`WF` of its step); the driver fills a buffer it was given; waits
  for the DRP-AI end because `pselect` has a timeout; `recognize_end` goes on because its joins are
  timed. An ioctl of a streaming camera is never forced to fail, a client never forced to stop.
- `app`: main and the message thread are scheduled; strong fairness for the message thread and for
  `ReceiveClose`, since a receive that times out disables them again and again while the end of
  the connection stays to be read; a send to a lost client throws in the end. Clients need do nothing.
- `fetch`: a task is scheduled; strong fairness for its lock, because `flock` wakes waiters but does not
  queue them by age, so a lock may be free and taken again before a waiter sees it. Servers may
  fail for ever: a task tries each source once.
- `runqueue`: the server calls `execute()` for as long as it returns true, hence `WF` of `Pass`; a task
  that runs ends, and its message is read at the places where workers are read, which a pass
  visits again and again: hence `SF` of `WorkerEnds`.

### Where the code differs from its comments

Shown by a run:

- `camera.cpp:258` *Must call capture_qbuf after calling this function*: between
  `inference_capture_qbuf` (`recognize_base.cpp:508`) and `capture_enabled.store(true)` (519) the
  driver may deliver the same buffer again; the index test at 322 then takes it for one the
  inference thread still holds, and it is never enqueued again (`buffer_lost`).
- `recognize_base.cpp:263` *stop updating the _capture buffer*: the inference thread enqueues the
  buffer while the capture thread may still compress and send it (`frame_refilled`).
- `runqueue.py` *No task should end up in both covered and uncovered, that is a bug*: the breaker of
  deadlocks between deferred tasks fails the task that others wait for without looking whether it is
  decided; if it was skipped because what needs it was restored, it is then both (`covered_or_not`).
  The task, or one that its setscene would have replaced, is then executed after all, and what it
  needs may have been skipped in between. `InputsPresent` exempts exactly these (`GivenUp`): without the
  exemption the build `Forced` of the run `runqueue` violates it, and `InputsAlways` proves that it needs
  none in a build that keeps to the comment.

Met while modelling, and reproducible by the named change:

- `recognize_proc.cpp:51` *Finish current recognize and start next recognize thread*: the result of
  the joins is not looked at. Set `JoinMayTimeout = TRUE` in `MCSessions.cfg`: `FinishedBeforeStart`,
  `CameraOutlivesThreads` and `ModelKeptWhileInferring` fail.
- `recognize_base.cpp:532` *To terminate the loop in _capture Thread*: `capture_enabled` only makes
  the capture thread hand over another frame, to nobody. And no one notifies `cv_` after
  `end_all_threads` has lowered the flags, so a capture thread that ended earlier leaves the inference
  thread in its wait; `LastWakeEndsInference` has the condition that excludes this.
- `recognize_base.cpp:794` *Close USB Camea*: not before the first capture thread was created; a first
  start that fails at its model data leaves the camera streaming. `LeftBeforeFirstCapture` says that
  only such a camera is left.
- `recognize_base.cpp:115` *load drp data / start threads, success:0*: the driver's errors are lost in
  `uint8_t` results (`drp_proc.cpp:197`), the start reports success.
- A hard dependency that fails for a task which an earlier stamp had covered, after a new hash,
  also leaves the task covered and not covered; the builds of the run do not reach it.
- The death of a worker process ends the build by `finish_now`, which reports `complete` if no task had
  failed before; so does a fakeroot worker that does not start for a setscene task.
- An I/O error while downloading ends `do_fetch` as a success (`fetch2/__init__.py:1755-1758`), see `Fetch`.

## Proofs

All theorems hold for every value of the constants that the named assumption allows.

`FramePipelineProofs` (`BuffersAssumption`): the properties of the run `pipeline`, and the refinement
of the run `handoff` when `MayStop` and `CameraMayFail` are false. None is inductive. `IInv` says,
besides the types: the queue has no duplicates; the turn is in one of four phases (`Open`, `Offer`,
`Woken`, `Working`); which of the shared variables already denote the offered buffer at each step of the
capture thread (`OfferedFrame`); that a frame handed over is denoted by all of them and is not queued
(`HandedFrame`); and that the capture thread's own buffer is queued only if it is the inference buffer,
given back meanwhile (`CaptureBuffer`), which is why the index test makes its requeue safe. The
refinement adds that an undisturbed session stays so (`StaysUndisturbed`) and maps each step
(`StepSimulation`).

`RecognizeSessionProofs` (`MaxSessionsAssumption`): the properties of `sessions` and `session_faults`.
`SInv` needs no assumption on the faults: descriptors are open only while `_drpai_fd` holds them, and
between a start and its joins the session's threads have not been joined. `JInv` assumes
`JoinMayTimeout = FALSE`: each kind has at most the thread its id names, none between its join and its
creation, and the session's Camera streams until no thread uses it. `LInv` assumes `StreamoffMayFail =
FALSE`: a Camera left streaming is older than every capture thread there was, inductive only
together with the id, since a cleared id would let the next `CloseCamera` skip its work.

`AppLifecycleProofs` (`ClientsAssumption`): `AppInv` ties the message thread's place to main's and to the
flags that are set, and shows `StuckOnlyIfHurried` and `OrderlyExit`. The latter says what main has
waited for: threads that were not in time for their joins (`overdue`) are excepted, in the theorem as
in the code.

`FileLockProofs` (`InodesAssumption`): `LockInv` says that flocks on one inode agree (`FlocksAgree`), what
a handle has open and locked at each place (`PlacesAgree`), and that a holder's inode is the one on
disk (`HolderHasTheFile`). The last is the point of the comparison of inodes and of promoting before
the unlink: without it two processes may lock two files. It gives the exclusion, and with it that each
step is one of `ReadersWriterLock` or none (`LockRefinement`).

`MultiProcessCacheProofs` and `FetchProofs` (`CacheAssumption`, `FetchAssumption`) use it: each proves
first that its steps are steps of `LockSpec` (`CacheUsesLocks`, `FetchUsesLocks`), so that `LockInv` and
the exclusion are theirs. `CacheInv` then says which locks are held at which place (`HoldersInv`)
and what a saver knows of its file (`SlotsInv`); that no other saver has changed the file follows
from the exclusion (`WritersDiffer`), that the server has not, from the lock of the cache
(`NoSaverMerging`). `SavedIsKept` is inductive with them. In `FetchInv` a task at work has the lock
of its url, and knows its file and its stamp (`TaskInv`); no other task changes these
(`OthersUnchanged`, from the lock, and because no recipe names a tarball as its url). A file is
downloaded only when there is no stamp with a checksum, and a checksum is written only for the file
that has it; hence `StampTruth`. `WantInv` adds what each place of `download` owes to the checks before
it, for `GivesWanted`, which is about the end of `download`'s try block: a fetch that ends in the handler
of I/O errors owes nothing. `FilesUnderLock` is about the task whose `pc` a step changes: that one has
the lock itself.

`UnpackWanted` is about what happens between the end of a fetch and the unpack. `UnpackInv` says of a task
that has fetched and not unpacked yet (`KeptInv`): if its url may be cleaned, the file is gone or still
what it wants; if not, the file and its stamp are settled (`Settled`), and every other task at work on
the url only looks (`Quiet`) or gives up at an I/O error, because the recipes of the url agree. A task
whose I/O error was taken for no error (`swallowed`) is no such task, and what it unpacks is not promised. With a clean in between, a
download that is killed would leave its remains to another task's unpack; `CleanerAlone`, the assumption
of the theorem, is that no two tasks fetch from a url which another one cleans.

`RunQueueProofs` (`RunQueueAssumption`): `QueueInv` has the types and the limit on what runs; `ReadyInv`
says that a task in `runq_buildable` or running has its dependencies complete (`DependenciesFirst`).
`RunQueueSceneProofs` goes on with three inductive invariants, for every build that
`RunQueueAssumption` admits, hard dependencies, deferred tasks, stops and new hashes included:

- `RestoreInv`. `SceneInv` and `HardInv` relate the lists of the setscene side: a setscene task that needs
  another by a hard dependency neither runs nor may be chosen before that one is decided, and fails with
  it, at the latest in the `hardfail` part of the pass. `HoldInv`: what an undecided setscene task
  replaces is held off or complete, or an update is due before a task is chosen. `PendingInv`: of the
  setscene tasks that wait to be tried again those that are restored have a failed task below them,
  which stays running, so that they are never moved. Hence `SceneExcludes`.
- `OutputInv`. `FreshInv`: `tasks_covered` and `tasks_notcovered` agree with what is decided when they are
  up to date. `ExecInv`: what is executed is needed, or a setscene task for it was given up. `SkipInv`:
  what was skipped without its output is needed by restored tasks only. A task that is executed
  would contradict this if an input of it was skipped, unless a setscene task above was restored and
  given up (`InputsAtHand`); and no setscene task is moved for which a task was skipped
  (`MigrationAllowed`).
- `EndInv`. `LineInv`: a setscene task whose `sq_revdeps` are decided may start or is about to fail, and
  `tasks_scenequeue_done` is closed downwards. `SchedInv`: what is held off has an undecided setscene
  task above it, what is done on the setscene side is covered or not, and is buildable when its turn has
  come. `StuckInv`: what the pass has found out when nothing runs. If then nothing is left to wait for,
  the last undecided setscene task needs one that is decided (`AllDecided`), the first incomplete
  task is buildable (`NothingLeft`), and the sanity checks find nothing (`NoErrors`): a build that failed
  has a failed task or a fakeroot worker that did not start (`FailureCause`).

`Delivery` follows from `OutputInv`: a build that nobody stopped and that ends as complete has dealt with
every task and has at hand the output of its targets and of all that cannot be skipped
(`TargetsDelivered`, stated with its proof). It needs both exceptions in `Unneeded`, the tasks that
cannot be skipped and the targets: a target with a setscene task may be one that only restored tasks need.

What these proofs need of the graph are single steps of its recursive definitions (`CoveredTasksStep`,
`UnskippableStep`, `DoneBelowStep`). The provers cannot instantiate the library's induction theorems; that
each recursion has a solution follows from its monotonicity (`FixedPoint`), and instead of an
induction over the tasks the proofs take the first or the last task that would violate the claim
(`FirstTask`, `LastTask`).

Model-checked only: all liveness (`OfferIsAnswered`, `StopFinishes`, `StopEndsCapture`,
`LastWakeEndsInference`, `LostClientFreesServer`, `FetchEnds`, `BuildEnds`), which is out of the prover's
reach. Every invariant and every action property that a passing run checks is proved.

## Not modelled

- `ply`, `pyinotify`, `bs4`, `progressbar`, `simplediff` and the other vendored libraries under `bitbake/lib`.
- Parser, data store, `codeparser`: sequential interpreters of the recipe language over strings. Their
  result, the task graph, is the constant `Builds`.
- `RunQueueData.prepare`: the construction of the graph from string-valued dependencies; the priorities of
  the schedulers (any buildable task may be chosen here); the pipe protocol with `bitbake-worker`.
- `siggen`, hash equivalence and PR server: SQL tables behind asyncio; a hash that changes is a choice
  in `Rehash`.
- Server, cooker, events, user interfaces, Toaster, `devtool` and the other scripts: dispatch,
  presentation, and tools that run commands one after the other.
- Of the fetcher: `checkstatus`, `SRCREV` resolution, and the methods besides plain files and git.
- Of the application: the framing of the bundled web socket header (byte-level I/O), the chunked
  transfers of `drp_proc.cpp`, JSON commands, floating-point post-processing, JPEG conversion, the two
  display counters, the page.
- Upstream layers, recipes, kernel patches, cereal: vendored.

Worth adding next: the connection of `bitbake-worker` to the run queue by pipes and the death of
either; the pool of parsers of `CookerParser` with its queues and shutdown; two generations of
`FramePipeline` threads on one set of shared variables.
