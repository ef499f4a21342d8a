# A TLA+ model of oscmix-desk

`oscmix-desk` starts the `oscmix` backend for an RME Fireface, puts the
routing of `routing.conf` on the device, reads the device back, repairs what
is wrong, and stays to supervise the backend. This directory models that
program: what it sends and when, what it believes about the device, how long
it may take, and what it promises to somebody who starts, stops, reloads,
switches or queries it. The modules are checked with TLC on small instances
and, where it matters most, proved with TLAPS for every instance.

Source paths below are relative to `src/src/oscmix_desk/` unless they say
otherwise.

## 1. The system

### Components

| Component | Code | State it keeps | Operations | Modules |
|---|---|---|---|---|
| Session and supervision | `session.py`, `process.py`, `notify.py` | stop flag, reload flag, kill deadline, READY, the present wait | wait for the device and the port, clean up, spawn, first apply, start the verifier, supervise, SIGTERM and its escalation, SIGHUP and its reconcile, wait for the verifier, exit code | `Session`, `Lifecycle` |
| systemd unit, udev rule, sleep hook | `src/systemd/`, `src/udev/` | the unit, its timer, its start burst | start, stop, reload, restart, kill | `Lifecycle` |
| Discovery, stale backends | `discovery.py`, `process.py` | the numbers still to be signalled, a pidfd | wait for the ALSA client, scan, open, signal, settle | `StaleBackend`, `Lifecycle` |
| Desktop launcher | `launcher.py` | none | `ensure_backend` | `Lifecycle` |
| Two-phase apply | `routing.py`, `backend.py` | the burst left, the links awaited | links, barrier (heard, timed out or blind), mix | `Session`, `RoutingPlan` |
| Verifier | `verify.py` | confirmed, mismatched, links still unheard, "re-applied" flag, attempt | observation window, write 1 inside it, write 2 after it, write 3 as the retry, blind re-apply | `Session`, `Readback`, `VerifierContract` |
| Planning | `reconcile.py`, part of `config.py` | none | which registers, which values, which order; a plan against an observation; a desk as a file | `RoutingPlan`, `DeviceReads` |
| Register policies | `registers.py`, part of `reconcile.py` | a constant table | pin or remember, what a dump reports | `Readback`, `DeviceReads` |
| Device, oscmix, GUI, UDP | external | the registers, oscmix's copy of the links, the reports under way, the holder of port 8222 | fold a mix write, echo a link, dump, bind, lose a datagram | `Desk` |
| `routing.conf` parser | `config.py` | the config being built, the sections that wait | one section at a time, two checks of the whole | `ConfigLoad` |
| Profile switch | `profiles.py` | the outcome | load, inherit the machine, write, read back, state the outcome | `ConfigLoad`, `ProfileSwitch` |
| Command line | `cli.py` | what has been heard | `--diff`, `--dump-config`, exit codes | `DeviceReads` |
| Write sweep | `src/scripts/sweep-writes.py` | the reference dump, the latest dump, what each probe came to | probe, judge, restore, repair, be interrupted | `WriteSweep` |
| OSC codec | `osc.py` | none | byte layout | not modelled |
| PipeWire profile | `pipewire.py` | none | print a profile | not modelled |
| Installer, hardware verification, recording | `src/install.sh`, `src/scripts/` | none | | not modelled |

### How they interact

* The **main thread** spawns the backend, waits until something listens on the
  OSC port, applies the routing, says READY and supervises. It starts the
  **verifier thread** once, after the first apply. The two share the stop
  flag, the backend process and one UDP receive port; nothing else.
* **Signals** set flags. SIGTERM also terminates the child; the supervise loop
  notices at its next turn, at most half a second later. SIGHUP is served by
  the supervise loop, in the main thread, with the verifier possibly at work.
* **Both threads write to the device** with fire-and-forget datagrams to
  oscmix, and **read** only while they hold the receive port. The mixer GUI
  wants the same port: whoever is second works blind.
* **oscmix folds a mix write by its own copy of the output links.** The copy
  changes when the *device* reports a link, not when one is written. A mix
  that overtakes that report silences one side of a pair, and the playback
  mix is in no dump, so no read-back will ever show it. Most of the program
  exists because of this.
* A **profile switch** is another process that uses the same apply and the
  same window, and may run while the session's verifier is at work. So are
  `--diff` and `--dump-config`, which only read.
* **systemd** starts the unit when udev sees the device, waits for READY=1 for
  `TimeoutStartSec`, sends SIGTERM and waits for `TimeoutStopSec`, sends SIGHUP
  for the sleep hook, and restarts what failed. Every wait of the session,
  one after the other, has to fit into these.

### What is hard, and what makes each component correct

| Component | Hard part | What has to hold |
|---|---|---|
| Apply | the report of the link races the mix; stale reports of the opposite value; a port held by somebody else; a datagram that decodes to nothing | a barrier ended by reports was ended by the right ones (`BarrierHeardLinks`) |
| Verifier | three writes in three functions, each racing a stop; the verdict is about registers, the sound about cells that are never reported | its stop contract (`KeepsItsContract`); "verified" means audible (`VerifiedMeansAudible`); write 1 starts from links oscmix really has (`ReapplyFromKnownLinks`) |
| Receive port | every path out of a barrier or a window, three of them early | held exactly while listening (`PortDiscipline`) |
| Reload | SIGHUP at any moment, also during the reconcile it asked for; a verifier that still works with the old file | no request lost (`UnreadHupIsQueued`, `HupIsServed`); the file read last wins (`ReloadAloneWins`); it never kills (`ReloadNeverKills`) |
| Pin and remember | a fader turned between the read-back and the write | what is remembered and differs survives (`RememberedSurvivesReapply`) |
| Stop | a backend that ignores SIGTERM, a reload in the way, a verifier in a window or a barrier, all counted against `TimeoutStopSec` | a stop ends in an exit (`StopLeadsToExit`) and in time (`StopFits`); the verifier ends (`VerifierFinishes`), and first (`VerifierEndsFirst`) |
| Start | four waits in a row, five ways to exit early | `READY=1` or an exit before `TimeoutStartSec` (`StartFits`); no clean exit without READY (`CleanExitIsReady`) |
| Supervision | a backend that dies in the middle of a reconcile, under a stream of SIGHUPs | the loss is noticed (`LossIsNoticed`) |
| Stale backends | a process number that changes hands between the scan and the signal | a stranger is hit only if that happened before the pidfd was open (`StrangerOnlyIfLate`) |
| Parser | the device may be named after the sections that need it | the verdict does not depend on the order (`VerdictIgnoresOrder`); nothing is dropped silently (`EverySectionCounts`); routes that share a pair agree (`OneLinkPerPair`) |
| Profile switch | no rollback; the port may be held; reports may be missing; the session's verifier may write meanwhile | the outcome is true and complete (`OutcomeSaysWhatWasWritten`, `EveryMissIsNamed`), the barrier is kept (`SwitchedMeansAudible`), it ends (`SwitchEnds`) |
| `--diff`, `--dump-config` | a dump that pauses, loses a report or changes while it streams; a cell means another route in a linked pair than in an unlinked one | the exit code is true (`DiffTellsDrift`); the file describes the desk (`DumpDescribesDesk`) and loads (`WorkingDeviceLoads`) |
| Write sweep | every write and report may be lost, pairs move together, what is sent is rounded, the tool may be interrupted | what is left changed is named (`EveryDriftIsNamed`, `DriftNeedsALoss`); a verdict against a register has a reason (`IgnoredMeansSpoilt`, `ClampedMeansClamped`); the repair ends (`SweepEnds`) |

Every hazard with its line is in `PROJECT.json` under `hazards`.

## 2. The modules

An arrow points to the module that EXTENDS.

```
RoutingPlan -> Readback -> Desk -> Session -> SessionProperties -> SessionMC
                                   (INSTANCE VerifierContract)         |
                                          |           |                v
                                          |     ProfileSwitch --> SwitchMC
                                          v           |
PlanProofs -> SessionProofs -> AudibleProofs          v
                                    +-----------> SwitchProofs

RoutingPlan -> ConfigLoad  -> ConfigLoadMC, ConfigLoadProofs
RoutingPlan -> DeviceReads -> DeviceReadsMC, DeviceReadsProofs
RoutingPlan -> PlanProofs  -> SessionProofs, DeviceReadsProofs, WriteSweepProofs

StaleBackend -> Lifecycle -> LifecycleProofs
WriteSweep   -> WriteSweepMC, WriteSweepProofs
```

The session is modelled twice, once for each thing that can go wrong in it.
`Session` has every datagram and no durations; `Lifecycle` has every wait with
its length and no datagrams. An apply is there the time its barrier may take.

**`RoutingPlan`** — pure operators: the messages of a route, the plan of a
config in its two bursts, the links an apply waits for, what `send_mix` sends.
A register is a tuple such as `<<"output", 1, "stereo">>`, a message a register
with a tuple of arguments. Levels are integers; the comparison within 0.5 dB
is equality. `Recorded` is a Python dictionary filled in a loop: position of
the first, value of the last.

**`Readback`** — pure operators over the sets a window collects: what is
reported ever or promptly, pin and remember, when the window may close, what
is a problem and what the device keeps.

**`Desk`** — everything outside the program. `dev` is the device, `view`
oscmix's copy of the links, `wire` the reports on their way to oscmix (in
order), `dump` the rest of a running dump, `port` the holder of UDP 8222 and
`inbox` what waits there. `Written` is oscmix's fold. A datagram may be lost
in either direction (`MayLose`).

**`Session`** — the two threads. `pc[t]` is the line a thread is at, and one
datagram sent or heard is one step, so that everything else may happen between
two of them.

| `pc` | code |
|---|---|
| `boot` | `_await_backend_port` |
| `links`, `mix` | the two bursts of `apply_routing` (an empty `todo` means it is out) |
| `echo`, `settle` | the barrier, listening and blind |
| `supervise`, `poll`, `stopcheck` | `child.wait(0.5)`, then the reload half and the stop half of `supervise`'s loop |
| `reload` | `_reconcile` before it reads the file |
| `settling` | `wait_unless_stopped(VERIFY_SETTLE)` |
| `listen`, `refresh`, `top`, `recv`, `judge` | `verify_routing`: bind, request the dump, the loop test of `_observe`, the blocking read, the result |
| `remix` | write 1 of the verifier, from within the window |
| `rewrite` | write 2, without link confirmation |
| `report` | `_report`, and the retry (write 3 is an apply of its own) |
| `blind`, `blindmix` | `blind_reapply_mix`: the delay, the write |
| `join`, `exit`, `done`, `cut` | `_await_verifier`, the end of each thread; `cut` is a daemon thread that goes with the process |

The procedures both threads run (`Apply(t)`, `Window(t)`) are written once and
take the thread. `moved`, `unread`, `hups` and `applied` are history variables:
no guard reads them (`hups` bounds the number of SIGHUPs).

**`SessionProperties`** — the type invariant, the properties and the fairness.
**`VerifierContract`** — ADR 0009 as a state machine of its own with six
actions and no device; `KeepsItsContract` is the refinement.

**`ConfigLoad`** — `load_config` as a state machine: open, dispatch one section
a step, resolve the sections that waited in the order global, nested, channel,
then the two checks. A request is a file, or a profile and its main file.
`FitFor` is the reference: what the same file should be, said over the *set*
of its sections.

**`ProfileSwitch`** — `switch_profile`: its own five steps, and `Apply("main")`
and `Window("main")` of `Session` for what the code delegates. A session may be
running: then its verifier takes the steps of `Session`'s, with the routing the
session came with. `Beginnings` says what a switch may find: who holds the
port, whether the backend is there, whether oscmix knows the links, whose
verifier is at work.

**`StaleBackend`** — process numbers and the processes behind them. A number
may be reused between any two steps; a pidfd stays with its process.

**`Lifecycle`** — the unit, the session, its backend and its verifier with a
clock. One `Tick` is half a second, the coarsest unit in which all the
constants are whole. Computing takes no time: a `Tick` comes only when nothing
is due. `pc` is the wait the session is in (`find`, `cleanup`, `drain`, `port`,
`barrier`, `supervise`, `reread`, `rewrite`, `join`), `left` what is left of
it, `clock` systemd's own timer. `Plug`, `Unplug`, `Stop`, `Reload`,
`EnsureBackend`, `BackendExits` may come at any `Tick`.

**`DeviceReads`** — `--dump-config` and `--diff` on a desk that a session has
built from a configuration. A dump comes in bursts; a report may be lost, the
rest of a dump cut off by the second of quiet, a knob turned meanwhile. A dumped
file may be put in place (`Adopt`) and applied (`Apply`), which is what the
round trip is about. `Matrix` lists the cells of the input matrix in the order
`routes_from_observed` sorts them into; `Walk` is one turn of its loop, with the
cells a pair has claimed, and `RoutesFromObserved` the fold of it.

Not every desk is one a file can say. `Plain` lists what a cell may be if a route
has made it; the history variable `plain` holds whether the desk was that when
its dump was put in place. A desk built from routes need not be plain: a mono
input on a linked pair of outputs is not.

**`WriteSweep`** — the sweep as it runs: one datagram at a time from `queue`,
one dump at a time, three steps of growing size for odd and even channels
apart, then up to three rounds of repair. The device rounds, clamps, refuses
and moves linked partners. Values are whole numbers on a scale of `Unit`, so that
one percent of a range of three positions is a value like any other. `write_batch`
sends what `AsTag` makes of a value: for an integer register the nearest whole
number, the even one of two. `Followed` compares the report with the candidate as it
was before that, as the code does. An attempt also records what the register was
thought to hold (`held`); no action reads it, `IgnoredMeansSpoilt` does.

Definitions whose comment begins with `bug:` are variants of the definition
below them with a plausible mistake. Nothing uses them; they are there to show
that the properties notice.

## 3. What is checked

`tlc -workers 2 -config <run>.cfg <module>` in this directory.

| Run | Question | Bounds |
|---|---|---|
| `session_faults` | Do barrier, re-apply, port and stop contract survive a lost datagram, late link reports and deadlines that pass? | four start-up configs (linked, unlinked, mono, none), four desks, one datagram lost anywhere, any link report late, `Prompt = FALSE` |
| `session_reload` | Is every SIGHUP served with the right file, and a turned fader left alone? | two SIGHUPs, two possible edits (one does not parse), one turn |
| `session_liveness` | Does a stop end, the verifier end, a SIGHUP get served? Is "verified" audible? | two configs, two desks, one SIGHUP, a garbled datagram at any barrier, `FairSpec` |
| `config_load` | Which files are accepted, and what of them is in the config? | all files of up to 3 of 25 sections, in every order; all profiles of up to 2 beside 5 main files |
| `profile_switch` | Is the stated outcome true and complete, and does it come? | four profiles and one that does not parse, two desks, links known or not; alone with one datagram lost and one turn, or beside a verifier with neither |
| `lifecycle` | Do the deadlines of the unit fit the waits of the session, at every half second? | the code's own durations; two starts in a burst instead of five, one process number |
| `write_sweep` | Has each verdict its reason, and is what is left changed named? | ten registers of every kind, among them integers 0..5 and 0..3 (`crossfeed`, `lowcut/slope`), three initial states, two datagrams lost, an interruption anywhere |
| `device_reads` | Is the exit code of `--diff` true, does a dumped file describe the desk and load? | desks from one route, or two that meet, of eight kinds, one report lost, one turn of a knob or of a link of either kind |

Eight passing runs, from 75 thousand to 2.5 million states, each within three
to four minutes. `CHECK_DEADLOCK FALSE` where the program ends: a session after
`exit`, a load after its verdict, a switch after its outcome, a sweep after its
artifact. `lifecycle` and `device_reads` check deadlock: the unit and the desk
go on.

**Why the bounds are enough.** One pair of outputs fed by one pair of
playback channels is what the fold is about. A second pair adds a second
awaited link; the code treats the awaited links as a set that only shrinks,
and no decision depends on which of them comes last, but this is an argument
and not a run. One lost datagram is enough to separate the three ways a link
can stay unknown (the request, the write, the report); the second SIGHUP is
what arrives *during* the first one's reconcile; one fader movement is what
falls between a read-back and a write. The values are those the configs use
plus the ones a wrong fold would produce. `session_reload` has no garbled
datagram: a barrier it cuts short leaves the mix to the verifier's re-apply,
and a reconcile has none, so that `ReloadAloneWins` does not hold there
(`routing.py:159`). In `lifecycle` the second start is the restart after a
failure; what a third would add is the same again. The sweep needs two losses:
one of a restoring write, one of the report that would tell. Two routes are
what it takes for one to change the meaning of the other's cells; the shapes
include two that share a pair, one muted, one mono on each side.

**Time.** In `Session` durations are not modelled. A deadline (`DeadlineFor`)
may pass once none of the reports it waits for is still under way, except those
in `Late`; with `Late` empty this says that the timeouts of `constants.py` are
long enough, which is what ADR 0010 requires recordings for. `Prompt = TRUE`
says the same of the ten seconds for the backend's port and the grace of the
verifier; `session_faults` drops both, and `lifecycle` has the numbers.

**Fairness.** `Session`'s `FairSpec` assumes weak fairness of the main thread,
the verifier and the device with oscmix: the operating system schedules them,
and each blocking call has a timeout (`child.wait(0.5)`, the 0.25 s of the
socket). Strong fairness of `WindowDeadline(t)` and `Escalate`, because they
compete with other steps of the same loop and the monotonic clock does not stand
still. `SwitchFairSpec` is the same for a switch and the verifier beside it.
`Lifecycle`'s `FairSpec` is weak fairness of session, verifier, systemd and the
clock; `WriteSweep` of the sweep's own steps, each of which ends by a timeout.
Nothing is assumed of signals, the GUI, the hand, the person at the keyboard, a
crash, or a backend that is asked to terminate.

### Disagreements between the code and what is said of it

Each of these is a run that TLC ends with a counterexample; `PROJECT.json`
quotes the line.

| Run | What happens |
|---|---|
| `retry_not_audible` | One lost `/refresh` on a desk that is linked already: write 2 goes out against a view that is not known and sets the flag, so the second window, where the links *are* learnt, re-applies nothing; "verified ... after retry" over a silent side. |
| `kept_volume` | The re-apply sends `/output/<n>/volume` of the route with the mix, and turns back a remembered fader its own dump has just reported as turned. |
| `reload_during_verify` | A reconcile that runs while the verifier is at work is overwritten by the verifier with the old file. |
| `dump_any_desk` | A mono input routed to an output whose pair is linked is dumped as a route of an input pair: the file is not the desk. |

The modules state more of them, each of which TLC violates as well when it is
made the only INVARIANT (or PROPERTY) of the named cfg.

| Definition | Constants of | What happens |
|---|---|---|
| `NoBurstAfterStop` (property) | `session_faults` | A stop during the barrier of write 3 is followed by its second burst: `apply_routing` is never told (`routing.py:234`; `session.py:284-285` says it is asked before every write). |
| `RepeatedLinksAgree` | `config_load` | Routes to 1/2 and 1/3 (or 2/1) with opposite `stereo` are accepted together; the check compares whole tuples (`config.py:460`; `reconcile.py:35-39`). |
| `ProfileFitsItsDevice` | `config_load` | A profile without `[device]` is checked against the compiled-in UCX II before it inherits the device of the main file, and refused for channels that device has (`profiles.py:148-150`; ADR 0011:68-70). |
| `SwitchedMeansAudibleAnyhow` | `profile_switch` | On a backend nobody has dumped, a link that is already set is not echoed and the mix of the profile is folded without it. The session has a re-apply for this, the switch has none (`profiles.py:248`). |
| `SwitchIsLastWord` | `profile_switch` | A switch while the verifier of a session that has just started still repairs is overwritten by the old routing. |
| `StopNeedsNoKill` | `lifecycle` | A stop during the wait for the port is noticed up to ten seconds later, and the graces that follow exceed `TimeoutStopSec` (ADR 0009: "the numbers compose"). |
| `NoStranger` | `lifecycle` | The number is reused before `pidfd_open`, or no pidfd is to be had: a stranger gets SIGTERM (`process.py:69-73`: "the race cannot be lost"). |
| `AnyDumpLoads` | `device_reads` | The dump of a working device need not load: the last input on a linked pair is dumped as one of a pair whose other half no device has (`reconcile.py:645`), and an unlinked pair at -62 dB as one at -68 dB (`reconcile.py:654`; take `Faint` out of `WorkingDeviceLoads`, with `Turned <- FaintHand` and `MaxTurns = 2`). `reconcile.py:586` has "a dump of a working device that refuses to be a config" for what must not be. `Lonely` and `Faint` in `WorkingDeviceLoads` are these two; `WorkingDevicesLoad` proves that there is no third. |
| `ClampedOnlyIfClamped` | `write_sweep` | A crossfeed (integer, 0..5, `registers.py:503`) at 1 is asked for 1.5; `as_tag` sends 2 and the device takes it. The report is half a step from 1.5, which `_followed` does not accept (`sweep-writes.py:168`): the verdict is "clamped", "the device disagreeing with a bound *this model* declares" (`sweep-writes.py:179`), of a device that followed. |
| `IgnoredOnlyIfDeaf` | `write_sweep` | The slope of the low cut (integer, 0..3, `registers.py:381`) is asked for a change of 0.03, 0.3 and 1.5; `as_tag` makes the first two the value it has. Only the third attempt can show, and one lost datagram has a live register "ignored", although `sweep-writes.py:327-331` repeats candidates so that "a single dropped datagram" does not condemn a register "as deaf on its only attempt". |
| `ReplugIsServed` | `lifecycle` | A replug before the session has noticed the loss finds the unit active, and the session then ends with code 0: nothing runs (ADR 0013:37, `README.md:284`: "a replug is a full restart"). `install.sh:251` enables the unit, so that `StopWhenUnneeded` does not stop it. |

Smaller ones that the models show or that were met on the way:

* A `[pin]` section is checked when it is read, so the same file can be accepted
  with `[device]` after it and refused with `[device]` before it
  (`config.py:382`; the comment at 363 says `[device]` may appear anywhere) —
  `VerdictIgnoresOrder` leaves that case out and says so.
* When the GUI holds the port, `_check` returns every register as unconfirmed
  and none as unverifiable (`profiles.py:265-271`), although ADR 0011 wants the
  two kept apart.
* A balance on a linked pair is dropped by `--dump-config` without a comment; `Plain`
  in `DumpDescribesDesk` names what is left out.
* The sweep leaves a register that is missing from both dumps out of
  `not_restored`; a `/refresh` lost after the passes ends it with a `KeyError`
  before any repair; a pair that is linked with unequal values is reported as not
  restored, because either write moves both. Where the first step is below the
  grain of the device, two losses make an "ignored" of a register that is not:
  `IgnoredMeansSpoilt` counts the attempts that could have shown.

## 4. What is proved

`tlapm <module>.tla` proves, for all values of the constants:

| Module | Theorem | Statement |
|---|---|---|
| `SessionProofs` | `TypeCorrect` | `Spec => []TypeOK` |
| | `PortDisciplined` | `Spec => []PortDiscipline` |
| | `HupQueued` | `Spec => []UnreadHupIsQueued` |
| | `PlansComeFromRoutes` | the bursts of every configuration say what its routes and sections say, about every register of theirs |
| | `ContractKept` | `Spec => KeepsItsContract`, i.e. `Session` implements `VerifierContract` |
| | `BarrierHeard` | `LinksStay => (Spec => BarrierHeardLinks)` |
| | `ReappliedFromKnownLinks` | `LinksStay => (Spec => ReapplyFromKnownLinks)` |
| | `RememberedKept` | `KeepsWhatItReads => (Spec => RememberedSurvivesReapply)` |
| `AudibleProofs` | `AudibleWhenVerified` | `Calm => (Spec => []VerifiedMeansAudible)` |
| | `ReloadRouted` | `CalmReloads => (Spec => []ReloadAloneWins)` |
| `SwitchProofs` | `SwitchTyped` | `SwitchSpec => []SwitchTypeOK` |
| | `OutcomeIsTrue` | `SwitchSpec => []OutcomeSaysWhatWasWritten` |
| | `EveryMissIsFound` | `SaysOneThing => (SwitchSpec => []EveryMissIsNamed)` |
| | `SwitchIsAudible` | `Untouched => (SwitchSpec => []SwitchedMeansAudible)` |
| `ConfigLoadProofs` | `ConfigTyped` | `Spec => []ConfigTypeOK` |
| | `NothingIsDropped` | `DefaultKnowsAll => (Spec => []EverySectionCounts)` |
| | `OrderDoesNotDecide` | `DefaultKnowsAll => (Spec => []VerdictIgnoresOrder)` |
| | `PairsAgree` | `DefaultKnowsAll => (Spec => []OneLinkPerPair)` |
| `LifecycleProofs` | `LifecycleTyped` | `Spec => []LifecycleTypeOK` |
| | `StartIsNeverKilled` | `Spec => []StartFits` |
| | `StopIsNotCut` | `Spec => []StopFits` |
| | `VerifierIsNotCut` | `Spec => []VerifierEndsFirst` |
| | `CleanExitsAnnounced` | `Spec => []CleanExitIsReady` |
| | `ReloadIsSafe` | `Spec => []ReloadNeverKills` |
| | `PidfdWinsTheRace` | `Spec => []StrangerOnlyIfLate` |
| `WriteSweepProofs` | `SweepTyped` | `Spec => []SweepTypeOK` |
| | `DriftIsNamed` | `Spec => []EveryDriftIsNamed` |
| | `RestoredUnlessLost` | `TakesItBack => (Spec => []DriftNeedsALoss)` |
| | `ClampedStopsShort` | `HoldsOnly`, `RoundsCleanly`, `PairsAcrossPasses` give `Spec => []ClampedMeansClamped` |
| | `IgnoredWasSpoilt` | `PairsAcrossPasses => (Spec => []IgnoredMeansSpoilt)` |
| `DeviceReadsProofs` | `DiffIsTrue` | `Spec => []DiffTellsDrift` |
| | `ReadsAreTyped` | `Spec => []ReadsTypeOK` |
| | `WorkingDevicesLoad` | `Spec => []WorkingDeviceLoads` |
| | `RoundTrip` | `Spec => []DumpDescribesDesk` |

**Assumptions.** They are ASSUMEs, and TLC evaluates each of them on every
instance. `DeskConstants`, `SessionConstants`, `SwitchConstants`,
`ConfigConstants`, `SweepConstants` and `ReadsConstants` say what the constants
are.

Of a configuration, `ConfigsAreModelled` says that its routes are a sequence and that
what they link and mix, and what its sections set, are messages about modelled
registers. What a plan is made of follows for every configuration, and so does the
order of the sweep's writes: the lemmas are under "The plan" below.

Of a desk, `ReadsMatrix` says that `Matrix` lists the cells of the input matrix,
each once and output by output, that outputs come in pairs with a link register and
that cells name channels which exist; `ReadsValues` that the blank device holds what
its registers can hold, that the files a desk was built from load, and that a hand
turns a register to a value of that register. `NamesTellKinds` says that sections of
one kind that there is one of have one name, which is how `_dispatch` tells sections
apart. `Durations` says that the waits are natural numbers, and `Budgets` what
`tests/test_unit_file.py` asserts of the unit file: the startup budget is below `TimeoutStartSec`, the sum of the
waits on the stop path below `TimeoutStopSec`, the barrier below the verifier's
grace. The theorems about deadlines therefore hold for any numbers that keep
these three inequalities.

**Hypotheses.** What only one theorem needs is a hypothesis of that theorem, a
definition beside the property, and evaluated by TLC as well (`LinksStayHere`,
`CalmHere`, `CalmReloadsHere`, `KeepsWhatItReadsHere`, `SaysOneThingHere`, `UntouchedHere`,
`DefaultKnowsAllHere`, `TakesItBackHere`, `VerdictsHere`):

* `LinksStay`: no config of the session turns round a link that another one needs,
  and no hand turns one. Losses, crashes, late reports, stops, reloads and the GUI
  are all in. Without it an old report could still be right when it is read and
  be overtaken by a link the reload writes.
* `Calm`: no datagram is lost, the dump holds the awaited links and their reports
  are in time, nobody turns the mix or a link, and every config is `Wired`: an
  output alone or an odd one and the next, and no two routes from one source into
  one pair. `config.py` checks neither of the last two; a routing that breaks
  them has no one meaning, since what one route feeds the other cuts.
* `CalmReloads`: `Calm` and `LinksStay`, for the files that are read later as well.
  Nothing undecodable reaches the barrier, which would take it for its timeout
  (`Garbled`). And no `[pin]` section names a link, which `_parse_pin` refuses:
  the links and cells of a route are therefore always written, never remembered.
* `KeepsWhatItReads`: no datagram is lost and the backend binds within its deadline;
  no edit of `[pin]` turns round who wins; and what a file says of a remembered
  register is one thing, is in the dump, is reported in time, and is not the volume
  of a route. A register no report came for is written: it is not known to differ.
  The volume of a route goes out again with the mix, without a look at what the
  device holds; `kept_volume` is the counterexample. Hands at the faders and the
  links, undecodable datagrams and reloads that turn a link round are all in.
* `Untouched`: the assumptions of `Calm` for the switch, where losses are a premise
  of the property itself.
* `SaysOneThing`: a profile names a register once. One that gives a volume in a
  route and in a section says two things, and the list of misses would be about
  the later one.
* `DefaultKnowsAll`: the device a file is read for until it names one has the
  families of every other. In `registers.py` the UCX II is the only device with a
  table of its own.
* `TakesItBack`: a device accepts the value it has reported. That is what the sweep
  is built on, and the one thing about the device it cannot test.
* `PairsAcrossPasses`: the two sides of a linked pair have channels of different
  parity. It is all that "ignored" needs. "Clamped" needs besides that the numbers of
  METHOD suit the grain of the device. The theorem takes for each register a set of
  values and asks of it: that the register stays in it whatever the sweep sends it
  or its partner (`HoldsOnly`); and that a write which shows is stored within half
  its step, unless what was sent is that far from the candidate already
  (`RoundsCleanly`). Both speak of one write at one value, and both hold of integer
  registers of a few positions: `WriteSweepMC` has 0..5 and 0..3 in `AnyValue`, and
  TLC evaluates them there. What the passes, the pairs, the losses and the repair
  make of it is the theorems' part.

**The plan.** Plans are folds and concatenations, which the library defines by CHOOSE
of a recursive function, and no induction theorem can be used (it takes an operator
as its parameter). `PlanProofs` shows that the functions exist: for the sets of
numbers up to k, one k after the other, with the smallest k that fails (`UpTo`) in the
place of induction. `Chain` then gives the values of a fold in their order, one step
from each to the next (`RecordedInSteps`, `FlattenInSteps`). From the steps follows
what is needed of a plan, for every file: concatenating the messages of the routes
loses and invents none (`FlattenRange`); a dictionary filled with them loses no
register (`DeduplicatedRegisters`) and invents no message (`DeduplicatedRange`);
leaving registers alone drops their messages and only those (`WithoutRange`); each
register has a last message (`LastMessage`). `PlansComeFromRoutes`,
`LeftAloneIsDropped`, `PlansAreTyped`, `PlansAreSent` and `InOrderIsAll` say the same
of the bursts of a session, of a switch and of the queue of the sweep.

**The session.** `TypeOK` is inductive by itself: one lemma per group of
actions (apply, window, verifier, main, environment, signals), one step per
action. The other theorems need to know how the two threads begin. `StartInv`
says that the verifier runs only after READY, that it owes the re-apply of
the mix until it runs, and that one that still owes it then has links to wait
for. Without it, `PortDiscipline` would not exclude
that `FirstApplyOut` takes a verifier that is inside a window back to
`settling` with the port in its hands, and the contract would allow a
verifier to begin again. `StartInv` is proved first and then used as a fact in
every step. For the refinement each action of `Session` is shown to be a step
of `VerifierContract` or to leave `stopping`, `phase` and `left` unchanged:
datagrams stutter; a burst begun is `Write`; its last message is `Written`;
`StopAsked` and `BackendDies` are both `Stop`; `Exits` is `End`.

**The links.** A link that was heard as it is wanted must be at the device, be
known to oscmix and stay both (`Sure`), while other reports of the same register
are under way. `LinkInv` gets there from the order of the wire: once a link has
been reported as it is wanted, no later report of it says anything else
(`ReportIsFinal`), because whatever is still sent about it says the same
(`Planned`, `OneVoice`) and the device reports a link when it changes. What has
been ticked off, in the barrier or in the window, is then sure
(`TickedOffIsSure`). `DeskChange` lists once what any step of any actor can do to
the device, the wire and the port; `ThreadChange` does so for the bursts and the
waits. All the theorems about reports are built on these two.

**The mix.** `AudibleInv` follows one config from the first apply to the verdict:
the links at the device, with what is still to send of them (`LinksSet`), the
single outputs (`SinglesFed`) and the pairs (`PairsFed`), which are certain only
after the re-apply. That the re-apply does happen before a verdict is
`StillToCome`: a link the window waits for is in the rest of the dump, on the wire
or at the port, so the window cannot be complete without it. A backend that dies
takes all that with it; `Trusted` says until when its death no longer matters.
The heart is `CellKept`: a mix message, of whatever route, leaves a cell fed that
is fed, when oscmix has the link its route was planned for.

**The reload.** A reconcile writes what differs and waits for links it has not
changed, which the device does not report again. `ReloadInv` takes over where the
dump is asked for: from then on a wanted link the device has is known to oscmix,
or on its way, or still to be dumped (`Synced`, `Dumped`). The links are then at
the device or in the burst (`LinksRewritten`), so that the barrier ends with
every link known, also when its time is up: by then nothing about a link is under
way. From there `CellKept` carries the mix (`MixRewritten`), as above. An apply
writes only what its own file says (`SaysItsFile`), and a verifier that had
ended when it began writes nothing (`OneAtATime`).

**What the device may keep.** A thread that writes over a remembered register must
have read the value which is there, or somebody has moved it since. `RememberInv`
has one part per place where that could go wrong. `TellsTrue`: while nobody else
has moved a register, every report of it under way is true, whoever asked for the
dump, and so is what was confirmed from one. `HearsAll`: what the file says of a
remembered register is confirmed, differs, or is still to come, until the window
ends; it ends because all is confirmed, because the deadline left nothing under
way, or by a stop, and after a stop nothing is written. `WritesConfirmed`: the
apply behind the window leaves alone what differed, in both bursts, so that what
it writes had been confirmed and is the value the device has. `OnlyTheMix`: the
re-applies of the mix say nothing of these registers. `ReadsAfterReady` covers the
first apply, which asserts every register and is not asked to keep any: before
READY no dump has run, so no report of that time outlives it. `Path` says once
how a thread gets through a window and an apply, whoever takes the step.

**The switch** reuses the session's lemmas for the steps it delegates and for
the verifier beside it. `OutcomeSaysWhatWasWritten` is not inductive: `SwitchInv`
adds, for every place the process can be at, what has been sent by then -- either
something, or nothing because the bursts behind it were empty -- and that an
outcome is its last step. `MainUntouched` is what makes the interleaving
harmless: the verifier moves nothing of the switch. `EveryMissIsNamed` rests on
`MissInv`: a report of the wanted value, under way or confirmed, is still true of
the device, or somebody else has moved the register since the switch last wrote.
`SwitchedMeansAudible` has no re-apply to rest on. `HeardInv` says instead, while
nothing disturbs the switch, that oscmix's copy of a link is the device's or its
report is on the wire, that the reports are true, and what of the two bursts is
still to go (`LinksReported`, `LinksLearnt`, `LinksWritten`, `RoutesFed`). At the
end of the barrier nothing is on the wire any more, whether it heard the links or
its time passed, so the mix is folded by the right links.

**The parser.** `LoadInv` has three parts. `Held` types what is being built.
`Underway` is the accounting: every section of the file is still unread, waits, or
is in the config with what it asks for, and nothing else is in the config.
`Unfit` covers the refusals: each one names a section, or a pair of them, for
which `FitFor` is false whatever the order. `OrderDoesNotDecide` follows: `FitFor`
is said over the set of sections, an accepted file is fit and a refused one
unfit. The hard part is a section read before `[device]`, by the table of
the default device, and resolved by the table of another.

**The deadlines.** `StartFits` is carried by a potential: what is left of the
present wait and of the waits still to come is below what is left of systemd's
timer. Every `Tick` takes one from both, every change of the wait is paid for by
the sum. `StopFits` is the same with the kill deadline and the polls of
`supervise` on the left, from the moment `stop` is seen; a stop that meets the
session in the wait for the port is outside of it, since `StopBudget` does not
count that wait. `VerifierEndsFirst` bounds the barrier of the verifier by the
grace at `join`.

**The sweep.** `before` says how a register was found, the last dump (`state`)
how it is left, and no write comes after that dump: the invariant carries these
three facts through the phases (`IInv`). `unrestored` is computed from the two,
so a register that differs from how it was found is named unless neither of them
reported it. `SweepTypeOK` bounds the attempts of a register by three, which
needs the parity of the pass (`TurnsTaken`): a register has its turn in every other
pass. `GoesBack` is what makes `DriftNeedsALoss` inductive: inside a pass only
what was written, or is linked with it, may differ, and at its end each of those
still has its old value on the way.

An answer is the register's own: while a pass is under way a register that is
written holds what the dump before the pass said or what its own write made of it,
for its partner has no turn (`PassInv`). "Clamped" follows for any number of
losses. "Ignored" is an account of losses: an attempt that ended without an answer and
would have shown has cost a datagram -- the write or the report (`LookPays`) -- and one
dump costs no register more than its own. `LossesPay` says that the losses so far cover
the attempts of each register that would have shown, with the one under way; `TurnsUsed`
that a register still without an answer has had its turn in every pass of its parity,
which makes three (`IgnoreInv`). No assumption on the grain of the device is
needed: whether a write shows is asked of the value that was sent.

**The reads.** What `--diff` has seen of a register is what the device holds,
unless a hand has moved it since the request (`seen` against `dev` and `moved`);
a complete read has heard every reported register. `DiffTellsDrift` follows from
the two when the command ends.

What is in a file, and what an apply makes of it, are folds as well. On `FoldExists`
and `Chain` rest `StoredCloses` (what every write of an apply keeps, the apply keeps)
and `WalkInSteps` (the routes of a dump, cell by cell); the messages of a file are
those of `DesiredTyped`. `TypeInv` follows; its heart is `DumpIsFile`.

That a dump loads is a fact about `DumpOf` alone (`DumpLoads`), for any reading,
complete or not: each route is that of a cell, its link value is the link of its
outputs, so that no two routes disagree, and its channels exist unless the cell is
`Lonely`. `LoadInv` says that a config which does not load is a dump of what was
heard last.

The round trip is the same argument from both ends (`TripInv`). What the dump of
a plain desk says of a register is what the desk holds there (`PlainRoute`,
`PlainWrites`), so a diff is empty; and each write of it is one the device stores
as the value it has, with the links folding where they fold (`Fixed`), so an apply
leaves the desk as it is (`PlainStays`). The order of the walk is what makes this
true of an unlinked pair: its right cell alone would read as the left one of the
next pair. `WalkInv` says that the left side of each pair walked so far has claimed
its right side, and `LeftComesFirst` that it comes first -- from the order of
`Matrix`, the only place where it is needed.

Where a proof would choose the first or the last element of a sequence with some
property, it takes the minimum of a set of numbers (`Smallest`, `Largest`)
instead of an induction.

**Only model-checked.**

* Liveness, which is out of the prover's reach: `StopLeadsToExit`, `VerifierFinishes`,
  `HupIsServed`, `SwitchEnds`, `LossIsNoticed` and `SweepEnds`. Every other property of
  a passing run has its theorem.
* That the constants of the instances are what the assumptions say of them.

## 5. What is left out

* `osc.py`: the byte layout. The reports modelled all decode; a datagram at
  the barrier that decodes to nothing is `Garbled`.
* `pipewire.py` prints text from a configuration and keeps nothing.
  `src/install.sh`, `src/scripts/verify-hardware.py` and `record-dump.py` are not
  part of the running program: they install, or read the device for a person and
  compare two readings. Linters and tests likewise.
* ADR 0013's addendum says the device also reports the partner of a linked
  pair when one side is written; `registers.py:61-74` says the opposite of the
  level registers. `Desk` echoes the output links only.
* `backend.Traits` of other backends, `--snapshot`, `--list-profiles`,
  `--dry-run`, the meters, the tolerance of 0.5 dB in a comparison.
* `--diff` on a Fireface 802: none of its playback registers has a verify class,
  so that a file with playback routes always differs.
* A process other than oscmix on the receive or send port, other than the mixer
  GUI; more than one user for the sleep hook; the sandboxing of the unit.
* The value syntax of `routing.conf`: a section has a flag for whether it
  parses, and one option. A range check that lets NaN pass (`config.py:667`) is
  below this.
* A SIGHUP or the first apply of a session while a profile switch runs: only the
  verifier is beside it.
* A hand at the front panel while the sweep runs. `_followed` takes any change of
  a register with a range below one for a confirmation; the registers modelled
  have ranges of at least three.
* The 32-bit floats of the wire, and of a step that is not a whole fraction.
* A dump for the session: the register table with its thousand rows is data.
  The model has the families that are treated differently.

## 6. Plan

Done, in this order: `RoutingPlan`, `Readback`, `Desk`, `Session` with
`VerifierContract`, `SessionProofs`, `ConfigLoad`, `ProfileSwitch`,
`StaleBackend`, `Lifecycle` with `LifecycleProofs`, `WriteSweep` with
`WriteSweepProofs`, `DeviceReads` with `DeviceReadsProofs`, `SwitchProofs` with
the switch beside a verifier, the link theorems of `SessionProofs`, `AudibleProofs`
and what the switch needs of them, `ConfigLoadProofs`, `PlanProofs`.

Left:

1. **A second pair of outputs** in `SessionMC`, once the state space allows it.
