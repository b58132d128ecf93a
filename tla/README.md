# Verification of shelly-homekit

TLA+ models of the firmware in `src/` (HomeKit firmware for Shelly relays),
checked with TLC on small instances, with safety theorems proved by TLAPS for
all values of the constants.  `PROJECT.json` maps every definition to the lines
it stands for, and lists the runs, the mutants that show each property can
fail, the findings, the hazards and the theorems.

## 1. The system

The firmware is one program on one microcontroller.  Everything but two
interrupt handlers (the sampling timer of `NoisyInputPin`, the pulse counter of
`BL0937`) runs in the main loop of mongoose-os: timers, RPC handlers, HAP
handlers, GPIO callbacks (debounced), and callbacks posted with `InvokeCB`.
A handler is never interrupted by another one; the hard part is the order in
which they run, what each finds when it runs, and what is left when the power
fails or the service restarts between two of them.

| Component (source) | State | Operations | Talks to | Status |
|---|---|---|---|---|
| Roller shutter, `shelly_hap_window_covering` | state machine, positions, calibration, two relays | 100 ms timer, HAP, RPC, inputs, configuration | inputs, outputs, power meters, flash | modelled, proved |
| WiFi manager, `wifi_config/` | current and tried configuration, AP, state of the attempt | timer, events, RPC, reset | WiFi library, flash, reset | modelled, proved |
| Garage door, `shelly_hap_garage_door_opener` | door state and target, obstruction | 100 ms timer, HAP, RPC | sensors on inputs, pulses on outputs | modelled, proved |
| Service, `shelly_main` and `shelly_ota` | accessories, HAP server, service flags, update | 1 s timer, RPC, update and reboot events | all components, HAP library, OTA library | modelled, proved |
| Switch family, `shelly_switch`, `shelly_hap_{switch,outlet,lock,valve}` | output, auto-off timer, dirty flag | inputs, HAP, RPC, system button, timers | input, output, flash | modelled without power meters and second inputs, proved |
| Inputs, `shelly_input_pin`, `noisy_input_pin/` | last level, press machine, reset counter | edges, timer, sampling interrupt | handlers of the other components | `InputPin` modelled, proved |
| Detached inputs: stateless switches and sensors, `shelly_hap_input`, `shelly_hap_*_sensor` | type, idle timer, last event | input events, configuration | inputs, HAP | modelled, proved |
| Reset, `libreset/` and the start in `shelly_main` | reboot counter, failsafe mode, password file | boot, button, reset sequence, RPC | inputs, WiFi manager, flash | modelled, proved |
| Light bulb, `shelly_hap_light_bulb`, its controllers | setting, brightness, queue of fades | HAP, RPC, inputs, timers | output PWM, adaptive lighting | modelled, proved |
| Adaptive lighting | active curve, time on it | HAP control point, timer, brightness | light bulb | modelled without the wire format, proved |
| Outputs | level, inversion, pulse timer | set, pulse, PWM | relays | in `Switch`, `GarageDoor` and `LightController` |
| Power meters, temperature and humidity sensors | counters, readings | bus timers, interrupts | other components | environment |
| RPC service, logging, LED, web UI, app | - | parsing, output | - | handlers modelled with their components |

What makes each of them correct:

* Roller shutter: never both relays; no unasked movement; a stored calibration
  is a measured one; a movement ends; a shutter left alone comes to rest on its
  target; Home sees the direction the motor is driven in.  A request that puts
  the state machine in the middle of a calibration or a movement breaks most of
  these, until another calibration begins; see `WindowCovering` below.
* WiFi manager: nobody is locked out by a wrong password; a trial ends, in the
  new network or the old one; what is used is what is saved; a device without a
  network has an AP.
* Garage door: target, state, sensors and obstruction agree; no movement is
  reported for ever.
* Service: the HAP server is down while an update, a reboot or heat needs it
  down, and comes back afterwards; it shows the present configuration and Home
  notices when that has changed.
* Switch family: output, remembered state and flash go together; Home knows the
  value a read would return; an output with auto-off goes off, except after a
  long press, when auto-off was enabled later, and when a service starts that
  leaves the output as it is.
* Inputs: no click without a press; what handlers were told and what sensors show
  goes together, although any reader of an input may swallow an edge.
* Reset: the counter counts boots that did not last and no others; settings go
  only where a reset was asked for; a power failure between two writes locks
  nobody out, unless a password was just being replaced.
* Light bulb and adaptive lighting: whatever fades were cancelled, the outputs
  end up at the setting; a temperature chosen in Home stays what it is; an
  active curve is followed at every brightness.

The hazards behind these, each at its line and with the property that would
show it going wrong, are in `PROJECT.json`.  Some of them do go wrong
(section 5).

## 2. Modules

| Module | Models | Role |
|---|---|---|
| `WindowCovering`, `MCWindowCovering` | roller shutter | specification, constants for TLC |
| `WindowCoveringProofs` | | theorems |
| `WindowCoveringMotionProofs` | | theorems about steps: no reversal, a tap stops |
| `ConfigTrial` | what the WiFi manager promises | abstract specification |
| `WifiConfig`, `MCWifiConfig` | WiFi manager with library and reset | specification, refinement of `ConfigTrial` |
| `WifiConfigProofs` | | theorems, among them the refinement |
| `GarageDoor` | garage door opener | specification |
| `GarageDoorProofs` | | theorems |
| `Service`, `MCService` | shelly_main and shelly_ota | specification, constants for TLC |
| `ServiceProofs` | | theorems |
| `InputPin` | an input, its edges and clicks | operators, used by `Accessory` |
| `Switch` | the switch family with its output | operators, used by `Accessory` |
| `DetachedInput` | services of a detached input | operators, used by `Accessory` |
| `Accessory`, `MCAccessory` | one channel: the three composed | specification, constants for TLC |
| `AccessoryProofs` | | theorems |
| `Boot` | start, failsafe mode, reset, passwords | specification |
| `BootProofs` | | theorems |
| `ColorModel` | what the outputs of a lamp show | operators, and a definition to compare with |
| `LightController` | the queue of fades | operators |
| `AdaptiveLighting` | the curve and its control point | operators, and a definition to compare with |
| `LightBulb`, `MCLightBulb` | the lamp: the three composed | specification, constants for TLC |
| `LightBulbProofs` | | theorems |

### Style

Handlers of this code call methods that change several members, sometimes the
same method twice (`RunOnce`).  So the members of an object are one record and
a method is an operator from record to record; an action composes them in the
order of the code.  `WifiConfig`, whose handlers change each member once, uses
plain variables.  Definitions named `Mut...` are plausible mistakes: each
replaces the definition it precedes and makes the property named in
`PROJECT.json` fail.  No specification uses them.

### WindowCovering

`wc` is the record of the members of `hap::WindowCovering`, the relays, the
configuration in memory and what is in flash.  `RunOnce` has one operator per
value of `state_` (`IdleStep` ... `ErrorStep`).  `Timer(d, pw)` lets `d`
periods pass and runs it with the readings `pw` of the two meters; HAP, RPC,
the inputs, `SetConfig`, the restart of the service and a power failure are
actions of their own.

A reading is one of seven classes, the ones the comparisons of the code tell
apart; any reading may follow any other, so the motor and the meter are as
unreliable as can be.  Time is counted in periods of the timer; clocks that no
comparison looks at stand still (`Aged`) and all stop at `MaxClock`.  Four
history variables record what a property is about: `overlap` (both relays on,
even between two writes), `halt` (what last told the shutter to stay),
`sampled` (a power sample was taken in `kCal1`) and `jumped`.  Left out: HAP
notifications, the obstruction characteristic, names and services.

`SetState` accepts every state with a name, and so does `RPCSetState`: the
specification and the proofs allow all thirteen (`RpcStates` is any subset, and
which ones an instance explores is in its configuration; `{state: -1}`, none, is
accepted too and does nothing).  From `kMove`, `kPreCal0`, `kStop`, `kStopping`,
`kError` and `kIdle` the state machine goes on as ever.  The other seven
(`Midway`) rely on what the state before has set up: `kPostCal1` declares a
shutter calibrated that was not measured, `kPreCal1` drives a relay without a
direction and over a wall switch, `kMoving` waits for a motor that nobody has
turned on.  `jumped` records that the state machine has entered one of them by
request, and that no calibration has begun since.  The properties whose premise
it is do fail without it (`MCWindowCoveringJump.cfg`, section 5); that a new
calibration mends everything, through restarts and power failures, is part of
what they say.  `TypeOK` and `NoUnaskedStart` hold either way.

`halt` keeps apart a failed move that was given up, and one whose end was cut
short: `kError` gives the target up at its next run, and a Hold, or a request for
a state, that comes before leaves the target, so that the failed move starts
again.  That is `halt = "cut"`; `NoUnaskedStart` excepts it by name, and
`FailureIsFinal`, which does not, fails (`MCWindowCoveringCut.cfg`).

Before a calibration `move_time_ms` and `move_power` are 0, and a state that was
asked for divides by them: a quotient is infinite then and `TrimPos` makes it the
limit.  The first millisecond of such a movement, in which the quotient is 0 / 0,
is taken for the same.

### WifiConfig and ConfigTrial

`conf` is `cur_`, `new_` and the pointer `act_`; `store` is the system
configuration in memory and in flash; `Process` has one action per value of
`state_`.  The WiFi library is external and modelled from its use: `lib` is the
network it was given and how far it got, `event` a `STA_CONNECTING` event that
is posted but not delivered.  It keeps trying until it is told to disconnect,
and events arrive late but in order.  `ResetDevice` is the reset of `libreset`,
which restarts two seconds later.  Passwords, addresses and host names are
part of a network's name: a wrong password is a network that is not reachable.

`ConfigTrial` is the promise: a proposal is on trial until it is committed or
abandoned, only a network that has accepted the device is committed, and what
is saved is what a crash leaves.  The refinement maps `cur.sta`, `flash.sta`
and, while `act_` points to it, `new.sta`.

### GarageDoor

`door` holds the members, `level` the two inputs, `writes` the number of HAP
writes whose callback is still queued, `pulse` the outputs with a pulse under
way.  `HAPTgtStateWrite` checks, `HAPToggle` acts later and toggles whatever
the value was.  The door is the environment: its sensors change at any time.
`pre_stopped_state_` is uninitialised in a new object and `obst_notify` on most
paths of `SetCurState`: the first is any state, the second may announce what
Home already knows (`obstTold` is what Home last heard).  The move times are
constants of an instance, so that changing them while the door moves is left
out.

### Service

`sv` is the state that the functions of `shelly_main` share: HAP server,
components, flags, outputs, and what Home knows (`known`, `bumped`, `unseen`).
A component is abstracted to an output and whether it is busy; `Drive` is
anything it does by itself.  The set `Settings` stands for configurations that
give different accessories.  The update library calls `OTABegin` until it is
not told to wait; it may fail at any time.  The callback that destroys the
components is taken to run with the server's change to idle, as the HAP library
calls it from there.  Power fails between handlers, not within one.
The connection watchdog is modelled on a device that has a station configured;
without one it does nothing (`Timeout` = 0).  The revert to stock firmware, which
skips the change of the configuration number, is left out.

### InputPin, Switch, DetachedInput and Accessory

Each of the first three is one class: a record of its members and an operator
per method.  `Accessory` owns them as `CreateHAPSwitch` does and adds what lies
between them.  A change of the pin (`PinChange`) is only looked at later
(`HandleEdge`, the debounced interrupt); until then anybody who reads the input
changes `last_state_`, and the handler then takes the edge for noise.  `Status`
is the house-keeping timer that looks at every component, and with that saves a
dirty state; `AutoOffTimer`, `SensorTimer` and `PinTimer` may fire at any time
they are armed.  `Boot` is a power failure, or a restart of the system if `soft`.

`heard` is what handlers were last told, `fresh` whether a press was reported
since the last click; `told` is what Home was last told.  Left out: dual inputs
(`in_mode` "Both" with two pins), power meters, names, and
`SetConfig` requests that a detached input's service rejects (its type is changed
in memory by then).  A switch on the primary accessory creates no service for
its input.  `initial_state` "Input" in any mode but toggle sets nothing: the
output is then what the pin was, and the state, until something sets it, is not
known to agree; the history member `set` says that something has, and
`StateIsOutput` speaks of a state that was set.  Changing `hk_state_inverted` of a hidden
switch is undefined behaviour in the code and is covered by `Boot`.  The noisy
input's sampling interrupt is not modelled; an edge it drops is, for the rest, an
edge that a reader has swallowed.  `InjectInputEvent` is the RPC that tells the
handlers of a click nobody made; it goes past the input, so that
`NoPhantomClicks` speaks of the clicks the input reports.  With several switches
the system button counts through their states in binary; here there is one.

`spared` is the history member behind auto-off: the output is on, auto-off is
enabled and no timer runs, for one of the three reasons the code has.  A long
press stops the timer (`kLong` in momentary mode).  `SetConfig` enables auto-off
without starting the timer of an output that is on.  And `Init` with
`initial_state` "Input" and an input that is no toggle sets nothing, so that a
restart of the service leaves an output on and its timer gone.  It is cleared when
the output is set or the timer started.

### Boot

`b` is memory, flash and the RTC word of a device; `conf9.json` and the file of
the password are written in the order of the code, and the power may fail
between two writes (`Cut`, and the `...Cut` operators).  Uptime
and the pause between changes are counted as far as a comparison looks.  RPC
requests are served while the app runs and in failsafe mode (`Serving`).  Four
history members: `short` (boots in a row that did not last), `quick` (changes in a
row without a pause and within the window after the start), `wiped` and `torn`.

The password is two things, the setting that asks for it and the file with the
user's entry.  `SetAuth` opens the file with `fopen(..., "w")`, which empties one
that is there, writes the entry and saves the setting.  For the first password
every cut is harmless, since the setting comes last.  While a password replaces
another, the setting asks for a file that is empty, or that has the entry of
another realm: if the power fails then, nobody can log in (`torn`).  The other way
to be locked out is `Shelly.WipeDevice` on a running device, which leaves the
configuration in memory, so that a save in the 500 ms before the restart writes
it back, with a password whose file is gone (`wiped`).  `NoDanglingAuth` says
that there is no third way; `NeverLocksOut`, which does not except the
replacement, fails (`MCBootPassword.cfg`, section 5).  Writes and saves that
report an error are left out, only the power cuts them short.

### LightBulb, LightController, AdaptiveLighting and ColorModel

`LightBulb` composes the bulb, its controller and adaptive lighting, which call
each other.  Colours are computed exactly, in the unit that the largest divisor
gives (`Full`), so no tolerance is needed: `Shows` compares them with the
definition of HSV, of additive mixing and of the mired scale.  The state in the
middle of a fade is not stored but derived from its ends and the elapsed time
(`StateNow`); time is counted in units of 500 ms, the length of an
identification fade.  `manual` is the temperature that Home, or a client after
Home, has chosen since the last activation, `fresh` says that nothing has changed
what the last adjustment looked at, `set` that the setting has been applied since
the start (`initial_state` "Input" need not), and `spared`, as for the switch,
that the light is on with auto-off and without a timer.  `SetConfig` changes the
mode of the input live, except from and to the detached one.

`Temperature` is the loop and the interpolation of `AdjustColorTemp`, `OnCurve`
what the comment on the wire format says; both in whole numbers.  Where a
segment is as long as its duration the code divides 0 by 0; the NaN passes the
clamp and is converted to an integer, which is undefined, so the result is a
constant of the model, `TemperatureOfNaN`, any temperature.  A request to
the control point is the set of transitions in it, none or one.  A
request that only reads, or one without a curve, sets the count of active
transitions to zero but leaves the timer on, which then finds nothing to do.
Left out: notifications and answers, a bulb without an input, an empty curve (the code reads its first
entry) and a segment shorter than the rounding of a `float`.
The instance has CCT and RGBW; white is a scaling of one output and RGB is
RGBW without its last step.  A bulb without colours would dereference
null in `SetHue` when asked by RPC: such requests are left out.

## 3. What is checked

Passing runs (times with two workers):

| Run | Instance | Properties | Time |
|---|---|---|---|
| `wc_safety` | 6 positions, travel up to 2 periods, toggle inputs, readings error, off, normal, requests for `kPreCal0`, `kPreCal1`, `kPostCal1` and `kMoving` | types, `NoOverlap`, `CrashSafeCalibration`, `CalibrationIsMeasured`, `ReportedDirection`, `NoSuddenReversal`, `NoUnaskedStart`, `TapStops` | 3 min |
| `wc_live` | garage door mode, 5 positions, targets at and next to the limits, a single input, overload, requests for `kPreCal0` and `kError` | `MovesEnd`, `Settles` | 3.5 min |
| `wifi` | one reachable network, one that never answers, every AP setting | `OnlyProven`, `ImplementsTrial`, `TrialEnds`, `Reconnects`, `SetupAPComesUp` | 1.5 min |
| `gdo` | two sensors in every mode, all output modes | `TargetAgrees`, `ObstructionInSync`, `ReportsSensors`, `MovesEnd`, `Settles` | 0.5 min |
| `service` | two settings, waits and timeouts of one second | `Inhibited`, `UpdateUndisturbed`, `HomeNotices`, `ShowsConfig`, `ServiceResumes` | 0.3 min |
| `accessory` | three configurations of the switch, a button and a contact sensor | `StateIsKept`, `HomeInSync`, `NoPhantomClicks`, `SensorsTrack`, `AutoOffIsKept`, `ComesToRest` | 2.5 min |
| `boot` | five boots, five changes of the input, three versions of the configuration | `NoDanglingAuth`, `FailsafeIsClean`, `CountsAreHonest`, `SettingsSurvive`, `Settles` | 1 min |
| `light` | a CCT and an RGBW bulb, three configurations, a curve of two entries with brightness adjustment | `ShowsSetting`, `ManualWins`, `FollowsCurve`, `Settles` | 3 min |

The runs that are expected to fail are in section 5.

What they show, component by component:

* `NoOverlap` follows the relays through every path, including the moment
  between `out_open_` and `out_close_`; `NoSuddenReversal` adds that no handler
  turns one off and the other on, except for the start of a calibration while a
  wall switch holds the closing relay, which the property names.  Both, and
  `CrashSafeCalibration`, `CalibrationIsMeasured`, `ReportedDirection` and
  `TapStops`, speak of a shutter that has not jumped, or has begun a calibration
  since.
* `NoUnaskedStart` covers every way a failed move may be retried by itself, and
  leaves one, the halt that was cut short.
* `TapStops` holds for a shutter that moves less than two percent of its travel
  between two runs of a timer that is on time, as in the instance; with a late
  timer the overshoot is not reconciled and the shutter drives back
  (`HandleInputSingle` aims one percent ahead).  Section 4 has the exact bound.
* `Settles` excludes hunting around the target, and states that are never left,
  for every target including those next to the limits, unless the state machine
  has jumped into one.
* `OnlyProven` and `ImplementsTrial` cover requests that arrive during a trial,
  events of an earlier attempt, resets and power failures in any state.
* `TargetAgrees`, `ObstructionInSync` cover callbacks that act on a door that
  has moved since the write was checked.
* `HomeNotices`, `ShowsConfig` cover restarts that overlap: while the server is
  still stopping, during an update, with the legacy layout dropped by the timer.
* `StateIsKept` and `HomeInSync` follow an output through its inversion, a new
  service type, lazy saving and restarts.  `AutoOffIsKept` says that an output
  that is on with auto-off enabled has a timer, through commands, edges, changes
  of the configuration, restarts and power failures, but for the three reasons of
  `spared`; `ComesToRest` that it then does turn off, and stays off.
* `NoPhantomClicks` and `SensorsTrack` hold although edges get lost: that they do
  is shown by `MCAccessoryEdge.cfg` (section 5).
* `CountsAreHonest`, `SettingsSurvive`, `FailsafeIsClean` and `NoDanglingAuth`
  cover a power failure between any two writes of a start, a reset or a change of
  the password.  `SettingsSurvive` counts changes as the code should, early and
  without a pause: settings are lost for nothing else, but for requests and the
  button.
* `ShowsSetting` covers fades that are cancelled: `transition_start_` and the
  timer of the old one then belong to the new one, which begins part of the way.
* `ManualWins` says that the temperature itself stays, whatever timers still run
  and whatever the brightness becomes.  `Settles` of the lamp includes auto-off,
  with the exceptions of `spared`.
* `FollowsCurve` covers every point of the curve, its corners and its end,
  with the brightness changed between two runs of the timer.

### Bounds

`MaxMoveTime`, `MaxClock`, `MaxStall`, `MaxWrites`, `MaxWait`, `Timeout` are
named in the modules.  Five or six positions, two of them to the percent, are
enough for every comparison of `WindowCovering`: both limits, within and beyond
one percent, within and beyond the half percent of `GetDesiredMoveDirection`.
Six positions and a travel of two periods make the steps of the position
unequal, two and three, so that a move overshoots its target; the travel is
longer than the ramp-up, one period, and in `wc_live` shorter than the limit on
it.  The states that `wc_safety` asks for are the one that
begins a calibration and one of each kind of jump, into a calibration, to its end
and into a movement; `MCWindowCoveringStates.cfg` has all of them.  The clocks of
the garage door pass both of its limits.  One queued write is enough for a write to be stale when it acts,
because toggles over RPC come between.  A timeout of one second has a state
before, at and after it.  The theorems of section 4 hold for all values.

The configurations of the accessory differ pairwise in every member that the
code looks at; more of them multiply states and show nothing new.  Five changes
of an input stand for ten, with the same window and pause between them to pass
and to miss.  The curve of the lamp has an entry with and one without an
adjustment, and its end is passed (`MCLightBulbPeak.cfg` has one that goes up and
down); two brightnesses, one below the lower multiplier, reach both sides of the
clamp; hues lie in different sectors.  Fades
last two units of time, so that one can be cancelled in the middle, or none.

`CHECK_DEADLOCK` is left on everywhere: a timer is always enabled.

### Fairness

* `WF` of the timers: `state_timer_`, `process_timer_` and the house-keeping
  timer repeat, and the main loop returns to them.  `WF` of posted callbacks
  and events: the main loop's queue is served.
* `Settles` of the shutter assumes, as a premise of the property, that the
  motor draws no current at some later run (`MotorStops`); `MovesEnd` does not.
* WiFi: a network in reach accepts the device in one of ever so many attempts
  (`SF` of `LinkUp` while the manager waits); setting up the AP does not fail
  for ever; a pending restart happens; time passes (`SF` of `Second`, which
  waits for events).
* Service: a server that was told to stop stops; an update succeeds or fails; a
  reboot that was asked for happens; the device cools down in the end.
* Accessory, boot and light: `WF` of what the firmware does by itself; the
  liveness properties start when `calm` says that users and mains have done
  their last, since any of them may otherwise undo every step.
* Nothing is assumed of users, sensors, inputs or the power.

## 4. What is proved

Every safety property of the passing runs, invariants and action properties
alike, is a theorem for all values of the constants that satisfy the assumptions
in the modules.  So are the type invariants and `TrialUnderWay` and
`CurrentIsSaved` of `WifiConfig`, which no run repeats.  Two theorems have a
premise of their own (`TapHolds`, `CurveFollowed`, below).  The exceptions that
the code makes are in the properties, as history members, and not in assumptions:
`jumped`, `halt = "cut"`, `spared`, `wiped` and `torn`.

* `WindowCoveringProofs`: `Good` strengthens the properties by what the relays
  are in each state (`RelaysOK`), what is known of the configuration in each
  phase of a calibration (`ConfigOK`), both of a shutter that has not jumped, and
  why a halted shutter has no pending target (`HaltOK`), which needs no such
  premise.  Requests for all states are covered, whichever `RpcStates` has.  `Good` does not survive the passing of time in `kCal1`,
  so a weaker `Ready` holds between `Aged` and `RunOnce`.  Assumption: the
  timer is never later than the ramp-up time (`StallAssumption`), without which
  `CalibrationIsMeasured` is false: the average would be 0/0.
* `WindowCoveringMotionProofs`: `NeverReverses` follows a relay through the two
  runs of the state machine in one handler (`StopHere`): the first run never ends
  in a state that drives one relay when the other was on before it.
  `TapHolds` has the premise `Prompt`: the longest stretch between two runs
  of the timer, in the fastest shutter a calibration accepts (travel longer than
  the ramp-up time), is less than two percent of the travel, and, if the runs
  are not evenly spaced, less than one and a half.  With the values of the code
  (100 ms, 5 s), and a percent divided into 26 units or more, it holds for a
  timer that is on time (the bound `MaxMoveTime` has to admit such a travel).  The
  invariant `Calm` says where a
  moving shutter is (`PosAt`, the dead reckoning at some clock), how far it is
  from the target of a tap (`Near`), and that a shutter stopped by one is at its
  target.  `AdvanceOfTap` is the arithmetic: the overshoot stays below the
  percent that `Fixup` reconciles.  Between `Aged` and `RunOnce` the position is
  that of an earlier clock (`CalmReady`).
* `WifiConfigProofs`: `Inv` adds what the library is doing in each state
  (`LibraryOK`): when a trial succeeds, the network that is up is the one on
  trial, or the two configurations have the same station.  `Refinement` maps
  the initial state and each action to a step or a stutter of `ConfigTrial`.
* `GarageDoorProofs`: `Good` is a conjunction of agreement (`Agree`) and
  notification (`InSync`); each step of the state machine keeps both, whatever
  `pre_stopped_state_` is.  `SensorsReported` is an action property.
* `ServiceProofs`: `Good` says that components that outlive a change of the
  configuration belong to a server that is stopping, and that what Home knows
  is the present layout or the configuration number has changed.  It needs
  nothing of how long the server takes to stop.
* `BootProofs`: `Good` is what holds after a handler, `Flash` the part of it that
  holds between any two of its writes, which is why the power may fail there;
  `Kept` is what an app that runs keeps.  `SettingsKept` is an action property:
  it needs that the changes counted are at most the quick ones (`Detect`).
  `LockOutsKnown` is `NoDanglingAuth`: no cut, in any order of requests, locks
  anybody out but the two that are named.
* `AccessoryProofs`: `Inv` is one invariant per class.  `SwitchGood` ties the
  state to the output, to its copy in flash unless dirty, and to what Home knows;
  a switch that does not exist has nothing to save and no timer.
  `PinGood` says what each state of the machine for clicks
  knows of the timer, the count and the press not yet reported, which is why no
  click is without a press although reads swallow edges.  `DetGood` ties a sensor
  to what handlers were last told, not to the pin.  `AutoOffKept` goes through
  every operation that creates, configures, restarts or sets the switch.
* `LightBulbProofs`: `IInv` says that the last fade in the queue leads to the
  colours of the setting (or, with none, that the outputs are there), and that
  adaptive lighting is off once Home has chosen a temperature, which is then the
  one of the setting.  From the bottom
  up: minima of finite sets, `EndOf` along a curve, `ConfigToState` against the
  definitions of the colours (`Shows`) for every hue, saturation, brightness and
  temperature, and outputs in the middle of a fade between those at its ends.
  `CurveFollowed` has the premise that the entries of the curves have no
  durations; `light_hold` shows that the others are not followed.  Attempting
  this proof showed two guards of a `CASE` in `ConfigToState` to overlap, which
  leaves the choice open; it is now the code's `if` and `switch`.

In the modules the invariants are proved method by method: a lemma per operator
from record to record, composed by one step per action.

The proofs need no assumption beyond those stated with the constants: sets of
states, configurations, targets and curves that are well formed, times that are
natural numbers, and for the shutter the timer of `StallAssumption`.

`EndOf` is a recursive function over the entries of a curve.  That it exists and
what it computes is proved by induction (`SumExists`), with the formula as a set,
since the theorems of the library that take an operator cannot be used.

Only model-checked: liveness (`MovesEnd`, `Settles`, `TrialEnds`, `Reconnects`,
`SetupAPComesUp`, `ServiceResumes`, `ComesToRest`), which needs fairness and
`ENABLED`, and these provers do not reason about them.  Nothing in a module with
theorems is declared `RECURSIVE`.

## 5. Findings

Runs that are expected to fail, each against a text of the repository:

| Run | What happens |
|---|---|
| `wifi_reset_undone` | a reset during a trial does not end it; if it connects before the restart, it is saved over the reset |
| `gdo_dual_output` | in dual mode a door stopped while opening is reported closing while the opening output is pulsed |
| `service_watchdog` | the connection watchdog reboots devices that are connected, not those that are not |
| `light_hold` | between two entries of a curve the duration of the entry that is over is waited for a second time, and that of the next one is ignored |

Further configurations are kept beside the runs; TLC refutes the property each of
them names:

| Configuration, property | What happens |
|---|---|
| `MCWindowCoveringJump.cfg`, `NeverBoth` | `kPostCal1` is asked for while a wall switch holds the closing relay of a shutter that was never calibrated: it is then calibrated, and moves open with both relays on |
| `MCWindowCoveringCut.cfg`, `FailureIsFinal` | a request for a state, or a Hold, comes between a failed move and the run of `kError` that gives up the target: the failed move starts again |
| `MCWindowCoveringHold.cfg`, `HoldHolds` | `HoldPosition` keeps the target; the shutter stops for about 300 ms and moves on |
| `MCWifiConfigOff.cfg`, `SettledIsSaved` | disabling the stations while the AP runs is never saved |
| `MCServiceOverheat.cfg`, `OverheatOff` | a component turns its output on again while the server stops for overheating, and is then destroyed |
| `MCAccessoryEdge.cfg`, `EdgesAreHeard` | a status read between an edge and its handler swallows the edge: a wall switch in toggle mode is flipped and the light stays as it was |
| `MCBootPassword.cfg`, `NeverLocksOut` | the power fails while a password replaces another: the setting asks for a file that `fopen` has emptied |
| `MCLightBulbNaN.cfg`, `FollowsCurve` | a segment as long as its duration: 0 / 0 is converted to a temperature |

These pass; they widen a run where all of it together would take too long:

| Configuration | What it adds | Time |
|---|---|---|
| `MCWindowCoveringStates.cfg` | requests for all thirteen states | 4 min |
| `MCWindowCoveringModes.cfg` | toggle and single inputs, overload | 3 min |
| `MCWindowCoveringLiveJump.cfg` | liveness with requests for `kMoving` | 5 min |
| `MCAccessoryClicks.cfg` | a button that is told clicks instead of a toggle | 4 min |
| `MCLightBulbPeak.cfg` | safety of a CCT lamp with a curve of three entries | 1.5 min |

Noticed without a run:

* WiFi: a power-save mode that comes with a failed trial stays; a second, equal
  request while a change of the AP is delayed drops the change.
* Shutter: `tgt_pos: -1` is ignored while it is at its estimated limit but still
  drawing current; the calibration states have no timeout.
* Garage door: `Init` ignores `close_sensor_mode` (the first timer run corrects
  it); `mos.yml` says output 1 opens and 2 closes, while the models pass output 1
  for closing.
* Service: the timeout of the connection watchdog overflows an `int` above
  2147 s; a power failure between saving a configuration and its new number
  has Home keep the old accessories.
* Switch: a restart of the service applies `initial_state` again (only a soft
  reboot restores), although `mos.yml` calls it the initial state on power-on.
* Light: a new controller after a restart fades from dark; setting the
  temperature by RPC, or writing an equal one in Home, does not end adaptive
  lighting; a curve for another characteristic replaces the one that runs.

## 6. What is not modelled, and the plan

Not modelled for good: formatting, parsing and validation of RPC requests, TLV
encoding, logging, drivers of sensors, meters and PWM, the sampling interrupt of
the noisy input (a thread of its own on one word), the tables that wire the
models, the web interface and the app.

Next, in order:

1. The safety half of the liveness properties, as variants: a movement that is
   obstructed for longer than its limit ends at the next run of the timer, the
   queue of fades gets shorter.
2. A second input and power meters in `Accessory`, and its service in the life
   cycle of `Service`.
