-------------------------------- MODULE Boot --------------------------------
(***************************************************************************)
(* How the firmware starts and how it is reset (libreset, InitApp): the    *)
(* failsafe mode of a device whose button is held at power-up, the counter *)
(* of boots that did not last, the migration of an old configuration, and  *)
(* the resets that a flickering input, the system button, five boots or a  *)
(* request lead to.  What is kept is the WiFi setup and the password: the  *)
(* configuration says that there is one, a file holds it.  The power may   *)
(* fail between two writes to the flash.                                   *)
(*                                                                         *)
(* Memory and flash are one record, b; files are written or not written.   *)
(***************************************************************************)
EXTENDS Integers

CONSTANTS
  Boots,        \* short boots that make a reset: 5
  Stable,       \* uptime after which a boot was not short: 10 s
  Changes,      \* changes of an input that make a reset: 10
  Window,       \* uptime in which they are counted: 30 s
  Gap           \* longest time between two of them: 5 s

ASSUME BootsAssumption == Boots \in Nat \ {0}
ASSUME ChangesAssumption == Changes \in Nat \ {0}
ASSUME TimeAssumption == /\ Stable \in Nat \ {0} /\ Gap \in Nat \ {0}
                         /\ Window \in Nat /\ Stable <= Window

VARIABLES
  b,            \* the device: its memory, its timers and its flash
  calm          \* nobody is going to do anything any more

vars == <<b, calm>>

\* shelly.cfg_version: before the first migration, an older one, this one.
Versions == {0, 3, 6}

Version == 6

Configs == [counter : 0 .. Boots, auth : BOOLEAN, wifi : BOOLEAN,
            version : Versions]

\* The levels of the configuration below the one of the user.
Default == [counter |-> 0, auth |-> FALSE, wifi |-> FALSE, version |-> 0]

(***************************************************************************)
(* cfg is the configuration in memory.  Flash: conf9.json, if there is one *)
(* (conf), has saved in it; authFile is the file of the password: none, a  *)
(* useless one (empty, or of another realm than the configuration asks     *)
(* for), or one with the user's entry.  magic is FF_MODE_MAGIC in the RTC  *)
(* memory.  now is the uptime and age the time since last_change_ts_, both *)
(* as far as they matter; cnt is change_cnt_.  stable is the timer that    *)
(* clears the counter, seq the one of a reset sequence, restart that of    *)
(* mgos_system_restart_after.                                              *)
(* History: short, boots in a row that did not last; quick, changes in a   *)
(* row with no pause between them and early enough; wiped, whether a       *)
(* running device has been wiped since a password was last set or removed; *)
(* torn, whether the power has failed since then while a password that the *)
(* configuration asks for was being replaced.                              *)
(***************************************************************************)
Files == {"none", "useless", "entry"}

Devices ==
  [phase : {"reset", "app", "failsafe"}, soft : BOOLEAN, held : BOOLEAN,
   magic : BOOLEAN, cfg : Configs, saved : Configs, conf : BOOLEAN,
   authFile : Files, now : 0 .. Window, age : 0 .. Gap + 1,
   cnt : 0 .. Changes - 1, stable : BOOLEAN, seq : BOOLEAN,
   restart : BOOLEAN, short : 0 .. Boots, quick : 0 .. Changes,
   wiped : BOOLEAN, torn : BOOLEAN]

CountTo(n, limit) == IF n < limit THEN n + 1 ELSE n

-----------------------------------------------------------------------------
\* mgos_sys_config_save.
Save(d) == [d EXCEPT !.saved = d.cfg, !.conf = TRUE]

\* The CPU starts again: by a restart of the system, or by its power, when
\* somebody may hold the button.
Reset(d, soft, held) ==
  [d EXCEPT !.phase = "reset", !.soft = soft, !.held = held,
            !.magic = soft /\ d.magic, !.now = 0, !.age = 0, !.cnt = 0,
            !.stable = FALSE, !.seq = FALSE, !.restart = FALSE,
            !.quick = 0]

\* A failure of the power between two writes.
Cut(d) == Reset(d, FALSE, FALSE)

\* The files of WipeDevice, in the order in which they are removed.
RemoveConf(d) == [d EXCEPT !.saved = Default, !.conf = FALSE]

RemoveAuth(d) == [d EXCEPT !.authFile = "none", !.torn = FALSE]

\* Mutant: only the last file says whether there was something.
MutWiped(d) == d.authFile # "none"

\* The result of WipeDevice: there was something to remove.
Wiped(d) == d.conf \/ d.authFile # "none"

WipeDevice(d) == RemoveAuth(RemoveConf(d))

-----------------------------------------------------------------------------
\* SetRebootCounter.
SetRebootCounter(d, n) == Save([d EXCEPT !.cfg.counter = n])

\* mgos_system_restart_after.
RestartAfter(d) == [d EXCEPT !.restart = TRUE]

\* ResetWifiConfig, and no password any more.
ClearSettings(d) == Save([d EXCEPT !.cfg.wifi = FALSE, !.cfg.auth = FALSE])

\* ResetDevice: the configuration is saved, then the file is removed.
ResetDevice(d) ==
  [RestartAfter(RemoveAuth(ClearSettings(d))) EXCEPT !.wiped = FALSE]

\* The power fails in ResetDevice.
ResetDeviceCut(d) == Cut(ClearSettings(d))

\* Enough boots that did not last.
ManyBoots(d) == d.cfg.counter >= Boots

\* Mutant: nothing clears the counter.
MutCheckRebootCounter(d) ==
  IF ManyBoots(d) THEN ResetDevice(SetRebootCounter(d, 0))
  ELSE SetRebootCounter(d, d.cfg.counter + 1)

\* CheckRebootCounter.
CheckRebootCounter(d) ==
  IF ManyBoots(d) THEN ResetDevice(SetRebootCounter(d, 0))
  ELSE [SetRebootCounter(d, d.cfg.counter + 1) EXCEPT !.stable = TRUE]

\* SanitizeSysConfig: "reset all settings to defaults except WiFi".
SanitizeSysConfig(d) ==
  Save([d EXCEPT !.cfg = [Default EXCEPT !.wifi = d.cfg.wifi]])

\* MigrateConfig, and the save that follows.
MigrateConfig(d) ==
  LET m == IF d.cfg.version = 0 THEN SanitizeSysConfig(d) ELSE d
  IN  IF d.cfg.version = Version THEN d
      ELSE Save([m EXCEPT !.cfg.version = Version])

\* InitApp of a device that is not in failsafe mode.
InitApp(d) == [MigrateConfig(CheckRebootCounter(d)) EXCEPT !.phase = "app"]

\* InitApp, and the power fails between two of its writes.
InitAppCuts(d) ==
  (IF ManyBoots(d) THEN {Cut(SetRebootCounter(d, 0)),
                         ResetDeviceCut(SetRebootCounter(d, 0))}
                   ELSE {})
  \union {Cut(CheckRebootCounter(d))}
  \union (IF d.cfg.version = 0
          THEN {Cut(SanitizeSysConfig(CheckRebootCounter(d)))} ELSE {})

\* mgos_app_preinit: the button was held, or a restart had asked for it.
Failsafe(d) == IF d.soft THEN d.magic ELSE d.held

-----------------------------------------------------------------------------
\* The configuration is loaded; RTC memory is only read once.
Loaded == [b EXCEPT !.cfg = b.saved, !.magic = FALSE]

\* mgos_libreset_init, "before pretty much anything else": a device that had
\* something to wipe starts once more, without the old configuration.
StartFailsafe ==
  /\ b.phase = "reset" /\ Failsafe(b)
  /\ b' = IF Wiped(b)
          THEN Reset([WipeDevice(Loaded) EXCEPT !.magic = TRUE], TRUE, FALSE)
          ELSE [Loaded EXCEPT !.phase = "failsafe"]
  /\ UNCHANGED calm

\* The app starts.
StartApp ==
  /\ b.phase = "reset" /\ ~Failsafe(b)
  /\ b' = InitApp([Loaded EXCEPT !.short = CountTo(@, Boots)])
  /\ UNCHANGED calm

\* The restart that has been asked for.
Restart == b.restart /\ b' = Reset(b, TRUE, FALSE) /\ UNCHANGED calm

App == b.phase = "app"

\* Time passes; a timer that is due is served first.
Tick ==
  /\ App /\ ~(b.stable /\ b.now >= Stable)
  /\ b' = [b EXCEPT !.now = CountTo(@, Window), !.age = CountTo(@, Gap + 1)]
  /\ UNCHANGED calm

\* Mutant: the counter is only cleared in memory.
MutLasted ==
  /\ App /\ b.stable /\ b.now >= Stable
  /\ b' = [b EXCEPT !.stable = FALSE, !.short = 0, !.cfg.counter = 0]
  /\ UNCHANGED calm

\* The boot has lasted: the timer of CheckRebootCounter.
Lasted ==
  /\ App /\ b.stable /\ b.now >= Stable
  /\ b' = [SetRebootCounter(b, 0) EXCEPT !.stable = FALSE, !.short = 0]
  /\ UNCHANGED calm

\* 600 ms after a reset sequence: the timer calls ResetDevice.
SequenceTimer ==
  /\ App /\ b.seq /\ b' = [ResetDevice(b) EXCEPT !.seq = FALSE]
  /\ UNCHANGED calm

-----------------------------------------------------------------------------
\* Mutant: changes are counted whatever lies between them.
MutCounted(d) == d.cnt + 1

\* change_cnt_ after one more change.
Counted(d) == (IF d.age > Gap THEN 0 ELSE d.cnt) + 1

\* DetectReset, and HandleInputResetSequence when that is a sequence.
DetectReset(d) ==
  IF d.now >= Window THEN d
  ELSE IF Counted(d) >= Changes THEN [d EXCEPT !.cnt = 0, !.seq = TRUE]
  ELSE [d EXCEPT !.cnt = Counted(d)]

\* The changes in a row that are quick and early, after one more.
Quick(d) ==
  IF d.now >= Window THEN 0
  ELSE IF d.age > Gap THEN 1
  ELSE CountTo(d.quick, Changes)

\* The input changes.
InputChange ==
  /\ App /\ b' = [DetectReset(b) EXCEPT !.age = 0, !.quick = Quick(b)]

\* The system button is held for ten seconds.
LongPress == App /\ b' = [b EXCEPT !.seq = TRUE, !.quick = Changes]

\* The app runs, or failsafe mode, where requests are served as well.
Serving == b.phase # "reset"

\* A network is set up, or something else in the configuration is changed.
SetConfig ==
  Serving /\ \E w \in {TRUE, b.cfg.wifi} : b' = Save([b EXCEPT !.cfg.wifi = w])

\* Shelly.SetAuth with a password: the file is there before the
\* configuration asks for it.  But fopen empties a file that was there
\* already, and a configuration that asks for that one has nothing to ask for
\* until the new entry, and its realm, are written.
SetAuth ==
  /\ Serving
  /\ \/ \E f \in {"useless", "entry"} :
          b' = Cut([b EXCEPT !.authFile = f,
                             !.torn = f = "useless" /\ b.saved.auth])
     \/ b' = Save([b EXCEPT !.authFile = "entry", !.cfg.auth = TRUE,
                            !.wiped = FALSE, !.torn = FALSE])

\* Mutant: the file is removed first.
MutClearAuth ==
  /\ Serving
  /\ LET d == RemoveAuth(b)
     IN  b' \in {Cut(d), [Save([d EXCEPT !.cfg.auth = FALSE])
                          EXCEPT !.wiped = FALSE]}

\* Shelly.SetAuth without one: the configuration stops to ask for the file
\* before that is removed.
ClearAuth ==
  /\ Serving
  /\ LET d == Save([b EXCEPT !.cfg.auth = FALSE])
     IN  b' \in {Cut(d), [RemoveAuth(d) EXCEPT !.wiped = FALSE]}

\* Shelly.WipeDevice.  The configuration in memory is not touched, and
\* whatever saves it before the restart writes it back.
RPCWipeDevice ==
  /\ Serving
  /\ b' \in {IF Wiped(b) THEN RestartAfter([WipeDevice(b) EXCEPT !.wiped = TRUE])
              ELSE b,
              Cut(RemoveConf(b))}

\* A restart that a user asks for, or an update brings.
RPCReboot == Serving /\ b' = Reset(b, TRUE, FALSE)

\* An update to stock firmware has succeeded: WipeDeviceRevertToStock.  The
\* next boot shown is the one after this firmware has been installed again.
RevertToStock ==
  /\ App
  /\ b' \in {Cut(SanitizeSysConfig(WipeDevice(b))), Cut(WipeDevice(b)),
             Cut(RemoveConf(b))}

\* The power fails, and comes back with the button held or not.
PowerCycle == \E held \in BOOLEAN : b' = Reset(b, FALSE, held)

\* The power fails while the app starts or is reset.
CrashWhileWriting ==
  \/ /\ b.phase = "reset" /\ ~Failsafe(b)
     /\ b' \in InitAppCuts([Loaded EXCEPT !.short = CountTo(@, Boots)])
  \/ App /\ b.seq /\ b' = ResetDeviceCut(b)
  \/ b.phase = "reset" /\ Failsafe(b) /\ b' = Cut(RemoveConf(b))

-----------------------------------------------------------------------------
\* A device as it is delivered, updated from stock or from an older version.
Init ==
  /\ \E v \in Versions, wifi \in BOOLEAN, conf \in BOOLEAN :
       LET c == IF conf THEN [Default EXCEPT !.wifi = wifi, !.version = v]
                ELSE Default
       IN  b = [phase |-> "reset", soft |-> FALSE, held |-> FALSE,
                magic |-> FALSE, cfg |-> c, saved |-> c, conf |-> conf,
                authFile |-> "none", now |-> 0, age |-> 0, cnt |-> 0,
                stable |-> FALSE, seq |-> FALSE, restart |-> FALSE,
                short |-> 0, quick |-> 0, wiped |-> FALSE,
                torn |-> FALSE]
  /\ calm = FALSE

\* What the firmware does by itself.
Device ==
  StartFailsafe \/ StartApp \/ Restart \/ Tick \/ Lasted \/ SequenceTimer

\* What users and the mains do.
User ==
  /\ ~calm /\ UNCHANGED calm
  /\ \/ InputChange \/ LongPress \/ SetConfig \/ SetAuth \/ ClearAuth
     \/ RPCWipeDevice \/ RPCReboot \/ RevertToStock
     \/ PowerCycle \/ CrashWhileWriting

\* From here on nobody touches the device.
CalmDown == calm' = TRUE /\ UNCHANGED b

Next == Device \/ User \/ CalmDown

Spec == Init /\ [][Next]_vars

\* A device with power starts, and its timers are served.
FairSpec == Spec /\ WF_vars(Device)

-----------------------------------------------------------------------------
\* Types.
TypeOK == b \in Devices /\ calm \in BOOLEAN

\* The configuration asks for a password only if the user's entry is there,
\* wherever the power fails in SetAuth or ResetDevice, but for two ways to be
\* locked out.  A running device that is wiped may write its old configuration
\* back before it restarts; and while one password replaces another, the file
\* of the old one is empty for a moment.  A first password, its removal and
\* every reset are safe.
NoDanglingAuth ==
  b.saved.auth => b.authFile = "entry" \/ b.wiped \/ b.torn

\* What a user would rather rely on: a power failure never locks anybody out
\* who has not wiped the device.  It fails for a password that is replaced.
NeverLocksOut == b.saved.auth => b.authFile = "entry" \/ b.wiped

\* A device enters failsafe mode on defaults, in the flash and in memory,
\* also if the power failed while it was being wiped, and whatever had been
\* written while it was in failsafe mode before.
FailsafeIsClean ==
  [][b.phase # "failsafe" /\ b'.phase = "failsafe" =>
       ~Wiped(b') /\ b'.cfg = Default]_vars

\* The counter in the flash never counts a boot that lasted.
CountsAreHonest == b.saved.counter <= b.short

\* A WiFi setup that has been saved is only lost by a reset sequence, too
\* many boots that did not last, failsafe mode, or a request to wipe; and a
\* reset sequence is as many changes of the input as it takes, all of them in
\* the first seconds and with no long pause between two, or a long press of
\* the button.
SettingsSurvive ==
  [][/\ b.saved.wifi /\ ~b'.saved.wifi =>
          \/ b.seq
          \/ b.short = Boots
          \/ b.phase = "reset" /\ Failsafe(b)
          \/ b.phase # "reset" /\ ~b'.conf
     /\ ~b.seq /\ b'.seq => b'.quick = Changes]_vars

\* Left alone, the device ends up in the app, with no reset or restart to
\* come and no boot counted, or in failsafe mode.
Settled ==
  /\ ~b.restart /\ ~b.seq
  /\ \/ b.phase = "app" /\ b.saved.counter = 0 /\ b.saved.version = Version
     \/ b.phase = "failsafe"

Settles == calm ~> (calm /\ Settled)
=============================================================================
