----------------------------- MODULE BootProofs -----------------------------
(***************************************************************************)
(* The start and the reset of the firmware, for any number of boots and    *)
(* changes and any times.  Good(d) is the inductive invariant of memory    *)
(* and flash.  Between two writes of a handler only Flash(d) is relied on, *)
(* which is why the power may fail there; Kept(d) is what a device that    *)
(* serves requests keeps, in the app as in failsafe mode.                  *)
(***************************************************************************)
EXTENDS Boot, TLAPS

\* What a boot may find in the flash.
Flash(d) ==
  /\ ~d.conf => d.saved = Default
  /\ d.saved.auth => d.authFile = "entry" \/ d.wiped \/ d.torn
  /\ d.saved.counter <= d.short

\* What may be written to it at any time.
Memory(d) ==
  /\ d.cfg.auth => d.authFile = "entry" \/ d.wiped \/ d.torn
  /\ d.cfg.counter <= d.short

\* The changes counted are quick ones.
Detect(d) == d.now < Window => d.cnt <= d.quick

Kept(d) == /\ d \in Devices /\ Flash(d) /\ Memory(d) /\ Detect(d)
           /\ d.saved.wifi => d.cfg.wifi

Good(d) ==
  /\ d \in Devices /\ Flash(d) /\ Detect(d)
  /\ d.phase # "reset" => Memory(d) /\ (d.saved.wifi => d.cfg.wifi)

Inv == Good(b) /\ calm \in BOOLEAN

LEMMA DefaultConfig == Default \in Configs
BY BootsAssumption DEF Default, Configs, Versions

\* A configuration that may be written makes a flash that may be read.
LEMMA SaveKept ==
  ASSUME NEW d \in Devices, Memory(d), Detect(d)
  PROVE  /\ Kept(Save(d)) /\ Save(d).cfg = d.cfg /\ Save(d).conf
         /\ Save(d).phase = d.phase /\ Save(d).short = d.short
BY DEF Kept, Save, Flash, Memory, Detect, Devices

\* Whatever the flash holds between two writes, a boot can deal with it.
LEMMA ResetGood ==
  ASSUME NEW d \in Devices, Flash(d), NEW soft \in BOOLEAN,
         NEW held \in BOOLEAN
  PROVE  Good(Reset(d, soft, held))
<1>1. 0 \in 0 .. Window /\ 0 \in 0 .. Gap + 1 /\ 0 \in 0 .. Changes - 1
        /\ 0 \in 0 .. Changes
  BY TimeAssumption, ChangesAssumption
<1> DEFINE r == Reset(d, soft, held)
<1>2. r \in Devices
  <2> DEFINE m == soft /\ d.magic
  <2>1. m \in BOOLEAN
    OBVIOUS
  <2> DEFINE e == [d EXCEPT !.phase = "reset", !.soft = soft, !.held = held,
                            !.magic = m]
             f == [e EXCEPT !.now = 0, !.age = 0, !.cnt = 0, !.quick = 0]
  <2> HIDE DEF m
  <2>2. e \in Devices
    BY <2>1 DEF Devices
  <2>3. f \in Devices
    <3> HIDE DEF e
    <3> QED BY <1>1, <2>2 DEF Devices
  <2>4. [f EXCEPT !.stable = FALSE, !.seq = FALSE, !.restart = FALSE]
          \in Devices
    <3> HIDE DEF f
    <3> QED BY <2>3 DEF Devices
  <2>5. r = [f EXCEPT !.stable = FALSE, !.seq = FALSE, !.restart = FALSE]
    BY DEF Reset, m, Devices
  <2> QED BY <2>4, <2>5
<1>3. /\ r.phase = "reset" /\ r.cnt = 0 /\ r.quick = 0 /\ r.conf = d.conf
      /\ r.saved = d.saved /\ r.authFile = d.authFile /\ r.wiped = d.wiped
      /\ r.torn = d.torn
      /\ r.short = d.short
  BY DEF Reset, Devices
<1>4. Flash(r) /\ Detect(r)
  BY <1>3 DEF Flash, Detect
<1> QED BY <1>2, <1>3, <1>4 DEF Good

LEMMA CutGood ==
  ASSUME NEW d \in Devices, Flash(d)
  PROVE  Good(Cut(d))
BY ResetGood DEF Cut

\* Files may be removed at any time, as long as the configuration goes first.
LEMMA RemoveConfGood ==
  ASSUME NEW d \in Devices, Flash(d)
  PROVE  RemoveConf(d) \in Devices /\ Flash(RemoveConf(d))
<1> DEFINE r == RemoveConf(d)
<1>1. r \in Devices /\ r.saved = Default /\ r.short = d.short
  BY DefaultConfig DEF RemoveConf, Devices
<1>2. ~Default.auth /\ Default.counter = 0
  BY DEF Default
<1>3. d.short \in Nat
  BY BootsAssumption DEF Devices
<1> QED BY <1>1, <1>2, <1>3 DEF Flash

LEMMA WipeDeviceGood ==
  ASSUME NEW d \in Devices, Flash(d)
  PROVE  /\ WipeDevice(d) \in Devices /\ Flash(WipeDevice(d))
         /\ WipeDevice(d).short = d.short
<1> DEFINE r == RemoveConf(d)
<1>1. r \in Devices /\ Flash(r) /\ r.saved = Default /\ r.short = d.short
  BY RemoveConfGood, DefaultConfig DEF RemoveConf, Devices
<1>2. ~Default.auth
  BY DEF Default
<1> HIDE DEF r
<1>3. /\ RemoveAuth(r) \in Devices /\ RemoveAuth(r).short = r.short
      /\ RemoveAuth(r).saved = r.saved
      /\ RemoveAuth(r).conf = r.conf
  BY <1>1 DEF RemoveAuth, Devices, Files
<1>4. Flash(RemoveAuth(r))
  BY <1>1, <1>2, <1>3 DEF Flash
<1> QED BY <1>1, <1>3, <1>4 DEF WipeDevice, r

LEMMA CounterKept ==
  ASSUME NEW d \in Devices, Memory(d), Detect(d), NEW n \in 0 .. Boots,
         n <= d.short
  PROVE  /\ Kept(SetRebootCounter(d, n))
         /\ SetRebootCounter(d, n).cfg = [d.cfg EXCEPT !.counter = n]
         /\ SetRebootCounter(d, n).short = d.short
         /\ SetRebootCounter(d, n).phase = d.phase
<1> DEFINE e == [d EXCEPT !.cfg.counter = n]
<1>1. e \in Devices /\ Memory(e) /\ Detect(e) /\ e.short = d.short
        /\ e.cfg = [d.cfg EXCEPT !.counter = n] /\ e.phase = d.phase
  BY DEF Devices, Configs, Memory, Detect
<1> HIDE DEF e
<1>2. /\ Kept(Save(e)) /\ Save(e).cfg = e.cfg /\ Save(e).short = e.short
      /\ Save(e).phase = e.phase
  BY <1>1, SaveKept
<1>3. SetRebootCounter(d, n) = Save(e)
  BY DEF SetRebootCounter, e
<1> QED BY <1>1, <1>2, <1>3

LEMMA ClearKept ==
  ASSUME NEW d \in Devices, Memory(d), Detect(d)
  PROVE  /\ Kept(ClearSettings(d))
         /\ ~ClearSettings(d).cfg.auth /\ ~ClearSettings(d).saved.auth
         /\ ClearSettings(d).phase = d.phase
<1> DEFINE e == [d EXCEPT !.cfg.wifi = FALSE, !.cfg.auth = FALSE]
<1>1. e \in Devices /\ Memory(e) /\ Detect(e) /\ ~e.cfg.auth
        /\ e.phase = d.phase
  BY DEF Devices, Configs, Memory, Detect
<1> HIDE DEF e
<1>2. Kept(Save(e)) /\ Save(e).cfg = e.cfg /\ Save(e).phase = e.phase
  BY <1>1, SaveKept
<1>3. Save(e).saved = e.cfg
  BY <1>1 DEF Save, Devices
<1>4. ClearSettings(d) = Save(e)
  BY DEF ClearSettings, e
<1> QED BY <1>1, <1>2, <1>3, <1>4

LEMMA ResetDeviceKept ==
  ASSUME NEW d \in Devices, Memory(d), Detect(d)
  PROVE  Kept(ResetDevice(d)) /\ ResetDevice(d).phase = d.phase
<1> DEFINE e == ClearSettings(d)
<1>1. Kept(e) /\ ~e.cfg.auth /\ ~e.saved.auth /\ e.phase = d.phase
  BY ClearKept
<1> HIDE DEF e
<1>2. e \in Devices
  BY <1>1 DEF Kept
<1>3. RemoveAuth(e) \in Devices
  BY <1>2 DEF RemoveAuth, Devices, Files
<1> DEFINE r == ResetDevice(d)
<1>4. /\ r \in Devices /\ r.saved = e.saved /\ r.cfg = e.cfg
      /\ r.conf = e.conf /\ r.short = e.short /\ r.now = e.now
      /\ r.cnt = e.cnt /\ r.quick = e.quick /\ r.phase = e.phase
  BY <1>2, <1>3 DEF ResetDevice, RestartAfter, RemoveAuth, Devices, e
<1> HIDE DEF r
<1> QED BY <1>1, <1>4 DEF Kept, Flash, Memory, Detect, r

LEMMA ResetDeviceCutGood ==
  ASSUME NEW d \in Devices, Memory(d), Detect(d)
  PROVE  Good(ResetDeviceCut(d))
BY ClearKept, CutGood DEF ResetDeviceCut, Kept

-----------------------------------------------------------------------------
\* The short boots of an app that starts: one more than the flash counts.
Counting(d) == Kept(d) /\ (d.cfg.counter < Boots => d.cfg.counter < d.short)

LEMMA CheckRebootCounterKept ==
  ASSUME NEW d, Counting(d)
  PROVE  Kept(CheckRebootCounter(d))
<1>1. /\ d \in Devices /\ Memory(d) /\ Detect(d)
      /\ d.short \in 0 .. Boots /\ d.cfg.counter \in 0 .. Boots
  BY DEF Counting, Kept, Devices, Configs
<1>0. 0 \in 0 .. Boots /\ 0 <= d.short
  BY <1>1, BootsAssumption
<1>2. CASE ManyBoots(d)
  <2> DEFINE e == SetRebootCounter(d, 0)
  <2>1. Kept(e)
    BY <1>0, <1>1, CounterKept
  <2> HIDE DEF e
  <2>2. e \in Devices /\ Memory(e) /\ Detect(e)
    BY <2>1 DEF Kept
  <2>3. Kept(ResetDevice(e))
    BY <2>2, ResetDeviceKept
  <2> QED BY <1>2, <2>3 DEF CheckRebootCounter, e
<1>3. CASE ~ManyBoots(d)
  <2> DEFINE e == SetRebootCounter(d, d.cfg.counter + 1)
  <2>1. d.cfg.counter + 1 \in 0 .. Boots /\ d.cfg.counter + 1 <= d.short
    BY <1>1, <1>3, BootsAssumption DEF Counting, ManyBoots
  <2>2. Kept(e)
    BY <1>1, <2>1, CounterKept
  <2> HIDE DEF e
  <2>3. Kept([e EXCEPT !.stable = TRUE])
    BY <2>2 DEF Kept, Devices, Flash, Memory, Detect
  <2> QED BY <1>3, <2>3 DEF CheckRebootCounter, e
<1> QED BY <1>2, <1>3

LEMMA SanitizeKept ==
  ASSUME NEW d \in Devices, Detect(d)
  PROVE  Kept(SanitizeSysConfig(d))
<1> DEFINE w == d.cfg.wifi
           c == [Default EXCEPT !.wifi = w]
           e == [d EXCEPT !.cfg = c]
<1>1. c \in Configs /\ ~c.auth /\ c.counter = 0
  <2>1. w \in BOOLEAN
    BY DEF Devices, Configs
  <2> HIDE DEF w
  <2>2. Default.auth = FALSE /\ Default.counter = 0
    BY DEF Default
  <2>3. c \in Configs /\ c.auth = Default.auth /\ c.counter = Default.counter
    BY <2>1, DefaultConfig DEF Configs
  <2> QED BY <2>2, <2>3
<1> HIDE DEF c
<1>2. d.short \in Nat
  BY BootsAssumption DEF Devices
<1>3. /\ e \in Devices /\ e.cfg = c /\ e.short = d.short
      /\ e.now = d.now /\ e.cnt = d.cnt /\ e.quick = d.quick
  BY <1>1 DEF Devices
<1> HIDE DEF e
<1>4. Kept(Save(e))
  <2>1. Memory(e) /\ Detect(e)
    BY <1>1, <1>2, <1>3 DEF Memory, Detect
  <2> QED BY <1>3, <2>1, SaveKept
<1> QED BY <1>4 DEF SanitizeSysConfig, e, c, w

LEMMA MigrateKept ==
  ASSUME NEW d, Kept(d)
  PROVE  Kept(MigrateConfig(d))
<1> DEFINE m == IF d.cfg.version = 0 THEN SanitizeSysConfig(d) ELSE d
           e == [m EXCEPT !.cfg.version = Version]
<1>1. Kept(m)
  BY SanitizeKept DEF Kept
<1> HIDE DEF m
<1>2. e \in Devices /\ Memory(e) /\ Detect(e)
  BY <1>1 DEF Kept, Devices, Configs, Memory, Detect, Versions, Version
<1> HIDE DEF e
<1>3. Kept(Save(e))
  BY <1>2, SaveKept
<1> QED BY <1>3 DEF MigrateConfig, e, m

LEMMA InitAppGood ==
  ASSUME NEW d, Counting(d)
  PROVE  Good(InitApp(d)) /\ InitApp(d).phase = "app"
<1> DEFINE m == MigrateConfig(CheckRebootCounter(d))
<1>1. Kept(m)
  BY CheckRebootCounterKept, MigrateKept
<1> HIDE DEF m
<1>2. /\ Good([m EXCEPT !.phase = "app"])
      /\ [m EXCEPT !.phase = "app"].phase = "app"
  BY <1>1 DEF Kept, Good, Devices, Flash, Memory, Detect
<1> QED BY <1>2 DEF InitApp, m

LEMMA InitAppCutsGood ==
  ASSUME NEW d, Counting(d), NEW e \in InitAppCuts(d)
  PROVE  Good(e)
<1>1. d \in Devices /\ Memory(d) /\ Detect(d)
  BY DEF Counting, Kept
<1>0. 0 \in 0 .. Boots /\ 0 <= d.short
  BY <1>1, BootsAssumption DEF Devices
<1>2. CASE e \in {Cut(SetRebootCounter(d, 0)),
                  ResetDeviceCut(SetRebootCounter(d, 0))}
  <2> DEFINE f == SetRebootCounter(d, 0)
  <2>1. Kept(f)
    BY <1>0, <1>1, CounterKept
  <2> HIDE DEF f
  <2>2. f \in Devices /\ Flash(f) /\ Memory(f) /\ Detect(f)
    BY <2>1 DEF Kept
  <2>3. Good(Cut(f)) /\ Good(ResetDeviceCut(f))
    BY <2>2, CutGood, ResetDeviceCutGood
  <2> QED BY <1>2, <2>3 DEF f
<1>4. CASE e = Cut(CheckRebootCounter(d))
  BY <1>4, CheckRebootCounterKept, CutGood DEF Kept
<1>5. CASE e = Cut(SanitizeSysConfig(CheckRebootCounter(d)))
  <2>1. Kept(SanitizeSysConfig(CheckRebootCounter(d)))
    BY CheckRebootCounterKept, SanitizeKept DEF Kept
  <2> QED BY <1>5, <2>1, CutGood DEF Kept
<1> QED BY <1>2, <1>4, <1>5 DEF InitAppCuts

-----------------------------------------------------------------------------
\* A boot reads what a flash that is in order holds.
LEMMA LoadedKept ==
  ASSUME Good(b)
  PROVE  /\ Kept(Loaded) /\ Loaded.saved = b.saved /\ Loaded.cfg = b.saved
         /\ Loaded.short = b.short /\ Loaded.conf = b.conf
         /\ Loaded.authFile = b.authFile /\ Loaded.phase = b.phase
BY DEF Good, Kept, Loaded, Devices, Flash, Memory, Detect

LEMMA LoadedCounts ==
  ASSUME Good(b)
  PROVE  Counting([Loaded EXCEPT !.short = CountTo(@, Boots)])
<1>1. Kept(Loaded) /\ Loaded \in Devices /\ Loaded.short \in 0 .. Boots
        /\ Loaded.cfg.counter \in 0 .. Boots /\ Loaded.cfg = Loaded.saved
  BY LoadedKept DEF Kept, Devices, Configs
<1> DEFINE n == CountTo(Loaded.short, Boots)
           e == [Loaded EXCEPT !.short = n]
<1>2. n \in 0 .. Boots /\ Loaded.short <= n
        /\ (Loaded.short < Boots => Loaded.short < n)
  BY <1>1, BootsAssumption DEF CountTo
<1>3. Loaded.cfg.counter <= Loaded.short
  BY <1>1 DEF Kept, Memory
<1> HIDE DEF n
<1>4. /\ e \in Devices /\ e.short = n /\ e.cfg = Loaded.cfg
      /\ e.saved = Loaded.saved /\ e.conf = Loaded.conf
      /\ e.authFile = Loaded.authFile /\ e.wiped = Loaded.wiped
      /\ e.torn = Loaded.torn
      /\ e.now = Loaded.now /\ e.cnt = Loaded.cnt /\ e.quick = Loaded.quick
  BY <1>1, <1>2 DEF Devices
<1> HIDE DEF e
<1>5. Kept(e)
  BY <1>1, <1>2, <1>3, <1>4 DEF Kept, Flash, Memory, Detect
<1>6. Counting(e)
  BY <1>1, <1>2, <1>3, <1>4, <1>5, BootsAssumption DEF Counting
<1> QED BY <1>6 DEF e, n

-----------------------------------------------------------------------------
\* A device that serves requests keeps memory and flash in order.
LEMMA ServingKept ==
  ASSUME Good(b), Serving
  PROVE  Kept(b)
BY DEF Good, Kept, Serving

LEMMA AppKept ==
  ASSUME Good(b), App
  PROVE  Kept(b)
BY DEF Good, Kept, App

LEMMA KeptGood ==
  ASSUME NEW d, Kept(d)
  PROVE  Good(d)
BY DEF Good, Kept

LEMMA StartFailsafeGood ==
  ASSUME Good(b), StartFailsafe
  PROVE  Good(b')
<1>1. CASE Wiped(b)
  <2> DEFINE e == WipeDevice(Loaded)
             f == [e EXCEPT !.magic = TRUE]
  <2>1. e \in Devices /\ Flash(e)
    BY LoadedKept, WipeDeviceGood DEF Kept
  <2> HIDE DEF e
  <2>2. f \in Devices /\ Flash(f)
    BY <2>1 DEF Devices, Flash
  <2> HIDE DEF f
  <2>3. Good(Reset(f, TRUE, FALSE))
    BY <2>2, ResetGood
  <2>4. b' = Reset(f, TRUE, FALSE)
    BY <1>1 DEF StartFailsafe, f, e
  <2> QED BY <2>3, <2>4
<1>2. CASE ~Wiped(b)
  <2> DEFINE e == [Loaded EXCEPT !.phase = "failsafe"]
  <2>1. ~b.conf /\ b.authFile = "none" /\ b.saved = Default
    BY <1>2 DEF Wiped, Good, Flash
  <2>2. Kept(e)
    BY <2>1, LoadedKept DEF Kept, Devices, Flash, Memory, Detect
  <2>3. b' = e
    BY <1>2 DEF StartFailsafe
  <2> QED BY <2>2, <2>3, KeptGood
<1> QED BY <1>1, <1>2

LEMMA StartAppGood ==
  ASSUME Good(b), StartApp
  PROVE  Good(b')
BY LoadedCounts, InitAppGood DEF StartApp

LEMMA TickGood ==
  ASSUME Good(b), Tick
  PROVE  Good(b')
<1> DEFINE n == CountTo(b.now, Window)
           a == CountTo(b.age, Gap + 1)
<1>1. Kept(b) /\ b.phase = "app" /\ b.now \in 0 .. Window
        /\ b.age \in 0 .. Gap + 1
  BY AppKept DEF Tick, App, Kept, Devices
<1>2. n \in 0 .. Window /\ (n < Window => b.now < Window)
        /\ a \in 0 .. Gap + 1
  BY <1>1, TimeAssumption DEF CountTo
<1>3. b' = [b EXCEPT !.now = n, !.age = a]
  BY DEF Tick
<1> HIDE DEF n, a
<1> QED BY <1>1, <1>2, <1>3 DEF Kept, Good, Devices, Flash, Memory, Detect

LEMMA LastedGood ==
  ASSUME Good(b), Lasted
  PROVE  Good(b')
<1> DEFINE e == SetRebootCounter(b, 0)
<1>0. 0 \in 0 .. Boots /\ 0 <= b.short
  BY BootsAssumption DEF Good, Devices
<1>1. Kept(b) /\ b.phase = "app"
  BY AppKept DEF Lasted, App
<1>2. Kept(e) /\ e.phase = "app" /\ e.cfg = [b.cfg EXCEPT !.counter = 0]
  BY <1>0, <1>1, CounterKept DEF Kept
<1>3. e.saved = e.cfg
  BY <1>1 DEF SetRebootCounter, Save, Kept, Devices
<1>4. e.cfg.counter = 0
  BY <1>1, <1>2 DEF Kept, Devices, Configs
<1> HIDE DEF e
<1> DEFINE r == [e EXCEPT !.stable = FALSE, !.short = 0]
<1>5. b' = r
  BY DEF Lasted, e
<1>6. /\ r \in Devices /\ r.short = 0 /\ r.cfg = e.cfg /\ r.saved = e.saved
      /\ r.conf = e.conf /\ r.authFile = e.authFile /\ r.wiped = e.wiped
      /\ r.torn = e.torn
      /\ r.now = e.now /\ r.cnt = e.cnt /\ r.quick = e.quick
      /\ r.phase = e.phase
  BY <1>0, <1>2 DEF Kept, Devices
<1> HIDE DEF r
<1>7. Kept(r)
  BY <1>2, <1>3, <1>4, <1>6 DEF Kept, Flash, Memory, Detect
<1> QED BY <1>2, <1>5, <1>6, <1>7, KeptGood

LEMMA SequenceTimerGood ==
  ASSUME Good(b), SequenceTimer
  PROVE  Good(b')
<1> DEFINE e == ResetDevice(b)
<1>1. Kept(e) /\ e.phase = "app"
  BY AppKept, ResetDeviceKept DEF SequenceTimer, App, Kept
<1> HIDE DEF e
<1>2. b' = [e EXCEPT !.seq = FALSE]
  BY DEF SequenceTimer, e
<1> QED BY <1>1, <1>2 DEF Kept, Good, Devices, Flash, Memory, Detect

-----------------------------------------------------------------------------
\* A change of the input: as many changes are counted as were quick.
LEMMA InputChangeGood ==
  ASSUME Good(b), InputChange
  PROVE  Good(b') /\ (~b.seq /\ b'.seq => b'.quick = Changes)
<1> DEFINE q == Quick(b)
           n == Counted(b)
<1>1. Kept(b) /\ b.phase = "app" /\ b \in Devices
  BY AppKept DEF InputChange, App, Kept
<1>2. /\ b.now \in 0 .. Window /\ b.age \in 0 .. Gap + 1
      /\ b.cnt \in 0 .. Changes - 1 /\ b.quick \in 0 .. Changes
      /\ b.now < Window => b.cnt <= b.quick
  BY <1>1 DEF Devices, Kept, Detect
<1>3. /\ n \in 1 .. Changes /\ q \in 0 .. Changes
      /\ b.now < Window => n <= q
  BY <1>2, ChangesAssumption, TimeAssumption DEF Counted, Quick, CountTo
<1>4. 0 \in 0 .. Changes - 1 /\ 0 \in 0 .. Gap + 1
  BY ChangesAssumption, TimeAssumption
<1> DEFINE e == DetectReset(b)
           r == [e EXCEPT !.age = 0, !.quick = q]
<1>5. b' = r
  BY DEF InputChange
<1>6. /\ e \in Devices /\ e.phase = b.phase /\ e.cfg = b.cfg
      /\ e.saved = b.saved /\ e.conf = b.conf /\ e.authFile = b.authFile
      /\ e.wiped = b.wiped /\ e.torn = b.torn /\ e.short = b.short
      /\ e.now = b.now
      /\ e.now < Window => e.cnt <= q
      /\ ~b.seq /\ e.seq => q = Changes
  <2> HIDE DEF q, n
  <2>1. CASE b.now >= Window
    <3>1. e = b
      BY <2>1 DEF DetectReset
    <3>2. ~(b.now < Window)
      BY <1>2, <2>1, TimeAssumption
    <3> HIDE DEF e
    <3> QED BY <1>1, <3>1, <3>2
  <2>2. CASE ~(b.now >= Window) /\ n >= Changes
    <3>1. e = [b EXCEPT !.cnt = 0, !.seq = TRUE]
      BY <2>2 DEF DetectReset, n
    <3>2. q = Changes /\ 0 <= q
      BY <1>2, <1>3, <2>2, ChangesAssumption, TimeAssumption
    <3> HIDE DEF e
    <3> QED BY <1>1, <1>4, <3>1, <3>2 DEF Devices
  <2>3. CASE ~(b.now >= Window) /\ ~(n >= Changes)
    <3>1. e = [b EXCEPT !.cnt = n]
      BY <2>3 DEF DetectReset, n
    <3>2. n \in 0 .. Changes - 1 /\ n <= q
      BY <1>2, <1>3, <2>3, ChangesAssumption, TimeAssumption
    <3> HIDE DEF e
    <3> QED BY <1>1, <3>1, <3>2 DEF Devices
  <2> QED BY <2>1, <2>2, <2>3
<1> HIDE DEF e, q, n
<1>9. q \in 0 .. Changes
  BY <1>3, ChangesAssumption
<1>7. /\ r \in Devices /\ r.phase = b.phase /\ r.cfg = b.cfg
      /\ r.saved = b.saved /\ r.conf = b.conf /\ r.authFile = b.authFile
      /\ r.wiped = b.wiped /\ r.torn = b.torn /\ r.short = b.short
      /\ r.now = e.now /\ r.cnt = e.cnt /\ r.quick = q /\ r.seq = e.seq
  BY <1>4, <1>6, <1>9 DEF Devices
<1> HIDE DEF r
<1>8. Kept(r)
  BY <1>1, <1>6, <1>7 DEF Kept, Flash, Memory, Detect
<1> QED BY <1>1, <1>5, <1>6, <1>7, <1>8, KeptGood

LEMMA LongPressGood ==
  ASSUME Good(b), LongPress
  PROVE  Good(b') /\ b'.quick = Changes
<1>1. Kept(b) /\ b.phase = "app"
  BY AppKept DEF LongPress, App
<1>2. Changes \in 0 .. Changes /\ b.cnt <= Changes
  BY <1>1, ChangesAssumption DEF Kept, Devices
<1> QED BY <1>1, <1>2
        DEF LongPress, Kept, Good, Devices, Flash, Memory, Detect

LEMMA SetConfigGood ==
  ASSUME Good(b), SetConfig
  PROVE  Good(b') /\ (b.saved.wifi => b'.saved.wifi)
<1>1. Kept(b) 
  BY ServingKept DEF SetConfig
<1>2. PICK w \in {TRUE, b.cfg.wifi} : b' = Save([b EXCEPT !.cfg.wifi = w])
  BY DEF SetConfig
<1> DEFINE e == [b EXCEPT !.cfg.wifi = w]
<1>3. w \in BOOLEAN /\ (b.saved.wifi => w)
  BY <1>1 DEF Kept, Devices, Configs
<1>4. e \in Devices /\ Memory(e) /\ Detect(e) /\ (b.saved.wifi => e.cfg.wifi)
  BY <1>1, <1>3 DEF Kept, Devices, Configs, Memory, Detect
<1> HIDE DEF e
<1>5. Kept(Save(e)) /\ Save(e).saved = e.cfg
  BY <1>4, SaveKept DEF Save, Devices
<1> QED BY <1>2, <1>4, <1>5, KeptGood DEF e

LEMMA SetAuthGood ==
  ASSUME Good(b), SetAuth
  PROVE  /\ Good(b') /\ (b.saved.wifi => b'.saved.wifi)
         /\ b'.seq => b.seq
<1>1. Kept(b)
  BY ServingKept DEF SetAuth
<1>2. ASSUME NEW f \in {"useless", "entry"},
             b' = Cut([b EXCEPT !.authFile = f,
                                !.torn = f = "useless" /\ b.saved.auth])
      PROVE  Good(b') /\ b'.saved = b.saved /\ ~b'.seq
  <2> DEFINE t == f = "useless" /\ b.saved.auth
             d == [b EXCEPT !.authFile = f, !.torn = t]
  <2>1. t \in BOOLEAN /\ (b.saved.auth => f = "entry" \/ t)
    BY <1>1 DEF Kept, Devices, Configs
  <2>2. b' = Cut(d)
    BY <1>2
  <2> HIDE DEF t
  <2>3. /\ d \in Devices /\ d.saved = b.saved /\ d.conf = b.conf
        /\ d.short = b.short /\ d.authFile = f /\ d.torn = t
    BY <1>1, <2>1 DEF Kept, Devices, Files
  <2> HIDE DEF d
  <2>4. Flash(d)
    BY <1>1, <2>1, <2>3 DEF Kept, Flash
  <2>5. Good(Cut(d)) /\ Cut(d).saved = d.saved /\ ~Cut(d).seq
    BY <2>3, <2>4, CutGood DEF Cut, Reset, Devices
  <2> QED BY <2>2, <2>3, <2>5
<1>3. ASSUME b' = Save([b EXCEPT !.authFile = "entry", !.cfg.auth = TRUE,
                                 !.wiped = FALSE, !.torn = FALSE])
      PROVE  /\ Good(b') /\ (b.saved.wifi => b'.saved.wifi)
             /\ b'.seq = b.seq
  <2> DEFINE e == [b EXCEPT !.authFile = "entry", !.cfg.auth = TRUE,
                            !.wiped = FALSE, !.torn = FALSE]
  <2>1. /\ e \in Devices /\ e.authFile = "entry" /\ e.seq = b.seq
        /\ e.cfg = [b.cfg EXCEPT !.auth = TRUE] /\ e.short = b.short
        /\ e.now = b.now /\ e.cnt = b.cnt /\ e.quick = b.quick
    BY <1>1 DEF Kept, Devices, Configs, Files
  <2> HIDE DEF e
  <2>2. e.cfg.wifi = b.cfg.wifi /\ e.cfg.counter = b.cfg.counter
    BY <1>1, <2>1 DEF Kept, Devices, Configs
  <2>3. Memory(e) /\ Detect(e)
    BY <1>1, <2>1, <2>2 DEF Kept, Memory, Detect
  <2>4. Kept(Save(e)) /\ Save(e).saved = e.cfg /\ Save(e).seq = e.seq
    BY <2>1, <2>3, SaveKept DEF Save, Devices
  <2>5. b.saved.wifi => b.cfg.wifi
    BY <1>1 DEF Kept
  <2> QED BY <1>3, <2>1, <2>2, <2>4, <2>5, KeptGood DEF e
<1> QED BY <1>2, <1>3 DEF SetAuth

LEMMA ClearAuthGood ==
  ASSUME Good(b), ClearAuth
  PROVE  /\ Good(b') /\ (b.saved.wifi => b'.saved.wifi)
         /\ b'.seq => b.seq
<1> DEFINE e == [b EXCEPT !.cfg.auth = FALSE]
           d == Save(e)
           r == [RemoveAuth(d) EXCEPT !.wiped = FALSE]
<1>1. Kept(b)
  BY ServingKept DEF ClearAuth
<1>2. /\ e \in Devices /\ Memory(e) /\ Detect(e)
      /\ ~e.cfg.auth /\ e.seq = b.seq /\ e.cfg.wifi = b.cfg.wifi
  BY <1>1 DEF Kept, Devices, Configs, Memory, Detect
<1> HIDE DEF e
<1>3. /\ Kept(d) /\ d.seq = b.seq /\ d.saved = e.cfg
      /\ d.cfg = e.cfg
  BY <1>2, SaveKept DEF Save, Devices
<1> HIDE DEF d
<1>8. d \in Devices /\ RemoveAuth(d) \in Devices
  BY <1>3 DEF Kept, RemoveAuth, Devices, Files
<1>9. /\ r \in Devices /\ r.saved = d.saved /\ r.cfg = d.cfg
      /\ r.conf = d.conf /\ r.short = d.short /\ r.now = d.now
      /\ r.cnt = d.cnt /\ r.quick = d.quick /\ r.seq = d.seq
  BY <1>8 DEF RemoveAuth, Devices
<1> HIDE DEF r
<1>4. Good(r) /\ r.saved = d.saved /\ r.seq = b.seq
  BY <1>2, <1>3, <1>9, KeptGood DEF Kept, Flash, Memory, Detect
<1>5. Good(Cut(d)) /\ Cut(d).saved = d.saved /\ ~Cut(d).seq
  BY <1>3, CutGood DEF Cut, Reset, Kept, Devices
<1>6. b' \in {Cut(d), r}
  BY DEF ClearAuth, d, e, r
<1>7. b.saved.wifi => b.cfg.wifi
  BY <1>1 DEF Kept
<1> QED BY <1>2, <1>3, <1>4, <1>5, <1>6, <1>7

\* A device that is wiped goes on with its configuration in memory.
LEMMA RPCWipeDeviceGood ==
  ASSUME Good(b), RPCWipeDevice
  PROVE  /\ Good(b') /\ (b.saved.wifi => b'.saved.wifi \/ ~b'.conf)
         /\ b'.seq => b.seq
<1> DEFINE d == WipeDevice(b)
           r == RestartAfter([d EXCEPT !.wiped = TRUE])
<1>1. b \in Devices /\ Flash(b) /\ Kept(b)
  BY ServingKept DEF RPCWipeDevice, Kept
<1>2. CASE b' = Cut(RemoveConf(b))
  <2>1. ~RemoveConf(b).conf
    BY <1>1 DEF RemoveConf, Devices
  <2>2. Good(b') /\ ~b'.conf /\ ~b'.seq
    BY <1>1, <1>2, <2>1, RemoveConfGood, CutGood DEF Cut, Reset, Devices
  <2> QED BY <2>2
<1>3. CASE Wiped(b) /\ b' = r
  <2>2. /\ d \in Devices /\ Flash(d) /\ d.cfg = b.cfg /\ d.short = b.short
        /\ d.now = b.now /\ d.cnt = b.cnt /\ d.quick = b.quick
        /\ d.seq = b.seq /\ ~d.conf /\ d.phase = b.phase
        /\ d.saved = Default
    BY <1>1, WipeDeviceGood DEF WipeDevice, RemoveAuth, RemoveConf, Devices
  <2>3. ~Default.wifi
    BY DEF Default
  <2> HIDE DEF d
  <2>5. r = [d EXCEPT !.wiped = TRUE, !.restart = TRUE]
    BY <2>2 DEF RestartAfter, Devices
  <2>6. Good(r) /\ ~r.conf /\ r.seq = b.seq
    <3> HIDE DEF r
    <3> QED BY <1>1, <2>2, <2>3, <2>5
            DEF Kept, Good, Devices, Flash, Memory, Detect
  <2> QED BY <1>3, <2>6
<1> QED BY <1>2, <1>3 DEF RPCWipeDevice

LEMMA RevertToStockGood ==
  ASSUME Good(b), RevertToStock
  PROVE  /\ Good(b') /\ (b.saved.wifi => b'.saved.wifi \/ ~b'.conf)
         /\ ~b'.seq /\ b'.phase = "reset"
<1> DEFINE d == WipeDevice(b)
           e == SanitizeSysConfig(d)
           f == RemoveConf(b)
<1>1. Kept(b) /\ b \in Devices /\ Flash(b) /\ Detect(b)
  BY AppKept DEF RevertToStock, Kept
<1>2. /\ d \in Devices /\ Flash(d) /\ d.cfg = b.cfg /\ d.now = b.now
      /\ d.cnt = b.cnt /\ d.quick = b.quick /\ ~d.conf
  BY <1>1, WipeDeviceGood DEF WipeDevice, RemoveAuth, RemoveConf, Devices
<1>3. f \in Devices /\ Flash(f) /\ ~f.conf
  BY <1>1, RemoveConfGood DEF RemoveConf, Devices
<1> HIDE DEF d, f
<1>4. Kept(e)
  BY <1>1, <1>2, SanitizeKept DEF Detect
<1>5. e.saved.wifi = b.cfg.wifi
  BY <1>2, DefaultConfig DEF SanitizeSysConfig, Save, Devices, Configs
<1> HIDE DEF e
<1>6. /\ Good(Cut(e)) /\ Cut(e).saved = e.saved /\ ~Cut(e).seq
      /\ Cut(e).phase = "reset"
      /\ Good(Cut(d)) /\ Cut(d).conf = d.conf /\ ~Cut(d).seq
      /\ Cut(d).phase = "reset"
      /\ Good(Cut(f)) /\ Cut(f).conf = f.conf /\ ~Cut(f).seq
      /\ Cut(f).phase = "reset"
  BY <1>2, <1>3, <1>4, CutGood DEF Cut, Reset, Devices, Kept
<1>7. b' \in {Cut(e), Cut(d), Cut(f)}
  BY DEF RevertToStock, d, e, f
<1>8. b.saved.wifi => b.cfg.wifi
  BY <1>1 DEF Kept
<1> QED BY <1>2, <1>3, <1>5, <1>6, <1>7, <1>8

-----------------------------------------------------------------------------
\* A setup of WiFi that a boot finds is the one it goes on with.
Wifi(d) == d \in Devices /\ d.cfg.wifi /\ d.saved.wifi

LEMMA WifiKept ==
  ASSUME NEW d, Counting(d), Wifi(d), ~ManyBoots(d)
  PROVE  /\ Wifi(CheckRebootCounter(d))
         /\ Wifi(SanitizeSysConfig(CheckRebootCounter(d)))
         /\ Wifi(InitApp(d))
         /\ ~InitApp(d).seq \/ d.seq
<1> DEFINE n == d.cfg.counter + 1
           e == SetRebootCounter(d, n)
           c == [e EXCEPT !.stable = TRUE]
           s == SanitizeSysConfig(c)
           m == MigrateConfig(c)
<1>1. d \in Devices /\ n \in 0 .. Boots
  <2>1. d \in Devices /\ d.cfg.counter \in 0 .. Boots
    BY DEF Counting, Kept, Devices, Configs
  <2> QED BY <2>1, BootsAssumption DEF ManyBoots
<1> HIDE DEF n
<1>2. Wifi(e) /\ e.seq = d.seq
  BY <1>1 DEF SetRebootCounter, Save, Wifi, Devices, Configs
<1> HIDE DEF e
<1>3. Wifi(c) /\ c.seq = d.seq
  BY <1>2 DEF Wifi, Devices
<1>4. CheckRebootCounter(d) = c
  BY DEF CheckRebootCounter, e, n
<1> HIDE DEF c
<1>5. Wifi(s) /\ s.seq = d.seq
  <2> DEFINE w == [Default EXCEPT !.wifi = c.cfg.wifi]
             a == [c EXCEPT !.cfg = w]
  <2>1. w \in Configs /\ w.wifi = c.cfg.wifi
    BY <1>3, DefaultConfig DEF Wifi, Devices, Configs
  <2>2. s = Save(a)
    BY DEF SanitizeSysConfig
  <2> HIDE DEF w
  <2>3. a \in Devices /\ a.cfg = w /\ a.seq = c.seq
    BY <1>3, <2>1 DEF Wifi, Devices
  <2> HIDE DEF a
  <2> QED BY <1>3, <2>1, <2>2, <2>3 DEF Save, Wifi, Devices
<1> HIDE DEF s
<1>6. Wifi(m) /\ m.seq = d.seq
  <2> DEFINE a == IF c.cfg.version = 0 THEN s ELSE c
             v == [a EXCEPT !.cfg.version = Version]
  <2>1. Wifi(a) /\ a.seq = d.seq
    BY <1>3, <1>5
  <2> HIDE DEF a
  <2>2. v \in Devices /\ v.cfg.wifi /\ v.seq = d.seq
    BY <2>1 DEF Wifi, Devices, Configs, Version, Versions
  <2> HIDE DEF v
  <2>3. Wifi(Save(v)) /\ Save(v).seq = d.seq
    BY <2>2 DEF Save, Wifi, Devices
  <2> QED BY <1>3, <2>3 DEF MigrateConfig, v, a, s
<1> HIDE DEF m
<1>7. Wifi([m EXCEPT !.phase = "app"]) /\ [m EXCEPT !.phase = "app"].seq = d.seq
  BY <1>6 DEF Wifi, Devices
<1>8. InitApp(d) = [m EXCEPT !.phase = "app"]
  BY <1>4 DEF InitApp, m
<1> QED BY <1>3, <1>4, <1>5, <1>7, <1>8 DEF s

\* When a boot counts enough of them, there have been as many short ones.
LEMMA ManyBootsShort ==
  ASSUME Good(b), ManyBoots([Loaded EXCEPT !.short = CountTo(@, Boots)])
  PROVE  b.short = Boots
<1>1. Loaded \in Devices /\ Loaded.cfg = b.saved
  BY LoadedKept DEF Kept
<1>2. b.saved.counter >= Boots
  BY <1>1 DEF ManyBoots, Devices
<1>3. b.saved.counter <= b.short /\ b.short \in 0 .. Boots
        /\ b.saved.counter \in 0 .. Boots
  BY DEF Good, Flash, Devices, Configs
<1> QED BY <1>2, <1>3, BootsAssumption

LEMMA LoadedWifi ==
  ASSUME Good(b), b.saved.wifi
  PROVE  Wifi([Loaded EXCEPT !.short = CountTo(@, Boots)])
<1> DEFINE d == [Loaded EXCEPT !.short = CountTo(@, Boots)]
<1>1. Counting(d) /\ Kept(Loaded)
  BY LoadedCounts, LoadedKept
<1>2. d.cfg = Loaded.cfg /\ d.saved = Loaded.saved
  BY <1>1 DEF Kept, Devices
<1>3. Loaded.cfg = b.saved /\ Loaded.saved = b.saved
  BY LoadedKept
<1> HIDE DEF d
<1> QED BY <1>1, <1>2, <1>3 DEF Wifi, Counting, Kept, d

LEMMA StartAppKeepsWifi ==
  ASSUME Good(b), StartApp, b.saved.wifi
  PROVE  b'.saved.wifi \/ b.short = Boots
<1> DEFINE d == [Loaded EXCEPT !.short = CountTo(@, Boots)]
<1>1. CASE ManyBoots(d)
  BY <1>1, ManyBootsShort
<1>2. CASE ~ManyBoots(d)
  <2>1. Counting(d) /\ Wifi(d)
    BY LoadedCounts, LoadedWifi
  <2>2. b' = InitApp(d)
    BY DEF StartApp
  <2> HIDE DEF d
  <2> QED BY <1>2, <2>1, <2>2, WifiKept DEF Wifi
<1> QED BY <1>1, <1>2

LEMMA CrashGood ==
  ASSUME Good(b), CrashWhileWriting
  PROVE  /\ Good(b') /\ ~b'.seq /\ b'.phase = "reset"
         /\ b.saved.wifi => \/ b'.saved.wifi \/ b.seq \/ b.short = Boots
                            \/ b.phase = "reset" /\ Failsafe(b)
<1>1. CASE /\ b.phase = "reset" /\ ~Failsafe(b)
           /\ b' \in InitAppCuts([Loaded EXCEPT !.short = CountTo(@, Boots)])
  <2> DEFINE d == [Loaded EXCEPT !.short = CountTo(@, Boots)]
  <2>1. Counting(d) /\ (b.saved.wifi => Wifi(d))
    BY LoadedCounts, LoadedWifi
  <2>2. ManyBoots(d) => b.short = Boots
    BY ManyBootsShort
  <2>3. b' \in InitAppCuts(d)
    BY <1>1
  <2> HIDE DEF d
  <2>4. Good(b')
    BY <2>1, <2>3, InitAppCutsGood
  <2>5. PICK e \in {SetRebootCounter(d, 0), ClearSettings(SetRebootCounter(d, 0)),
                    CheckRebootCounter(d),
                    SanitizeSysConfig(CheckRebootCounter(d))} :
          /\ b' = Cut(e)
          /\ ~ManyBoots(d) => e \in {CheckRebootCounter(d),
                                    SanitizeSysConfig(CheckRebootCounter(d))}
    BY <2>3 DEF InitAppCuts, ResetDeviceCut
  <2>6. ~ManyBoots(d) /\ b.saved.wifi => Wifi(e)
    BY <2>1, <2>5, WifiKept
  <2>7. Wifi(e) => Cut(e).saved.wifi
    BY DEF Cut, Reset, Wifi, Devices
  <2>8. ~b'.seq /\ b'.phase = "reset"
    <3>1. e \in Devices
      <4>1. Kept(CheckRebootCounter(d)) /\ d \in Devices /\ Memory(d) /\ Detect(d)
        BY <2>1, CheckRebootCounterKept DEF Counting, Kept
      <4>2. SanitizeSysConfig(CheckRebootCounter(d)) \in Devices
        BY <4>1, SanitizeKept DEF Kept
      <4>3. 0 \in 0 .. Boots /\ 0 <= d.short
        BY <4>1, BootsAssumption DEF Devices
      <4>4. Kept(SetRebootCounter(d, 0))
        BY <4>1, <4>3, CounterKept
      <4>5. Kept(ClearSettings(SetRebootCounter(d, 0)))
        BY <4>4, ClearKept DEF Kept
      <4> QED BY <2>5, <4>1, <4>2, <4>4, <4>5 DEF Kept
    <3> QED BY <2>5, <3>1 DEF Cut, Reset, Devices
  <2> QED BY <2>2, <2>4, <2>5, <2>6, <2>7, <2>8
<1>2. CASE App /\ b.seq /\ b' = ResetDeviceCut(b)
  <2>1. Kept(b)
    BY <1>2, AppKept
  <2>2. Good(b')
    BY <1>2, <2>1, ResetDeviceCutGood DEF Kept
  <2>3. ~b'.seq /\ b'.phase = "reset"
    BY <1>2, <2>1, ClearKept DEF ResetDeviceCut, Cut, Reset, Kept, Devices
  <2> QED BY <1>2, <2>2, <2>3
<1>3. CASE b.phase = "reset" /\ Failsafe(b) /\ b' = Cut(RemoveConf(b))
  <2> DEFINE d == RemoveConf(b)
  <2>1. d \in Devices /\ Flash(d)
    BY RemoveConfGood DEF Good
  <2>2. b' = Cut(d)
    BY <1>3
  <2> HIDE DEF d
  <2>3. Good(Cut(d)) /\ ~Cut(d).seq /\ Cut(d).phase = "reset"
    BY <2>1, CutGood DEF Cut, Reset, Devices
  <2> QED BY <1>3, <2>2, <2>3
<1> QED BY <1>1, <1>2, <1>3 DEF CrashWhileWriting

\* Nothing that starts an app detects a reset sequence.
LEMMA InitAppSeq ==
  ASSUME NEW d, Counting(d)
  PROVE  InitApp(d).seq = d.seq
<1> DEFINE c == CheckRebootCounter(d)
           m == IF c.cfg.version = 0 THEN SanitizeSysConfig(c) ELSE c
           r == MigrateConfig(c)
<1>1. d \in Devices
  BY DEF Counting, Kept
<1>2. c.seq = d.seq
  BY <1>1 DEF CheckRebootCounter, ResetDevice, RestartAfter, RemoveAuth,
              ClearSettings, SetRebootCounter, Save, Devices, Configs
<1>3. Kept(c)
  BY CheckRebootCounterKept
<1> HIDE DEF c
<1>4. m.seq = c.seq /\ m \in Devices
  <2>1. c \in Devices /\ SanitizeSysConfig(c) \in Devices
    BY <1>3, SanitizeKept DEF Kept
  <2>2. SanitizeSysConfig(c).seq = c.seq
    BY <2>1 DEF SanitizeSysConfig, Save, Devices
  <2> QED BY <2>1, <2>2
<1> HIDE DEF m
<1>5. r.seq = c.seq
  BY <1>3, <1>4 DEF MigrateConfig, Save, Kept, Devices, m
<1>6. Kept(r)
  BY <1>3, MigrateKept
<1> HIDE DEF r
<1>7. [r EXCEPT !.phase = "app"].seq = r.seq
  BY <1>6 DEF Kept, Devices
<1> QED BY <1>2, <1>5, <1>7 DEF InitApp, c, r

-----------------------------------------------------------------------------
\* A step that loses the setup of WiFi, or detects a reset sequence.
Survives ==
  /\ b.saved.wifi /\ ~b'.saved.wifi =>
       \/ b.seq
       \/ b.short = Boots
       \/ b.phase = "reset" /\ Failsafe(b)
       \/ b.phase # "reset" /\ ~b'.conf
  /\ ~b.seq /\ b'.seq => b'.quick = Changes

LEMMA ResetStep ==
  ASSUME Good(b), NEW soft \in BOOLEAN, NEW held \in BOOLEAN,
         b' = Reset(b, soft, held)
  PROVE  Good(b') /\ Survives
<1>1. b \in Devices /\ Flash(b)
  BY DEF Good
<1>2. b'.saved = b.saved /\ b'.seq = FALSE
  BY <1>1 DEF Reset, Devices
<1>3. Good(b')
  BY <1>1, ResetGood
<1> QED BY <1>2, <1>3 DEF Survives

LEMMA DeviceStep ==
  ASSUME Good(b), Device
  PROVE  Good(b') /\ Survives
<1>1. CASE StartFailsafe
  <2>1. b'.seq => b.seq
    <3>1. Loaded \in Devices /\ Loaded.seq = b.seq
      BY LoadedKept DEF Kept, Loaded, Good, Devices
    <3>2. WipeDevice(Loaded) \in Devices
      BY LoadedKept, WipeDeviceGood DEF Kept
    <3> QED BY <1>1, <3>1, <3>2 DEF StartFailsafe, Reset, Devices
  <2> QED BY <1>1, <2>1, StartFailsafeGood DEF StartFailsafe, Survives
<1>2. CASE StartApp
  <2> DEFINE d == [Loaded EXCEPT !.short = CountTo(@, Boots)]
  <2>1. Counting(d) /\ b' = InitApp(d)
    BY <1>2, LoadedCounts DEF StartApp
  <2>2. d.seq = b.seq
    BY LoadedKept DEF Kept, Loaded, Good, Devices
  <2> HIDE DEF d
  <2>3. b'.seq = b.seq
    BY <2>1, <2>2, InitAppSeq
  <2> QED BY <1>2, <2>3, StartAppGood, StartAppKeepsWifi
          DEF Survives, Good, Devices
<1>3. CASE Restart
  BY <1>3, ResetStep DEF Restart
<1>4. CASE Tick
  <2>1. b'.saved = b.saved /\ b'.seq = b.seq
    BY <1>4 DEF Tick, Good, Devices
  <2> QED BY <1>4, <2>1, TickGood DEF Survives
<1>5. CASE Lasted
  <2>1. b'.saved.wifi = b.cfg.wifi /\ b'.seq = b.seq
    BY <1>5 DEF Lasted, SetRebootCounter, Save, Good, Devices, Configs
  <2>2. b.saved.wifi => b.cfg.wifi
    BY <1>5 DEF Lasted, App, Good
  <2> QED BY <1>5, <2>1, <2>2, LastedGood DEF Survives
<1>6. CASE SequenceTimer
  BY <1>6, SequenceTimerGood DEF SequenceTimer, Survives
<1> QED BY <1>1, <1>2, <1>3, <1>4, <1>5, <1>6 DEF Device

LEMMA UserStep ==
  ASSUME Good(b), User
  PROVE  Good(b') /\ Survives
<1>1. CASE InputChange
  <2>1. b'.saved = b.saved
    BY <1>1 DEF InputChange, DetectReset, Good, Devices
  <2> QED BY <1>1, <2>1, InputChangeGood DEF Survives
<1>2. CASE LongPress
  <2>1. b'.saved = b.saved
    BY <1>2 DEF LongPress, Good, Devices
  <2> QED BY <1>2, <2>1, LongPressGood DEF Survives
<1>3. CASE SetConfig
  <2>1. b'.seq = b.seq
    BY <1>3 DEF SetConfig, Save, Good, Devices
  <2> QED BY <1>3, <2>1, SetConfigGood DEF Survives
<1>4. CASE SetAuth
  BY <1>4, SetAuthGood DEF Survives
<1>5. CASE ClearAuth
  BY <1>5, ClearAuthGood DEF Survives
<1>6. CASE RPCWipeDevice
  BY <1>6, RPCWipeDeviceGood DEF RPCWipeDevice, Serving, Survives
<1>7. CASE RPCReboot
  BY <1>7, ResetStep DEF RPCReboot
<1>8. CASE RevertToStock
  BY <1>8, RevertToStockGood DEF RevertToStock, App, Survives
<1>9. CASE PowerCycle
  <2>1. PICK held \in BOOLEAN : b' = Reset(b, FALSE, held)
    BY <1>9 DEF PowerCycle
  <2> QED BY <2>1, ResetStep
<1>10. CASE CrashWhileWriting
  BY <1>10, CrashGood DEF Survives
<1> QED BY <1>1, <1>2, <1>3, <1>4, <1>5, <1>6, <1>7, <1>8, <1>9, <1>10
        DEF User

\* A step that enters failsafe mode.
Entered ==
  b.phase # "failsafe" /\ b'.phase = "failsafe" =>
    ~Wiped(b') /\ b'.cfg = Default

\* A device that serves requests does not get into failsafe mode by one.
LEMMA RequestEntered ==
  ASSUME Good(b), SetConfig \/ SetAuth \/ ClearAuth \/ RPCWipeDevice
  PROVE  b'.phase \in {b.phase, "reset"}
<1>1. Kept(b) /\ b \in Devices /\ Flash(b)
  BY ServingKept
     DEF Kept, SetConfig, SetAuth, ClearAuth, RPCWipeDevice
<1>2. CASE SetConfig
  <2>1. PICK w \in {TRUE, b.cfg.wifi} : b' = Save([b EXCEPT !.cfg.wifi = w])
    BY <1>2 DEF SetConfig
  <2> QED BY <1>1, <2>1 DEF Save, Devices
<1>3. CASE SetAuth
  BY <1>1, <1>3 DEF SetAuth, Save, Cut, Reset, Devices
<1>4. CASE ClearAuth
  BY <1>1, <1>4 DEF ClearAuth, RemoveAuth, Save, Cut, Reset, Devices
<1>5. CASE RPCWipeDevice
  BY <1>1, <1>5
     DEF RPCWipeDevice, RestartAfter, WipeDevice, RemoveConf, RemoveAuth,
         Cut, Reset, Devices
<1> QED BY <1>2, <1>3, <1>4, <1>5

\* An app that runs goes on, or starts again.
LEMMA AppEntered ==
  ASSUME Good(b),
         Tick \/ Lasted \/ SequenceTimer \/ InputChange \/ LongPress
  PROVE  b'.phase = "app"
<1>1. b \in Devices /\ b.phase = "app" /\ Memory(b) /\ Detect(b)
  BY AppKept
     DEF Kept, App, Tick, Lasted, SequenceTimer, InputChange, LongPress
<1>2. CASE SequenceTimer
  <2> DEFINE r == ResetDevice(b)
  <2>1. r \in Devices /\ r.phase = "app"
    BY <1>1, ResetDeviceKept DEF Kept
  <2>2. b' = [r EXCEPT !.seq = FALSE]
    BY <1>2 DEF SequenceTimer
  <2> HIDE DEF r
  <2> QED BY <2>1, <2>2 DEF Devices
<1>3. CASE ~SequenceTimer
  BY <1>1, <1>3
     DEF Tick, Lasted, SetRebootCounter, Save, InputChange, DetectReset,
         LongPress, Devices
<1> QED BY <1>2, <1>3

\* Only a start with nothing to wipe enters failsafe mode.
LEMMA NextEntered ==
  ASSUME Good(b), Next
  PROVE  Entered
<1>1. b \in Devices
  BY DEF Good
<1>2. CASE StartFailsafe
  <2>1. CASE Wiped(b)
    <3> DEFINE d == [WipeDevice(Loaded) EXCEPT !.magic = TRUE]
    <3>1. WipeDevice(Loaded) \in Devices
      BY LoadedKept, WipeDeviceGood DEF Kept
    <3>2. d \in Devices
      BY <3>1 DEF Devices
    <3>3. b' = Reset(d, TRUE, FALSE)
      BY <1>2, <2>1 DEF StartFailsafe
    <3> HIDE DEF d
    <3> QED BY <3>2, <3>3 DEF Reset, Devices, Entered
  <2>2. CASE ~Wiped(b)
    <3>1. ~b.conf /\ b.saved = Default
      BY <2>2 DEF Wiped, Good, Flash
    <3>2. b' = [Loaded EXCEPT !.phase = "failsafe"]
      BY <1>2, <2>2 DEF StartFailsafe
    <3>3. /\ Loaded \in Devices /\ Loaded.cfg = Default
          /\ ~Wiped(Loaded)
      BY <2>2, <3>1, LoadedKept DEF Kept, Wiped
    <3> QED BY <3>2, <3>3 DEF Entered, Wiped, Devices
  <2> QED BY <2>1, <2>2
<1>3. CASE StartApp
  BY <1>3, LoadedCounts, InitAppGood DEF StartApp, Entered
<1>4. CASE Restart \/ RPCReboot \/ PowerCycle
  BY <1>1, <1>4 DEF Restart, RPCReboot, PowerCycle, Reset, Devices, Entered
<1>5. CASE Tick \/ Lasted \/ SequenceTimer \/ InputChange \/ LongPress
  BY <1>5, AppEntered DEF Entered
<1>6. CASE SetConfig \/ SetAuth \/ ClearAuth \/ RPCWipeDevice
  BY <1>6, RequestEntered DEF Entered
<1>7. CASE RevertToStock
  BY <1>7, RevertToStockGood DEF Entered
<1>8. CASE CrashWhileWriting
  BY <1>8, CrashGood DEF Entered
<1>9. CASE CalmDown
  BY <1>9 DEF CalmDown, Entered
<1> QED BY <1>2, <1>3, <1>4, <1>5, <1>6, <1>7, <1>8, <1>9
        DEF Next, Device, User

LEMMA InitInv == Init => Inv
<1> SUFFICES ASSUME Init PROVE Inv
  OBVIOUS
<1>1. PICK v \in Versions, wifi \in BOOLEAN, conf \in BOOLEAN :
        LET c == IF conf THEN [Default EXCEPT !.wifi = wifi, !.version = v]
                 ELSE Default
        IN  b = [phase |-> "reset", soft |-> FALSE, held |-> FALSE,
                 magic |-> FALSE, cfg |-> c, saved |-> c, conf |-> conf,
                 authFile |-> "none", now |-> 0, age |-> 0, cnt |-> 0,
                 stable |-> FALSE, seq |-> FALSE, restart |-> FALSE,
                 short |-> 0, quick |-> 0, wiped |-> FALSE,
                 torn |-> FALSE]
  BY DEF Init
<1> DEFINE c == IF conf THEN [Default EXCEPT !.wifi = wifi, !.version = v]
                ELSE Default
<1>2. Default.auth = FALSE /\ Default.counter = 0
  BY DEF Default
<1>3. c \in Configs /\ c.auth = FALSE /\ c.counter = 0
        /\ (~conf => c = Default)
  BY <1>2, DefaultConfig DEF Configs
<1>4. 0 \in 0 .. Window /\ 0 \in 0 .. Gap + 1 /\ 0 \in 0 .. Changes - 1
        /\ 0 \in 0 .. Changes /\ 0 \in 0 .. Boots
  BY TimeAssumption, ChangesAssumption, BootsAssumption
<1> HIDE DEF c
<1>5. b = [phase |-> "reset", soft |-> FALSE, held |-> FALSE,
           magic |-> FALSE, cfg |-> c, saved |-> c, conf |-> conf,
           authFile |-> "none", now |-> 0, age |-> 0, cnt |-> 0,
           stable |-> FALSE, seq |-> FALSE, restart |-> FALSE,
           short |-> 0, quick |-> 0, wiped |-> FALSE,
           torn |-> FALSE]
  BY <1>1 DEF c
<1>6. b \in Devices
  BY <1>3, <1>4, <1>5 DEF Devices, Files
<1>7. Flash(b) /\ Detect(b) /\ b.phase = "reset"
  BY <1>3, <1>5 DEF Flash, Detect
<1> QED BY <1>6, <1>7 DEF Init, Inv, Good

LEMMA StepInv == Inv /\ [Next]_vars => Inv' /\ [Survives]_vars
<1> SUFFICES ASSUME Inv, [Next]_vars
             PROVE  Inv' /\ [Survives]_vars
  OBVIOUS
<1>1. CASE Device
  BY <1>1, DeviceStep
     DEF Inv, Device, StartFailsafe, StartApp, Restart, Tick, Lasted,
         SequenceTimer
<1>2. CASE User
  BY <1>2, UserStep DEF Inv, User
<1>3. CASE CalmDown
  BY <1>3 DEF CalmDown, Inv, Good, Flash, Detect, Memory, Wiped, Survives
<1>4. CASE UNCHANGED vars
  BY <1>4 DEF vars, Inv
<1> QED BY <1>1, <1>2, <1>3, <1>4 DEF Next

\* The inductive invariant: whatever is pressed, written, cut or restarted,
\* memory and flash are in order, for any counts and times.
THEOREM Invariant == Spec => []Inv
BY InitInv, StepInv, PTL DEF Spec

\* The device's memory, timers and flash have their types.
THEOREM TypeCorrect == Spec => []TypeOK
<1>1. Inv => TypeOK BY DEF Inv, Good, TypeOK
<1> QED BY <1>1, Invariant, PTL

\* Wherever the power fails, nobody is locked out by a password whose entry is
\* not there, unless the device was wiped while it served requests, or the
\* power failed while a password was being replaced.
THEOREM LockOutsKnown == Spec => []NoDanglingAuth
<1>1. Inv => NoDanglingAuth BY DEF Inv, Good, Flash, NoDanglingAuth
<1> QED BY <1>1, Invariant, PTL

\* A device enters failsafe mode on defaults, whatever was written before.
THEOREM FailsafeRunsOnDefaults == Spec => FailsafeIsClean
<1>1. Inv /\ [Next]_vars => [Entered]_vars
  BY NextEntered DEF Inv
<1> QED BY <1>1, Invariant, PTL DEF Spec, FailsafeIsClean, Entered

\* No boot that lasted is counted.
THEOREM CountsHonest == Spec => []CountsAreHonest
<1>1. Inv => CountsAreHonest BY DEF Inv, Good, Flash, CountsAreHonest
<1> QED BY <1>1, Invariant, PTL

\* Settings are lost on purpose only, and a reset sequence is one.
THEOREM SettingsKept == Spec => SettingsSurvive
<1>1. Spec => [][Survives]_vars
  BY StepInv, Invariant, PTL DEF Spec
<1> QED BY <1>1 DEF SettingsSurvive, Survives
=============================================================================
