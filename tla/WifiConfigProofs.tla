-------------------------- MODULE WifiConfigProofs --------------------------
(***************************************************************************)
(* The safety of the WiFi manager for any networks, requests and timeout,  *)
(* and the proof that it implements the trial of configurations.           *)
(***************************************************************************)
EXTENDS WifiConfig, TLAPS

\* What the library is doing for the manager.
LibraryOK ==
  /\ lib.phase = "up" => lib.net \in proven
  /\ state \in {"Disconnecting", "Connect"} => lib.phase = "idle"
  /\ act = "new" /\ state = "Connecting" /\ lib.phase # "idle"
       => lib.net = new.sta \/ new.sta = cur.sta

\* The inductive invariant.  The station in memory and in flash are always
\* saved together, which OtherSave relies on.
Inv == /\ TypeOK /\ TrialUnderWay /\ OnlyProven /\ CurrentIsSaved
       /\ LibraryOK /\ sys.sta = flash.sta

USE NetworkAssumption, APAssumption, ConfigAssumption, TimeoutAssumption

LEMMA OffIsStation == Off \in Stations /\ Networks \subseteq Stations
BY DEF Stations

LEMMA SetStateAge ==
  ASSUME TypeOK, NEW s \in States, SetState(s)
  PROVE  state' \in States /\ age' \in 0 .. AgeLimit'
<1>1. s = state => AgeLimit' = AgeLimit /\ age' = age
  BY DEF SetState, AgeLimit
<1>2. s # state => age' = 0 /\ AgeLimit' \in Nat
  BY DEF SetState, AgeLimit, States
<1>3. QED
  BY <1>1, <1>2 DEF SetState, TypeOK

LEMMA InitInv == Init => Inv
<1> SUFFICES ASSUME Init PROVE Inv
  OBVIOUS
<1>1. PICK saved \in Config :
        /\ state = "Idle" /\ age = 0 /\ act = "cur"
        /\ cur = saved /\ new = saved
        /\ apChanged = FALSE /\ apRunning \in BOOLEAN /\ apClient = FALSE
        /\ early = TRUE /\ rebootIn = NoReboot /\ wiped = FALSE
        /\ sys = saved /\ flash = saved
        /\ lib = [net |-> saved.sta,
                  phase |-> IF saved.sta = Off THEN "idle" ELSE "trying"]
        /\ event = (saved.sta # Off)
        /\ proven = {saved.sta}
  BY DEF Init
<1>2. saved.sta \in Stations
  BY DEF Config
<1>3. lib \in [net : Stations, phase : Phases] /\ event \in BOOLEAN
  BY <1>1, <1>2 DEF Phases
<1>4. age \in 0 .. AgeLimit /\ rebootIn \in NoReboot .. ResetDelay
  BY <1>1 DEF AgeLimit, NoReboot, ResetDelay
<1>5. TypeOK
  BY <1>1, <1>2, <1>3, <1>4 DEF TypeOK, States
<1>6. QED
  BY <1>1, <1>5 DEF Inv, TrialUnderWay, OnlyProven, CurrentIsSaved, LibraryOK

-----------------------------------------------------------------------------
(***************************************************************************)
(* Requests preserve the invariant.                                        *)
(***************************************************************************)
LEMMA SetConfigInv ==
  ASSUME Inv, NEW c \in Configs, SetConfig(c)
  PROVE  Inv'
<1>1. c \in Config /\ c.sta \in Stations /\ c.ap \in APConfig /\ c.ps \in PsModes
  BY DEF Config
<1>2. cur' = [cur EXCEPT !.ap = c.ap] /\ cur' \in Config /\ cur'.sta = cur.sta
  BY <1>1 DEF SetConfig, Inv, TypeOK, Config
<1>3. CASE c.sta # cur.sta \/ c.ps # sys.ps
  <2>1. /\ sys' = [sys EXCEPT !.ps = c.ps] /\ act' = "new" /\ new' = c
        /\ SetState("Disconnect")
    BY <1>3 DEF SetConfig
  <2>2. sys' \in Config /\ sys'.sta = sys.sta
    BY <1>1, <2>1 DEF Inv, TypeOK, Config
  <2>3. state' = "Disconnect" /\ age' \in 0 .. AgeLimit'
    BY <2>1, SetStateAge DEF Inv, SetState, States
  <2>4. TypeOK'
    BY <1>1, <1>2, <2>1, <2>2, <2>3 DEF Inv, TypeOK, SetConfig, env, States
  <2>5. QED
    BY <1>2, <2>1, <2>2, <2>3, <2>4 DEF Inv, SetConfig, env, TrialUnderWay,
       OnlyProven, CurrentIsSaved, LibraryOK
<1>4. CASE c.sta = cur.sta /\ c.ps = sys.ps
  <2>1. /\ UNCHANGED <<sys, act, state, age>> /\ new' \in {c, new}
    BY <1>4 DEF SetConfig
  <2>2. AgeLimit' = AgeLimit
    BY <2>1 DEF AgeLimit
  <2>3. TypeOK'
    BY <1>1, <1>2, <2>1, <2>2 DEF Inv, TypeOK, SetConfig, env
  <2>4. QED
    BY <1>2, <1>4, <2>1, <2>3 DEF Inv, SetConfig, env, TrialUnderWay,
       OnlyProven, CurrentIsSaved, LibraryOK
<1>5. QED
  BY <1>3, <1>4

LEMMA ResetDeviceInv ==
  ASSUME Inv, ResetDevice
  PROVE  Inv'
<1>1. cur' \in Config /\ cur'.sta = Off
  <2> DEFINE point == IF cur.sta = Off
                      THEN [cur.ap EXCEPT !.name = DefaultAP] ELSE cur.ap
  <2>1. point \in APConfig
    BY DEF Inv, TypeOK, Config, APConfig
  <2>2. cur' = [cur EXCEPT !.sta = Off, !.ap = point]
    BY DEF ResetDevice, ResetConfig
  <2>3. QED
    BY <2>1, <2>2, OffIsStation DEF Inv, TypeOK, Config
<1>2. sys' = cur' /\ flash' = cur' /\ apChanged' \in BOOLEAN
  BY DEF ResetDevice, ResetConfig, SaveConfig, Inv, TypeOK
<1>3. state' = "Disconnect" /\ age' \in 0 .. AgeLimit'
  BY SetStateAge DEF ResetDevice, ResetConfig, SetState, Inv, States
<1>4. rebootIn' \in NoReboot .. ResetDelay
  BY DEF ResetDevice, Inv, TypeOK, NoReboot, ResetDelay
<1>5. TypeOK'
  BY <1>1, <1>2, <1>3, <1>4 DEF Inv, TypeOK, ResetDevice, ResetConfig, env, States
<1>6. QED
  BY <1>1, <1>2, <1>3, <1>5 DEF Inv, ResetDevice, ResetConfig, env,
     TrialUnderWay, OnlyProven, CurrentIsSaved, LibraryOK

LEMMA BootInv ==
  ASSUME Inv, Boot(flash), UNCHANGED <<proven, wiped>>
  PROVE  Inv'
<1>1. flash \in Config /\ flash.sta \in Stations /\ flash.ap.enable \in BOOLEAN
  BY DEF Inv, TypeOK, Config, APConfig
<1>2. AgeLimit' = 0
  BY DEF Boot, AgeLimit
<1>3. lib' \in [net : Stations, phase : Phases] /\ event' \in BOOLEAN
  BY <1>1 DEF Boot, Phases
<1>4. age' \in 0 .. AgeLimit' /\ rebootIn' \in NoReboot .. ResetDelay
  BY <1>2 DEF Boot, NoReboot, ResetDelay
<1>5. TypeOK'
  BY <1>1, <1>3, <1>4 DEF Boot, Inv, TypeOK, States
<1>6. QED
  BY <1>1, <1>5 DEF Boot, Inv, TrialUnderWay, OnlyProven, CurrentIsSaved,
     LibraryOK

-----------------------------------------------------------------------------
(***************************************************************************)
(* So do the states of Process.                                            *)
(***************************************************************************)
LEMMA CheckAPEnabledInv ==
  ASSUME Inv, NEW ok \in BOOLEAN, CheckAPEnabled(ok)
  PROVE  Inv'
<1>1. UNCHANGED <<state, age, act, cur, new, apClient, lib, event, proven,
                  early, rebootIn, wiped>>
  BY DEF CheckAPEnabled, conf, env, dev
<1>2. \/ UNCHANGED <<apChanged, apRunning, sys, flash>>
      \/ /\ apChanged' = FALSE /\ apRunning' = WantAP
         /\ sys' = cur /\ flash' = cur
  BY DEF CheckAPEnabled, store, SaveConfig
<1>3. WantAP \in BOOLEAN
  BY DEF WantAP, Inv, TypeOK, Config, APConfig
<1>4. AgeLimit' = AgeLimit
  BY <1>1 DEF AgeLimit
<1>5. TypeOK'
  BY <1>1, <1>2, <1>3, <1>4 DEF Inv, TypeOK
<1>6. QED
  BY <1>1, <1>2, <1>5 DEF Inv, TrialUnderWay, OnlyProven, CurrentIsSaved,
     LibraryOK

\* A change of state that leaves the configurations and the library alone.
LEMMA StateChangeInv ==
  ASSUME Inv, NEW s \in States, SetState(s),
         UNCHANGED <<conf, ap, store, env, early, rebootIn, wiped>>,
         act = "new" => s \in {"Disconnect", "Connect"},
         s # "Connect" \/ lib.phase = "idle", s # "Disconnecting"
  PROVE  Inv'
<1>1. state' = s /\ age' \in 0 .. AgeLimit'
  BY SetStateAge DEF SetState, Inv
<1>2. TypeOK'
  BY <1>1 DEF Inv, TypeOK, conf, ap, store, env
<1>3. QED
  BY <1>1, <1>2 DEF Inv, TrialUnderWay, OnlyProven, CurrentIsSaved, LibraryOK,
     conf, ap, store, env

LEMMA ProcessInv ==
  ASSUME Inv, NEW ok \in BOOLEAN, Process(ok)
  PROVE  Inv'
<1>1. CASE ProcessIdle(ok)
  <2>1. act = "cur"
    BY <1>1 DEF ProcessIdle, Inv, TrialUnderWay, TypeOK
  <2>2. CASE IpAcquired
    BY <1>1, <2>1, <2>2, StateChangeInv DEF ProcessIdle, dev, States
  <2>3. CASE ~IpAcquired
    BY <1>1, <2>3, CheckAPEnabledInv DEF ProcessIdle
  <2>4. QED
    BY <2>2, <2>3
<1>2. CASE ProcessDisconnect
  <2>1. state' = "Disconnecting" /\ age' \in 0 .. AgeLimit'
    BY <1>2, SetStateAge DEF ProcessDisconnect, SetState, Inv, States
  <2>2. /\ UNCHANGED <<conf, ap, store, dev, event, proven>>
        /\ lib' = [lib EXCEPT !.phase = "idle"]
    BY <1>2 DEF ProcessDisconnect
  <2>3. lib' \in [net : Stations, phase : Phases] /\ lib'.phase = "idle"
    BY <2>2 DEF Inv, TypeOK, Phases
  <2>4. TypeOK'
    BY <2>1, <2>2, <2>3 DEF Inv, TypeOK, conf, ap, store, dev, States
  <2>5. QED
    BY <2>1, <2>2, <2>3, <2>4 DEF Inv, TrialUnderWay, OnlyProven,
       CurrentIsSaved, LibraryOK, conf, ap, store, dev
<1>3. CASE ProcessDisconnecting
  BY <1>3, StateChangeInv
     DEF ProcessDisconnecting, dev, States, Inv, LibraryOK
<1>4. CASE ProcessConnect
  <2>1. Active \in Config /\ Active.sta \in Stations
    BY DEF Active, Inv, TypeOK, Config
  <2>2. UNCHANGED <<ap, store, dev, proven>>
    BY <1>4 DEF ProcessConnect
  <2>3. CASE Active.sta # Off
    <3>1. /\ lib' = [net |-> Active.sta, phase |-> "trying"] /\ event' = TRUE
          /\ state' = "Connecting" /\ age' \in 0 .. AgeLimit'
          /\ UNCHANGED conf
      BY <1>4, <2>3, SetStateAge
         DEF ProcessConnect, SetState, Inv, States
    <3>2. TypeOK'
      BY <2>1, <2>2, <3>1
         DEF Inv, TypeOK, ap, store, dev, conf, Phases, States
    <3>3. QED
      BY <2>1, <2>2, <3>1, <3>2 DEF Inv, TrialUnderWay, OnlyProven,
         CurrentIsSaved, LibraryOK, Active, conf, ap, store, dev
  <2>4. CASE Active.sta = Off
    <3>1. /\ lib' = [net |-> Off, phase |-> "idle"] /\ event' = event
          /\ state' = "Idle" /\ age' \in 0 .. AgeLimit'
          /\ cur' = Active /\ act' = "cur" /\ new' = new
      BY <1>4, <2>4, SetStateAge
         DEF ProcessConnect, SetState, Inv, States
    <3>2. TypeOK'
      BY <2>1, <2>2, <2>4, <3>1
         DEF Inv, TypeOK, ap, store, dev, Phases, States
    <3>3. QED
      BY <2>2, <2>4, <3>1, <3>2 DEF Inv, TrialUnderWay, OnlyProven,
         CurrentIsSaved, LibraryOK, ap, store, dev
  <2>5. QED
    BY <2>3, <2>4
<1>5. CASE state = "Connecting" /\ ConnectionSucceeds
  <2>1. /\ state' = "Connected" /\ age' \in 0 .. AgeLimit'
        /\ UNCHANGED <<ap, env, dev>>
    BY <1>5, SetStateAge DEF ConnectionSucceeds, SetState, Inv, States
  <2>2. CASE act = "new"
    <3>1. /\ cur' = new /\ act' = "cur" /\ sys' = new /\ flash' = new
          /\ new' = new
      BY <1>5, <2>2 DEF ConnectionSucceeds, Accept, SaveConfig
    <3>2. new.sta \in proven \cup {Off}
      BY <1>5, <2>2 DEF ConnectionSucceeds, IpAcquired, Inv, LibraryOK,
         OnlyProven
    <3>3. TypeOK'
      BY <2>1, <3>1 DEF Inv, TypeOK, ap, env, dev, States
    <3>4. QED
      BY <2>1, <3>1, <3>2, <3>3 DEF Inv, TrialUnderWay, OnlyProven,
         CurrentIsSaved, LibraryOK, ap, env, dev
  <2>3. CASE act # "new"
    <3>1. UNCHANGED <<conf, store>>
      BY <1>5, <2>3 DEF ConnectionSucceeds, Accept
    <3>2. QED
      BY <1>5, <2>3, <3>1, StateChangeInv
         DEF ConnectionSucceeds, dev, States
  <2>4. QED
    BY <2>2, <2>3
<1>6. CASE state = "Connecting" /\ ConnectionFails
  <2>1. /\ state' = "Disconnect" /\ age' \in 0 .. AgeLimit'
        /\ UNCHANGED <<ap, store, env, dev, cur, new>> /\ act' = "cur"
    BY <1>6, SetStateAge
       DEF ConnectionFails, Revert, SetState, Inv, States
  <2>2. TypeOK'
    BY <2>1 DEF Inv, TypeOK, ap, store, env, dev, States
  <2>3. QED
    BY <2>1, <2>2 DEF Inv, TrialUnderWay, OnlyProven, CurrentIsSaved,
       LibraryOK, ap, store, env, dev
<1>7. CASE ProcessConnected(ok)
  <2>1. act = "cur"
    BY <1>7 DEF ProcessConnected, Inv, TrialUnderWay, TypeOK
  <2>2. CASE IpAcquired
    BY <1>7, <2>2, CheckAPEnabledInv DEF ProcessConnected
  <2>3. CASE ~IpAcquired
    BY <1>7, <2>1, <2>3, StateChangeInv DEF ProcessConnected, dev, States
  <2>4. QED
    BY <2>2, <2>3
<1>8. QED
  BY <1>1, <1>2, <1>3, <1>4, <1>5, <1>6, <1>7 DEF Process, ProcessConnecting

-----------------------------------------------------------------------------
(***************************************************************************)
(* And the events, the library and time.                                   *)
(***************************************************************************)
LEMMA DeliverEventInv ==
  ASSUME Inv, DeliverEvent
  PROVE  Inv'
<1>1. /\ event' = FALSE /\ UNCHANGED <<conf, ap, store, dev, lib, proven>>
      /\ \/ UNCHANGED <<state, age>>
         \/ state # "Disconnect" /\ SetState("Connecting")
  BY DEF DeliverEvent, WifiEvent
<1>2. CASE UNCHANGED <<state, age>>
  <2>1. AgeLimit' = AgeLimit
    BY <1>2 DEF AgeLimit
  <2>2. TypeOK'
    BY <1>1, <1>2, <2>1 DEF Inv, TypeOK, conf, ap, store, dev
  <2>3. QED
    BY <1>1, <1>2, <2>2 DEF Inv, TrialUnderWay, OnlyProven, CurrentIsSaved,
       LibraryOK, conf, ap, store, dev
<1>3. CASE state # "Disconnect" /\ SetState("Connecting")
  <2>1. state' = "Connecting" /\ age' \in 0 .. AgeLimit'
    BY <1>3, SetStateAge DEF SetState, Inv, States
  <2>2. TypeOK'
    BY <1>1, <2>1 DEF Inv, TypeOK, conf, ap, store, dev, States
  <2>3. act = "new" => \/ state = "Connecting"
                       \/ state \in {"Disconnecting", "Connect"}
    BY <1>3 DEF Inv, TrialUnderWay
  <2>4. QED
    BY <1>1, <2>1, <2>2, <2>3 DEF Inv, TrialUnderWay, OnlyProven,
       CurrentIsSaved, LibraryOK, conf, ap, store, dev
<1>4. QED
  BY <1>1, <1>2, <1>3

LEMMA LibraryInv ==
  ASSUME Inv, LinkUp \/ LinkDown \/ LinkRetry
  PROVE  Inv'
<1>1. /\ UNCHANGED <<state, age, conf, ap, store, dev>>
      /\ lib' \in [net : Stations, phase : Phases] /\ event' \in BOOLEAN
      /\ lib.phase # "idle" /\ lib'.net = lib.net
      /\ proven \subseteq proven' /\ proven' \subseteq Stations
      /\ lib'.phase = "up" => lib.net \in proven'
  BY DEF LinkUp, LinkDown, LinkRetry, Inv, TypeOK, Phases, LibraryOK
<1>2. AgeLimit' = AgeLimit
  BY <1>1 DEF AgeLimit
<1>3. TypeOK'
  BY <1>1, <1>2 DEF Inv, TypeOK, conf, ap, store, dev
<1>4. QED
  BY <1>1, <1>3 DEF Inv, TrialUnderWay, OnlyProven, CurrentIsSaved, LibraryOK,
     conf, ap, store, dev

LEMMA SecondInv ==
  ASSUME Inv, Second
  PROVE  Inv'
<1>1. AgeLimit \in Nat /\ AgeLimit' = AgeLimit
  BY DEF Second, AgeLimit
<1>2. /\ UNCHANGED <<state, conf, ap, store, env, early, wiped>>
      /\ age' \in 0 .. AgeLimit /\ rebootIn' \in NoReboot .. ResetDelay
  BY <1>1 DEF Second, Inv, TypeOK, NoReboot, ResetDelay
<1>3. TypeOK'
  BY <1>1, <1>2 DEF Inv, TypeOK, conf, ap, store, env
<1>4. QED
  BY <1>2, <1>3 DEF Inv, TrialUnderWay, OnlyProven, CurrentIsSaved, LibraryOK,
     conf, ap, store, env

\* What changes neither the state nor the configurations nor the library.
LEMMA BackgroundInv ==
  ASSUME Inv, \/ Uptime10 \/ ReportClientRequest \/ APClientGone \/ OtherSave
              \/ UNCHANGED vars
  PROVE  Inv'
<1>1. /\ UNCHANGED <<state, age, conf, apChanged, apRunning, sys, env>>
      /\ flash' \in {flash, sys} /\ apClient' \in BOOLEAN
      /\ early' \in BOOLEAN /\ UNCHANGED <<rebootIn, wiped>>
  BY DEF Uptime10, ReportClientRequest, APClientGone, OtherSave, vars, ap,
     store, dev, Inv, TypeOK
<1>2. AgeLimit' = AgeLimit
  BY <1>1 DEF AgeLimit
<1>3. TypeOK'
  BY <1>1, <1>2 DEF Inv, TypeOK, conf, env
<1>4. QED
  BY <1>1, <1>3 DEF Inv, TrialUnderWay, OnlyProven, CurrentIsSaved, LibraryOK,
     conf, env

LEMMA NextInv == Inv /\ [Next]_vars => Inv'
<1> SUFFICES ASSUME Inv, [Next]_vars PROVE Inv'
  OBVIOUS
<1>1. CASE User
  BY <1>1, SetConfigInv, ResetDeviceInv, BootInv DEF User, PowerLoss
<1>2. CASE Network
  BY <1>2, LibraryInv, BackgroundInv DEF Network
<1>3. CASE Settling
  BY <1>3, ProcessInv, DeliverEventInv, LibraryInv, SecondInv, BootInv,
     BackgroundInv DEF Settling, Restart
<1>4. CASE UNCHANGED vars
  BY <1>4, BackgroundInv
<1>5. QED
  BY <1>1, <1>2, <1>3, <1>4 DEF Next

-----------------------------------------------------------------------------
(***************************************************************************)
(* The refinement: every step is one of the trial, or none.                *)
(***************************************************************************)
\* The trial as ConfigTrial sees it.
Pending == IF act = "new" THEN new.sta ELSE "none"

LEMMA TrialStutters ==
  ASSUME cur'.sta = cur.sta, flash'.sta = flash.sta, Pending' = Pending,
         proven' = proven
  PROVE  UNCHANGED Trial!vars
BY DEF Trial!vars, Pending

LEMMA SetConfigTrial ==
  ASSUME Inv, NEW c \in Configs, SetConfig(c)
  PROVE  [Trial!Next]_Trial!vars
<1>1. c.sta \in Stations /\ cur'.sta = cur.sta
  BY DEF SetConfig, Inv, TypeOK, Config
<1>2. flash' = flash /\ proven' = proven
  BY DEF SetConfig, env
<1>3. CASE act' = "new" /\ new' = c
  BY <1>1, <1>2, <1>3 DEF Trial!Next, Trial!Propose
<1>4. CASE ~(act' = "new" /\ new' = c)
  <2>1. Pending' = Pending
    BY <1>4 DEF SetConfig, Pending
  <2>2. QED
    BY <1>1, <1>2, <2>1, TrialStutters
<1>5. QED
  BY <1>3, <1>4

LEMMA ResetDeviceTrial ==
  ASSUME Inv, ResetDevice
  PROVE  [Trial!Next]_Trial!vars
<1>1. cur'.sta = Off
  BY DEF ResetDevice, ResetConfig, Inv, TypeOK, Config
<1>2. flash' = cur' /\ UNCHANGED <<act, new, proven>>
  BY DEF ResetDevice, ResetConfig, SaveConfig, env
<1>3. QED
  BY <1>1, <1>2 DEF Trial!Next, Trial!Reset

LEMMA BootTrial ==
  ASSUME Boot(flash), UNCHANGED proven
  PROVE  [Trial!Next]_Trial!vars
BY DEF Boot, Trial!Next, Trial!Crash

LEMMA CheckAPEnabledTrial ==
  ASSUME NEW ok \in BOOLEAN, CheckAPEnabled(ok)
  PROVE  [Trial!Next]_Trial!vars
<1>1. UNCHANGED <<act, cur, new, proven>> /\ flash' \in {flash, cur}
  BY DEF CheckAPEnabled, conf, env, store, SaveConfig
<1>2. QED
  BY <1>1 DEF Trial!Next, Trial!Save, Trial!vars

LEMMA ProcessTrial ==
  ASSUME Inv, NEW ok \in BOOLEAN, Process(ok)
  PROVE  [Trial!Next]_Trial!vars
<1>1. CASE \/ CheckAPEnabled(ok)
           \/ UNCHANGED <<conf, store, proven>>
  BY <1>1, CheckAPEnabledTrial, TrialStutters DEF conf, store, Pending
<1>2. CASE /\ state = "Connect" /\ act = "new" /\ new.sta = Off
           /\ cur' = new /\ act' = "cur" /\ UNCHANGED <<store, proven>>
  BY <1>2 DEF Trial!Next, Trial!Commit, store
<1>3. CASE /\ state = "Connecting" /\ ConnectionSucceeds /\ act = "new"
  <2>1. /\ cur' = new /\ act' = "cur" /\ flash' = new /\ proven' = proven
    BY <1>3 DEF ConnectionSucceeds, Accept, SaveConfig, env
  <2>2. new.sta \in proven \cup {Off}
    BY <1>3 DEF ConnectionSucceeds, IpAcquired, Inv, LibraryOK, OnlyProven
  <2>3. QED
    BY <1>3, <2>1, <2>2 DEF Trial!Next, Trial!Commit
<1>4. CASE act' = "cur" /\ UNCHANGED <<cur, store, proven>>
  BY <1>4 DEF Trial!Next, Trial!Abandon, store
<1>5. \/ CheckAPEnabled(ok) \/ UNCHANGED <<conf, store, proven>>
      \/ /\ state = "Connect" /\ act = "new" /\ new.sta = Off
         /\ cur' = new /\ act' = "cur" /\ UNCHANGED <<store, proven>>
      \/ state = "Connecting" /\ ConnectionSucceeds /\ act = "new"
      \/ act' = "cur" /\ UNCHANGED <<cur, store, proven>>
  <2>1. ProcessIdle(ok) \/ ProcessConnected(ok)
          => CheckAPEnabled(ok) \/ UNCHANGED <<conf, store, proven>>
    BY DEF ProcessIdle, ProcessConnected, env
  <2>2. ProcessDisconnect \/ ProcessDisconnecting
          => UNCHANGED <<conf, store, proven>>
    BY DEF ProcessDisconnect, ProcessDisconnecting, env
  <2>3. ProcessConnect =>
          \/ UNCHANGED <<conf, store, proven>>
          \/ act' = "cur" /\ cur' = Active /\ Active.sta = Off
             /\ UNCHANGED <<store, proven>> /\ state = "Connect"
    BY DEF ProcessConnect
  <2>4. ProcessConnecting =>
          \/ state = "Connecting" /\ ConnectionSucceeds /\ act = "new"
          \/ UNCHANGED <<conf, store, proven>>
          \/ act' = "cur" /\ UNCHANGED <<cur, store, proven>>
    BY DEF ProcessConnecting, ConnectionSucceeds, ConnectionFails, Accept,
       Revert, env
  <2>5. QED
    BY <2>1, <2>2, <2>3, <2>4 DEF Process, Active
<1>6. QED
  BY <1>1, <1>2, <1>3, <1>4, <1>5

LEMMA EnvironmentTrial ==
  ASSUME Inv, \/ DeliverEvent \/ LinkUp \/ LinkDown \/ LinkRetry \/ Second
              \/ Uptime10 \/ ReportClientRequest \/ APClientGone \/ OtherSave
              \/ UNCHANGED vars
  PROVE  [Trial!Next]_Trial!vars
<1>1. UNCHANGED conf /\ flash'.sta = flash.sta
  BY DEF DeliverEvent, LinkUp, LinkDown, LinkRetry, Second, Uptime10,
     ReportClientRequest, APClientGone, OtherSave, vars, store, Inv
<1>2. \/ proven' = proven
      \/ \E n \in Stations : proven' = proven \cup {n}
  BY DEF DeliverEvent, LinkUp, LinkDown, LinkRetry, Second, Uptime10,
     ReportClientRequest, APClientGone, OtherSave, vars, env, Inv, TypeOK
<1>3. CASE proven' = proven
  BY <1>1, <1>3, TrialStutters DEF conf, Pending
<1>4. CASE \E n \in Stations : proven' = proven \cup {n}
  BY <1>1, <1>4 DEF conf, Trial!Next, Trial!Accepted
<1>5. QED
  BY <1>2, <1>3, <1>4

LEMMA NextTrial == Inv /\ [Next]_vars => [Trial!Next]_Trial!vars
<1> SUFFICES ASSUME Inv, [Next]_vars PROVE [Trial!Next]_Trial!vars
  OBVIOUS
<1>1. CASE User
  BY <1>1, SetConfigTrial, ResetDeviceTrial, BootTrial DEF User, PowerLoss
<1>2. CASE Network
  BY <1>2, EnvironmentTrial DEF Network
<1>3. CASE Settling
  BY <1>3, ProcessTrial, EnvironmentTrial, BootTrial DEF Settling, Restart
<1>4. CASE UNCHANGED vars
  BY <1>4, EnvironmentTrial
<1>5. QED
  BY <1>1, <1>2, <1>3, <1>4 DEF Next

LEMMA InitTrial == Init => Trial!Init
BY OffIsStation DEF Init, Trial!Init, Config

-----------------------------------------------------------------------------
(***************************************************************************)
(* What follows for every behaviour of the manager.                        *)
(***************************************************************************)
\* Inv is an invariant of the manager and the library it drives.
THEOREM Invariant == Spec => []Inv
<1>1. QED
  BY InitInv, NextInv, PTL DEF Spec

\* The variables keep their types, and no state is older than its timeout.
THEOREM TypeCorrect == Spec => []TypeOK
<1>1. Inv => TypeOK
  BY DEF Inv
<1>2. QED
  BY <1>1, Invariant, PTL

\* act_ points to new_ only in the states that end the trial.
THEOREM NoTrialLeftHanging == Spec => []TrialUnderWay
<1>1. Inv => TrialUnderWay
  BY DEF Inv
<1>2. QED
  BY <1>1, Invariant, PTL

\* A network that never accepted the device is neither current nor saved.
THEOREM NeverLockedOut == Spec => []OnlyProven
<1>1. Inv => OnlyProven
  BY DEF Inv
<1>2. QED
  BY <1>1, Invariant, PTL

\* The network in use is the one in flash.
THEOREM CurrentAlwaysSaved == Spec => []CurrentIsSaved
<1>1. Inv => CurrentIsSaved
  BY DEF Inv
<1>2. QED
  BY <1>1, Invariant, PTL

\* The manager implements the trial of configurations.
THEOREM Refinement == Spec => ImplementsTrial
<1>1. Spec => []Inv
  BY Invariant
<1>2. QED
  BY <1>1, InitTrial, NextTrial, PTL DEF Spec, ImplementsTrial, Trial!Spec
=============================================================================
