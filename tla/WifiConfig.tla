----------------------------- MODULE WifiConfig -----------------------------
(***************************************************************************)
(* The WiFi configuration manager (WifiConfigManager): a new station       *)
(* configuration is tried before it is made current and saved, and a       *)
(* failed trial reverts to the previous one; the access point (AP) of the  *)
(* device itself serves whoever has to set it up.                          *)
(*                                                                         *)
(* Process runs every second from process_timer_ and after every change of *)
(* state, by a callback of the main loop; as it may always run, the        *)
(* callback needs no queue of its own.  Handlers run to completion.        *)
(*                                                                         *)
(* Data.  A station configuration (sta and sta1 together) is the network   *)
(* it leads to, Off when neither is enabled; the AP is its name and        *)
(* whether it is to stay enabled; validation is left to the caller.  The   *)
(* configuration written by SaveConfig always differs from the defaults:   *)
(* the AP name there still holds its placeholders.                         *)
(***************************************************************************)
EXTENDS Integers

CONSTANTS
  Networks,       \* networks that a station configuration may name
  Off,            \* no station configured
  APNames,        \* names (and passwords) of the AP
  DefaultAP,      \* the name it has by default
  PsModes,        \* values of sta_ps_mode
  Configs,        \* configurations that the users ask for
  Reachable,      \* networks that can accept the device
  Timeout         \* twice sta_connect_timeout, in seconds

Stations == Networks \cup {Off}
APConfig == [enable : BOOLEAN, name : APNames]
Config == [ap : APConfig, sta : Stations, ps : PsModes]

ASSUME NetworkAssumption == Off \notin Networks /\ Reachable \subseteq Networks
ASSUME APAssumption == DefaultAP \in APNames
ASSUME ConfigAssumption == Configs \subseteq Config
ASSUME TimeoutAssumption == Timeout \in Nat \ {0}

VARIABLES
  state,          \* state_
  age,            \* seconds since last_change_, while a state waits for them
  act,            \* what act_ points to: "cur" or "new"
  cur, new,       \* cur_, new_
  apChanged,      \* ap_config_changed_
  apRunning,      \* ap_running_
  apClient,       \* the AP had a client within the last minute
  early,          \* mgos_uptime() < 10
  rebootIn,       \* seconds until mgos_system_restart_after, NoReboot if none
  sys,            \* the wifi section of mgos_sys_config, in memory
  flash,          \* and what is saved of it
  lib,            \* the WiFi library's station: its network and its phase
  event,          \* a STA_CONNECTING event is on its way to WifiEvent
  proven,         \* history: networks that have accepted this device
  wiped           \* history: reset, and not configured since

conf == <<act, cur, new>>
ap == <<apChanged, apRunning, apClient>>
store == <<sys, flash>>
env == <<lib, event, proven>>
dev == <<early, rebootIn, wiped>>
vars == <<state, age, conf, ap, store, env, dev>>

NoReboot == -1
ResetDelay == 2

States == {"Idle", "Disconnect", "Disconnecting", "Connect", "Connecting",
           "Connected"}
Phases == {"idle", "trying", "up"}

Active == IF act = "new" THEN new ELSE cur

IpAcquired == lib.phase = "up"

\* Mutant: a change to the same state starts its time again.
MutSetState(s) == state' = s /\ age' = 0

SetState(s) == state' = s /\ age' = IF s = state THEN age ELSE 0

SaveConfig(c) == sys' = c /\ flash' = c

-----------------------------------------------------------------------------
(***************************************************************************)
(* Requests.                                                               *)
(***************************************************************************)
SetConfig(c) ==
  LET staChanged == c.sta # cur.sta \/ c.ps # sys.ps
  IN  /\ apChanged' = (c.ap # cur.ap)
      /\ cur' = [cur EXCEPT !.ap = c.ap]
      /\ new' = IF staChanged \/ c.ap # cur.ap THEN c ELSE new
      /\ IF staChanged
         THEN /\ sys' = [sys EXCEPT !.ps = c.ps]
              /\ act' = "new"
              /\ SetState("Disconnect")
         ELSE UNCHANGED <<sys, act, state, age>>
      /\ wiped' = FALSE
      /\ UNCHANGED <<apRunning, apClient, flash, env, early, rebootIn>>

\* Mutant: the reset is not saved.
MutResetConfig ==
  /\ cur' = [cur EXCEPT !.sta = Off,
                        !.ap = IF cur.sta = Off
                               THEN [@ EXCEPT !.name = DefaultAP] ELSE @]
  /\ apChanged' = (apChanged \/ cur.sta = Off)
  /\ SetState("Disconnect")
  /\ UNCHANGED <<act, new, apRunning, apClient, store, env>>

\* The first reset disables the stations, one without stations the AP too.
ResetConfig ==
  /\ cur' = [cur EXCEPT !.sta = Off,
                        !.ap = IF cur.sta = Off
                               THEN [@ EXCEPT !.name = DefaultAP] ELSE @]
  /\ apChanged' = (apChanged \/ cur.sta = Off)
  /\ SaveConfig(cur')
  /\ SetState("Disconnect")
  /\ UNCHANGED <<act, new, apRunning, apClient, env>>

\* A button, the input's reset sequence or the reboot counter resets the
\* device: it restarts two seconds later.
ResetDevice ==
  /\ ResetConfig
  /\ wiped' = TRUE
  /\ rebootIn' = IF rebootIn = NoReboot THEN ResetDelay ELSE rebootIn
  /\ UNCHANGED early

\* A client of the AP makes a request, or made none for a minute.
ReportClientRequest ==
  /\ apRunning /\ apClient' = TRUE
  /\ UNCHANGED <<state, age, conf, apChanged, apRunning, store, env, dev>>

APClientGone ==
  /\ apClient /\ apClient' = FALSE
  /\ UNCHANGED <<state, age, conf, apChanged, apRunning, store, env, dev>>

-----------------------------------------------------------------------------
(***************************************************************************)
(* Process, one action for each value of state_.                           *)
(***************************************************************************)
\* Mutant: the AP is wanted only when it is enabled.
MutWantAP == cur.ap.enable

\* "We want AP enabled if there is no STA config."
WantAP == cur.ap.enable \/ cur.sta = Off

\* ok: the library sets the AP up.
CheckAPEnabled(ok) ==
  LET delayed == \/ WantAP = apRunning /\ ~apChanged
                 \/ cur.sta # Off /\ early
                 \/ ~WantAP /\ apClient
  IN  /\ IF delayed \/ ~ok
         THEN UNCHANGED <<apChanged, apRunning, store>>
         ELSE apChanged' = FALSE /\ apRunning' = WantAP /\ SaveConfig(cur)
      /\ UNCHANGED <<state, age, conf, apClient, env, dev>>

ProcessIdle(ok) ==
  /\ state = "Idle"
  /\ IF IpAcquired
     THEN SetState("Connected") /\ UNCHANGED <<conf, ap, store, env, dev>>
     ELSE CheckAPEnabled(ok)

\* mgos_wifi_disconnect: the library leaves the network and stops trying.
ProcessDisconnect ==
  /\ state = "Disconnect" /\ age >= 1
  /\ lib' = [lib EXCEPT !.phase = "idle"]
  /\ SetState("Disconnecting")
  /\ UNCHANGED <<conf, ap, store, dev, event, proven>>

ProcessDisconnecting ==
  /\ state = "Disconnecting" /\ age >= 1
  /\ SetState("Connect")
  /\ UNCHANGED <<conf, ap, store, env, dev>>

\* Without stations there is nothing to try: the configuration is current.
ProcessConnect ==
  /\ state = "Connect"
  /\ IF Active.sta # Off
     THEN /\ lib' = [net |-> Active.sta, phase |-> "trying"]
          /\ event' = TRUE
          /\ SetState("Connecting") /\ UNCHANGED conf
     ELSE /\ lib' = [net |-> Off, phase |-> "idle"]
          /\ cur' = Active /\ act' = "cur" /\ UNCHANGED new
          /\ SetState("Idle") /\ UNCHANGED event
  /\ UNCHANGED <<ap, store, dev, proven>>

\* "Ok, this config worked, make current and save."
Accept ==
  IF act = "new"
  THEN cur' = new /\ act' = "cur" /\ SaveConfig(new) /\ UNCHANGED new
  ELSE UNCHANGED <<conf, store>>

ConnectionSucceeds ==
  /\ IpAcquired
  /\ Accept
  /\ SetState("Connected")
  /\ UNCHANGED <<ap, env, dev>>

\* Mutant: the configuration that did not work is made current.
MutRevert == act' = "cur" /\ cur' = Active /\ UNCHANGED new

Revert == act' = "cur" /\ UNCHANGED <<cur, new>>

\* Mutant: the manager does not go back to the previous network.
MutConnectionFails ==
  /\ ~IpAcquired /\ age > Timeout
  /\ Revert
  /\ SetState("Idle")
  /\ UNCHANGED <<ap, store, env, dev>>

ConnectionFails ==
  /\ ~IpAcquired /\ age > Timeout
  /\ Revert
  /\ SetState("Disconnect")
  /\ UNCHANGED <<ap, store, env, dev>>

ProcessConnecting ==
  state = "Connecting" /\ (ConnectionSucceeds \/ ConnectionFails)

ProcessConnected(ok) ==
  /\ state = "Connected"
  /\ IF IpAcquired
     THEN CheckAPEnabled(ok)
     ELSE SetState("Idle") /\ UNCHANGED <<conf, ap, store, env, dev>>

Process(ok) ==
  \/ ProcessIdle(ok) \/ ProcessDisconnect \/ ProcessDisconnecting
  \/ ProcessConnect \/ ProcessConnecting \/ ProcessConnected(ok)

\* The library began to connect; the manager about to disconnect ignores it.
WifiEvent == IF state # "Disconnect" THEN SetState("Connecting")
             ELSE UNCHANGED <<state, age>>

DeliverEvent ==
  /\ event /\ event' = FALSE
  /\ WifiEvent
  /\ UNCHANGED <<conf, ap, store, dev, lib, proven>>

-----------------------------------------------------------------------------
(***************************************************************************)
(* The library: it keeps trying the network it was given until it is told  *)
(* to disconnect, and announces every attempt.  Events reach the manager   *)
(* in order: the address is not acquired before the attempt was announced. *)
(***************************************************************************)
LinkUp ==
  /\ lib.phase = "trying" /\ lib.net \in Reachable /\ ~event
  /\ lib' = [lib EXCEPT !.phase = "up"]
  /\ proven' = proven \cup {lib.net}
  /\ UNCHANGED <<state, age, conf, ap, store, dev, event>>

LinkDown ==
  /\ lib.phase = "up"
  /\ lib' = [lib EXCEPT !.phase = "trying"]
  /\ event' = TRUE
  /\ UNCHANGED <<state, age, conf, ap, store, dev, proven>>

LinkRetry ==
  /\ lib.phase = "trying" /\ ~event /\ event' = TRUE
  /\ UNCHANGED <<state, age, conf, ap, store, dev, lib, proven>>

\* A second passes, for the states that look at last_change_ and for the
\* pending restart; none does while an event waits or once a restart is due.
AgeLimit == CASE state = "Connecting" -> Timeout + 1
              [] state \in {"Disconnect", "Disconnecting"} -> 1
              [] OTHER -> 0

Second ==
  /\ age < AgeLimit \/ rebootIn > 0
  /\ rebootIn # 0 /\ ~event
  /\ age' = IF age < AgeLimit THEN age + 1 ELSE age
  /\ rebootIn' = IF rebootIn > 0 THEN rebootIn - 1 ELSE rebootIn
  /\ UNCHANGED <<state, conf, ap, store, env, early, wiped>>

Uptime10 ==
  /\ early /\ early' = FALSE
  /\ UNCHANGED <<state, age, conf, ap, store, env, rebootIn, wiped>>

\* Another component saves the configuration.
OtherSave ==
  /\ flash' = sys
  /\ UNCHANGED <<state, age, conf, ap, sys, env, dev>>

\* The device boots with what was saved: the library connects by itself and
\* the constructor of the manager copies the configuration.
Boot(saved) ==
  /\ state' = "Idle" /\ age' = 0 /\ act' = "cur"
  /\ cur' = saved /\ new' = saved
  /\ apChanged' = FALSE /\ apRunning' = saved.ap.enable /\ apClient' = FALSE
  /\ early' = TRUE /\ rebootIn' = NoReboot
  /\ sys' = saved /\ flash' = saved
  /\ lib' = [net |-> saved.sta,
             phase |-> IF saved.sta = Off THEN "idle" ELSE "trying"]
  /\ event' = (saved.sta # Off)

Restart == rebootIn = 0 /\ Boot(flash) /\ UNCHANGED <<proven, wiped>>

PowerLoss == Boot(flash) /\ UNCHANGED <<proven, wiped>>

\* A new device, whose AP is on, or one that was set up before.
Init ==
  \E saved \in Configs :
    /\ state = "Idle" /\ age = 0 /\ act = "cur"
    /\ cur = saved /\ new = saved
    /\ apChanged = FALSE /\ apRunning \in BOOLEAN /\ apClient = FALSE
    /\ early = TRUE /\ rebootIn = NoReboot /\ wiped = FALSE
    /\ sys = saved /\ flash = saved
    /\ lib = [net |-> saved.sta,
              phase |-> IF saved.sta = Off THEN "idle" ELSE "trying"]
    /\ event = (saved.sta # Off)
    /\ proven = {saved.sta}

User == (\E c \in Configs : SetConfig(c)) \/ ResetDevice \/ PowerLoss

Network == LinkDown \/ ReportClientRequest \/ OtherSave

Settling ==
  \/ \E ok \in BOOLEAN : Process(ok)
  \/ DeliverEvent \/ LinkUp \/ LinkRetry \/ APClientGone \/ Second \/ Uptime10
  \/ Restart

Next == User \/ Network \/ Settling

Spec == Init /\ [][Next]_vars

(***************************************************************************)
(* Fairness.  process_timer_ is a repeating timer of a main loop that      *)
(* never starves (and setting up the AP does not fail for ever), time      *)
(* passes and posted events are delivered; a network in reach accepts the  *)
(* device, while the manager waits for it, in one of ever so many attempts.*)
(***************************************************************************)
FairSpec ==
  /\ Spec
  /\ WF_vars(Process(TRUE)) /\ SF_vars(Second) /\ WF_vars(Uptime10)
  /\ WF_vars(DeliverEvent) /\ WF_vars(APClientGone) /\ WF_vars(Restart)
  /\ SF_vars(state = "Connecting" /\ LinkUp)

-----------------------------------------------------------------------------
\* Type invariant; no state is older than the time it waits for.
TypeOK ==
  /\ state \in States /\ age \in 0 .. AgeLimit /\ act \in {"cur", "new"}
  /\ cur \in Config /\ new \in Config /\ sys \in Config /\ flash \in Config
  /\ apChanged \in BOOLEAN /\ apRunning \in BOOLEAN /\ apClient \in BOOLEAN
  /\ early \in BOOLEAN /\ rebootIn \in NoReboot .. ResetDelay
  /\ wiped \in BOOLEAN /\ event \in BOOLEAN
  /\ lib \in [net : Stations, phase : Phases]
  /\ proven \subseteq Stations

\* A configuration on trial is being worked on: no path of events, requests
\* and time leaves act_ on new_ in a state that would not end the trial.
TrialUnderWay ==
  act = "new" => state \in {"Disconnect", "Disconnecting", "Connect",
                            "Connecting"}

\* The device cannot be locked out by a wrong password: a network becomes
\* current, and is saved, only once it has accepted the device.
OnlyProven == {cur.sta, flash.sta} \subseteq proven \cup {Off}

\* The network the device relies on survives a power failure.
CurrentIsSaved == cur.sta # Off => flash.sta = cur.sta

\* The manager implements the trial of station configurations.
Trial == INSTANCE ConfigTrial WITH
  current <- cur.sta, saved <- flash.sta, NoTrial <- "none",
  trial <- IF act = "new" THEN new.sta ELSE "none"

ImplementsTrial == Trial!Spec

\* Every trial ends, whatever the networks do, once the users leave it alone.
TrialEnds == <>[][~User]_vars => <>[](act = "cur")

\* The users leave the device alone, and no connection is lost any more.
Calm == <>[][~User /\ ~LinkDown]_vars

\* "We want AP enabled if there is no STA config": the device that no network
\* is configured for can always be reached over its own AP.
SetupAPComesUp == Calm => <>[](cur.sta = Off => apRunning)

\* A device whose network is in reach ends up connected to a network.
Reconnects == Calm => <>[](cur.sta \in Reachable => state = "Connected")

\* Process has nothing left to do.
Settled == /\ state \in {"Idle", "Connected"} /\ act = "cur"
           /\ apRunning = WantAP /\ ~apChanged

\* The button says "Save": what was set is saved once all is done.
SettledIsSaved == Settled => flash.sta = cur.sta

\* "AP will be enabled automatically since no STA is configured": after a
\* reset no network is current until one is asked for.
ResetStays == wiped => cur.sta = Off
=============================================================================
