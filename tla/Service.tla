------------------------------ MODULE Service -------------------------------
(***************************************************************************)
(* The life of the firmware (shelly_main): components are created and the  *)
(* HAP server is started by StartService, from the boot and from a timer   *)
(* that runs every second; a restart, overheating, a firmware update and a *)
(* reboot stop the server, and the components are destroyed when it has    *)
(* stopped.  Flags of s_service_flags keep it from being started again.    *)
(*                                                                         *)
(* The timer calls several of these functions one after the other, so the  *)
(* state they share is one record, sv, and each function is an operator    *)
(* from record to record.                                                  *)
(*                                                                         *)
(* Components are abstracted to one that has an output and may be busy     *)
(* (not IsIdle); its input and timers drive it whenever it exists.  What   *)
(* Home sees of the accessories, their structure, depends on a setting and *)
(* on legacy_hap_layout.  The HAP server, the OTA library and the reboot   *)
(* of the system are modelled from how this code uses them.                *)
(***************************************************************************)
EXTENDS Integers

CONSTANTS
  Settings,      \* configurations that differ in the accessories they give
  MaxWait,       \* seconds an update waits for the HAP server
  Timeout        \* wifi_connect_reboot_timeout, 0: none

ASSUME SettingsAssumption == Settings # {}
ASSUME WaitAssumption == MaxWait \in Nat
ASSUME TimeoutAssumption == Timeout \in Nat

VARIABLES
  sv,            \* state of the service
  ota,           \* progress of the OTA library
  waited,        \* seconds since s_wait_start
  paired, valid, \* HAPAccessoryServerIsPaired, mgos_hap_config_valid
  online,        \* GetWifiInfo().sta_connected
  since          \* seconds since s_last_connected

vars == <<sv, ota, waited, paired, valid, online, since>>

Flags == {"update", "reboot", "overheat"}

Layout(s) == [setting |-> s.setting, legacy |-> s.legacy]
Layouts == [setting : Settings, legacy : BOOLEAN]

-----------------------------------------------------------------------------
\* Mutant: the accessories are the ones of the first start.
MutCreate(s, on) ==
  IF s.comps THEN s ELSE [s EXCEPT !.comps = TRUE, !.out = on]

\* New components; the initial state of an output depends on its settings.
Create(s, on) ==
  IF s.comps THEN s
  ELSE [s EXCEPT !.comps = TRUE, !.layout = Layout(s), !.out = on]

Destroy(s) == [s EXCEPT !.comps = FALSE, !.busy = FALSE]

(***************************************************************************)
(* HAPAccessoryServerStart.  Home keeps what it knows of the accessories   *)
(* for as long as the configuration number stays the same: known is the    *)
(* layout of the last start, bumped that the number has changed since, and *)
(* unseen (history) that Home missed a change.                             *)
(***************************************************************************)
StartServer(s) ==
  [s EXCEPT !.server = "Running", !.known = s.layout, !.bumped = FALSE,
            !.unseen = @ \/ (s.layout # s.known /\ ~s.bumped)]

Ready == paired \/ valid

\* Mutant: the flags are not looked at.
MutStartService(s, on) ==
  IF s.server # "Idle" THEN s
  ELSE IF Ready THEN StartServer(Create(s, on)) ELSE Create(s, on)

StartService(s, on) ==
  IF s.flags # {} \/ s.server # "Idle" THEN s
  ELSE IF Ready THEN StartServer(Create(s, on)) ELSE Create(s, on)

\* HAPAccessoryServerStop: the server goes on until its sessions are closed.
StopServer(s) == [s EXCEPT !.server = "Stopping"]

StopService(s) == IF s.server = "Idle" THEN Destroy(s) ELSE StopServer(s)

IncrementCN(s) == [s EXCEPT !.bumped = TRUE]

\* Mutant: the configuration number is left alone.
MutRestartService(s) == [StopService(s) EXCEPT !.legacy = FALSE]

\* "Structural change, disable legacy mode if enabled."
RestartService(s) == [IncrementCN(StopService(s)) EXCEPT !.legacy = FALSE]

\* Mutant: the flag is kept until the next boot.
MutCool(s) == s

Cool(s) == [s EXCEPT !.flags = @ \ {"overheat"}]

\* All outputs are turned off, whoever owns them.
Overheat(s) ==
  [StopService([s EXCEPT !.flags = @ \cup {"overheat"}]) EXCEPT !.out = FALSE]

\* temp: the sensor reads at least overheat_on, at most overheat_off, between
\* the two, or nothing.
Temperatures == {"hot", "warm", "cool", "none"}

CheckOverheat(s, temp) ==
  IF "overheat" \notin s.flags /\ temp = "hot" THEN Overheat(s)
  ELSE IF "overheat" \in s.flags /\ temp = "cool" THEN Cool(s) ELSE s

\* Mutant: a server that runs is left running.
MutRebootAfter(s) == [s EXCEPT !.flags = @ \cup {"reboot"}]

\* RebootCB for MGOS_EVENT_REBOOT_AFTER.
RebootAfter(s) ==
  LET marked == [s EXCEPT !.flags = @ \cup {"reboot"}]
  IN  IF s.server = "Running" THEN StopServer(marked) ELSE marked

\* The reboot for want of a connection, if one is configured.
CheckConnection(s, elapsed) ==
  IF Timeout > 0 /\ online /\ ~s.busy /\ elapsed > Timeout
  THEN RebootAfter(s) ELSE s

-----------------------------------------------------------------------------
CountTo(n, limit) == IF n > limit THEN n ELSE n + 1

\* The house-keeping timer, every second: StatusTimerCB.
StatusTimer(temp, on) ==
  LET started == StartService(sv, on)
      checked == CheckOverheat(started, temp)
      elapsed == CountTo(since, Timeout)
  IN  /\ waited' = CountTo(waited, MaxWait)
      /\ IF sv.legacy /\ ~paired
         THEN sv' = RestartService(sv) /\ since' = elapsed
         ELSE /\ sv' = CheckConnection(checked, elapsed)
              /\ since' = IF online THEN elapsed ELSE 0
      /\ UNCHANGED <<ota, paired, valid, online>>

\* HAPServerStateUpdateCB: the server has stopped.
ServerStopped ==
  /\ sv.server = "Stopping"
  /\ sv' = Destroy([sv EXCEPT !.server = "Idle"])
  /\ UNCHANGED <<ota, waited, paired, valid, online, since>>

\* A setting that needs a restart is changed and saved over RPC.
SetConfig(setting) ==
  /\ setting # sv.setting
  /\ sv' = RestartService([sv EXCEPT !.setting = setting])
  /\ UNCHANGED <<ota, waited, paired, valid, online, since>>

\* The RPC service of the HAP library stops and starts the server.
RPCStop ==
  /\ sv.server = "Running" /\ sv' = StopServer(sv)
  /\ UNCHANGED <<ota, waited, paired, valid, online, since>>

RPCStart(on) ==
  /\ sv' = StartService(sv, on)
  /\ UNCHANGED <<ota, waited, paired, valid, online, since>>

\* Inputs, timers and users drive the component while it exists.
Drive ==
  /\ sv.comps
  /\ \E on, busy \in BOOLEAN : sv' = [sv EXCEPT !.out = on, !.busy = busy]
  /\ UNCHANGED <<ota, waited, paired, valid, online, since>>

-----------------------------------------------------------------------------
\* Mutant: the server is given no time to stop.
MutProceed(s, waitedFor) == TRUE

\* The server has stopped, or "failed to stop, proceeding with the update
\* anyway".
Proceed(s, waitedFor) == s.server = "Idle" \/ waitedFor > MaxWait

\* OTABeginCB, called again for as long as it answers MGOS_UPD_WAIT.
OTABegin ==
  LET asked == [sv EXCEPT !.flags = @ \cup {"update"}]
      since0 == IF "update" \in sv.flags THEN waited ELSE 0
  IN  /\ ota \in {"none", "waiting"}
      /\ IF sv.busy
         THEN ota' = "waiting" /\ UNCHANGED <<sv, waited>>
         ELSE /\ waited' = since0
              /\ IF Proceed(sv, since0)
                 THEN ota' = "writing" /\ sv' = asked
                 ELSE ota' = "waiting" /\ sv' = StopService(asked)
      /\ UNCHANGED <<paired, valid, online, since>>

\* OTAStatusCB: the update fails, at any time.
OTAError ==
  /\ ota \in {"waiting", "writing"} /\ ota' = "none"
  /\ sv' = [sv EXCEPT !.flags = @ \ {"update"}]
  /\ UNCHANGED <<waited, paired, valid, online, since>>

\* It succeeds: the library reboots.
OTASuccess ==
  /\ ota = "writing" /\ ota' = "done"
  /\ sv' = RebootAfter(sv)
  /\ UNCHANGED <<waited, paired, valid, online, since>>

\* Somebody asks for a reboot: RPC, a reset of the device.
AskReboot ==
  /\ sv' = RebootAfter(sv)
  /\ UNCHANGED <<ota, waited, paired, valid, online, since>>

-----------------------------------------------------------------------------
\* A new boot, up to the end of InitApp; what Home knows and the configuration
\* number outlive it.
Boot(s, on) ==
  StartService([s EXCEPT !.server = "Idle", !.comps = FALSE, !.busy = FALSE,
                         !.flags = {}, !.out = FALSE], on)

Start(s, on) ==
  /\ sv' = Boot(s, on)
  /\ ota' = "none" /\ waited' = 0 /\ since' = 0 /\ online' = FALSE
  /\ UNCHANGED <<paired, valid>>

\* RebootCB for MGOS_EVENT_REBOOT: "Increment CN on every reboot, because why
\* not."
Reboot(on) == "reboot" \in sv.flags /\ Start(IncrementCN(sv), on)

PowerLoss(on) == Start(sv, on)

Link ==
  /\ online' = ~online
  /\ UNCHANGED <<sv, ota, waited, paired, valid, since>>

\* Controllers are added or removed while the server runs, the setup code is
\* set or cleared over RPC.
Pairing ==
  /\ \/ sv.server = "Running" /\ paired' = ~paired /\ UNCHANGED valid
     \/ valid' = ~valid /\ UNCHANGED paired
  /\ UNCHANGED <<sv, ota, waited, online, since>>

Init ==
  \E on, legacy \in BOOLEAN, setting \in Settings :
    LET layout == [setting |-> setting, legacy |-> legacy]
    IN  /\ paired \in BOOLEAN /\ valid \in BOOLEAN
        /\ ota = "none" /\ waited = 0 /\ since = 0 /\ online = FALSE
        /\ sv = Boot([server |-> "Idle", comps |-> FALSE, layout |-> layout,
                      known |-> layout, bumped |-> FALSE, unseen |-> FALSE,
                      setting |-> setting, legacy |-> legacy, flags |-> {},
                      out |-> FALSE, busy |-> FALSE], on)

CoolTimer == \E on \in BOOLEAN : StatusTimer("cool", on)

User ==
  \/ \E temp \in Temperatures \ {"cool"}, on \in BOOLEAN : StatusTimer(temp, on)
  \/ \E setting \in Settings : SetConfig(setting)
  \/ RPCStop \/ AskReboot \/ Drive \/ Link \/ Pairing
  \/ ota = "none" /\ OTABegin
  \/ \E on \in BOOLEAN : RPCStart(on) \/ PowerLoss(on)

OTAEnds == OTAError \/ OTASuccess
Retry == ota = "waiting" /\ OTABegin
Reboots == \E on \in BOOLEAN : Reboot(on)

Loop == CoolTimer \/ ServerStopped \/ Retry \/ OTAEnds \/ Reboots

Next == User \/ Loop

Spec == Init /\ [][Next]_vars

(***************************************************************************)
(* The main loop never starves a repeating timer; the server stops when it *)
(* is told to, an update succeeds or fails, and a reboot that was asked    *)
(* for happens.                                                            *)
(***************************************************************************)
FairSpec ==
  /\ Spec
  /\ WF_vars(CoolTimer) /\ WF_vars(ServerStopped)
  /\ WF_vars(OTAEnds) /\ WF_vars(Reboots)

-----------------------------------------------------------------------------
\* Type invariant of the service; without components all of them are idle.
TypeOK ==
  /\ sv.busy => sv.comps
  /\ sv \in [server : {"Idle", "Running", "Stopping"}, comps : BOOLEAN,
             layout : Layouts, known : Layouts, bumped : BOOLEAN,
             unseen : BOOLEAN, setting : Settings, legacy : BOOLEAN,
             flags : SUBSET Flags, out : BOOLEAN, busy : BOOLEAN]
  /\ ota \in {"none", "waiting", "writing", "done"}
  /\ waited \in 0 .. MaxWait + 1 /\ since \in 0 .. Timeout + 1
  /\ paired \in BOOLEAN /\ valid \in BOOLEAN /\ online \in BOOLEAN

\* No order of overheating, updates, reboots, restarts and requests has the
\* HAP server running while one of them still needs it down.
Inhibited == sv.server = "Running" => sv.flags = {}

\* Firmware is never written while the HAP server runs.
UpdateUndisturbed == ota = "writing" => sv.server # "Running"

\* Home never keeps an outdated idea of the accessories: whenever the server
\* starts with another layout the configuration number has changed.
HomeNotices == ~sv.unseen

\* A server that runs shows the accessories of the present configuration,
\* however restarts, updates and reboots overlapped.
ShowsConfig ==
  sv.server = "Running" => sv.comps /\ sv.layout = Layout(sv)

\* "Server will be restarted by status timer": once heat, updates and users
\* leave it alone, a device that is paired or set up serves again and again
\* (a watchdog that reboots it may interrupt that).
ServiceResumes == <>[][Loop]_vars /\ <>[]Ready => []<>(sv.server = "Running")

\* "If not connected for this long when supposed to be, reboot": the timer
\* asks for a reboot only while there is no connection.
RebootsOffline ==
  [][(\E temp \in Temperatures, on \in BOOLEAN : StatusTimer(temp, on))
       /\ "reboot" \in sv'.flags => "reboot" \in sv.flags \/ ~online]_vars

\* "Overheat protection": a device that was shut down because of the heat does
\* not leave an output on that nothing controls any more.
OverheatOff == "overheat" \in sv.flags /\ ~sv.comps => ~sv.out
=============================================================================
