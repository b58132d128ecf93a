---------------------------- MODULE ServiceProofs ---------------------------
(***************************************************************************)
(* The safety of the service for any settings and any timeouts.  Good(s)   *)
(* is the inductive invariant of the shared state; each lemma shows that   *)
(* one function of shelly_main preserves it.                               *)
(***************************************************************************)
EXTENDS Service, TLAPS

Members ==
  [server : {"Idle", "Running", "Stopping"}, comps : BOOLEAN,
   layout : Layouts, known : Layouts, bumped : BOOLEAN, unseen : BOOLEAN,
   setting : Settings, legacy : BOOLEAN, flags : SUBSET Flags,
   out : BOOLEAN, busy : BOOLEAN]

\* Components that outlive a change of configuration are about to be destroyed
\* (the server is stopping); a change that Home does not know of has changed
\* the configuration number.
Good(s) ==
  /\ s \in Members
  /\ s.busy => s.comps
  /\ s.server = "Running" => s.comps /\ s.flags = {}
  /\ s.comps /\ s.server # "Stopping" => s.layout = Layout(s)
  /\ ~s.bumped => s.known = Layout(s)
  /\ ~s.unseen

LEMMA LayoutType == ASSUME NEW s \in Members PROVE Layout(s) \in Layouts
BY DEF Members, Layout, Layouts

LEMMA DestroyGood ==
  ASSUME NEW s, Good(s), s.server = "Idle"
  PROVE  Good(Destroy(s)) /\ Destroy(s).flags = s.flags
         /\ Destroy(s).server = "Idle" /\ ~Destroy(s).comps
BY DEF Good, Members, Destroy, Layout

LEMMA CreateGood ==
  ASSUME NEW s, Good(s), s.server = "Idle", NEW on \in BOOLEAN
  PROVE  /\ Good(Create(s, on))
         /\ Create(s, on).comps /\ Create(s, on).server = "Idle"
         /\ Create(s, on).flags = s.flags
<1>1. CASE s.comps
  BY <1>1 DEF Create
<1>2. CASE ~s.comps
  <2>1. s \in Members BY DEF Good
  <2>2. Create(s, on) = [s EXCEPT !.comps = TRUE, !.layout = Layout(s),
                                  !.out = on]
    BY <1>2 DEF Create
  <2> QED BY <2>1, <2>2, LayoutType DEF Good, Members, Layout
<1> QED BY <1>1, <1>2

\* The server starts with accessories that Home knows, or will ask for.
LEMMA StartServerGood ==
  ASSUME NEW s, Good(s), s.comps, s.server = "Idle", s.flags = {}
  PROVE  Good(StartServer(s))
<1>1. s \in Members /\ s.layout = Layout(s) BY DEF Good
<1>2. ~(s.unseen \/ (s.layout # s.known /\ ~s.bumped)) BY <1>1 DEF Good
<1>3. StartServer(s) = [s EXCEPT !.server = "Running", !.known = s.layout,
                                 !.bumped = FALSE, !.unseen = FALSE]
  BY <1>1, <1>2 DEF StartServer, Good, Members
<1> QED BY <1>1, <1>3 DEF Good, Members, Layout

LEMMA StartServiceGood ==
  ASSUME NEW s, Good(s), NEW on \in BOOLEAN
  PROVE  Good(StartService(s, on)) /\ StartService(s, on).flags = s.flags
<1>1. CASE s.flags # {} \/ s.server # "Idle"
  BY <1>1 DEF StartService
<1>2. CASE s.flags = {} /\ s.server = "Idle"
  <2>0. s.server \in {"Idle", "Running", "Stopping"}
    BY DEF Good, Members
  <2> DEFINE c == Create(s, on)
  <2>1. Good(c) /\ c.comps /\ c.server = "Idle" /\ c.flags = {}
    BY <1>2, CreateGood
  <2>2. StartService(s, on) = IF Ready THEN StartServer(c) ELSE c
    BY <1>2 DEF StartService
  <2> HIDE DEF c
  <2>3. StartServer(c).flags = c.flags
    BY <2>1 DEF StartServer, Good, Members
  <2> QED BY <1>2, <2>1, <2>2, <2>3, StartServerGood
<1> QED BY <1>1, <1>2

\* Stopping the service, with or without another flag.
LEMMA StopServiceGood ==
  ASSUME NEW s, Good(s), NEW f \in SUBSET Flags
  PROVE  /\ Good([StopService(s) EXCEPT !.flags = f])
         /\ Good(StopService(s)) /\ StopService(s).flags = s.flags
         /\ StopService(s).server # "Running"
         /\ StopService(s).server = "Idle" => ~StopService(s).comps
<1>1. CASE s.server = "Idle"
  BY <1>1 DEF StopService, Destroy, Good, Members, Layout
<1>2. CASE s.server # "Idle"
  BY <1>2 DEF StopService, StopServer, Good, Members, Layout
<1> QED BY <1>1, <1>2

\* A change of the configuration, with a new configuration number, is safe once
\* the service is stopped.
LEMMA RestartServiceGood ==
  ASSUME NEW s, Good(s), NEW setting \in Settings
  PROVE  Good(RestartService([s EXCEPT !.setting = setting]))
<1> DEFINE c == [s EXCEPT !.setting = setting]
           r == RestartService(c)
<1>1. s \in Members /\ c \in Members BY DEF Good, Members
<1>2. CASE s.server = "Idle"
  <2>1. r = [s EXCEPT !.setting = setting, !.comps = FALSE, !.busy = FALSE,
                      !.bumped = TRUE, !.legacy = FALSE]
    BY <1>1, <1>2
       DEF RestartService, IncrementCN, StopService, Destroy, Members
  <2> QED BY <1>2, <2>1 DEF Good, Members, Layout
<1>3. CASE s.server # "Idle"
  <2>1. r = [s EXCEPT !.setting = setting, !.server = "Stopping",
                      !.bumped = TRUE, !.legacy = FALSE]
    BY <1>1, <1>3
       DEF RestartService, IncrementCN, StopService, StopServer, Members
  <2> QED BY <1>3, <2>1 DEF Good, Members, Layout
<1> QED BY <1>2, <1>3

LEMMA CheckOverheatGood ==
  ASSUME NEW s, Good(s), NEW temp
  PROVE  Good(CheckOverheat(s, temp))
         /\ CheckOverheat(s, temp).flags \ {"overheat"} = s.flags \ {"overheat"}
<1>1. Good(Overheat(s))
      /\ Overheat(s).flags \ {"overheat"} = s.flags \ {"overheat"}
  BY DEF Overheat, StopService, StopServer, Destroy, Good, Members, Flags, Layout
<1>2. Good(Cool(s)) /\ Cool(s).flags \ {"overheat"} = s.flags \ {"overheat"}
  BY DEF Cool, Good, Members, Layout
<1> QED BY <1>1, <1>2 DEF CheckOverheat

LEMMA RebootAfterGood ==
  ASSUME NEW s, Good(s)
  PROVE  Good(RebootAfter(s)) /\ s.flags \subseteq RebootAfter(s).flags
BY DEF RebootAfter, StopServer, Good, Members, Flags, Layout

LEMMA BootGood ==
  ASSUME NEW s, Good(s), NEW on \in BOOLEAN
  PROVE  Good(Boot(s, on)) /\ Good(Boot(IncrementCN(s), on))
<1> DEFINE b(t) == [t EXCEPT !.server = "Idle", !.comps = FALSE,
                             !.busy = FALSE, !.flags = {}, !.out = FALSE]
<1>1. Good(b(s)) BY DEF Good, Members, Flags, Layout
<1>2. Good(b(IncrementCN(s)))
  BY DEF Good, Members, Flags, Layout, IncrementCN
<1> QED BY <1>1, <1>2, StartServiceGood DEF Boot

-----------------------------------------------------------------------------
\* An update keeps its flag until it has failed or rebooted, and without the
\* flag there is no update.
UpdateOK(s, o) == /\ o = "writing" => "update" \in s.flags
                  /\ o = "writing" => s.server # "Running"

Inv == /\ Good(sv) /\ UpdateOK(sv, ota)
       /\ ota \in {"none", "waiting", "writing", "done"}
       /\ waited \in 0 .. MaxWait + 1 /\ since \in 0 .. Timeout + 1
       /\ paired \in BOOLEAN /\ valid \in BOOLEAN /\ online \in BOOLEAN

LEMMA CountToBound ==
  ASSUME NEW limit \in Nat, NEW n \in 0 .. limit + 1
  PROVE  CountTo(n, limit) \in 0 .. limit + 1
BY DEF CountTo

LEMMA InitInv == Init => Inv
<1> SUFFICES ASSUME Init PROVE Inv OBVIOUS
<1> DEFINE L(legacy, setting) == [setting |-> setting, legacy |-> legacy]
           S(legacy, setting) ==
             [server |-> "Idle", comps |-> FALSE, layout |-> L(legacy, setting),
              known |-> L(legacy, setting), bumped |-> FALSE, unseen |-> FALSE,
              setting |-> setting, legacy |-> legacy, flags |-> {},
              out |-> FALSE, busy |-> FALSE]
<1>1. PICK on \in BOOLEAN, legacy \in BOOLEAN, setting \in Settings :
        /\ paired \in BOOLEAN /\ valid \in BOOLEAN
        /\ ota = "none" /\ waited = 0 /\ since = 0 /\ online = FALSE
        /\ sv = Boot(S(legacy, setting), on)
  BY Zenon DEF Init
<1>2. Good(S(legacy, setting))
  BY DEF Good, Members, Layouts, Layout
<1> HIDE DEF S
<1>3. Good(sv) BY <1>1, <1>2, BootGood
<1>4. UpdateOK(sv, ota) BY <1>1 DEF UpdateOK
<1>5. waited \in 0 .. MaxWait + 1 /\ since \in 0 .. Timeout + 1
  BY <1>1, WaitAssumption, TimeoutAssumption
<1>6. online \in BOOLEAN /\ paired \in BOOLEAN /\ valid \in BOOLEAN
  BY <1>1, Zenon
<1>7. ota \in {"none", "waiting", "writing", "done"} BY <1>1
<1> QED BY <1>3, <1>4, <1>5, <1>6, <1>7, Zenon DEF Inv

LEMMA TimerInv ==
  ASSUME Inv, NEW temp, NEW on \in BOOLEAN, StatusTimer(temp, on)
  PROVE  Inv'
<1> USE WaitAssumption, TimeoutAssumption
<1>1. /\ waited' \in 0 .. MaxWait + 1 /\ since' \in 0 .. Timeout + 1
  <2>1. /\ CountTo(waited, MaxWait) \in 0 .. MaxWait + 1
        /\ CountTo(since, Timeout) \in 0 .. Timeout + 1
    BY CountToBound DEF Inv
  <2>2. /\ waited' = CountTo(waited, MaxWait)
        /\ since' \in {CountTo(since, Timeout), 0}
    BY DEF StatusTimer
  <2> QED BY <2>1, <2>2
<1>2. Good(sv') /\ ("update" \in sv.flags => "update" \in sv'.flags)
  <2>1. CASE sv.legacy /\ ~paired
    <3>1. sv = [sv EXCEPT !.setting = sv.setting] /\ sv.setting \in Settings
      BY DEF Inv, Good, Members
    <3>2. sv' = RestartService(sv) BY <2>1 DEF StatusTimer
    <3>3. Good(sv') BY <3>1, <3>2, RestartServiceGood DEF Inv
    <3>4. sv'.flags = sv.flags
      BY <3>2 DEF RestartService, IncrementCN, StopService, StopServer, Destroy,
                  Inv, Good, Members
    <3> QED BY <3>3, <3>4
  <2>2. CASE ~(sv.legacy /\ ~paired)
    <3> DEFINE a == StartService(sv, on)
               b == CheckOverheat(a, temp)
    <3>1. Good(a) /\ a.flags = sv.flags BY StartServiceGood DEF Inv
    <3> HIDE DEF a
    <3>2. Good(b) /\ b.flags \ {"overheat"} = a.flags \ {"overheat"}
      BY <3>1, CheckOverheatGood
    <3> HIDE DEF b
    <3>3. sv' \in {b, RebootAfter(b)}
      BY <2>2 DEF StatusTimer, CheckConnection, a, b
    <3>4. Good(RebootAfter(b)) /\ b.flags \subseteq RebootAfter(b).flags
      BY <3>2, RebootAfterGood
    <3>5. "update" \in sv.flags => "update" \in b.flags
      BY <3>1, <3>2
    <3> QED BY <3>2, <3>3, <3>4, <3>5
  <2> QED BY <2>1, <2>2
<1>3. UpdateOK(sv', ota)
  BY <1>2 DEF Inv, UpdateOK, Good
<1> QED BY <1>1, <1>2, <1>3 DEF StatusTimer, Inv

LEMMA OTABeginInv == Inv /\ OTABegin => Inv'
<1> SUFFICES ASSUME Inv, OTABegin PROVE Inv' OBVIOUS
<1> USE WaitAssumption, TimeoutAssumption
<1>1. CASE sv.busy
  BY <1>1 DEF OTABegin, Inv, UpdateOK
<1>2. CASE ~sv.busy
  <2> DEFINE asked == [sv EXCEPT !.flags = @ \cup {"update"}]
             since0 == IF "update" \in sv.flags THEN waited ELSE 0
  <2>1. since0 \in 0 .. MaxWait + 1 BY DEF Inv
  <2>2. CASE Proceed(sv, since0)
    <3>1. ota' = "writing" /\ sv' = asked BY <1>2, <2>2 DEF OTABegin
    <3>2. sv.server # "Running"
      BY <2>2 DEF Proceed, Inv, Good
    <3>3. Good(asked) BY <3>2 DEF Inv, Good, Members, Flags, Layout
    <3>4. UpdateOK(asked, "writing")
      BY <3>2 DEF UpdateOK, Inv, Good, Members
    <3> QED BY <1>2, <2>1, <3>1, <3>3, <3>4 DEF OTABegin, Inv
  <2>3. CASE ~Proceed(sv, since0)
    <3>1. ota' = "waiting" /\ sv' = StopService(asked)
      BY <1>2, <2>3 DEF OTABegin
    <3>2. sv.server # "Idle" BY <2>3 DEF Proceed
    <3>3. Good(sv')
      BY <3>1, <3>2 DEF StopService, StopServer, Inv, Good, Members, Flags, Layout
    <3> QED BY <1>2, <2>1, <3>1, <3>3 DEF OTABegin, Inv, UpdateOK
  <2> QED BY <2>2, <2>3
<1> QED BY <1>1, <1>2

LEMMA StartInv ==
  ASSUME NEW s, Good(s), NEW on \in BOOLEAN, Inv,
         Start(s, on) \/ Start(IncrementCN(s), on)
  PROVE  Inv'
<1>1. Good(sv') BY BootGood DEF Start
<1>2. ota' = "none" /\ waited' = 0 /\ since' = 0 BY DEF Start
<1>3. UpdateOK(sv', ota') BY <1>2 DEF UpdateOK
<1>4. waited' \in 0 .. MaxWait + 1 /\ since' \in 0 .. Timeout + 1
  BY <1>2, WaitAssumption, TimeoutAssumption
<1>5. online' \in BOOLEAN /\ paired' \in BOOLEAN /\ valid' \in BOOLEAN
  BY Zenon DEF Start, Inv
<1>6. ota' \in {"none", "waiting", "writing", "done"} BY <1>2
<1> QED BY <1>1, <1>3, <1>4, <1>5, <1>6 DEF Inv, UpdateOK

LEMMA StepInv == Inv /\ [Next]_vars => Inv'
<1> SUFFICES ASSUME Inv, [Next]_vars PROVE Inv' OBVIOUS
<1>1. ASSUME NEW temp, NEW on \in BOOLEAN, StatusTimer(temp, on) PROVE Inv'
  BY <1>1, TimerInv
<1>2. CASE ServerStopped
  <2>1. Good(sv') /\ sv'.flags = sv.flags /\ sv'.server = "Idle"
    BY <1>2 DEF ServerStopped, Destroy, Inv, Good, Members, Layout
  <2> QED BY <1>2, <2>1 DEF ServerStopped, Inv, UpdateOK
<1>3. ASSUME NEW setting \in Settings, SetConfig(setting) PROVE Inv'
  <2>1. Good(sv') BY <1>3, RestartServiceGood DEF SetConfig, Inv
  <2>2. sv'.flags = sv.flags
    BY <1>3 DEF SetConfig, RestartService, IncrementCN, StopService, StopServer,
                Destroy, Inv, Good, Members
  <2> QED BY <1>3, <2>1, <2>2 DEF SetConfig, Inv, UpdateOK, Good
<1>4. CASE RPCStop
  <2>1. Good(sv') /\ sv'.flags = sv.flags /\ sv'.server = "Stopping"
    BY <1>4 DEF RPCStop, StopServer, Inv, Good, Members, Layout
  <2> QED BY <1>4, <2>1 DEF RPCStop, Inv, UpdateOK
<1>5. ASSUME NEW on \in BOOLEAN, RPCStart(on) PROVE Inv'
  <2>1. Good(sv') /\ sv'.flags = sv.flags
    BY <1>5, StartServiceGood DEF RPCStart, Inv
  <2> QED BY <1>5, <2>1 DEF RPCStart, Inv, UpdateOK, Good
<1>6. CASE Drive
  <2>1. Good(sv') /\ sv'.flags = sv.flags /\ sv'.server = sv.server
    BY <1>6 DEF Drive, Inv, Good, Members, Layout
  <2> QED BY <1>6, <2>1 DEF Drive, Inv, UpdateOK
<1>7. CASE OTABegin
  BY <1>7, OTABeginInv
<1>8. CASE OTAError
  <2>1. Good(sv')
    BY <1>8 DEF OTAError, Inv, Good, Members, Layout
  <2> QED BY <1>8, <2>1 DEF OTAError, Inv, UpdateOK
<1>9. CASE OTASuccess
  <2>1. Good(sv') BY <1>9, RebootAfterGood DEF OTASuccess, Inv
  <2> QED BY <1>9, <2>1 DEF OTASuccess, Inv, UpdateOK
<1>10. CASE AskReboot
  <2>1. Good(sv') /\ sv.flags \subseteq sv'.flags
    BY <1>10, RebootAfterGood DEF AskReboot, Inv
  <2> QED BY <1>10, <2>1 DEF AskReboot, Inv, UpdateOK, Good
<1>11. ASSUME NEW on \in BOOLEAN, Reboot(on) PROVE Inv'
  BY <1>11, StartInv DEF Reboot, Inv
<1>12. ASSUME NEW on \in BOOLEAN, PowerLoss(on) PROVE Inv'
  BY <1>12, StartInv DEF PowerLoss, Inv
<1>13. CASE Link
  BY <1>13 DEF Link, Inv, UpdateOK
<1>14. CASE Pairing
  BY <1>14 DEF Pairing, Inv, UpdateOK
<1>15. CASE UNCHANGED vars
  BY <1>15 DEF vars, Inv, UpdateOK
<1> QED BY <1>1, <1>2, <1>3, <1>4, <1>5, <1>6, <1>7, <1>8, <1>9, <1>10,
           <1>11, <1>12, <1>13, <1>14, <1>15
        DEF Next, User, Loop, CoolTimer, Retry, OTAEnds, Reboots

\* The inductive invariant of the service.
THEOREM Invariant == Spec => []Inv
BY InitInv, StepInv, PTL DEF Spec

\* Types, and no busy component without components.
THEOREM TypeCorrect == Spec => []TypeOK
<1>1. Inv => TypeOK BY DEF Inv, Good, Members, TypeOK
<1> QED BY <1>1, Invariant, PTL

\* The server never runs while a flag of s_service_flags inhibits it.
THEOREM InhibitedWhileFlagged == Spec => []Inhibited
<1>1. Inv => Inhibited BY DEF Inv, Good, Inhibited
<1> QED BY <1>1, Invariant, PTL

\* Firmware is not written while the server runs.
THEOREM UpdatesUndisturbed == Spec => []UpdateUndisturbed
<1>1. Inv => UpdateUndisturbed BY DEF Inv, UpdateOK, UpdateUndisturbed
<1> QED BY <1>1, Invariant, PTL

\* Every layout that Home is shown comes with a new configuration number.
THEOREM HomeAlwaysNotices == Spec => []HomeNotices
<1>1. Inv => HomeNotices BY DEF Inv, Good, HomeNotices
<1> QED BY <1>1, Invariant, PTL

\* A server that runs shows the present configuration.
THEOREM AlwaysShowsConfig == Spec => []ShowsConfig
<1>1. Inv => ShowsConfig BY DEF Inv, Good, Members, ShowsConfig
<1> QED BY <1>1, Invariant, PTL
=============================================================================
