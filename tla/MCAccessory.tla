---------------------------- MODULE MCAccessory -----------------------------
(***************************************************************************)
(* A relay with one input: configurations that differ in everything that   *)
(* matters to the switch and to a detached input.                          *)
(***************************************************************************)
EXTENDS Accessory

Plain == [svc |-> "Switch", valve |-> -1, inMode |-> "Toggle",
          inInv |-> FALSE, initial |-> "Last", autoOff |-> FALSE,
          hkInv |-> FALSE, outInv |-> FALSE, led |-> 0]

MCConfigs ==
  { [Plain EXCEPT !.inMode = "Momentary", !.autoOff = TRUE, !.hkInv = TRUE,
                  !.initial = "Input"],
    [Plain EXCEPT !.inMode = "Activation", !.autoOff = TRUE,
                  !.initial = "Off", !.svc = "Outlet", !.led = 1],
    [Plain EXCEPT !.inMode = "Detached", !.svc = "Lock", !.initial = "On",
                  !.outInv = TRUE] }

\* A wall switch and its light.
MCToggle == {Plain}

Button == [type |-> "StatelessSwitch", inv |-> FALSE,
           switchMode |-> "ToggleShortLong", sensorMode |-> "Level"]

Sensor == [Button EXCEPT !.type = "Contact", !.inv = TRUE,
                         !.sensorMode = "Pulse"]

MCDetached == {Button, Sensor}

\* A button that is told clicks.
MCClicks == {[Button EXCEPT !.switchMode = "Momentary"], Sensor}
=============================================================================
