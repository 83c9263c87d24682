--------------------------------- MODULE Boot ---------------------------------
(***************************************************************************)
(* interactive_mqtt_sensor_main.c and app_config.c: one boot of the device *)
(* after another. app_main looks at the reset button, loads the settings   *)
(* from NVS or asks for them on the console, saves them, and goes on the   *)
(* network with them. Power may fail, and an ESP_ERROR_CHECK restart the   *)
(* device, between any two steps; only NVS survives.                       *)
(* A line typed is its length and the prompt it answers.                   *)
(***************************************************************************)
EXTENDS Sequences, Sensors

CONSTANTS
  Size,       \* of each field of app_user_config_t, in the order of the prompts
  Checked,    \* the fields app_load_user_config looks at
  Lines,      \* of each prompt: the lengths of the lines the user may type
  MaxFaults   \* bound: power cuts and calls that fail

Fields == 1 .. Len(Size)

ASSUME SizeAssumption  == Size \in Seq(Nat \ {0, 1}) /\ Len(Size) > 0 /\ Checked \subseteq Fields
ASSUME LinesAssumption == Lines \in [Fields -> SUBSET Nat] /\ MaxFaults \in Nat

VARIABLES
  nvs,      \* the blob stored, or None
  cfg,      \* user_cfg of app_main
  pc,       \* where app_main is
  field,    \* the field asked for
  rest,     \* what is left on stdin of the last line, with its newline
  button,   \* GPIO4: "up" or "down"
  faults

vars == <<nvs, cfg, pc, field, rest, button, faults, sensorVars>>

\* A field holds nothing, or len characters of the line typed at a prompt.
Empty == [line |-> 0, len |-> 0]
Texts == [line : Fields, len : Nat \ {0}] \cup {Empty}
None  == <<>>

Pcs == {"flash", "button", "hold", "erase", "sensors", "load", "setup", "save", "wifi", "mqtt",
        "running", "returned"}

\* app_types.h: every field fits its array, with the terminating zero.
TypeOK ==
  /\ cfg \in [Fields -> Texts] /\ (nvs = None \/ nvs \in [Fields -> Texts])
  /\ \A f \in Fields : cfg[f].len < Size[f]
  /\ pc \in Pcs /\ field \in Fields
  /\ rest \in [line : Fields \cup {0}, left : Nat]
  /\ button \in {"up", "down"} /\ faults \in 0 .. MaxFaults
  /\ SensorsTypeOK

NoRest == [line |-> 0, left |-> 0]

PowerOn ==
  /\ pc' = "flash" /\ cfg' = [f \in Fields |-> Empty] /\ field' = 1 /\ rest' = NoRest
  /\ SensorsRestart

Init ==
  /\ pc = "flash" /\ cfg = [f \in Fields |-> Empty] /\ field = 1 /\ rest = NoRest
  /\ nvs = None /\ button \in {"up", "down"} /\ faults = 0
  /\ SensorsInit

---------------------------------------------------------------------------
Fault   == faults < MaxFaults /\ faults' = faults + 1
NoFault == UNCHANGED faults
Goto(l) == pc' = l /\ UNCHANGED <<cfg, field, rest, sensorVars>>
\* ESP_ERROR_CHECK of a call that failed: abort, and the panic handler restarts.
Panic   == Fault /\ PowerOn

\* nvs_flash_init; a partition it cannot use is erased.
FlashInit ==
  /\ pc = "flash" /\ UNCHANGED button
  /\ \/ NoFault /\ Goto("button") /\ UNCHANGED nvs
     \/ Fault /\ Goto("button") /\ nvs' = None
     \/ Panic /\ UNCHANGED nvs

\* app_is_config_reset_requested: a look, a second's delay, a second look.
SampleButton ==
  /\ pc = "button" /\ NoFault /\ UNCHANGED <<nvs, button>>
  /\ Goto(IF button = "down" THEN "hold" ELSE "sensors")

SampleAgain ==
  /\ pc = "hold" /\ NoFault /\ UNCHANGED <<nvs, button>>
  /\ Goto(IF button = "down" THEN "erase" ELSE "sensors")

Erase ==
  /\ pc = "erase" /\ UNCHANGED button
  /\ \/ NoFault /\ Goto("sensors") /\ nvs' = None
     \/ Panic /\ UNCHANGED nvs

\* sensor_init: the BMP280 is looked for at one address, then at the other. A transfer
\* that fails restarts the device.
SensorInit ==
  /\ pc = "sensors" /\ UNCHANGED <<nvs, button>>
  /\ \/ /\ NoFault /\ pc' = "load"
        /\ s_sensors' = [bmp280_address |-> bmpAt, initialized |-> TRUE, t_fine |-> 0]
        /\ UNCHANGED <<cfg, field, rest, bmpAt, chip, asked, reading, answer>>
     \/ Panic

\* Mutant: the length is compared with 1.
LongerThanOne(c) == \A f \in Checked : c[f].len > 1
Loadable(c) == \A f \in Checked : c[f].len > 0

\* app_load_user_config fills user_cfg before it checks it. Any failure leads to the
\* console: nothing stored, settings that are not loadable, or a call that fails.
Load ==
  /\ pc = "load" /\ UNCHANGED <<nvs, button, field, rest, sensorVars>>
  /\ \/ /\ nvs # None /\ NoFault
        /\ cfg' = nvs
        /\ pc' = IF Loadable(nvs) THEN "wifi" ELSE "setup"
     \/ nvs = None /\ NoFault /\ pc' = "setup" /\ UNCHANGED cfg
     \/ Fault /\ pc' = "setup" /\ UNCHANGED cfg

\* Mutant: the last field is asked for twice.
LastFieldAgain == field > Len(Size)
LastField == field = Len(Size)

\* Mutant: an empty line is accepted.
AcceptAll(len) == TRUE
Acceptable(len) == len > 0

\* fgets: at most Size - 1 characters of the line, its newline one of them; trim_newline.
Fgets(line) ==
  LET n    == Min({line.left, Size[field] - 1})
      text == IF n = line.left THEN n - 1 ELSE n
  IN /\ rest' = IF n = line.left THEN NoRest ELSE [line EXCEPT !.left = @ - n]
     /\ cfg' = [cfg EXCEPT ![field] = IF text = 0 THEN Empty ELSE [line |-> line.line, len |-> text]]
     /\ IF ~Acceptable(text) THEN UNCHANGED <<field, pc>>
        ELSE IF LastField THEN pc' = "save" /\ UNCHANGED field
        ELSE field' = field + 1 /\ UNCHANGED pc

\* read_line_required, once round its loop: what is left on stdin comes first.
ReadLine ==
  /\ pc = "setup" /\ NoFault /\ UNCHANGED <<nvs, button, sensorVars>>
  /\ IF rest # NoRest THEN Fgets(rest)
     ELSE \E len \in Lines[field] : Fgets([line |-> field, left |-> len + 1])

\* fgets returns NULL: the setup is given up, app_main returns.
ConsoleFails == pc = "setup" /\ Fault /\ Goto("returned") /\ UNCHANGED <<nvs, button>>

\* Mutant: a failing save goes unnoticed.
SaveUnchecked ==
  /\ pc = "save" /\ UNCHANGED button
  /\ \/ NoFault /\ Goto("wifi") /\ nvs' = cfg
     \/ Fault /\ Goto("wifi") /\ UNCHANGED nvs

Save ==
  /\ pc = "save" /\ UNCHANGED button
  /\ \/ NoFault /\ Goto("wifi") /\ nvs' = cfg
     \/ Panic /\ UNCHANGED nvs

\* wifi_init_sta waits for the handler's verdict; mqtt_start needs a usable broker URI.
Wifi ==
  /\ pc = "wifi" /\ UNCHANGED <<nvs, button>>
  /\ \/ NoFault /\ Goto("mqtt")
     \/ Fault /\ Goto("returned")
     \/ Panic

MqttStart ==
  /\ pc = "mqtt" /\ UNCHANGED <<nvs, button>>
  /\ \/ NoFault /\ Goto("running")
     \/ Fault /\ Goto("returned")
     \/ Panic

\* A power cut, or a restart after an update.
Restart == Fault /\ PowerOn /\ UNCHANGED <<nvs, button>>

Press   == button = "up" /\ button' = "down" /\ UNCHANGED <<nvs, cfg, pc, field, rest, faults, sensorVars>>
Release == button = "down" /\ button' = "up" /\ UNCHANGED <<nvs, cfg, pc, field, rest, faults, sensorVars>>

\* Once on the network, the MQTT task reads sensors as it is asked to: sensor_is_initialized.
Measure ==
  /\ pc = "running" /\ s_sensors.initialized /\ UNCHANGED <<nvs, cfg, pc, field, rest, button>>
  /\ \E fails \in BOOLEAN :
       /\ IF fails THEN Fault ELSE NoFault
       /\ Fetch(fails) \/ \E metric \in Metrics : StartReading(metric, fails)

Nature == (Tick \/ EndOfConversion) /\ UNCHANGED <<nvs, cfg, pc, field, rest, button, faults>>

Unattended ==
  FlashInit \/ SampleButton \/ SampleAgain \/ Erase \/ SensorInit \/ Load \/ Save \/ Wifi \/ MqttStart

Next == Unattended \/ ReadLine \/ ConsoleFails \/ Restart \/ Press \/ Release \/ Measure \/ Nature

\* app_main runs as long as it needs no user: nobody has to type a line, press the
\* button or cut the power.
Spec == Init /\ [][Next]_vars /\ WF_vars(Unattended)

---------------------------------------------------------------------------
\* A field holds the answer to its own prompt, cut when it is longer than the field,
OwnAnswer(c, f) ==
  /\ c[f].line = f
  /\ \E len \in Lines[f] \ {0} : c[f].len = IF len < Size[f] THEN len ELSE Size[f] - 1

\* or more of a line that was too long for the fields before it.
Overflow(c, f) ==
  LET g == c[f].line IN
  /\ g \in 1 .. f - 1 /\ c[f - 1].line = g /\ c[f - 1].len = Size[f - 1] - 1
  /\ c[f].len > 0 /\ \E len \in Lines[g] : len >= Size[g] - 1 + c[f].len

\* app_config.c:30-48, 171-206: however lines, empty lines and power cuts follow each
\* other, what is stored is an answer for each of the fields, none empty, and one that
\* was typed at an earlier prompt is what did not fit there, with nothing typed between.
TypedIsStored ==
  nvs # None => \A f \in Fields : OwnAnswer(nvs, f) \/ Overflow(nvs, f)

\* interactive_mqtt_sensor_main.c:34-46: a device on the network runs with the
\* settings its next boot will load.
RunsAsStored == pc \in {"wifi", "mqtt", "running"} => nvs = cfg

\* README.md:55: once settings are stored, a boot that nothing disturbs goes on the
\* network with nobody at the console, unless the button erases them.
BootsUnattended == (pc = "flash" /\ nvs # None /\ faults = MaxFaults) ~> (pc = "running" \/ nvs = None)
===============================================================================
