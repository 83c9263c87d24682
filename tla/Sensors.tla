-------------------------------- MODULE Sensors --------------------------------
(***************************************************************************)
(* sensors.c: the AHT20 and the BMP280 on the I2C bus, their set-up and    *)
(* the readings the MQTT task takes from them. A reading starts a          *)
(* conversion, sleeps, and fetches what the sensor's registers hold by     *)
(* then: nothing in the code looks whether the conversion has ended.       *)
(* Time is counted in ticks of FreeRTOS: a sleep of n ticks ends with the  *)
(* n-th tick after it began, however soon the first of them comes. A       *)
(* measured value is the number of the reading whose conversion measured   *)
(* it, 0 for what the registers hold after power-on. The sensors are       *)
(* external, as their datasheets describe them. Boot composes this module. *)
(***************************************************************************)
EXTENDS Naturals, FiniteSetsExt

CONSTANTS
  Hz,           \* CONFIG_FREERTOS_HZ
  Longest,      \* of each sensor: the longest its conversion takes, in ms
  MaxReadings   \* bound: readings of each sensor

Chips     == {"aht20", "bmp280"}
Addresses == {118, 119}
Metrics   == {"Temp", "HUMIDITY", "PRESSURE", "ALTITUDE"}

ASSUME TimeAssumption == Hz \in Nat \ {0} /\ Longest \in [Chips -> Nat] /\ MaxReadings \in Nat

VARIABLES
  bmpAt,        \* the address the BMP280 is wired to
  chip,         \* of each sensor: its registers and what it is converting
  s_sensors,    \* bmp280_address, initialized, and t_fine of bmp280_calib
  asked,        \* of each sensor: the commands it got to start a conversion
  reading,      \* the metric being read, and the ticks slept
  answer        \* what the last reading returned

sensorVars == <<bmpAt, chip, s_sensors, asked, reading, answer>>

NoReading == [metric |-> "none", slept |-> 0]
NoAnswer  == [metric |-> "none"]
ReadError(metric)     == [metric |-> metric, of |-> {}]
Value(metric, of)     == [metric |-> metric, of |-> of]

\* After power-on the sensors have measured nothing.
ChipOn   == [registers |-> 0, converting |-> 0, next |-> 0, ticks |-> 0]
DriverOn == [bmp280_address |-> 0, initialized |-> FALSE, t_fine |-> 0]

Numbers == 0 .. MaxReadings

SensorsTypeOK ==
  /\ bmpAt \in Addresses
  /\ chip \in [Chips -> [registers : Numbers, converting : Numbers, next : Numbers, ticks : Nat]]
  /\ s_sensors \in [bmp280_address : {0} \cup Addresses, initialized : BOOLEAN, t_fine : Numbers]
  /\ asked \in [Chips -> Numbers]
  /\ reading \in [metric : Metrics \cup {"none"}, slept : Nat]
  /\ answer \in [metric : Metrics, of : SUBSET Numbers] \cup {NoAnswer}

SensorsInit ==
  /\ bmpAt \in Addresses
  /\ chip = [c \in Chips |-> ChipOn] /\ s_sensors = DriverOn
  /\ asked = [c \in Chips |-> 0] /\ reading = NoReading /\ answer = NoAnswer

\* The device restarts: the sensors lose power with it, or finish what they do meanwhile.
Settled(c) == [ChipOn EXCEPT !.registers = Max({c.registers, c.converting, c.next})]

SensorsRestart ==
  /\ \/ chip' = [c \in Chips |-> ChipOn] /\ asked' = [c \in Chips |-> 0]
     \/ chip' = [c \in Chips |-> Settled(chip[c])] /\ UNCHANGED asked
  /\ s_sensors' = DriverOn /\ reading' = NoReading /\ answer' = NoAnswer
  /\ UNCHANGED bmpAt

-------------------------------------------------------------------------------
(* The sensors, and time.                                                    *)

\* pdMS_TO_TICKS, and the most ticks a conversion can see go by.
Sleep(ms) == (ms * Hz) \div 1000
Spans(ms) == (ms * Hz + 999) \div 1000

\* A command that comes during a conversion waits for its end; the AHT20 may
\* also ignore it.
Command(c) ==
  LET n == asked[c] + 1
  IN IF chip[c].converting = 0 THEN {[chip[c] EXCEPT !.converting = n, !.ticks = 0]}
     ELSE {[chip[c] EXCEPT !.next = n]} \cup (IF c = "aht20" THEN {chip[c]} ELSE {})

Busy(c) == chip[c].converting > 0

EndOfConversion == \E c \in Chips :
  /\ Busy(c)
  /\ chip' = [chip EXCEPT ![c] = [registers |-> @.converting, converting |-> @.next, next |-> 0, ticks |-> 0]]
  /\ UNCHANGED <<bmpAt, s_sensors, asked, reading, answer>>

ChipOf(metric) == IF metric \in {"Temp", "HUMIDITY"} THEN "aht20" ELSE "bmp280"

\* How long a reading sleeps.
SleepOf(metric) == Sleep(IF ChipOf(metric) = "aht20" THEN 80 ELSE 10)

\* A tick that a sleeper or a conversion sees. No conversion takes longer than Longest.
Tick ==
  /\ reading # NoReading \/ \E c \in Chips : Busy(c)
  /\ \A c \in Chips : Busy(c) => chip[c].ticks < Spans(Longest[c])
  /\ chip' = [c \in Chips |-> IF Busy(c) THEN [chip[c] EXCEPT !.ticks = @ + 1] ELSE chip[c]]
  /\ reading' = IF reading = NoReading THEN reading
                ELSE [reading EXCEPT !.slept = Min({@ + 1, SleepOf(reading.metric)})]
  /\ UNCHANGED <<bmpAt, s_sensors, asked, answer>>

-------------------------------------------------------------------------------
(* aht20_read and bmp280_read, on behalf of the four sensor_read functions.  *)

Answer(a) == answer' = a /\ reading' = NoReading

\* The command that starts a conversion. A transfer fails at a byte the sensor does
\* not acknowledge, or after 100 ms, when the sensor may well have got the command;
\* the reading is over then.
StartReading(metric, fails) ==
  LET c == ChipOf(metric)
      Commanded(new) == [chip EXCEPT ![c] = new]
  IN /\ reading = NoReading /\ asked[c] < MaxReadings
     /\ IF fails THEN Answer(ReadError(metric))
        ELSE reading' = [metric |-> metric, slept |-> 0] /\ answer' = NoAnswer
     /\ \/ /\ asked' = [asked EXCEPT ![c] = @ + 1]
           /\ \E new \in Command(c) :
                chip' = IF fails THEN [d \in Chips |-> Settled(Commanded(new)[d])] ELSE Commanded(new)
        \/ fails /\ UNCHANGED <<asked, chip>>
     /\ UNCHANGED <<bmpAt, s_sensors>>

\* Mutant: the temperature is not worked out when nobody asked for it.
NoTemperature(c) == s_sensors.t_fine
\* The BMP280's temperature is worked out first, for the pressure to use.
TFine(c) == IF c = "bmp280" THEN chip[c].registers ELSE s_sensors.t_fine

\* What the registers hold after the sleep, whatever it is; no altitude follows
\* from a pressure that is not positive.
Fetch(fails) ==
  LET metric == reading.metric
      c      == ChipOf(metric)
      of     == {chip[c].registers} \cup (IF c = "bmp280" THEN {TFine(c)} ELSE {})
  IN /\ reading # NoReading /\ reading.slept = SleepOf(metric)
     /\ s_sensors' = IF fails THEN s_sensors ELSE [s_sensors EXCEPT !.t_fine = TFine(c)]
     /\ \/ fails /\ Answer(ReadError(metric))
        \/ ~fails /\ Answer(Value(metric, of))
        \/ ~fails /\ metric = "ALTITUDE" /\ Answer(ReadError(metric))
     /\ UNCHANGED <<bmpAt, chip, asked>>

-------------------------------------------------------------------------------
Answered == answer # NoAnswer /\ answer.of # {}

\* sensors.c:80-108, 192-223: a value is of one measurement, the temperature that
\* corrects a pressure included, and one that was begun by this reading or the one
\* before it; a sensor that ignores commands while it converts can be one more behind.
NearlyFresh ==
  Answered =>
    LET c == ChipOf(answer.metric)
    IN \E n \in Numbers : answer.of = {n} /\ n + (IF c = "aht20" THEN 2 ELSE 1) >= asked[c]
================================================================================
