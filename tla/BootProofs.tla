----------------------------- MODULE BootProofs -----------------------------
(***************************************************************************)
(* Boot and Sensors for any number of fields of any size, any lines, any   *)
(* number of faults and readings: what is stored and run is what was typed,*)
(* and a value is at most a reading or two behind, when the sleep is as    *)
(* long as the longest conversion.                                         *)
(***************************************************************************)
EXTENDS Boot, TLAPS

\* How many ticks a reading of the sensor sleeps, and by how many readings a value of it may be behind.
SleepFor(c) == Sleep(IF c = "aht20" THEN 80 ELSE 10)
Behind(c)   == IF c = "aht20" THEN 2 ELSE 1

\* The datasheets' times, in ticks, are no longer than the sleeps of the code.
LongEnough == \A c \in Chips : Longest[c] > 0 /\ Spans(Longest[c]) <= SleepFor(c)

-----------------------------------------------------------------------------
\* What the types need beyond TypeOK: what is stored fits as well, a line on stdin has a
\* prompt it answers, a reading has a metric.
KeptTypes ==
  /\ nvs # None => \A f \in Fields : nvs[f].len < Size[f]
  /\ rest = NoRest \/ (rest.line \in Fields /\ rest.left > 0)
  /\ reading = NoReading \/ reading.metric \in Metrics

TypeInv == TypeOK /\ KeptTypes

Answers(c, f) == OwnAnswer(c, f) \/ Overflow(c, f)

\* More than a newline is left of a line that was too long: it has filled the field before.
Overflowing ==
  /\ rest.line < field /\ cfg[field - 1].line = rest.line /\ cfg[field - 1].len = Size[field - 1] - 1
  /\ \E len \in Lines[rest.line] : len >= Size[rest.line] - 1 + (rest.left - 1)

\* The answers so far.
TypedInv ==
  /\ TypedIsStored
  /\ pc \in {"flash", "button", "hold", "erase", "sensors", "load"} => field = 1 /\ rest = NoRest
  /\ pc = "setup" => \A f \in Fields : f < field => Answers(cfg, f)
  /\ pc = "setup" => rest = NoRest \/ rest.left = 1 \/ Overflowing
  /\ pc = "save" => \A f \in Fields : Answers(cfg, f)

\* The sensor does nothing, and holds the value of the last command or of one it ignored.
Resting(c) == chip[c].converting = 0 /\ chip[c].next = 0 /\ chip[c].registers + Behind(c) > asked[c]
\* The sensor converts for the last command, and has for t ticks.
Converting(c, t) ==
  /\ chip[c].converting = asked[c] /\ chip[c].converting > 0 /\ chip[c].next = 0
  /\ chip[c].registers + Behind(c) >= asked[c] /\ chip[c].ticks >= t
\* The sensor was still converting when the last command came, and may end at any time.
Late(c) ==
  /\ chip[c].converting > 0 /\ chip[c].converting + 1 = asked[c]
  /\ chip[c].next = asked[c] \/ (chip[c].next = 0 /\ c = "aht20")
  /\ chip[c].registers + Behind(c) + 1 >= asked[c] /\ chip[c].ticks >= SleepFor(c)

ReadingOf(c) == reading # NoReading /\ ChipOf(reading.metric) = c

ChipInv(c) ==
  \/ Resting(c)
  \/ Converting(c, IF ReadingOf(c) THEN reading.slept ELSE SleepFor(c))
  \/ ReadingOf(c) /\ reading.slept = 0 /\ Late(c)

TimeInv == \A c \in Chips : ChipInv(c)
FreshInv == TimeInv /\ NearlyFresh

-----------------------------------------------------------------------------
USE TimeAssumption, SizeAssumption, LinesAssumption

\* The largest of three numbers.
LEMMA MaxOfThree ==
  ASSUME NEW a \in Nat, NEW b \in Nat, NEW c \in Nat
  PROVE  Max({a, b, c}) \in {a, b, c} /\ Max({a, b, c}) >= a /\ Max({a, b, c}) >= b /\ Max({a, b, c}) >= c
  <1>1. \E x \in {a, b, c} : \A y \in {a, b, c} : x >= y
    <2>1. CASE a >= b /\ a >= c
      BY <2>1
    <2>2. CASE b >= a /\ b >= c
      BY <2>2
    <2>3. CASE c >= a /\ c >= b
      BY <2>3
    <2> QED BY <2>1, <2>2, <2>3
  <1>2. Max({a, b, c}) \in {a, b, c} /\ \A y \in {a, b, c} : Max({a, b, c}) >= y
    BY <1>1, Zenon DEF Max
  <1> QED BY <1>2

\* The smaller of two numbers.
LEMMA MinOfTwo ==
  ASSUME NEW a \in Nat, NEW b \in Nat
  PROVE  Min({a, b}) \in {a, b} /\ Min({a, b}) <= a /\ Min({a, b}) <= b
  <1>1. \E x \in {a, b} : \A y \in {a, b} : x <= y
    <2>1. CASE a <= b
      BY <2>1
    <2>2. CASE b <= a
      BY <2>2
    <2> QED BY <2>1, <2>2
  <1>2. Min({a, b}) \in {a, b} /\ \A y \in {a, b} : Min({a, b}) <= y
    BY <1>1, Zenon DEF Min
  <1> QED BY <1>2

-----------------------------------------------------------------------------
(* The sensors: what their variables do in a step of Boot.                  *)

Registers == [registers : Numbers, converting : Numbers, next : Numbers, ticks : Nat]

SensorTypes == SensorsTypeOK /\ (reading = NoReading \/ reading.metric \in Metrics)

Found ==
  /\ s_sensors' = [bmp280_address |-> bmpAt, initialized |-> TRUE, t_fine |-> 0]
  /\ UNCHANGED <<bmpAt, chip, asked, reading, answer>>

\* A step leaves the sensors alone or is one of theirs.
LEMMA SensorSteps ==
  ASSUME [Next]_vars
  PROVE  \/ UNCHANGED sensorVars \/ SensorsRestart \/ Found \/ Tick \/ EndOfConversion
         \/ \E fails \in BOOLEAN : Fetch(fails) \/ \E metric \in Metrics : StartReading(metric, fails)
  <1>1. CASE FlashInit \/ SampleButton \/ SampleAgain \/ Erase
    BY <1>1 DEF FlashInit, SampleButton, SampleAgain, Erase, Goto, Panic, PowerOn
  <1>2. CASE SensorInit
    BY <1>2 DEF SensorInit, Found, Panic, PowerOn
  <1>3. CASE Load \/ Save \/ Wifi \/ MqttStart
    BY <1>3 DEF Load, Save, Wifi, MqttStart, Goto, Panic, PowerOn
  <1>4. CASE ReadLine \/ ConsoleFails \/ Restart \/ Press \/ Release
    BY <1>4 DEF ReadLine, ConsoleFails, Restart, Press, Release, Goto, PowerOn
  <1>5. CASE Measure
    BY <1>5 DEF Measure
  <1>6. CASE Nature
    BY <1>6 DEF Nature
  <1>7. CASE UNCHANGED vars
    BY <1>7 DEF vars
  <1> QED BY <1>1, <1>2, <1>3, <1>4, <1>5, <1>6, <1>7 DEF Next, Unattended

\* What a command does to the sensor.
LEMMA Commands ==
  ASSUME SensorTypes, NEW c \in Chips, asked[c] < MaxReadings, NEW new \in Command(c)
  PROVE  /\ new \in Registers
         /\ \/ /\ chip[c].converting = 0 /\ new.converting = asked[c] + 1 /\ new.next = chip[c].next
               /\ new.registers = chip[c].registers
            \/ /\ chip[c].converting > 0 /\ new.converting = chip[c].converting
               /\ new.next = asked[c] + 1 \/ (c = "aht20" /\ new.next = chip[c].next)
               /\ new.registers = chip[c].registers /\ new.ticks = chip[c].ticks
  <1>1. chip[c] \in Registers /\ asked[c] + 1 \in Numbers /\ 0 \in Numbers
    BY DEF SensorTypes, SensorsTypeOK, Registers, Numbers
  <1>2. CASE chip[c].converting = 0
    <2>1. new = [chip[c] EXCEPT !.converting = asked[c] + 1, !.ticks = 0]
      BY <1>2 DEF Command
    <2>2. new = [registers |-> chip[c].registers, converting |-> asked[c] + 1, next |-> chip[c].next, ticks |-> 0]
      BY <1>1, <2>1 DEF Registers
    <2> QED BY <1>1, <1>2, <2>2 DEF Registers
  <1>3. CASE chip[c].converting # 0
    <2>1. chip[c].converting > 0
      BY <1>1, <1>3 DEF Registers, Numbers
    <2>2. CASE new = [chip[c] EXCEPT !.next = asked[c] + 1]
      BY <1>1, <2>1, <2>2 DEF Registers
    <2>3. CASE c = "aht20" /\ new = chip[c]
      BY <1>1, <2>1, <2>3
    <2> QED BY <1>3, <2>2, <2>3 DEF Command
  <1> QED BY <1>2, <1>3

\* A conversion that nobody waits for any more ends.
LEMMA SettledDown ==
  ASSUME NEW c \in Registers
  PROVE  /\ Settled(c) \in Registers /\ Settled(c).converting = 0 /\ Settled(c).next = 0
         /\ Settled(c).registers >= c.registers /\ Settled(c).registers >= c.converting
         /\ Settled(c).registers >= c.next
  <1>1. c.registers \in Numbers /\ c.converting \in Numbers /\ c.next \in Numbers /\ 0 \in Numbers
    BY DEF Registers, Numbers
  <1>2. Numbers \subseteq Nat
    BY DEF Numbers
  <1> DEFINE m == Max({c.registers, c.converting, c.next})
  <1>3. m \in Numbers /\ m >= c.registers /\ m >= c.converting /\ m >= c.next
    <2>1. c.registers \in Nat /\ c.converting \in Nat /\ c.next \in Nat
      BY <1>1, <1>2
    <2>2. m \in {c.registers, c.converting, c.next} /\ m >= c.registers /\ m >= c.converting /\ m >= c.next
      BY <2>1, MaxOfThree
    <2> HIDE DEF m
    <2> QED BY <1>1, <2>2
  <1>4. Settled(c) = [registers |-> m, converting |-> 0, next |-> 0, ticks |-> 0]
    BY DEF Settled, ChipOn
  <1> HIDE DEF m
  <1> QED BY <1>1, <1>3, <1>4 DEF Registers

\* What a reading that begins does: the command is given or not, and a reading that fails settles
\* both sensors.
LEMMA Begins ==
  ASSUME SensorTypes, NEW metric \in Metrics, NEW fails \in BOOLEAN, StartReading(metric, fails)
  PROVE  LET c == ChipOf(metric) IN
         /\ c \in Chips /\ reading = NoReading /\ asked[c] < MaxReadings /\ UNCHANGED <<bmpAt, s_sensors>>
         /\ IF fails THEN answer' = ReadError(metric) /\ reading' = NoReading
            ELSE answer' = NoAnswer /\ reading' = [metric |-> metric, slept |-> 0]
         /\ \/ /\ asked' = [asked EXCEPT ![c] = @ + 1]
               /\ \E new \in Command(c) :
                    chip' = IF fails THEN [d \in Chips |-> IF d = c THEN Settled(new) ELSE Settled(chip[d])]
                            ELSE [chip EXCEPT ![c] = new]
            \/ fails /\ UNCHANGED <<asked, chip>>
  <1> DEFINE c == ChipOf(metric)
  <1>1. c \in Chips
    BY DEF ChipOf, Chips
  <1>2. DOMAIN chip = Chips
    BY DEF SensorTypes, SensorsTypeOK
  <1>3. ASSUME NEW new PROVE [d \in Chips |-> Settled([chip EXCEPT ![c] = new][d])]
                             = [d \in Chips |-> IF d = c THEN Settled(new) ELSE Settled(chip[d])]
    BY <1>1, <1>2, Zenon
  <1> QED BY <1>1, <1>3, Zenon DEF StartReading, Answer

\* A tick: whoever sleeps or converts sees it.
LEMMA Ticks ==
  ASSUME SensorTypes, Tick
  PROVE  /\ UNCHANGED <<bmpAt, s_sensors, asked, answer>>
         /\ \A c \in Chips :
              /\ chip'[c] = IF Busy(c) THEN [chip[c] EXCEPT !.ticks = chip[c].ticks + 1] ELSE chip[c]
              /\ Busy(c) => chip[c].ticks < Spans(Longest[c])
         /\ chip' \in [Chips -> Registers]
         /\ reading = NoReading => reading' = NoReading
         /\ reading # NoReading =>
              /\ reading' = [metric |-> reading.metric, slept |-> reading'.slept]
              /\ reading'.slept \in {reading.slept + 1, SleepOf(reading.metric)}
              /\ reading'.slept <= reading.slept + 1
  <1>1. /\ chip \in [Chips -> Registers] /\ reading \in [metric : Metrics \cup {"none"}, slept : Nat]
        /\ reading = NoReading \/ reading.metric \in Metrics
    BY DEF SensorTypes, SensorsTypeOK, Registers
  <1>2. /\ UNCHANGED <<bmpAt, s_sensors, asked, answer>>
        /\ \A c \in Chips : Busy(c) => chip[c].ticks < Spans(Longest[c])
    BY DEF Tick
  <1>3. chip' = [c \in Chips |-> IF Busy(c) THEN [chip[c] EXCEPT !.ticks = chip[c].ticks + 1] ELSE chip[c]]
    BY Zenon DEF Tick
  <1>4. ASSUME NEW c \in Chips PROVE [chip[c] EXCEPT !.ticks = chip[c].ticks + 1] \in Registers
    <2>1. chip[c] \in Registers
      BY <1>1
    <2>2. ASSUME NEW r \in Registers, NEW t \in Nat PROVE [r EXCEPT !.ticks = t] \in Registers
      BY <2>2 DEF Registers
    <2>3. chip[c].ticks + 1 \in Nat
      BY <2>1 DEF Registers
    <2> QED BY <2>1, <2>2, <2>3
  <1>5. chip' \in [Chips -> Registers]
    BY <1>1, <1>3, <1>4
  <1>6. reading = NoReading => reading' = NoReading
    BY DEF Tick
  <1>7. ASSUME reading # NoReading
        PROVE  /\ reading' = [metric |-> reading.metric, slept |-> reading'.slept]
               /\ reading'.slept \in {reading.slept + 1, SleepOf(reading.metric)}
               /\ reading'.slept <= reading.slept + 1
    <2> DEFINE s == Min({reading.slept + 1, SleepOf(reading.metric)})
    <2>1. reading' = [reading EXCEPT !.slept = s]
      BY <1>7, Zenon DEF Tick
    <2>2. SleepOf(reading.metric) \in Nat
      BY DEF SleepOf, Sleep
    <2>3. s \in {reading.slept + 1, SleepOf(reading.metric)} /\ s <= reading.slept + 1
      BY <1>1, <2>2, MinOfTwo
    <2> HIDE DEF s
    <2>4. reading' = [metric |-> reading.metric, slept |-> s]
      BY <1>1, <2>1
    <2> QED BY <2>3, <2>4
  <1> QED BY <1>2, <1>3, <1>5, <1>6, <1>7

\* The types of the sensors, one by one.
LEMMA ReadingTypes ==
  SensorTypes =>
    /\ bmpAt \in Addresses /\ chip \in [Chips -> Registers] /\ asked \in [Chips -> Numbers]
    /\ s_sensors \in [bmp280_address : {0} \cup Addresses, initialized : BOOLEAN, t_fine : Numbers]
    /\ reading = NoReading \/ (reading.metric \in Metrics /\ reading.slept \in Nat)
  BY DEF SensorTypes, SensorsTypeOK, Registers

\* Every step keeps the types of the sensors.
LEMMA SensorTypesKept ==
  ASSUME SensorTypes, [Next]_vars
  PROVE  SensorTypes'
  <1>0. /\ bmpAt \in Addresses /\ chip \in [Chips -> Registers] /\ asked \in [Chips -> Numbers]
        /\ s_sensors \in [bmp280_address : {0} \cup Addresses, initialized : BOOLEAN, t_fine : Numbers]
        /\ reading = NoReading \/ (reading.metric \in Metrics /\ reading.slept \in Nat)
        /\ answer \in [metric : Metrics, of : SUBSET Numbers] \cup {NoAnswer}
    BY ReadingTypes DEF SensorTypes, SensorsTypeOK
  <1>a. 0 \in Numbers /\ ChipOn \in Registers /\ DriverOn \in [bmp280_address : {0} \cup Addresses, initialized : BOOLEAN, t_fine : Numbers]
    BY DEF Numbers, ChipOn, DriverOn, Registers
  <1>b. NoReading.metric = "none" /\ NoReading \in [metric : Metrics \cup {"none"}, slept : Nat]
    BY DEF NoReading
  <1> DEFINE T(ba, ch, ss, as, re, an) ==
               /\ ba \in Addresses /\ ch \in [Chips -> Registers] /\ as \in [Chips -> Numbers]
               /\ ss \in [bmp280_address : {0} \cup Addresses, initialized : BOOLEAN, t_fine : Numbers]
               /\ re = NoReading \/ (re \in [metric : Metrics \cup {"none"}, slept : Nat] /\ re.metric \in Metrics)
               /\ an \in [metric : Metrics, of : SUBSET Numbers] \cup {NoAnswer}
  <1>c. T(bmpAt, chip, s_sensors, asked, reading, answer)
    BY <1>0 DEF SensorTypes, SensorsTypeOK
  <1>d. T(bmpAt', chip', s_sensors', asked', reading', answer') => SensorTypes'
    BY <1>b DEF SensorTypes, SensorsTypeOK, Registers
  <1>1. CASE UNCHANGED sensorVars
    BY <1>1, <1>c, <1>d DEF sensorVars
  <1>2. CASE SensorsRestart
    <2>1. [c \in Chips |-> ChipOn] \in [Chips -> Registers] /\ [c \in Chips |-> 0] \in [Chips -> Numbers]
      BY <1>a
    <2>2. \A c \in Chips : Settled(chip[c]) \in Registers
      BY <1>0, SettledDown
    <2>3. [c \in Chips |-> Settled(chip[c])] \in [Chips -> Registers]
      BY <2>2
    <2> QED BY <1>0, <1>2, <1>a, <1>d, <2>1, <2>3 DEF SensorsRestart
  <1>3. CASE Found
    <2>1. s_sensors' \in [bmp280_address : {0} \cup Addresses, initialized : BOOLEAN, t_fine : Numbers]
      BY <1>0, <1>3, <1>a DEF Found
    <2> QED BY <1>3, <1>c, <1>d, <2>1 DEF Found
  <1>4. CASE Tick
    <2>1. reading # NoReading => /\ reading' \in [metric : Metrics \cup {"none"}, slept : Nat]
                                 /\ reading'.metric \in Metrics
      <3>1. SUFFICES ASSUME reading # NoReading PROVE reading' \in [metric : Metrics, slept : Nat]
        OBVIOUS
      <3>2. reading'.slept \in Nat
        <4>1. SleepOf(reading.metric) \in Nat
          BY DEF SleepOf, Sleep
        <4> QED BY <1>0, <1>4, <3>1, <4>1, Ticks
      <3> QED BY <1>0, <1>4, <3>1, <3>2, Ticks
    <2> QED BY <1>4, <1>c, <1>d, <2>1, Ticks
  <1>5. CASE EndOfConversion
    <2>1. PICK c \in Chips :
            chip' = [chip EXCEPT ![c] = [registers |-> chip[c].converting, converting |-> chip[c].next,
                                         next |-> 0, ticks |-> 0]]
      BY <1>5 DEF EndOfConversion
    <2>2. [registers |-> chip[c].converting, converting |-> chip[c].next, next |-> 0, ticks |-> 0] \in Registers
      BY <1>0, <1>a DEF Registers
    <2>3. chip' \in [Chips -> Registers]
      BY <1>0, <2>1, <2>2
    <2> QED BY <1>5, <1>c, <1>d, <2>3 DEF EndOfConversion
  <1>6. ASSUME NEW fails \in BOOLEAN, Fetch(fails) PROVE SensorTypes'
    <2>1. reading.metric \in Metrics /\ ChipOf(reading.metric) \in Chips
      BY <1>0, <1>6 DEF Fetch, ChipOf, Chips
    <2>2. \A c \in Chips : chip[c].registers \in Numbers /\ TFine(c) \in Numbers
      BY <1>0 DEF TFine, Registers
    <2>3. s_sensors' \in [bmp280_address : {0} \cup Addresses, initialized : BOOLEAN, t_fine : Numbers]
      BY <1>0, <1>6, <2>1, <2>2 DEF Fetch
    <2>4. reading' = NoReading /\ UNCHANGED <<bmpAt, chip, asked>>
      BY <1>6 DEF Fetch, Answer
    <2>5. answer' \in [metric : Metrics, of : SUBSET Numbers]
      <3> DEFINE of == {chip[ChipOf(reading.metric)].registers} \cup
                       (IF ChipOf(reading.metric) = "bmp280" THEN {TFine(ChipOf(reading.metric))} ELSE {})
      <3>1. of \in SUBSET Numbers
        BY <2>1, <2>2
      <3>2. answer' = ReadError(reading.metric) \/ answer' = Value(reading.metric, of)
        BY <1>6, Zenon DEF Fetch, Answer
      <3> HIDE DEF of
      <3> QED BY <2>1, <3>1, <3>2 DEF ReadError, Value
    <2> QED BY <1>c, <1>d, <2>3, <2>4, <2>5
  <1>7. ASSUME NEW fails \in BOOLEAN, NEW metric \in Metrics, StartReading(metric, fails) PROVE SensorTypes'
    <2> DEFINE c == ChipOf(metric)
    <2>1. /\ c \in Chips /\ reading = NoReading /\ asked[c] < MaxReadings /\ UNCHANGED <<bmpAt, s_sensors>>
          /\ IF fails THEN answer' = ReadError(metric) /\ reading' = NoReading
             ELSE answer' = NoAnswer /\ reading' = [metric |-> metric, slept |-> 0]
          /\ \/ /\ asked' = [asked EXCEPT ![c] = @ + 1]
                /\ \E new \in Command(c) :
                     chip' = IF fails THEN [d \in Chips |-> IF d = c THEN Settled(new) ELSE Settled(chip[d])]
                             ELSE [chip EXCEPT ![c] = new]
             \/ fails /\ UNCHANGED <<asked, chip>>
      BY <1>7, Begins
    <2> HIDE DEF c
    <2>2. /\ reading' = NoReading \/ (reading' \in [metric : Metrics \cup {"none"}, slept : Nat] /\ reading'.metric \in Metrics)
          /\ answer' \in [metric : Metrics, of : SUBSET Numbers] \cup {NoAnswer}
      BY <2>1 DEF ReadError
    <2>3. asked' \in [Chips -> Numbers]
      <3>1. asked[c] + 1 \in Numbers
        BY <1>0, <2>1 DEF Numbers
      <3> QED BY <1>0, <2>1, <3>1
    <2>4. \A d \in Chips : Settled(chip[d]) \in Registers
      BY <1>0, SettledDown
    <2>5. \A new \in Command(c) : new \in Registers /\ Settled(new) \in Registers
      BY <2>1, Commands, SettledDown
    <2>6. chip' \in [Chips -> Registers]
      <3>1. CASE UNCHANGED chip
        BY <1>0, <3>1
      <3>2. ASSUME NEW new \in Command(c), chip' = [chip EXCEPT ![c] = new] PROVE chip' \in [Chips -> Registers]
        BY <1>0, <2>1, <2>5, <3>2
      <3>3. ASSUME NEW new \in Command(c),
                   chip' = [d \in Chips |-> IF d = c THEN Settled(new) ELSE Settled(chip[d])]
            PROVE  chip' \in [Chips -> Registers]
        <4>1. \A d \in Chips : (IF d = c THEN Settled(new) ELSE Settled(chip[d])) \in Registers
          BY <2>4, <2>5
        <4> QED BY <3>3, <4>1
      <3> QED BY <2>1, <3>1, <3>2, <3>3
    <2> QED BY <1>c, <1>d, <2>1, <2>2, <2>3, <2>6
  <1> QED BY <1>1, <1>2, <1>3, <1>4, <1>5, <1>6, <1>7, SensorSteps

-----------------------------------------------------------------------------
(* How far behind a value may be.                                            *)

\* The facts the steps need of a sensor.
LEMMA ChipNumbers ==
  ASSUME SensorTypes, NEW c \in Chips
  PROVE  /\ chip[c].registers \in Nat /\ chip[c].converting \in Nat /\ chip[c].next \in Nat /\ chip[c].ticks \in Nat
         /\ asked[c] \in Nat /\ Behind(c) \in {1, 2} /\ SleepFor(c) \in Nat
  BY ReadingTypes DEF Registers, Numbers, Behind, SleepFor, Sleep

\* The sleep of a reading is at least a tick.
LEMMA SleepsATick ==
  ASSUME LongEnough, NEW c \in Chips
  PROVE  SleepFor(c) \in Nat /\ SleepFor(c) >= 1 /\ Spans(Longest[c]) \in Nat /\ Spans(Longest[c]) <= SleepFor(c)
  <1>1. Longest[c] \in Nat /\ Longest[c] > 0 /\ Spans(Longest[c]) <= SleepFor(c)
    BY DEF LongEnough
  <1>2. Longest[c] * Hz \in Nat /\ Longest[c] * Hz >= 1
    <2>1. ASSUME NEW a \in Nat, NEW b \in Nat, a > 0, b > 0 PROVE a * b \in Nat /\ a * b >= 1
      BY <2>1
    <2> QED BY <1>1, <2>1
  <1>3. Spans(Longest[c]) \in Nat /\ Spans(Longest[c]) >= 1
    <2>1. ASSUME NEW n \in Nat, n >= 1 PROVE (n + 999) \div 1000 \in Nat /\ (n + 999) \div 1000 >= 1
      BY <2>1
    <2> QED BY <1>2, <2>1 DEF Spans
  <1>4. SleepFor(c) \in Nat
    BY DEF SleepFor, Sleep
  <1> QED BY <1>1, <1>3, <1>4

\* When a conversion ends for good, the registers hold the value of the last command, or of the one before
\* it if the sensor ignored the last.
LEMMA SettledRests ==
  ASSUME SensorTypes, NEW c \in Chips, ChipInv(c)
  PROVE  Settled(chip[c]).registers + Behind(c) > asked[c]
  <1> DEFINE s == Settled(chip[c]).registers
  <1>1. /\ s \in Nat /\ s >= chip[c].registers /\ s >= chip[c].converting /\ s >= chip[c].next
    <2>1. chip[c] \in Registers
      BY ReadingTypes
    <2> QED BY <2>1, SettledDown DEF Registers, Numbers
  <1>0. SUFFICES s + Behind(c) > asked[c]
    OBVIOUS
  <1> HIDE DEF s
  <1>2. /\ chip[c].registers \in Nat /\ chip[c].converting \in Nat /\ chip[c].next \in Nat
        /\ asked[c] \in Nat /\ Behind(c) \in {1, 2}
    BY ChipNumbers
  <1>3. CASE Resting(c)
    BY <1>1, <1>2, <1>3 DEF Resting
  <1>4. CASE \E t \in Nat : Converting(c, t)
    BY <1>1, <1>2, <1>4 DEF Converting
  <1>5. CASE Late(c)
    <2>1. CASE chip[c].next = asked[c]
      BY <1>1, <1>2, <2>1
    <2>2. CASE chip[c].next = 0 /\ c = "aht20"
      <3>1. Behind(c) = 2 /\ chip[c].converting + 1 = asked[c]
        BY <1>5, <2>2 DEF Behind, Late
      <3> QED BY <1>1, <1>2, <3>1
    <2> QED BY <1>5, <2>1, <2>2 DEF Late
  <1>6. Converting(c, IF ReadingOf(c) THEN reading.slept ELSE SleepFor(c)) => \E t \in Nat : Converting(c, t)
    <2>1. ReadingOf(c) => reading.slept \in Nat
      BY ReadingTypes DEF ReadingOf
    <2>2. SleepFor(c) \in Nat
      BY ChipNumbers
    <2> QED BY <2>1, <2>2
  <1> QED BY <1>3, <1>4, <1>5, <1>6 DEF ChipInv

\* A reading that begins, for the sensor it reads.
LEMMA BeginsKeeps ==
  ASSUME LongEnough, SensorTypes, NEW c \in Chips, ChipInv(c), reading = NoReading, asked[c] < MaxReadings,
         NEW new \in Command(c)
  PROVE  /\ Settled(new).converting = 0 /\ Settled(new).next = 0
         /\ Settled(new).registers + Behind(c) > asked[c] + 1
         /\ \/ /\ new.converting = asked[c] + 1 /\ new.next = 0
               /\ new.registers + Behind(c) >= asked[c] + 1
            \/ /\ new.converting > 0 /\ new.converting = asked[c]
               /\ new.next = asked[c] + 1 \/ (new.next = 0 /\ c = "aht20")
               /\ new.registers + Behind(c) >= asked[c] /\ new.ticks >= SleepFor(c)
  <1>1. /\ chip[c].registers \in Nat /\ chip[c].converting \in Nat /\ chip[c].next \in Nat /\ chip[c].ticks \in Nat
        /\ asked[c] \in Nat /\ Behind(c) \in {1, 2} /\ SleepFor(c) \in Nat
    BY ChipNumbers
  <1>2. Resting(c) \/ Converting(c, SleepFor(c))
    BY DEF ChipInv, ReadingOf
  <1>3. /\ new \in Registers
        /\ \/ /\ chip[c].converting = 0 /\ new.converting = asked[c] + 1 /\ new.next = chip[c].next
              /\ new.registers = chip[c].registers
           \/ /\ chip[c].converting > 0 /\ new.converting = chip[c].converting
              /\ new.next = asked[c] + 1 \/ (c = "aht20" /\ new.next = chip[c].next)
              /\ new.registers = chip[c].registers /\ new.ticks = chip[c].ticks
    BY Commands
  <1>4. /\ Settled(new).converting = 0 /\ Settled(new).next = 0 /\ Settled(new).registers \in Nat
        /\ Settled(new).registers >= new.registers /\ Settled(new).registers >= new.converting
        /\ Settled(new).registers >= new.next
    BY <1>3, SettledDown DEF Registers, Numbers
  <1>5. CASE Resting(c)
    <2>1. /\ new.converting = asked[c] + 1 /\ new.next = 0 /\ new.registers = chip[c].registers
          /\ chip[c].registers + Behind(c) > asked[c]
      BY <1>1, <1>3, <1>5 DEF Resting
    <2>2. Settled(new).registers + Behind(c) > asked[c] + 1 /\ new.registers + Behind(c) >= asked[c] + 1
      <3>1. Settled(new).registers >= asked[c] + 1
        BY <1>4, <2>1
      <3>2. Behind(c) >= 1 /\ chip[c].registers + Behind(c) >= asked[c] + 1
        <4>1. ASSUME NEW r \in Nat, NEW b \in {1, 2}, NEW a \in Nat, r + b > a PROVE b >= 1 /\ r + b >= a + 1
          BY <4>1
        <4> QED BY <1>1, <2>1, <4>1
      <3> QED BY <1>1, <1>4, <2>1, <3>1, <3>2
    <2> QED BY <1>4, <2>1, <2>2
  <1>6. CASE Converting(c, SleepFor(c))
    <2>1. /\ new.converting > 0 /\ new.converting = asked[c]
          /\ new.next = asked[c] + 1 \/ (new.next = 0 /\ c = "aht20")
          /\ new.registers + Behind(c) >= asked[c] /\ new.ticks >= SleepFor(c)
      BY <1>1, <1>3, <1>6 DEF Converting
    <2>2. Settled(new).registers + Behind(c) > asked[c] + 1
      <3>1. CASE new.next = asked[c] + 1
        BY <1>1, <1>4, <3>1
      <3>2. CASE c = "aht20"
        <4>1. Behind(c) = 2
          BY <3>2 DEF Behind
        <4> QED BY <1>1, <1>4, <2>1, <4>1
      <3> QED BY <2>1, <3>1, <3>2
    <2> QED BY <1>4, <2>1, <2>2
  <1> QED BY <1>2, <1>5, <1>6

\* A sensor of which nothing changes but that its reading ends.
LEMMA Undisturbed ==
  ASSUME SensorTypes, NEW c \in Chips, ChipInv(c), chip'[c] = chip[c], asked'[c] = asked[c],
         reading' = NoReading \/ (ReadingOf(c)' <=> ReadingOf(c)),
         ReadingOf(c) => reading' = reading \/ (reading' = NoReading /\ reading.slept = SleepFor(c) /\ SleepFor(c) >= 1)
  PROVE  ChipInv(c)'
  <1> DEFINE t == IF ReadingOf(c) THEN reading.slept ELSE SleepFor(c)
  <1>1. Resting(c) => Resting(c)'
    BY DEF Resting, Behind
  <1>2. ASSUME NEW n PROVE Converting(c, n) => Converting(c, n)'
    BY DEF Converting, Behind
  <1>3. Late(c) => Late(c)'
    BY DEF Late, Behind, SleepFor
  <1>4. CASE ~ ReadingOf(c)
    <2>1. ~ ReadingOf(c)'
      BY <1>4 DEF ReadingOf
    <2> QED BY <1>1, <1>2, <1>4, <2>1 DEF ChipInv, SleepFor
  <1>5. CASE ReadingOf(c) /\ reading' = reading
    <2>1. ReadingOf(c)' /\ reading'.slept = reading.slept
      BY <1>5 DEF ReadingOf
    <2> QED BY <1>1, <1>2, <1>3, <1>5, <2>1 DEF ChipInv
  <1>6. CASE ReadingOf(c) /\ reading' = NoReading /\ reading.slept = SleepFor(c) /\ SleepFor(c) >= 1
    <2>1. ~ ReadingOf(c)' /\ reading.slept # 0
      BY <1>6 DEF ReadingOf
    <2>2. Resting(c) \/ Converting(c, SleepFor(c))
      BY <1>6, <2>1 DEF ChipInv
    <2> QED BY <1>1, <1>2, <2>1, <2>2 DEF ChipInv, SleepFor
  <1> QED BY <1>4, <1>5, <1>6

\* A tick: a sensor that converts has converted for as long as its reading sleeps.
LEMMA TickKeeps ==
  ASSUME LongEnough, SensorTypes, Tick, NEW c \in Chips, ChipInv(c)
  PROVE  ChipInv(c)'
  <1>1. /\ chip[c].registers \in Nat /\ chip[c].converting \in Nat /\ chip[c].next \in Nat /\ chip[c].ticks \in Nat
        /\ asked[c] \in Nat /\ Behind(c) \in {1, 2} /\ SleepFor(c) \in Nat /\ SleepFor(c) >= 1
        /\ chip[c] \in Registers
    BY ChipNumbers, SleepsATick, ReadingTypes
  <1>2. /\ asked' = asked
        /\ chip'[c] = IF Busy(c) THEN [chip[c] EXCEPT !.ticks = chip[c].ticks + 1] ELSE chip[c]
        /\ Busy(c) => chip[c].ticks < SleepFor(c)
    BY <1>1, Ticks, SleepsATick
  <1>3. ReadingOf(c) => /\ ReadingOf(c)' /\ reading.slept \in Nat
                        /\ reading'.slept \in {reading.slept + 1, SleepFor(c)} /\ reading'.slept <= reading.slept + 1
    <2>1. SUFFICES ASSUME reading # NoReading, ChipOf(reading.metric) = c
                   PROVE  /\ ReadingOf(c)' /\ reading.slept \in Nat
                          /\ reading'.slept \in {reading.slept + 1, SleepFor(c)}
                          /\ reading'.slept <= reading.slept + 1
      BY DEF ReadingOf
    <2>2. SleepOf(reading.metric) = SleepFor(c)
      BY <2>1 DEF SleepOf, SleepFor
    <2>3. reading.metric \in Metrics /\ reading.slept \in Nat
      BY <2>1, ReadingTypes
    <2>4. reading'.metric = reading.metric
      BY <2>1, Ticks
    <2>5. reading' # NoReading
      BY <2>3, <2>4 DEF NoReading, Metrics
    <2> QED BY <2>1, <2>2, <2>3, <2>4, <2>5, Ticks DEF ReadingOf
  <1>4. ~ ReadingOf(c) => ~ ReadingOf(c)'
    <2>1. CASE reading = NoReading
      BY <2>1, Ticks DEF ReadingOf
    <2>2. CASE reading # NoReading
      <3>1. reading'.metric = reading.metric
        BY <2>2, Ticks
      <3> QED BY <2>2, <3>1 DEF ReadingOf
    <2> QED BY <2>1, <2>2
  <1>5. CASE Resting(c)
    <2>1. chip'[c] = chip[c]
      BY <1>2, <1>5 DEF Resting, Busy
    <2> QED BY <1>2, <1>5, <2>1 DEF ChipInv, Resting, Behind
  <1>6. CASE ~ Resting(c)
    <2>0. Busy(c)
      BY <1>6 DEF ChipInv, Converting, Late, Busy
    <2>1. /\ chip'[c].registers = chip[c].registers /\ chip'[c].converting = chip[c].converting
          /\ chip'[c].next = chip[c].next /\ chip'[c].ticks = chip[c].ticks + 1 /\ chip[c].ticks < SleepFor(c)
      BY <1>1, <1>2, <2>0 DEF Registers
    <2>2. ReadingOf(c) /\ Converting(c, reading.slept)
      BY <1>1, <1>6, <2>1 DEF ChipInv, Converting, Late
    <2>3. reading'.slept <= chip[c].ticks + 1
      BY <1>1, <1>3, <2>2 DEF Converting
    <2>4. Converting(c, reading.slept)' /\ ReadingOf(c)'
      BY <1>2, <1>3, <2>1, <2>2, <2>3 DEF Converting, Behind
    <2> QED BY <2>4 DEF ChipInv
  <1> QED BY <1>5, <1>6

\* A conversion that ends leaves the value of the last command, or of the one before it.
LEMMA EndKeeps ==
  ASSUME LongEnough, SensorTypes, EndOfConversion, TimeInv
  PROVE  TimeInv'
  <1>1. PICK e \in Chips :
          /\ Busy(e)
          /\ chip' = [chip EXCEPT ![e] = [registers |-> chip[e].converting, converting |-> chip[e].next,
                                          next |-> 0, ticks |-> 0]]
    BY DEF EndOfConversion
  <1>2. UNCHANGED <<asked, reading>>
    BY DEF EndOfConversion
  <1>3. DOMAIN chip = Chips
    BY ReadingTypes
  <1>4. ASSUME NEW c \in Chips, c # e PROVE ChipInv(c)'
    <2>1. chip'[c] = chip[c] /\ (ReadingOf(c)' <=> ReadingOf(c))
      BY <1>1, <1>2, <1>3, <1>4 DEF ReadingOf
    <2> QED BY <1>2, <2>1, Undisturbed DEF TimeInv
  <1>5. ChipInv(e)'
    <2>1. /\ chip[e].registers \in Nat /\ chip[e].converting \in Nat /\ chip[e].next \in Nat
          /\ asked[e] \in Nat /\ Behind(e) \in {1, 2} /\ chip[e].converting > 0
      BY <1>1, ChipNumbers DEF Busy
    <2>2. /\ chip'[e].registers = chip[e].converting /\ chip'[e].converting = chip[e].next
          /\ chip'[e].next = 0 /\ chip'[e].ticks = 0 /\ asked'[e] = asked[e]
      BY <1>1, <1>2, <1>3
    <2>3. CASE \E t \in Nat : Converting(e, t)
      <3>1. chip[e].converting = asked[e] /\ chip[e].next = 0
        BY <2>3 DEF Converting
      <3>2. asked[e] + Behind(e) > asked[e]
        BY <2>1
      <3>3. Resting(e)'
        BY <2>2, <3>1, <3>2 DEF Resting, Behind
      <3> QED BY <3>3 DEF ChipInv
    <2>4. CASE ReadingOf(e) /\ reading.slept = 0 /\ Late(e)
      <3>1. chip[e].converting + 1 = asked[e] /\ (chip[e].next = asked[e] \/ (chip[e].next = 0 /\ e = "aht20"))
        BY <2>4 DEF Late
      <3>2. CASE chip[e].next = asked[e]
        <4>1. chip[e].converting + Behind(e) >= asked[e] /\ asked[e] > 0
          BY <2>1, <3>1
        <4>2. Converting(e, 0)'
          BY <2>2, <3>2, <4>1 DEF Converting, Behind
        <4>3. ReadingOf(e)' /\ reading'.slept = 0
          BY <1>2, <2>4 DEF ReadingOf
        <4> QED BY <4>2, <4>3 DEF ChipInv
      <3>3. CASE chip[e].next = 0 /\ e = "aht20"
        <4>1. Behind(e) = 2
          BY <3>3 DEF Behind
        <4>2. chip[e].converting + Behind(e) > asked[e]
          BY <2>1, <3>1, <4>1
        <4>3. Resting(e)'
          BY <2>2, <3>3, <4>2 DEF Resting, Behind
        <4> QED BY <4>3 DEF ChipInv
      <3> QED BY <3>1, <3>2, <3>3
    <2>5. Converting(e, IF ReadingOf(e) THEN reading.slept ELSE SleepFor(e)) => \E t \in Nat : Converting(e, t)
      <3>1. ReadingOf(e) => reading.slept \in Nat
        BY ReadingTypes DEF ReadingOf
      <3>2. SleepFor(e) \in Nat
        BY ChipNumbers
      <3> QED BY <3>1, <3>2
    <2>6. ~ Resting(e)
      BY <2>1 DEF Resting
    <2> QED BY <2>3, <2>4, <2>5, <2>6 DEF TimeInv, ChipInv
  <1> QED BY <1>4, <1>5 DEF TimeInv

\* A reading that begins: its sensor converts for it, or is late.
LEMMA BeginKeeps ==
  ASSUME LongEnough, SensorTypes, TimeInv, NEW metric \in Metrics, NEW fails \in BOOLEAN, StartReading(metric, fails)
  PROVE  TimeInv'
  <1> DEFINE c == ChipOf(metric)
  <1>1. /\ c \in Chips /\ reading = NoReading /\ asked[c] < MaxReadings
        /\ IF fails THEN answer' = ReadError(metric) /\ reading' = NoReading
           ELSE answer' = NoAnswer /\ reading' = [metric |-> metric, slept |-> 0]
        /\ \/ /\ asked' = [asked EXCEPT ![c] = @ + 1]
              /\ \E new \in Command(c) :
                   chip' = IF fails THEN [d \in Chips |-> IF d = c THEN Settled(new) ELSE Settled(chip[d])]
                           ELSE [chip EXCEPT ![c] = new]
           \/ fails /\ UNCHANGED <<asked, chip>>
    BY Begins
  <1>2. ~ fails => /\ reading'.slept = 0 /\ ReadingOf(c)' /\ \A d \in Chips : d # c => ~ ReadingOf(d)'
    <2>1. metric # "none"
      BY DEF Metrics
    <2> QED BY <1>1, <2>1 DEF ReadingOf, NoReading
  <1>3. fails => \A d \in Chips : ~ ReadingOf(d)'
    BY <1>1 DEF ReadingOf
  <1>4. \A d \in Chips : ~ ReadingOf(d)
    BY <1>1 DEF ReadingOf
  <1> HIDE DEF c
  <1>5. CASE fails /\ UNCHANGED <<asked, chip>>
    BY <1>1, <1>5, Undisturbed DEF TimeInv
  <1>6. ASSUME asked' = [asked EXCEPT ![c] = @ + 1], NEW new \in Command(c),
               chip' = IF fails THEN [d \in Chips |-> IF d = c THEN Settled(new) ELSE Settled(chip[d])]
                       ELSE [chip EXCEPT ![c] = new]
        PROVE  TimeInv'
    <2>0. DOMAIN chip = Chips /\ DOMAIN asked = Chips
      BY ReadingTypes
    <2>1. /\ Settled(new).converting = 0 /\ Settled(new).next = 0
          /\ Settled(new).registers + Behind(c) > asked[c] + 1
          /\ \/ /\ new.converting = asked[c] + 1 /\ new.next = 0
                /\ new.registers + Behind(c) >= asked[c] + 1
             \/ /\ new.converting > 0 /\ new.converting = asked[c]
                /\ new.next = asked[c] + 1 \/ (new.next = 0 /\ c = "aht20")
                /\ new.registers + Behind(c) >= asked[c] /\ new.ticks >= SleepFor(c)
      BY <1>1, BeginsKeeps DEF TimeInv
    <2>2. asked'[c] = asked[c] + 1 /\ \A d \in Chips : d # c => asked'[d] = asked[d]
      BY <1>1, <1>6, <2>0
    <2>3. CASE fails
      <3>1. chip' = [d \in Chips |-> IF d = c THEN Settled(new) ELSE Settled(chip[d])]
        BY <1>6, <2>3
      <3>2. Resting(c)'
        BY <1>1, <2>1, <2>2, <3>1 DEF Resting, Behind
      <3>3. ASSUME NEW d \in Chips, d # c PROVE Resting(d)'
        <4>1. /\ Settled(chip[d]).converting = 0 /\ Settled(chip[d]).next = 0
              /\ Settled(chip[d]).registers + Behind(d) > asked[d]
          BY ReadingTypes, SettledDown, SettledRests DEF TimeInv
        <4> QED BY <2>2, <3>1, <3>3, <4>1 DEF Resting, Behind
      <3> QED BY <3>2, <3>3 DEF TimeInv, ChipInv
    <2>4. CASE ~ fails
      <3>1. chip'[c] = new /\ \A d \in Chips : d # c => chip'[d] = chip[d]
        BY <1>1, <1>6, <2>0, <2>4
      <3>2. ASSUME NEW d \in Chips, d # c PROVE ChipInv(d)'
        <4>1. ReadingOf(d)' <=> ReadingOf(d)
          BY <1>2, <1>4, <2>4, <3>2
        <4>2. chip'[d] = chip[d] /\ asked'[d] = asked[d] /\ ~ ReadingOf(d) /\ ChipInv(d)
          BY <1>4, <2>2, <3>1, <3>2 DEF TimeInv
        <4> QED BY <4>1, <4>2, Undisturbed
      <3>3. ChipInv(c)'
        <4>0. /\ asked[c] \in Nat /\ Behind(c) \in {1, 2} /\ new.registers \in Nat /\ new.ticks \in Nat
          BY <1>1, ChipNumbers, Commands DEF Registers, Numbers
        <4>1. CASE /\ new.converting = asked[c] + 1 /\ new.next = 0
                   /\ new.registers + Behind(c) >= asked[c] + 1
          <5>1. asked[c] + 1 > 0 /\ new.ticks >= 0
            BY <4>0
          <5>2. Converting(c, 0)'
            BY <2>2, <3>1, <4>1, <5>1 DEF Converting, Behind
          <5> QED BY <1>2, <2>4, <5>2 DEF ChipInv
        <4>2. CASE /\ new.converting > 0 /\ new.converting = asked[c]
                   /\ new.next = asked[c] + 1 \/ (new.next = 0 /\ c = "aht20")
                   /\ new.registers + Behind(c) >= asked[c] /\ new.ticks >= SleepFor(c)
          <5>1. new.registers + Behind(c) + 1 >= asked[c] + 1
            BY <4>0, <4>2
          <5>2. Late(c)'
            BY <2>2, <3>1, <4>2, <5>1 DEF Late, Behind, SleepFor
          <5> QED BY <1>2, <2>4, <5>2 DEF ChipInv
        <4> QED BY <2>1, <4>1, <4>2
      <3> QED BY <1>1, <3>2, <3>3 DEF TimeInv
    <2> QED BY <2>3, <2>4
  <1> QED BY <1>1, <1>5, <1>6

\* A fetch finds the value of the last command or of one or two before it.
LEMMA FetchKeeps ==
  ASSUME LongEnough, SensorTypes, TimeInv, NEW fails \in BOOLEAN, Fetch(fails)
  PROVE  TimeInv' /\ NearlyFresh'
  <1> DEFINE c == ChipOf(reading.metric)
  <1>1. reading # NoReading /\ reading.metric \in Metrics /\ c \in Chips
    BY ReadingTypes DEF Fetch, ChipOf, Chips
  <1>2. ReadingOf(c) /\ \A d \in Chips : d # c => ~ ReadingOf(d)
    BY <1>1 DEF ReadingOf
  <1>3. reading.slept = SleepFor(c) /\ SleepFor(c) >= 1
    BY <1>1, SleepsATick DEF Fetch, SleepOf, SleepFor
  <1>4. reading' = NoReading /\ UNCHANGED <<chip, asked>>
    BY DEF Fetch, Answer
  <1>5. \A d \in Chips : ChipInv(d)'
    BY <1>2, <1>3, <1>4, Undisturbed DEF TimeInv
  <1>6. \/ answer' = ReadError(reading.metric)
        \/ answer' = Value(reading.metric, {chip[c].registers} \cup (IF c = "bmp280" THEN {TFine(c)} ELSE {}))
    BY DEF Fetch, Answer
  <1>7. {chip[c].registers} \cup (IF c = "bmp280" THEN {TFine(c)} ELSE {}) = {chip[c].registers}
    BY DEF TFine
  <1>8. chip[c].registers + Behind(c) >= asked[c] /\ chip[c].registers \in Numbers
    <2>1. Resting(c) \/ Converting(c, SleepFor(c))
      <3>1. ~ (reading.slept = 0)
        BY <1>1, <1>3, ReadingTypes
      <3> QED BY <1>1, <1>2, <1>3, <3>1 DEF TimeInv, ChipInv
    <2>2. chip[c].registers + Behind(c) >= asked[c]
      <3>1. chip[c].registers \in Nat /\ asked[c] \in Nat /\ Behind(c) \in {1, 2}
        BY <1>1, ChipNumbers
      <3>2. CASE Resting(c)
        <4>1. chip[c].registers + Behind(c) > asked[c]
          BY <3>2 DEF Resting
        <4> QED BY <3>1, <4>1
      <3> QED BY <2>1, <3>2 DEF Converting
    <2>3. chip[c].registers \in Numbers
      BY <1>1, ReadingTypes DEF Registers
    <2> QED BY <2>2, <2>3
  <1>9. NearlyFresh'
    <2>1. CASE answer' = ReadError(reading.metric)
      BY <2>1 DEF NearlyFresh, Answered, ReadError
    <2>2. CASE answer' = Value(reading.metric, {chip[c].registers})
      <3>1. answer'.metric = reading.metric /\ answer'.of = {chip[c].registers} /\ ChipOf(answer'.metric) = c
        BY <2>2 DEF Value
      <3>2. chip[c].registers + (IF c = "aht20" THEN 2 ELSE 1) >= asked'[c]
        BY <1>4, <1>8 DEF Behind
      <3> HIDE DEF c
      <3>3. \E n \in Numbers : answer'.of = {n} /\ n + (IF c = "aht20" THEN 2 ELSE 1) >= asked'[c]
        BY <1>8, <3>1, <3>2
      <3> QED BY <3>1, <3>3, Zenon DEF NearlyFresh
    <2> QED BY <1>6, <1>7, <2>1, <2>2
  <1> QED BY <1>5, <1>9 DEF TimeInv

\* Every step keeps the sensors in time.
LEMMA FreshKept ==
  ASSUME LongEnough, SensorTypes, FreshInv, [Next]_vars
  PROVE  FreshInv'
  <1> USE DEF FreshInv
  <1>0. DOMAIN chip = Chips /\ chip \in [Chips -> Registers]
    BY ReadingTypes
  <1>1. ASSUME UNCHANGED <<asked, answer>> PROVE NearlyFresh'
    BY <1>1 DEF NearlyFresh, Answered
  <1>2. ASSUME answer' = NoAnswer \/ \E metric \in Metrics : answer' = ReadError(metric) PROVE NearlyFresh'
    BY <1>2 DEF NearlyFresh, Answered, NoAnswer, ReadError
  <1>3. CASE UNCHANGED sensorVars \/ Found
    <2>1. UNCHANGED <<chip, asked, reading, answer>>
      BY <1>3 DEF sensorVars, Found
    <2>2. \A c \in Chips : ReadingOf(c)' <=> ReadingOf(c)
      BY <2>1 DEF ReadingOf
    <2> QED BY <1>1, <2>1, <2>2, Undisturbed DEF TimeInv
  <1>4. CASE SensorsRestart
    <2>1. reading' = NoReading /\ answer' = NoAnswer
      BY <1>4 DEF SensorsRestart
    <2>2. ASSUME NEW c \in Chips PROVE Resting(c)'
      <3>1. CASE chip' = [d \in Chips |-> ChipOn] /\ asked' = [d \in Chips |-> 0]
        BY <3>1 DEF Resting, ChipOn, Behind
      <3>2. CASE chip' = [d \in Chips |-> Settled(chip[d])] /\ UNCHANGED asked
        <4>1. /\ Settled(chip[c]).converting = 0 /\ Settled(chip[c]).next = 0
              /\ Settled(chip[c]).registers + Behind(c) > asked[c]
          BY <1>0, SettledDown, SettledRests DEF TimeInv
        <4> QED BY <3>2, <4>1 DEF Resting, Behind
      <3> QED BY <1>4, <3>1, <3>2 DEF SensorsRestart
    <2> QED BY <1>2, <2>1, <2>2 DEF TimeInv, ChipInv
  <1>5. CASE Tick
    BY <1>1, <1>5, TickKeeps, Ticks DEF TimeInv
  <1>6. CASE EndOfConversion
    <2>1. UNCHANGED <<asked, answer>>
      BY <1>6 DEF EndOfConversion
    <2> QED BY <1>1, <1>6, <2>1, EndKeeps
  <1>7. ASSUME NEW fails \in BOOLEAN, Fetch(fails) PROVE FreshInv'
    BY <1>7, FetchKeeps
  <1>8. ASSUME NEW fails \in BOOLEAN, NEW metric \in Metrics, StartReading(metric, fails) PROVE FreshInv'
    <2>1. answer' = NoAnswer \/ answer' = ReadError(metric)
      BY <1>8, Begins
    <2> QED BY <1>2, <1>8, <2>1, BeginKeeps
  <1> QED BY <1>3, <1>4, <1>5, <1>6, <1>7, <1>8, SensorSteps

-----------------------------------------------------------------------------
(* The settings: types, what is stored, what is run.                         *)

BootTypes ==
  /\ cfg \in [Fields -> Texts] /\ (nvs = None \/ nvs \in [Fields -> Texts])
  /\ \A f \in Fields : cfg[f].len < Size[f]
  /\ nvs # None => \A f \in Fields : nvs[f].len < Size[f]
  /\ pc \in Pcs /\ field \in Fields
  /\ rest \in [line : Fields \cup {0}, left : Nat]
  /\ rest = NoRest \/ (rest.line \in Fields /\ rest.left > 0)
  /\ button \in {"up", "down"} /\ faults \in 0 .. MaxFaults

\* The places and the sizes of the fields.
LEMMA FieldFacts ==
  /\ Len(Size) \in Nat /\ 1 \in Fields /\ 0 \notin Fields /\ \A f \in Fields : f \in Nat /\ Size[f] \in Nat /\ Size[f] >= 2
  /\ \A f \in Fields : f = Len(Size) \/ f + 1 \in Fields
  /\ Empty \in Texts /\ Empty.len = 0
  <1>1. Len(Size) \in Nat /\ Len(Size) > 0 /\ \A f \in 1 .. Len(Size) : Size[f] \in Nat \ {0, 1}
    OBVIOUS
  <1>2. 1 \in Fields /\ 0 \notin Fields /\ \A f \in Fields : f \in Nat /\ Size[f] \in Nat /\ Size[f] >= 2
    BY <1>1 DEF Fields
  <1>3. \A f \in Fields : f = Len(Size) \/ f + 1 \in Fields
    BY <1>1 DEF Fields
  <1> QED BY <1>1, <1>2, <1>3 DEF Texts, Empty

\* What fgets and trim_newline make of a line.
LEMMA FgetsTakes ==
  ASSUME field \in Fields, NEW line \in [line : Fields, left : Nat], line.left > 0, Fgets(line),
         cfg \in [Fields -> Texts]
  PROVE  \E text \in Nat :
           /\ text < Size[field] /\ text < line.left
           /\ \/ /\ rest' = NoRest /\ text = line.left - 1 /\ line.left < Size[field]
              \/ /\ text = Size[field] - 1 /\ text < line.left
                 /\ rest' = [line |-> line.line, left |-> line.left - text]
           /\ cfg' = [cfg EXCEPT ![field] = IF text = 0 THEN Empty ELSE [line |-> line.line, len |-> text]]
           /\ \/ text = 0 /\ UNCHANGED <<field, pc>>
              \/ text > 0 /\ field = Len(Size) /\ pc' = "save" /\ UNCHANGED field
              \/ text > 0 /\ field # Len(Size) /\ field' = field + 1 /\ UNCHANGED pc
  <1> DEFINE n == Min({line.left, Size[field] - 1})
             text == IF n = line.left THEN n - 1 ELSE n
  <1>1. line.left \in Nat /\ Size[field] \in Nat /\ Size[field] >= 2 /\ Size[field] - 1 \in Nat
    BY FieldFacts
  <1>2. n \in {line.left, Size[field] - 1} /\ n <= line.left /\ n <= Size[field] - 1
    BY <1>1, MinOfTwo
  <1>3. /\ rest' = IF n = line.left THEN NoRest ELSE [line EXCEPT !.left = @ - n]
        /\ cfg' = [cfg EXCEPT ![field] = IF text = 0 THEN Empty ELSE [line |-> line.line, len |-> text]]
        /\ IF ~ Acceptable(text) THEN UNCHANGED <<field, pc>>
           ELSE IF LastField THEN pc' = "save" /\ UNCHANGED field
           ELSE field' = field + 1 /\ UNCHANGED pc
    BY Zenon DEF Fgets
  <1> HIDE DEF n
  <1>4. text \in Nat /\ text < Size[field] /\ text < line.left
    <2>1. CASE n = line.left
      BY <1>1, <1>2, <2>1
    <2>2. CASE n # line.left
      BY <1>1, <1>2, <2>2
    <2> QED BY <2>1, <2>2
  <1>5. \/ /\ rest' = NoRest /\ text = line.left - 1 /\ line.left < Size[field]
        \/ /\ text = Size[field] - 1 /\ text < line.left
           /\ rest' = [line |-> line.line, left |-> line.left - text]
    <2>1. CASE n = line.left
      BY <1>1, <1>2, <1>3, <2>1
    <2>2. CASE n # line.left
      <3>1. text = n /\ n = Size[field] - 1 /\ n < line.left
        BY <1>1, <1>2, <2>2
      <3>2. rest' = [line EXCEPT !.left = line.left - n]
        BY <1>3, <2>2
      <3> QED BY <3>1, <3>2
    <2> QED BY <2>1, <2>2
  <1>6. \/ text = 0 /\ UNCHANGED <<field, pc>>
        \/ text > 0 /\ field = Len(Size) /\ pc' = "save" /\ UNCHANGED field
        \/ text > 0 /\ field # Len(Size) /\ field' = field + 1 /\ UNCHANGED pc
    <2>1. CASE text = 0
      BY <1>3, <2>1 DEF Acceptable
    <2>2. CASE text > 0
      BY <1>3, <2>2 DEF Acceptable, LastField
    <2> QED BY <1>4, <2>1, <2>2
  <1> HIDE DEF text
  <1> QED BY <1>3, <1>4, <1>5, <1>6

\* The device starts again: nothing but what is stored is left.
Restarted ==
  /\ pc' = "flash" /\ cfg' = [f \in Fields |-> Empty] /\ field' = 1 /\ rest' = NoRest

\* A line is what is left of the one before, or a new one and its newline.
LEMMA Reads ==
  ASSUME BootTypes, ReadLine
  PROVE  /\ pc = "setup" /\ UNCHANGED <<faults, nvs, button>>
         /\ \E line \in [line : Fields, left : Nat] :
              /\ Fgets(line) /\ line.left > 0
              /\ \/ line = rest
                 \/ rest = NoRest /\ line.line = field /\ line.left - 1 \in Lines[field]
  <1>1. pc = "setup" /\ UNCHANGED <<faults, nvs, button>>
    BY DEF ReadLine, NoFault
  <1>2. CASE rest # NoRest
    <2>1. rest \in [line : Fields, left : Nat] /\ rest.left > 0
      BY <1>2 DEF BootTypes
    <2> QED BY <1>1, <1>2, <2>1 DEF ReadLine
  <1>3. CASE rest = NoRest
    <2>1. PICK len \in Lines[field] : Fgets([line |-> field, left |-> len + 1])
      BY <1>3 DEF ReadLine
    <2>2. len \in Nat /\ field \in Fields
      BY DEF BootTypes
    <2> DEFINE line == [line |-> field, left |-> len + 1]
    <2>3. line \in [line : Fields, left : Nat] /\ line.left > 0 /\ line.line = field /\ line.left - 1 = len
      BY <2>2
    <2> HIDE DEF line
    <2>4. Fgets(line)
      BY <2>1 DEF line
    <2> QED BY <1>1, <1>3, <2>1, <2>3, <2>4
  <1> QED BY <1>2, <1>3

\* What a step does to the settings.
LEMMA BootSteps ==
  ASSUME [Next]_vars
  PROVE  \/ Restarted /\ UNCHANGED nvs /\ button' = button /\ (faults < MaxFaults /\ faults' = faults + 1)
         \/ /\ UNCHANGED <<cfg, field, rest>> /\ (button' = button \/ button' \in {"up", "down"})
            /\ faults' = faults \/ (faults < MaxFaults /\ faults' = faults + 1)
            /\ \/ pc = "flash" /\ pc' = "button" /\ (nvs' = nvs \/ nvs' = None)
               \/ pc \in {"button", "hold"} /\ pc' \in {"hold", "erase", "sensors"} /\ nvs' = nvs
               \/ pc = "erase" /\ pc' = "sensors" /\ nvs' = None
               \/ pc = "sensors" /\ pc' = "load" /\ nvs' = nvs
               \/ pc = "load" /\ pc' = "setup" /\ nvs' = nvs
               \/ pc = "setup" /\ pc' = "returned" /\ nvs' = nvs
               \/ pc = "save" /\ pc' = "wifi" /\ nvs' = cfg
               \/ pc = "wifi" /\ pc' \in {"mqtt", "returned"} /\ nvs' = nvs
               \/ pc = "mqtt" /\ pc' \in {"running", "returned"} /\ nvs' = nvs
               \/ pc' = pc /\ nvs' = nvs
         \/ /\ pc = "load" /\ pc' \in {"wifi", "setup"} /\ nvs # None /\ cfg' = nvs
            /\ UNCHANGED <<nvs, field, rest, button, faults>>
         \/ ReadLine
  <1>1. CASE FlashInit
    BY <1>1 DEF FlashInit, Goto, Panic, Fault, NoFault, PowerOn, Restarted
  <1>2. CASE SampleButton \/ SampleAgain
    BY <1>2 DEF SampleButton, SampleAgain, Goto, NoFault
  <1>3. CASE Erase
    BY <1>3 DEF Erase, Goto, Panic, Fault, NoFault, PowerOn, Restarted
  <1>4. CASE SensorInit
    BY <1>4 DEF SensorInit, Panic, Fault, NoFault, PowerOn, Restarted
  <1>5. CASE Load
    BY <1>5 DEF Load, Fault, NoFault
  <1>6. CASE Save
    BY <1>6 DEF Save, Goto, Panic, Fault, NoFault, PowerOn, Restarted
  <1>7. CASE Wifi
    BY <1>7 DEF Wifi, Goto, Panic, Fault, NoFault, PowerOn, Restarted
  <1>8. CASE MqttStart
    BY <1>8 DEF MqttStart, Goto, Panic, Fault, NoFault, PowerOn, Restarted
  <1>9. CASE ConsoleFails
    BY <1>9 DEF ConsoleFails, Goto, Fault
  <1>10. CASE Restart
    BY <1>10 DEF Restart, Fault, PowerOn, Restarted
  <1>11. CASE Press \/ Release
    BY <1>11 DEF Press, Release
  <1>12. CASE Measure
    BY <1>12 DEF Measure, Fault, NoFault
  <1>13. CASE Nature \/ UNCHANGED vars
    BY <1>13 DEF Nature, vars
  <1> QED BY <1>1, <1>2, <1>3, <1>4, <1>5, <1>6, <1>7, <1>8, <1>9, <1>10, <1>11, <1>12, <1>13 DEF Next, Unattended

\* Every step keeps the types of the settings.
LEMMA BootTypesKept ==
  ASSUME BootTypes, [Next]_vars
  PROVE  BootTypes'
  <1>0. /\ cfg \in [Fields -> Texts] /\ (nvs = None \/ nvs \in [Fields -> Texts])
        /\ \A f \in Fields : cfg[f].len < Size[f]
        /\ nvs # None => \A f \in Fields : nvs[f].len < Size[f]
        /\ pc \in Pcs /\ field \in Fields
        /\ rest \in [line : Fields \cup {0}, left : Nat]
        /\ rest = NoRest \/ (rest.line \in Fields /\ rest.left > 0)
        /\ button \in {"up", "down"} /\ faults \in 0 .. MaxFaults /\ MaxFaults \in Nat
    BY DEF BootTypes
  <1>1. CASE faults < MaxFaults /\ faults' = faults + 1
    <2>1. faults' \in 0 .. MaxFaults
      BY <1>0, <1>1
    <2>2. CASE Restarted /\ UNCHANGED nvs /\ button' = button
      <3>1. /\ cfg' \in [Fields -> Texts] /\ \A f \in Fields : cfg'[f].len < Size[f]
        BY <2>2, FieldFacts DEF Restarted
      <3>2. rest' = NoRest /\ rest' \in [line : Fields \cup {0}, left : Nat] /\ field' \in Fields /\ pc' \in Pcs
        BY <2>2, FieldFacts DEF Restarted, NoRest, Pcs
      <3> QED BY <1>0, <2>1, <2>2, <3>1, <3>2 DEF BootTypes
    <2>3. CASE /\ UNCHANGED <<cfg, field, rest>> /\ (button' = button \/ button' \in {"up", "down"})
               /\ pc' \in Pcs /\ (nvs' = nvs \/ nvs' = None \/ nvs' = cfg)
      BY <1>0, <2>1, <2>3 DEF BootTypes
    <2>4. ~ ReadLine
      BY <1>0, <1>1 DEF ReadLine, NoFault
    <2> QED BY <1>0, <1>1, <2>2, <2>3, <2>4, BootSteps DEF Pcs
  <1>2. CASE faults' = faults
    <2>1. CASE ReadLine
      <3>1. PICK line \in [line : Fields, left : Nat] : Fgets(line) /\ line.left > 0
        BY <2>1, Reads
      <3>2. PICK text \in Nat :
              /\ text < Size[field] /\ text < line.left
              /\ \/ rest' = NoRest
                 \/ rest' = [line |-> line.line, left |-> line.left - text]
              /\ cfg' = [cfg EXCEPT ![field] = IF text = 0 THEN Empty ELSE [line |-> line.line, len |-> text]]
              /\ \/ UNCHANGED <<field, pc>>
                 \/ pc' = "save" /\ UNCHANGED field
                 \/ field # Len(Size) /\ field' = field + 1 /\ UNCHANGED pc
        BY <1>0, <3>1, FgetsTakes
      <3>3. field' \in Fields /\ pc' \in Pcs
        BY <1>0, <3>2, FieldFacts DEF Pcs
      <3>4. /\ rest' \in [line : Fields \cup {0}, left : Nat]
            /\ rest' = NoRest \/ (rest'.line \in Fields /\ rest'.left > 0)
        <4>1. CASE rest' = NoRest
          BY <4>1 DEF NoRest
        <4>2. CASE rest' = [line |-> line.line, left |-> line.left - text]
          <5>1. line.left - text \in Nat /\ line.left - text > 0 /\ line.line \in Fields
            BY <3>2
          <5> QED BY <4>2, <5>1
        <4> QED BY <3>2, <4>1, <4>2
      <3> DEFINE new == IF text = 0 THEN Empty ELSE [line |-> line.line, len |-> text]
      <3>5. new \in Texts /\ new.len < Size[field]
        <4>1. CASE text = 0
          BY <1>0, <4>1, FieldFacts
        <4>2. CASE text # 0
          BY <3>2, <4>2 DEF Texts
        <4> QED BY <4>1, <4>2
      <3>6. cfg' = [cfg EXCEPT ![field] = new]
        BY <3>2
      <3> HIDE DEF new
      <3>7. cfg' \in [Fields -> Texts] /\ \A f \in Fields : cfg'[f].len < Size[f]
        BY <1>0, <3>5, <3>6
      <3>8. UNCHANGED <<nvs, button>>
        BY <2>1, Reads
      <3> QED BY <1>0, <1>2, <3>3, <3>4, <3>7, <3>8 DEF BootTypes
    <2>2. CASE /\ UNCHANGED <<cfg, field, rest>> /\ (button' = button \/ button' \in {"up", "down"})
               /\ pc' \in Pcs /\ (nvs' = nvs \/ nvs' = None \/ nvs' = cfg)
      BY <1>0, <1>2, <2>2 DEF BootTypes
    <2>3. CASE /\ pc' \in {"wifi", "setup"} /\ nvs # None /\ cfg' = nvs
               /\ UNCHANGED <<nvs, field, rest, button, faults>>
      BY <1>0, <2>3 DEF BootTypes, Pcs
    <2>4. ~ (faults < MaxFaults /\ faults' = faults + 1)
      BY <1>0, <1>2
    <2> QED BY <1>0, <1>2, <2>1, <2>2, <2>3, <2>4, BootSteps DEF Pcs
  <1>3. faults' = faults \/ (faults < MaxFaults /\ faults' = faults + 1)
    BY BootSteps, Reads
  <1> QED BY <1>1, <1>2, <1>3

\* Every step keeps the types.
LEMMA TypeInvKept == ASSUME TypeInv, [Next]_vars PROVE TypeInv'
  <1>1. BootTypes /\ SensorTypes
    BY DEF TypeInv, TypeOK, KeptTypes, BootTypes, SensorTypes
  <1>2. BootTypes' /\ SensorTypes'
    BY <1>1, BootTypesKept, SensorTypesKept
  <1> QED BY <1>2 DEF TypeInv, TypeOK, KeptTypes, BootTypes, SensorTypes

\* The answer that a line gives to the field asked for: its own, or more of a line that has
\* overflowed; and what is left of it.
LEMMA LineAnswers ==
  ASSUME BootTypes, NEW line \in [line : Fields, left : Nat], line.left > 0,
         NEW text \in Nat, text > 0, text < Size[field], text < line.left,
         \/ rest' = NoRest /\ text = line.left - 1 /\ line.left < Size[field]
         \/ /\ text = Size[field] - 1
            /\ rest' = [line |-> line.line, left |-> line.left - text],
         \/ line = rest /\ Overflowing
         \/ line.line = field /\ line.left - 1 \in Lines[field],
         cfg' = [cfg EXCEPT ![field] = [line |-> line.line, len |-> text]]
  PROVE  /\ Answers(cfg', field)
         /\ field # Len(Size) /\ field' = field + 1 => rest' = NoRest \/ rest'.left = 1 \/ Overflowing'
  <1>0. /\ cfg \in [Fields -> Texts] /\ field \in Fields /\ field \in Nat /\ Size[field] \in Nat /\ Size[field] >= 2
        /\ line.left \in Nat /\ line.line \in Fields /\ line.line \in Nat /\ Size[line.line] \in Nat
    BY FieldFacts DEF BootTypes
  <1>1. cfg'[field].line = line.line /\ cfg'[field].len = text
    BY <1>0
  <1>2. \A f \in Fields : f # field => cfg'[f] = cfg[f]
    BY <1>0
  <1>3. CASE line = rest /\ Overflowing
    <2>1. PICK len \in Lines[line.line] : len >= Size[line.line] - 1 + (line.left - 1)
      BY <1>3 DEF Overflowing
    <2>2. len \in Nat
      BY <1>0, <2>1
    <2>3. line.line < field /\ cfg[field - 1].line = line.line /\ cfg[field - 1].len = Size[field - 1] - 1
      BY <1>3 DEF Overflowing
    <2>4. field - 1 \in Fields /\ field - 1 # field
      BY <1>0, <2>3 DEF Fields
    <2>5. len >= Size[line.line] - 1 + text
      BY <1>0, <2>1, <2>2
    <2>6. Overflow(cfg', field)
      <3>1. line.line \in 1 .. field - 1
        BY <1>0, <2>3, <2>4 DEF Fields
      <3> QED BY <1>0, <1>1, <1>2, <2>1, <2>3, <2>4, <2>5, <3>1 DEF Overflow
    <2>7. ASSUME field # Len(Size), field' = field + 1, rest' # NoRest PROVE Overflowing'
      <3>1. text = Size[field] - 1 /\ rest'.line = line.line /\ rest'.left = line.left - text
        <4>1. text = Size[field] - 1 /\ rest' = [line |-> line.line, left |-> line.left - text]
          BY <2>7
        <4> QED BY <4>1
      <3>2. field' - 1 = field /\ rest'.line < field'
        BY <1>0, <2>3, <2>7, <3>1
      <3>3. len >= Size[line.line] - 1 + (rest'.left - 1)
        <4>1. \A a, b, c, d \in Nat : a >= b - 1 + (c - 1) /\ d > 0 => a >= b - 1 + ((c - d) - 1)
          OBVIOUS
        <4>2. len >= Size[line.line] - 1 + ((line.left - text) - 1)
          BY <1>0, <2>1, <2>2, <4>1
        <4> QED BY <3>1, <4>2
      <3> QED BY <1>1, <2>1, <3>1, <3>2, <3>3 DEF Overflowing
    <2> QED BY <2>6, <2>7 DEF Answers
  <1>4. CASE line.line = field /\ line.left - 1 \in Lines[field]
    <2> DEFINE len == line.left - 1
    <2>1. len \in Lines[field] \ {0} /\ len \in Nat
      BY <1>0, <1>4
    <2>2. text = IF len < Size[field] THEN len ELSE Size[field] - 1
      BY <1>0
    <2>3. line.left = len + 1
      BY <1>0
    <2> HIDE DEF len
    <2>4. OwnAnswer(cfg', field)
      BY <1>1, <1>4, <2>1, <2>2 DEF OwnAnswer
    <2>5. ASSUME field # Len(Size), field' = field + 1, rest' # NoRest PROVE Overflowing'
      <3>1. text = Size[field] - 1 /\ rest'.line = field /\ rest'.left = line.left - text
        <4>1. text = Size[field] - 1 /\ rest' = [line |-> line.line, left |-> line.left - text]
          BY <2>5
        <4> QED BY <1>4, <4>1
      <3>2. field' - 1 = field /\ rest'.line < field'
        BY <1>0, <2>5, <3>1
      <3>3. len >= Size[field] - 1 + (rest'.left - 1)
        <4>1. \A a, b, c \in Nat : a + 1 = c /\ b >= 2 => a >= b - 1 + ((c - (b - 1)) - 1)
          OBVIOUS
        <4>2. len >= Size[field] - 1 + ((line.left - (Size[field] - 1)) - 1)
          BY <1>0, <2>1, <2>3, <4>1
        <4> QED BY <3>1, <4>2
      <3> QED BY <1>1, <1>4, <2>1, <3>1, <3>2, <3>3 DEF Overflowing
    <2> QED BY <2>4, <2>5 DEF Answers
  <1> QED BY <1>3, <1>4

\* Every step keeps the answers that are stored, and those given so far.
LEMMA TypedKept ==
  ASSUME TypeInv, TypedInv, [Next]_vars
  PROVE  TypedInv'
  <1>0. BootTypes
    BY DEF TypeInv, TypeOK, KeptTypes, BootTypes
  <1>1. CASE Restarted /\ UNCHANGED nvs
    BY <1>1 DEF TypedInv, Restarted, TypedIsStored
  <1>2. CASE /\ UNCHANGED <<cfg, field, rest>>
             /\ \/ pc = "flash" /\ pc' = "button" /\ (nvs' = nvs \/ nvs' = None)
                \/ pc \in {"button", "hold"} /\ pc' \in {"hold", "erase", "sensors"} /\ nvs' = nvs
                \/ pc = "erase" /\ pc' = "sensors" /\ nvs' = None
                \/ pc = "sensors" /\ pc' = "load" /\ nvs' = nvs
                \/ pc = "setup" /\ pc' = "returned" /\ nvs' = nvs
                \/ pc = "wifi" /\ pc' \in {"mqtt", "returned"} /\ nvs' = nvs
                \/ pc = "mqtt" /\ pc' \in {"running", "returned"} /\ nvs' = nvs
                \/ pc' = pc /\ nvs' = nvs
    <2>1. TypedIsStored'
      BY <1>2 DEF TypedInv, TypedIsStored
    <2>2. (\A f \in Fields : Answers(cfg', f)) <=> (\A f \in Fields : Answers(cfg, f))
      BY <1>2
    <2>3. Overflowing' <=> Overflowing
      BY <1>2 DEF Overflowing
    <2> QED BY <1>2, <2>1, <2>2, <2>3 DEF TypedInv
  <1>3. CASE pc = "save" /\ pc' = "wifi" /\ nvs' = cfg /\ UNCHANGED <<cfg, field, rest>>
    <2>1. TypedIsStored'
      BY <1>3 DEF TypedInv, TypedIsStored, Answers
    <2> QED BY <1>3, <2>1 DEF TypedInv
  <1>4. CASE pc = "load" /\ pc' \in {"wifi", "setup"} /\ UNCHANGED <<nvs, field, rest>>
    <2>1. TypedIsStored' /\ field' = 1 /\ rest' = NoRest
      BY <1>4 DEF TypedInv, TypedIsStored
    <2>2. \A f \in Fields : ~ (f < field')
      BY <2>1, FieldFacts DEF Fields
    <2> QED BY <1>4, <2>1, <2>2 DEF TypedInv
  <1>5. CASE ReadLine
    <2>1. pc = "setup" /\ UNCHANGED <<nvs, button>>
      BY <1>0, <1>5, Reads
    <2>2. PICK line \in [line : Fields, left : Nat] :
            /\ Fgets(line) /\ line.left > 0
            /\ \/ line = rest
               \/ rest = NoRest /\ line.line = field /\ line.left - 1 \in Lines[field]
      BY <1>0, <1>5, Reads
    <2>3. PICK text \in Nat :
            /\ text < Size[field] /\ text < line.left
            /\ \/ rest' = NoRest /\ text = line.left - 1 /\ line.left < Size[field]
               \/ /\ text = Size[field] - 1 /\ text < line.left
                  /\ rest' = [line |-> line.line, left |-> line.left - text]
            /\ cfg' = [cfg EXCEPT ![field] = IF text = 0 THEN Empty ELSE [line |-> line.line, len |-> text]]
            /\ \/ text = 0 /\ UNCHANGED <<field, pc>>
               \/ text > 0 /\ field = Len(Size) /\ pc' = "save" /\ UNCHANGED field
               \/ text > 0 /\ field # Len(Size) /\ field' = field + 1 /\ UNCHANGED pc
      BY <1>0, <2>2, FgetsTakes DEF BootTypes
    <2>4. /\ cfg \in [Fields -> Texts] /\ field \in Fields /\ field \in Nat
          /\ Size[field] \in Nat /\ Size[field] >= 2 /\ Len(Size) \in Nat
          /\ line.left \in Nat
      BY <1>0, FieldFacts DEF BootTypes
    <2>5. \A f \in Fields : f # field => cfg'[f] = cfg[f]
      BY <2>3, <2>4
    <2>6. ASSUME NEW f \in Fields, f < field PROVE Answers(cfg', f)
      <3>1. Answers(cfg, f)
        BY <2>1, <2>6 DEF TypedInv
      <3>2. cfg'[f] = cfg[f]
        BY <2>4, <2>5, <2>6 DEF Fields
      <3>3. CASE OwnAnswer(cfg, f)
        BY <3>2, <3>3 DEF OwnAnswer, Answers
      <3>4. CASE Overflow(cfg, f)
        <4>1. cfg[f].line < f /\ cfg[f].len > 0
          BY <2>6, <3>4 DEF Overflow, Fields
        <4>2. cfg[f].line \in Fields
          <5>1. cfg[f] \in Texts
            BY <2>4
          <5>2. cfg[f] # Empty
            BY <4>1 DEF Empty
          <5> QED BY <5>1, <5>2 DEF Texts
        <4>3. f \in 1 .. Len(Size) /\ cfg[f].line \in 1 .. Len(Size)
          BY <4>2 DEF Fields
        <4>4. f - 1 \in Fields /\ f - 1 # field
          BY <2>4, <2>6, <4>1, <4>3 DEF Fields
        <4>5. cfg'[f - 1] = cfg[f - 1]
          BY <2>5, <4>4
        <4> QED BY <3>2, <3>4, <4>5 DEF Overflow, Answers
      <3> QED BY <3>1, <3>3, <3>4 DEF Answers
    <2>7. TypedIsStored'
      BY <2>1 DEF TypedInv, TypedIsStored
    <2>8. CASE text = 0
      <3>1. rest' = NoRest
        <4>1. line.left = 1 => ~ (text = Size[field] - 1)
          BY <2>4, <2>8
        <4>2. ~ (text = Size[field] - 1)
          BY <2>4, <2>8
        <4> QED BY <2>3, <4>2
      <3>2. field' = field /\ pc' = pc
        BY <2>3, <2>8
      <3>3. \A f \in Fields : f < field' => Answers(cfg', f)
        BY <2>6, <3>2
      <3> QED BY <2>1, <2>7, <3>1, <3>2, <3>3 DEF TypedInv
    <2>9. CASE text > 0
      <3>1. \/ line = rest /\ Overflowing
            \/ line.line = field /\ line.left - 1 \in Lines[field]
        <4>1. CASE line = rest
          <5>1. rest # NoRest
            BY <2>2, <4>1 DEF NoRest
          <5>2. rest.left # 1
            BY <2>3, <2>4, <2>9, <4>1
          <5> QED BY <2>1, <4>1, <5>1, <5>2 DEF TypedInv
        <4> QED BY <2>2, <4>1
      <3>2. /\ cfg' = [cfg EXCEPT ![field] = [line |-> line.line, len |-> text]]
            /\ \/ rest' = NoRest /\ text = line.left - 1 /\ line.left < Size[field]
               \/ /\ text = Size[field] - 1
                  /\ rest' = [line |-> line.line, left |-> line.left - text]
        <4>1. text # 0
          BY <2>9
        <4> QED BY <2>3, <4>1
      <3>3. /\ Answers(cfg', field)
            /\ field # Len(Size) /\ field' = field + 1 => rest' = NoRest \/ rest'.left = 1 \/ Overflowing'
        BY <1>0, <2>2, <2>3, <2>9, <3>1, <3>2, LineAnswers
      <3>4. CASE field = Len(Size) /\ pc' = "save"
        <4>1. \A f \in Fields : Answers(cfg', f)
          BY <2>4, <2>6, <3>3, <3>4 DEF Fields
        <4> QED BY <2>7, <3>4, <4>1 DEF TypedInv
      <3>5. CASE field # Len(Size) /\ field' = field + 1 /\ UNCHANGED pc
        <4>1. \A f \in Fields : f < field' => Answers(cfg', f)
          <5>1. \A f \in Fields : f < field' => f < field \/ f = field
            BY <2>4, <3>5, FieldFacts
          <5> QED BY <2>6, <3>3, <5>1
        <4> QED BY <2>1, <2>7, <3>3, <3>5, <4>1 DEF TypedInv
      <3> QED BY <2>3, <2>9, <3>4, <3>5
    <2> QED BY <2>3, <2>8, <2>9
  <1> QED BY <1>1, <1>2, <1>3, <1>4, <1>5, BootSteps

-----------------------------------------------------------------------------
\* The first boot of a device.
LEMMA InitHolds == Init => TypeInv /\ TypedInv /\ FreshInv /\ RunsAsStored
  <1> SUFFICES ASSUME Init PROVE TypeInv /\ TypedInv /\ FreshInv /\ RunsAsStored
    OBVIOUS
  <1>1. /\ pc = "flash" /\ cfg = [f \in Fields |-> Empty] /\ field = 1 /\ rest = NoRest
        /\ nvs = None /\ button \in {"up", "down"} /\ faults = 0
        /\ bmpAt \in Addresses /\ chip = [c \in Chips |-> ChipOn] /\ s_sensors = DriverOn
        /\ asked = [c \in Chips |-> 0] /\ reading = NoReading /\ answer = NoAnswer
    BY DEF Init, SensorsInit
  <1>2. cfg \in [Fields -> Texts] /\ \A f \in Fields : cfg[f].len < Size[f]
    BY <1>1, FieldFacts
  <1>3. NoRest \in [line : Fields \cup {0}, left : Nat] /\ 0 \in 0 .. MaxFaults
    BY DEF NoRest
  <1>4. SensorsTypeOK
    <2>1. 0 \in Numbers
      BY DEF Numbers
    <2> QED BY <1>1, <2>1 DEF SensorsTypeOK, ChipOn, DriverOn, NoReading
  <1>5. TypeInv
    BY <1>1, <1>2, <1>3, <1>4, FieldFacts DEF TypeInv, TypeOK, KeptTypes, Pcs
  <1>6. TypedInv
    BY <1>1 DEF TypedInv, TypedIsStored
  <1>7. \A c \in Chips : Resting(c)
    BY <1>1 DEF Resting, ChipOn, Behind
  <1>8. FreshInv
    BY <1>1, <1>7 DEF FreshInv, TimeInv, ChipInv, NearlyFresh, Answered
  <1>9. RunsAsStored
    BY <1>1 DEF RunsAsStored
  <1> QED BY <1>5, <1>6, <1>8, <1>9

\* The types always hold.
LEMMA TypeInvariant == Spec => []TypeInv
  <1>1. TypeInv /\ [Next]_vars => TypeInv'
    BY TypeInvKept
  <1>2. Init => TypeInv
    BY InitHolds
  <1> QED BY <1>1, <1>2, PTL DEF Spec

\* app_types.h, sensors.c: every text fits its array, every value its range, whatever is typed, fails or
\* is read.
THEOREM TypeCorrect == Spec => []TypeOK
  <1>1. TypeInv => TypeOK
    BY DEF TypeInv
  <1> QED BY <1>1, TypeInvariant, PTL

\* interactive_mqtt_sensor_main.c:34-46: the device runs with the settings its next boot will load,
\* whenever the power is cut, the save fails or the button is pressed.
THEOREM RunsWithStored == Spec => []RunsAsStored
  <1>1. ASSUME RunsAsStored, TypeInv, [Next]_vars PROVE RunsAsStored'
    <2>1. BootTypes
      BY <1>1 DEF TypeInv, TypeOK, KeptTypes, BootTypes
    <2>2. CASE ReadLine
      <3>1. pc = "setup"
        BY <2>1, <2>2, Reads
      <3>2. PICK line \in [line : Fields, left : Nat] : Fgets(line)
        BY <2>1, <2>2, Reads
      <3>3. pc' \in {"setup", "save"}
        BY <3>1, <3>2 DEF Fgets
      <3> QED BY <3>3 DEF RunsAsStored
    <2> QED BY <1>1, <2>2, BootSteps DEF RunsAsStored, Restarted
  <1>2. RunsAsStored /\ TypeInv /\ [Next]_vars => RunsAsStored'
    BY <1>1
  <1>3. Init => RunsAsStored
    BY InitHolds
  <1> QED BY <1>2, <1>3, TypeInvariant, PTL DEF Spec

\* app_config.c:30-48, 171-206: whatever is typed, lines too long for their fields included, and however
\* lines, empty lines and power cuts follow, what is stored is an answer to each prompt, cut to its field,
\* or what the fields before it could not hold of an earlier one.
THEOREM StoredAsTyped == Spec => []TypedIsStored
  <1>1. TypedInv /\ TypeInv /\ [Next]_vars => TypedInv'
    BY TypedKept
  <1>2. Init => TypedInv
    BY InitHolds
  <1>3. TypedInv => TypedIsStored
    BY DEF TypedInv
  <1> QED BY <1>1, <1>2, <1>3, TypeInvariant, PTL DEF Spec

\* sensors.c:80-108, 192-223: when no conversion takes longer than its sleep, a value is at most one
\* reading behind, of the AHT20 two, however soon the ticks come and whichever transfers fail.
THEOREM ValuesAreNearlyFresh == ASSUME LongEnough PROVE Spec => []NearlyFresh
  <1>1. ASSUME FreshInv, TypeInv, [Next]_vars PROVE FreshInv'
    <2>1. SensorTypes
      BY <1>1 DEF TypeInv, TypeOK, KeptTypes, SensorTypes
    <2> QED BY <1>1, <2>1, FreshKept
  <1>2. FreshInv /\ TypeInv /\ [Next]_vars => FreshInv'
    BY <1>1
  <1>3. Init => FreshInv
    BY InitHolds
  <1>4. FreshInv => NearlyFresh
    BY DEF FreshInv
  <1> QED BY <1>2, <1>3, <1>4, TypeInvariant, PTL DEF Spec
==============================================================================
