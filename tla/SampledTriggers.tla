-------------------------- MODULE SampledTriggers --------------------------
(* The built-in triggers that poll a state of the system: each one            *)
(* keeps a little memory and, at every poll, compares it with a new sample to *)
(* decide whether something happened. A sample may be unreadable: the poll    *)
(* raises or returns, and the base class polls again. One trigger is set up   *)
(* with any of the configurations and fed with every sequence of samples; the *)
(* events it sent are compared with what the samples say happened.            *)
EXTENDS Integers, Sequences, FiniteSets

CONSTANT MaxPolls        \* bound: polls of the trigger

VARIABLES sensor,        \* the trigger and what it is configured to look for
          memory,        \* what it remembers between polls
          samples,       \* all samples, the first one taken by setup
          events         \* the poll and the content of each event sent

sensorVars == <<sensor, memory, samples, events>>

Threshold == 20
Hysteresis == 5

(* A trigger: how it polls, how it gets its first reading ("setup": before    *)
(* the first poll, or it is not started; "try": there too, if it can be read; *)
(* "poll": by polling; "off": it takes the state to be off) and what it can   *)
(* be configured to report.                                                   *)
Sensor(trigger, kind, first, targets) ==
  {[trigger |-> trigger, kind |-> kind, first |-> first, target |-> t] : t \in targets}
Edge == {"on", "off"}
ProcessState == Sensor("process_state", "edge", "setup", Edge)
NetworkStatus == Sensor("network_status", "edge", "setup", Edge)
PathExists == Sensor("path_exists", "edge", "poll", Edge \cup {"changed"})
TcpPort == Sensor("tcp_port", "edge", "poll", Edge \cup {"changed"})
FileContent == Sensor("file_content", "edge", "poll", Edge \cup {"changed"})
IdleDetect == Sensor("idle_detect", "edge", "off", {"changed"})
WindowTitle == Sensor("window_title", "edge", "off", Edge)
AudioDevice == Sensor("audio_device", "edge", "poll", {"changed"})   \* each flow
SessionLock == Sensor("session_lock", "lock", "poll", Edge \cup {"changed"})
SystemResource == Sensor("system_resource", "usage", "poll", {"on"})
WifiNetwork == Sensor("wifi_network", "wifi", "poll", {"connected", "disconnected", "any"})
Clipboard == Sensor("clipboard", "clipboard", "try", {"home", "any"})
UsbInsert == Sensor("usb_insert", "items", "setup", {"any"})
FolderMonitor == Sensor("folder_monitor", "items", "setup", {"any"})
BatteryLevel == Sensor("battery_level", "battery", "poll", {"below"})
PowerState == Sensor("power_state", "power", "try", {"ac", "battery", "low", "resume"})
Sensors == UNION {ProcessState, NetworkStatus, PathExists, TcpPort, FileContent, IdleDetect,
                  WindowTitle, AudioDevice, SessionLock, SystemResource, WifiNetwork, Clipboard,
                  UsbInsert, FolderMonitor, BatteryLevel, PowerState}

(* What a reading can be, in the respects its trigger looks at.               *)
Readings(kind, target) ==
  CASE kind \in {"wifi", "clipboard"} -> {"", "home", "cafe"}
    [] kind = "items" -> SUBSET {"E:", "F:"}
    [] kind = "battery" -> {Threshold, Threshold + 1, Threshold + Hysteresis, Threshold + Hysteresis + 1}
    [] kind = "power" ->
         [battery : BOOLEAN, percent : IF target = "low" THEN {20, 25, 26} ELSE {50},
          resumed : IF target = "resume" THEN BOOLEAN ELSE {FALSE}]
    [] OTHER -> Edge

(* A reading that fails; a resume message may have been taken before it.      *)
Unreadable(resumed) == [ok |-> FALSE, resumed |-> resumed]
Read(x) == [ok |-> TRUE, value |-> x]
SamplesOf(kind, target) ==
  {Read(x) : x \in Readings(kind, target)} \cup {Unreadable(FALSE)}
    \cup IF target = "resume" THEN {Unreadable(TRUE)} ELSE {}

(* What the trigger remembers: the last reading, or that it has none; a       *)
(* reading seen once; whether it may fire.                                    *)
Remembers(known, last, pending, armed) ==
  [known |-> known, last |-> last, pending |-> pending, armed |-> armed]
SampledBySetup(of) == of.first \in {"setup", "try"}
FirstMemory(of, s) ==
  IF SampledBySetup(of) /\ s.ok
  THEN Remembers(TRUE, IF of.kind = "power" THEN s.value.battery ELSE s.value, FALSE, TRUE)
  ELSE Remembers(of.first = "off", "off", FALSE, TRUE)

Nothing == <<>>
Sends(hit, what) == IF hit THEN <<what>> ELSE Nothing
Remember(m, x) == [m EXCEPT !.known = TRUE, !.last = x]

----------------------------------------------------------------------------
(* The polls: the new memory and the events, in order.                        *)
Result(m, out) == [memory |-> m, out |-> out]

(* The change of a two-valued state, once there is something to compare with. *)
PollEdge(m, x, target) ==
  Result(Remember(m, x), Sends(m.known /\ x # m.last /\ target \in {x, "changed"}, x))

(* Mutant: a state sampled once counts.                                       *)
PollLockAtOnce(m, x, target) == PollEdge(m, x, target)

(* session_lock: only a state sampled twice in a row counts.                  *)
PollLock(m, x, target) ==
  IF ~m.known THEN Result(Remember(m, x), Nothing)
  ELSE IF x = m.last THEN Result([m EXCEPT !.pending = FALSE], Nothing)
  ELSE IF m.pending THEN Result([Remember(m, x) EXCEPT !.pending = FALSE],
                                Sends(target \in {x, "changed"}, x))
  ELSE Result([m EXCEPT !.pending = TRUE], Nothing)

(* system_resource: the first sample is worth nothing.                        *)
PollUsage(m, x) ==
  IF ~m.known THEN Result(Remember(m, "off"), Nothing)
  ELSE Result(Remember(m, x), Sends(x = "on" /\ m.last = "off", x))

PollWifi(m, x, target) ==
  LET hit == CASE target = "connected" -> x = "home"
               [] target = "disconnected" -> m.last = "home"
               [] OTHER -> TRUE
  IN Result(Remember(m, x), Sends(m.known /\ x # m.last /\ hit, x))

PollClipboard(m, x, target) ==
  Result(Remember(m, x), Sends((~m.known \/ x # m.last) /\ target \in {x, "any"}, x))

(* usb_insert, and folder_monitor for created files.                          *)
PollItems(m, x) ==
  LET new == x \ m.last
  IN Result(Remember(m, x), Sends("E:" \in new, "E:") \o Sends("F:" \in new, "F:"))

PollBattery(m, x) ==
  Result([m EXCEPT !.armed = IF m.armed THEN x > Threshold ELSE x > Threshold + Hysteresis],
         Sends(m.armed /\ x <= Threshold, "low"))

(* power_state: "armed" says that no low battery is being reported.           *)
PollPower(m, x, target) ==
  LET low == x.battery /\ x.percent <= 20
      reports == low /\ m.armed /\ target = "low"
      now == IF x.battery THEN "battery" ELSE "ac"
      resume == Sends(x.resumed /\ target = "resume", "resume")
  IN IF ~m.known THEN Result(Remember(m, x.battery), resume)
     ELSE Result([Remember(m, x.battery) EXCEPT !.armed = IF reports THEN FALSE ELSE m.armed \/ ~x.battery \/ x.percent > 25],
                 resume \o Sends(x.battery # m.last /\ target = now, now) \o Sends(reports, "low"))

Polled(x) ==
  CASE sensor.kind = "lock" -> PollLock(memory, x, sensor.target)
    [] sensor.kind = "usage" -> PollUsage(memory, x)
    [] sensor.kind = "wifi" -> PollWifi(memory, x, sensor.target)
    [] sensor.kind = "clipboard" -> PollClipboard(memory, x, sensor.target)
    [] sensor.kind = "items" -> PollItems(memory, x)
    [] sensor.kind = "battery" -> PollBattery(memory, x)
    [] sensor.kind = "power" -> PollPower(memory, x, sensor.target)
    [] OTHER -> PollEdge(memory, x, sensor.target)

----------------------------------------------------------------------------
SensorInit ==
  /\ sensor \in Sensors /\ events = <<>>
  /\ \E s \in SamplesOf(sensor.kind, sensor.target) :
       /\ sensor.first = "setup" => s.ok
       /\ samples = IF SampledBySetup(sensor) THEN <<s>> ELSE <<Unreadable(FALSE)>>
       /\ memory = FirstMemory(sensor, samples[1])

(* PollingTrigger.run: a poll that raises changes nothing.                    *)
PollSensor(s) ==
  /\ Len(samples) <= MaxPolls /\ s \in SamplesOf(sensor.kind, sensor.target)
  /\ samples' = Append(samples, s) /\ UNCHANGED sensor
  /\ IF s.ok
     THEN LET polled == Polled(s.value) IN
          /\ memory' = polled.memory
          /\ events' = events \o [k \in 1 .. Len(polled.out) |-> <<Len(samples'), polled.out[k]>>]
     ELSE UNCHANGED <<memory, events>>

SensorNext == \E s \in SamplesOf(sensor.kind, sensor.target) : PollSensor(s)
SensorSpec == SensorInit /\ [][SensorNext]_sensorVars

----------------------------------------------------------------------------
(* What the samples say happened. A reading is compared with the one before   *)
(* it that could be read.                                                     *)
Readable == {n \in DOMAIN samples : samples[n].ok}
At(n) == samples[n].value
Earlier(n) == {m \in Readable : m < n}
Previous(n) == CHOOSE m \in Earlier(n) : \A k \in Earlier(n) : k <= m
Changed(n) == n > 1 /\ Earlier(n) # {} /\ At(n) # At(Previous(n))

(* The state of the lock before n: the first reading, or the last one that    *)
(* was read twice in a row.                                                   *)
Settled(n) ==
  LET steady == {m \in Earlier(n) : Earlier(m) = {} \/ At(m) = At(Previous(m))}
  IN At(CHOOSE m \in steady : \A k \in steady : k <= m)

(* An alarm goes off at the first reading of that sort, and at the first one  *)
(* after a reading that says it is over.                                      *)
Alarm(n, Hit(_), Over(_)) ==
  /\ Hit(At(n))
  /\ \A m \in Earlier(n) : Hit(At(m)) => \E k \in Earlier(n) : k > m /\ Over(At(k))

Happened(n) ==
  LET t == sensor.target
      first == Earlier(n) = {}
      Low(x) == x.battery /\ x.percent <= 20
      Recovered(x) == ~x.battery \/ x.percent > 25
      Below(x) == x <= Threshold
      Above(x) == x > Threshold + Hysteresis
  IN CASE sensor.first = "off" ->
            (IF first THEN At(n) = "on" ELSE Changed(n)) /\ t \in {At(n), "changed"}
       [] sensor.kind = "usage" ->
            ~first /\ At(n) = "on" /\ (Changed(n) \/ Earlier(Previous(n)) = {})
       [] sensor.kind = "lock" ->
            ~first /\ At(n) = At(Previous(n)) /\ At(n) # Settled(n) /\ t \in {At(n), "changed"}
       [] sensor.kind = "wifi" ->
            Changed(n) /\ CASE t = "connected" -> At(n) = "home"
                            [] t = "disconnected" -> At(Previous(n)) = "home"
                            [] OTHER -> TRUE
       [] sensor.kind = "clipboard" -> (first \/ Changed(n)) /\ t \in {At(n), "any"}
       [] sensor.kind = "items" -> At(n) \ At(Previous(n)) # {}
       [] sensor.kind = "battery" -> Alarm(n, Below, Above)
       [] sensor.kind = "power" ->
            CASE t = "resume" -> At(n).resumed
              [] t = "low" -> ~first /\ Low(At(n))
                              /\ \A m \in Earlier(n) \ {k \in Readable : Earlier(k) = {}} :
                                   Low(At(m)) => \E k \in Earlier(n) : k > m /\ Recovered(At(k))
              [] OTHER -> ~first /\ At(n).battery = (t = "battery")
                          /\ At(Previous(n)).battery # At(n).battery
       [] OTHER -> Changed(n) /\ t \in {At(n), "changed"}

----------------------------------------------------------------------------
(* Properties.                                                                *)

(* The trigger fires at exactly the polls at which its samples say that what  *)
(* it is set to watch happened, whatever was unreadable in between: once for  *)
(* a change, never for the state it started in, once for every item.          *)
EventsMatchSamples ==
  /\ {events[k][1] : k \in DOMAIN events} = {n \in Readable \ {1} : Happened(n)}
  /\ \A k \in DOMAIN events :
       LET n == events[k][1] IN
       Cardinality({j \in DOMAIN events : events[j][1] = n})
         = IF sensor.kind = "items" THEN Cardinality(At(n) \ At(Previous(n))) ELSE 1
=============================================================================
