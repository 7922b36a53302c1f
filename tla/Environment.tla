---------------------------- MODULE Environment ----------------------------
(***************************************************************************)
(* What the emulator knows of the world outside, and what it tells the     *)
(* broker and the programs of it: environment.c, location_from_ip.c,       *)
(* env_open_weather_map.c and mqtt_manager.c, the timers of main.c that    *)
(* drive them, and the weather ports with the request unit of io_ports.c.  *)
(*                                                                         *)
(* Two threads meet here. The main thread starts the emulator and then     *)
(* runs the timers' handlers, one after the other; the thread of the CPU   *)
(* reads the same data, without a lock, whenever a program asks for it.    *)
(* A measurement is the age of the world it was taken in, or Blank (the    *)
(* zeros of init_environment) or Fake (generate_fake_telemetry).           *)
(***************************************************************************)
EXTENDS Integers, Sequences

CONSTANTS
  MaxWorld,    \* bound: how often the weather changes
  TextLength   \* bound: characters in an answer of the ports

ASSUME EnvironmentAssumption == MaxWorld \in Nat /\ TextLength \in Nat \ {0}

Blank == -2
Fake == -1
Silence == -3                        \* no answer, no message

VARIABLES
  network,     \* the network interface is connected
  broker,      \* the broker can be reached
  service,     \* how the weather service answers
  world,       \* the age of the world
  located,     \* locationInfo.updated
  initialized, \* owm_initialized
  weather,     \* latest.weather: its data and its flag
  pollution,   \* latest.pollution
  cached,      \* owm_cached
  expiry,      \* tmr_weather_cache_expired is armed
  valid,       \* environment.valid
  at,          \* where the main thread is
  connected,   \* dx_isMqttConnected
  reporting,   \* the heart beat and the memory report were started
  message,     \* the last telemetry message
  emptied,     \* the service has answered without measurements
  request,     \* the request unit: what was asked, its text, and the bytes read
  heard        \* what the program has read since its last OUT

outside == <<network, broker, service, world>>
weatherVars == <<initialized, weather, pollution, cached, expiry, valid, emptied>>
mqttVars == <<connected, reporting, message>>
portVars == <<request, heard>>
envVars == <<outside, located, weatherVars, at, mqttVars, portVars>>

Services == {"down", "garbled", "empty", "full"}

(* The main thread's way: the start, then one handler after the other. *)
Places == {"locate", "connect", "idle", "fetch", "mark", "pollution", "markPollution",
           "cache", "publish"}

Data == Blank..MaxWorld

EnvTypeOK ==
  /\ network \in BOOLEAN /\ broker \in BOOLEAN
  /\ service \in Services /\ world \in 0..MaxWorld
  /\ located \in BOOLEAN /\ initialized \in BOOLEAN /\ cached \in BOOLEAN /\ expiry \in BOOLEAN /\ valid \in BOOLEAN
  /\ weather \in [data : Data, updated : BOOLEAN]
  /\ pollution \in [data : Data, updated : BOOLEAN]
  /\ at \in Places
  /\ connected \in BOOLEAN /\ reporting \in BOOLEAN /\ emptied \in BOOLEAN
  /\ message \in {Silence} \cup Data
  /\ request \in [text : {Silence} \cup Data, count : 0..TextLength]
  /\ heard \in Seq(Data \X (1..TextLength))

EnvInit ==
  /\ network \in BOOLEAN /\ broker \in BOOLEAN /\ service \in Services
  /\ world = 0
  /\ located = FALSE /\ initialized = FALSE
  /\ weather = [data |-> Blank, updated |-> FALSE]
  /\ pollution = [data |-> Blank, updated |-> FALSE]
  /\ cached = FALSE /\ expiry = FALSE /\ valid = FALSE /\ emptied = FALSE
  /\ at = "locate"
  /\ connected = FALSE /\ reporting = FALSE /\ message = Silence
  /\ request = [text |-> Silence, count |-> 0]
  /\ heard = <<>>

-----------------------------------------------------------------------------
(* the world outside *)

WorldChanges ==
  /\ \/ network' = ~network /\ UNCHANGED <<broker, service, world>>
     \/ broker' = ~broker /\ UNCHANGED <<network, service, world>>
     \/ service' \in Services \ {service} /\ UNCHANGED <<network, broker, world>>
     \/ world < MaxWorld /\ world' = world + 1 /\ UNCHANGED <<network, broker, service>>
  /\ UNCHANGED <<located, weatherVars, at, mqttVars, portVars>>

(* The client library notices that the broker is gone. *)
ConnectionLost ==
  /\ connected /\ ~broker
  /\ connected' = FALSE
  /\ UNCHANGED <<outside, located, weatherVars, at, reporting, message, portVars>>

-----------------------------------------------------------------------------
(* the start, on the main thread *)

(* init_environment: a location that cannot be had is made up, one that
   cannot be read stays unknown, and then the weather is never asked for; nor
   is it without a key. *)
Locate ==
  /\ at = "locate"
  /\ located' \in BOOLEAN
  /\ \E key \in BOOLEAN : initialized' = (key /\ located')
  /\ at' = "connect"
  /\ UNCHANGED <<outside, weather, pollution, cached, expiry, valid, emptied, mqttVars, portVars>>

(* The reports start only if there is a broker to connect to and the first
   connection succeeds. *)
Connect ==
  /\ at = "connect"
  /\ \E host \in BOOLEAN : connected' = (host /\ network /\ broker)
  /\ reporting' = connected'
  /\ at' = "idle"
  /\ UNCHANGED <<outside, located, weatherVars, message, portVars>>

-----------------------------------------------------------------------------
(* the handlers of the timers, on the main thread *)

(* update_environment_handler, every twenty seconds *)
UpdateEnvironment ==
  /\ at = "idle"
  /\ network
  /\ at' = IF cached THEN "publish" ELSE "fetch"
  /\ UNCHANGED <<outside, located, weatherVars, mqttVars, portVars>>

\* Variant of FetchWeather: every failure is made up for.
FetchWeatherAlways ==
  /\ at = "fetch"
  /\ weather' = [weather EXCEPT !.data = IF initialized /\ service = "full" THEN world ELSE Fake]
  /\ at' = "mark"
  /\ UNCHANGED <<outside, located, initialized, pollution, cached, expiry, valid, emptied, mqttVars, portVars>>

MakeUp == weather' = [weather EXCEPT !.data = Fake] /\ at' = "mark" /\ UNCHANGED emptied

(* update_owm_weather: the measurements, and after them the flag. An answer
   that cannot be read leaves both alone, one without measurements sets the
   flag all the same. *)
FetchWeather ==
  /\ at = "fetch"
  /\ \/ ~initialized /\ MakeUp
     \/ initialized /\ service = "down" /\ ~weather.updated /\ MakeUp
     \/ /\ initialized
        /\ service = "garbled" \/ (service = "down" /\ weather.updated)
        /\ at' = "pollution" /\ UNCHANGED <<weather, emptied>>
     \/ /\ initialized /\ service = "empty"
        /\ at' = "mark" /\ emptied' = TRUE /\ UNCHANGED weather
     \/ /\ initialized /\ service = "full"
        /\ weather' = [weather EXCEPT !.data = world]
        /\ at' = "mark" /\ UNCHANGED emptied
  /\ UNCHANGED <<outside, located, initialized, pollution, cached, expiry, valid, mqttVars, portVars>>

MarkWeather ==
  /\ at = "mark"
  /\ weather' = [weather EXCEPT !.updated = TRUE]
  /\ at' = "pollution"
  /\ UNCHANGED <<outside, located, initialized, pollution, cached, expiry, valid, emptied, mqttVars, portVars>>

(* update_owm_pollution: nothing is made up here. *)
FetchPollution ==
  /\ at = "pollution"
  /\ \/ /\ ~initialized \/ service \in {"down", "garbled"}
        /\ at' = "cache" /\ UNCHANGED <<pollution, emptied>>
     \/ /\ initialized /\ service = "empty"
        /\ at' = "markPollution" /\ emptied' = TRUE /\ UNCHANGED pollution
     \/ /\ initialized /\ service = "full"
        /\ pollution' = [pollution EXCEPT !.data = world]
        /\ at' = "markPollution" /\ UNCHANGED emptied
  /\ UNCHANGED <<outside, located, initialized, weather, cached, expiry, valid, mqttVars, portVars>>

MarkPollution ==
  /\ at = "markPollution"
  /\ pollution' = [pollution EXCEPT !.updated = TRUE]
  /\ at' = "cache"
  /\ UNCHANGED <<outside, located, initialized, weather, cached, expiry, valid, emptied, mqttVars, portVars>>

\* Variant of Cache: the timer is not armed.
CacheForGood ==
  /\ at = "cache"
  /\ cached' = (weather.updated /\ pollution.updated)
  /\ at' = "publish"
  /\ UNCHANGED <<outside, located, initialized, weather, pollution, expiry, valid, emptied, mqttVars, portVars>>

(* update_owm: with both flags set there is nothing to fetch for fifteen
   minutes. *)
Cache ==
  /\ at = "cache"
  /\ cached' = (weather.updated /\ pollution.updated)
  /\ expiry' = (expiry \/ cached')
  /\ at' = "publish"
  /\ UNCHANGED <<outside, located, initialized, weather, pollution, valid, emptied, mqttVars, portVars>>

\* Variant of Publish: it does not wait for the pollution.
PublishWeather ==
  /\ at = "publish"
  /\ valid' = (located /\ weather.updated)
  /\ message' = IF connected /\ valid' /\ broker
                THEN IF weather.data < pollution.data THEN weather.data ELSE pollution.data
                ELSE message
  /\ at' = "idle"
  /\ UNCHANGED <<outside, located, initialized, weather, pollution, cached, expiry, emptied,
                 connected, reporting, portVars>>

(* update_weather and publish_telemetry: the message tells the worse of the
   two measurements here. *)
Publish ==
  /\ at = "publish"
  /\ valid' = (located /\ weather.updated /\ pollution.updated)
  /\ message' = IF connected /\ valid' /\ broker
                THEN IF weather.data < pollution.data THEN weather.data ELSE pollution.data
                ELSE message
  /\ at' = "idle"
  /\ UNCHANGED <<outside, located, initialized, weather, pollution, cached, expiry, emptied,
                 connected, reporting, portVars>>

WeatherCacheExpired ==
  /\ at = "idle"
  /\ expiry
  /\ expiry' = FALSE /\ cached' = FALSE
  /\ UNCHANGED <<outside, located, initialized, weather, pollution, valid, emptied, at, mqttVars, portVars>>

\* Variant of Report: it only publishes.
ReportOnly ==
  /\ at = "idle"
  /\ reporting /\ connected
  /\ UNCHANGED envVars

(* safe_mqtt_publish, for the heart beat and for the memory report *)
Report ==
  /\ at = "idle"
  /\ reporting /\ ~connected
  /\ connected' = broker
  /\ UNCHANGED <<outside, located, weatherVars, at, reporting, message, portVars>>

-----------------------------------------------------------------------------
(* ports, on the thread of the CPU *)

Known(m) == IF m.updated THEN m.data ELSE Silence

(* Every OUT empties the request unit; 35 and 39 fill it with a value, if it
   is known. *)
Ask(text) ==
  /\ at \notin {"locate", "connect"}
  /\ request' = [text |-> text, count |-> 0]
  /\ heard' = <<>>
  /\ UNCHANGED <<outside, located, weatherVars, at, mqttVars>>

WeatherOut == Ask(Known(weather)) \/ Ask(Known(pollution))
OtherOut == Ask(Silence)

(* IN 200: the next byte, or 0 behind the last *)
RequestIn ==
  /\ at \notin {"locate", "connect"}
  /\ Len(heard) < TextLength
  /\ request.text # Silence /\ request.count < TextLength
  /\ request' = [request EXCEPT !.count = @ + 1]
  /\ heard' = Append(heard, <<request.text, request.count + 1>>)
  /\ UNCHANGED <<outside, located, weatherVars, at, mqttVars>>

-----------------------------------------------------------------------------
Start == Locate \/ Connect
Fetch == FetchWeather \/ MarkWeather \/ FetchPollution \/ MarkPollution \/ Cache \/ Publish
Handlers == UpdateEnvironment \/ WeatherCacheExpired \/ Report
Cpu == WeatherOut \/ OtherOut \/ RequestIn

EnvNext == Start \/ Fetch \/ Handlers \/ Cpu \/ WorldChanges \/ ConnectionLost

(* The main thread's event loop runs each timer that is due. *)
Fairness == /\ WF_envVars(Start \/ Fetch)
            /\ SF_envVars(UpdateEnvironment) /\ SF_envVars(WeatherCacheExpired) /\ SF_envVars(Report)

EnvSpec == EnvInit /\ [][EnvNext]_envVars /\ Fairness

-----------------------------------------------------------------------------
(* A message goes out only when the location, the weather and the pollution
   have all been had: unless the service has answered without measurements,
   no field of it is still blank, and the pollution is real (update_weather,
   publish_telemetry and the three flags they read). *)
PublishedComplete ==
  message # Silence => /\ located /\ initialized
                       /\ emptied \/ message >= Fake

(* Made-up weather never takes the place of measurements, and older
   measurements never the place of newer ones, whatever fails in between. *)
NeverBack == [][weather'.data >= weather.data /\ pollution'.data >= pollution.data]_envVars

(* The thread of the CPU reads while the main thread writes: it sees a flag
   only after the data, so that a program is not told the blank fields of the
   start (weather_output). *)
ShownIsKnown == request.text = Blank => emptied

(* A program that reads bytes until it has the answer gets the text of its
   last OUT from the first byte on, even if it left an earlier one unread and
   the environment has changed since (io_port_out, io_port_in). *)
AnswerWhole == \A i \in DOMAIN heard : heard[i] = <<request.text, i>>

(* If the network stays and the service answers, what is shown is in the end
   the weather there is: the cache does not last for ever (update_owm). *)
Refreshes == <>[](network /\ service = "full") => <>[](initialized => weather.data = world)

(* A broker that stays reachable is connected to again, if the first
   connection succeeded: the reports then go on (safe_mqtt_publish). *)
Reconnects == <>[]broker => [](reporting => <>connected)
=============================================================================
