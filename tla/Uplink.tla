------------------------------- MODULE Uplink --------------------------------
(***************************************************************************)
(* The gateway between ESP-NOW and the broker: run_gateway_mode of         *)
(* main.cpp, task_publisher of core/tasks.cpp with core/wifi_manager.cpp,  *)
(* core/wifi_policy.cpp and core/mqtt_handler.cpp, and                     *)
(* espnow_gateway_reinit.  The access point, the way to the broker and the *)
(* broker's view of the session are the environment.  One radio serves     *)
(* WiFi and ESP-NOW: joining an access point ends the sending side of      *)
(* ESP-NOW until it is set up again.  Readings are counted, not told       *)
(* apart: what becomes of each is the subject of module House.             *)
(***************************************************************************)
EXTENDS Naturals

CONSTANTS
    DATA_QUEUE_SIZE, \* readings g_data_queue holds
    MaxReadings,     \* bound: readings queued
    MaxOrders,       \* bound: MQTT commands to the gateway itself
    MaxCuts          \* bound: power cuts

ASSUME UplinkAssumption ==
    /\ DATA_QUEUE_SIZE \in Nat \ {0}
    /\ MaxReadings \in Nat /\ MaxOrders \in Nat /\ MaxCuts \in Nat

VARIABLES
    ap, wan,     \* the access point; the way from there to the broker
    pc, phase,   \* where the code is; whether setup or the publisher runs it
    link,        \* the station: off, joined, up once verified, lost, or
                 \* rejoined by the WiFi driver
    sender,      \* esp_now_send works
    session,     \* mqtt.connected()
    tcp,         \* the connection behind it is alive
    will,        \* the broker holds a session, with its last will
    status,      \* the retained status topic
    data,        \* readings in g_data_queue
    met,         \* read by no step: this round of the publisher had a session
    left         \* readings, orders and power cuts still to come

uplinkVars == <<ap, wan, pc, phase, link, sender, session, tcp, will,
                status, data, met, left>>

air    == <<ap, wan>>
radio  == <<link, sender>>
client == <<session, tcp>>
broker == <<will, status>>

Joined == {"joined", "up", "rejoined"}
Online == {"mqtt", "connect", "announce", "serve", "drain", "ota"}

UplinkTypeOK ==
    /\ ap \in BOOLEAN /\ wan \in {"up", "down", "stalls"}
    /\ pc \in {"off", "join", "scan", "reinit", "wifi"} \cup Online
    /\ phase \in {"boot", "run"}
    /\ link \in {"off", "lost"} \cup Joined
    /\ sender \in BOOLEAN /\ session \in BOOLEAN /\ tcp \in BOOLEAN
    /\ will \in BOOLEAN /\ status \in {"none", "online", "offline", "other"}
    /\ data \in 0 .. DATA_QUEUE_SIZE /\ met \in BOOLEAN
    /\ left \in [readings : 0 .. MaxReadings, orders : 0 .. MaxOrders, cuts : 0 .. MaxCuts]

UplinkInit ==
    /\ ap \in BOOLEAN /\ wan \in {"up", "down", "stalls"}
    /\ pc = "off" /\ phase = "boot"
    /\ link = "off" /\ sender = FALSE
    /\ session = FALSE /\ tcp = FALSE
    /\ will = FALSE /\ status = "none"
    /\ data = 0 /\ met = FALSE
    /\ left = [readings |-> MaxReadings, orders |-> MaxOrders, cuts |-> MaxCuts]

(* The broker is there; one that stalls takes the connection and answers   *)
(* nothing.                                                                *)
Good   == ap /\ wan = "up"
Reach  == Good /\ link \in Joined
Stalls == link \in Joined /\ wan = "stalls"

(* What is published reaches the broker over a live connection only; the   *)
(* client is told of no loss (QoS 0).                                      *)
Retain(word) == status' = IF session /\ tcp THEN word ELSE status

-----------------------------------------------------------------------------
(* Joining the access point: wifi_connect_secure                           *)

(* tasks_init_hardware brings ESP-NOW up, wifi_connect turns the radio off *)
(* and on again.                                                           *)
Boot ==
    /\ pc = "off"
    /\ pc' = "join" /\ phase' = "boot"
    /\ UNCHANGED <<air, radio, client, broker, data, met, left>>

(* Where wifi_connect returns to when it fails: setup goes on without, the *)
(* publisher waits and tries again.                                        *)
NoWifi ==
    /\ link' = "off"
    /\ pc' = IF phase = "boot" THEN "reinit" ELSE "wifi"

JoinOk ==
    /\ pc = "join" /\ ap
    /\ pc' = "scan"
    /\ link' = "joined" /\ sender' = FALSE
    /\ UNCHANGED <<air, phase, client, broker, data, met, left>>

JoinFails ==
    /\ pc = "join"
    /\ NoWifi
    /\ UNCHANGED <<air, phase, sender, client, broker, data, met, left>>

(* Mutant: the rejoin is not followed by a re-init.                        *)
ScanOkOnly ==
    /\ pc = "scan"
    /\ pc' = IF phase = "boot" THEN "connect" ELSE "mqtt"
    /\ link' = IF link \in Joined THEN "up" ELSE link
    /\ UNCHANGED <<air, phase, sender, client, broker, data, met, left>>

(* The scan finds the network and it is WPA2 or better ...                 *)
ScanOk ==
    /\ pc = "scan"
    /\ pc' = IF phase = "boot" THEN "connect" ELSE "reinit"
    /\ link' = IF link \in Joined THEN "up" ELSE link
    /\ UNCHANGED <<air, phase, sender, client, broker, data, met, left>>

(* Mutant: the refused network is not left.                                *)
ScanFailsStays ==
    /\ pc = "scan"
    /\ pc' = IF phase = "boot" THEN "reinit" ELSE "wifi"
    /\ UNCHANGED <<air, phase, radio, client, broker, data, met, left>>

(* ... or not, and the station leaves it.                                  *)
ScanFails ==
    /\ pc = "scan"
    /\ NoWifi
    /\ UNCHANGED <<air, phase, sender, client, broker, data, met, left>>

(* espnow_gateway_reinit, then ntp_sync.  Without a radio it fails, which  *)
(* no caller looks at.  In setup the tasks start next.                     *)
Reinit ==
    /\ pc = "reinit"
    /\ sender' = (link # "off")
    /\ pc' = IF phase = "boot" THEN "wifi" ELSE "mqtt"
    /\ phase' = "run"
    /\ UNCHANGED <<air, link, client, broker, data, met, left>>

-----------------------------------------------------------------------------
(* task_publisher                                                          *)

(* wifi_ensure_connected: a link that is down is taken down altogether.    *)
WifiCheck ==
    /\ pc = "wifi"
    /\ met' = FALSE
    /\ IF link \in Joined
       THEN pc' = "mqtt" /\ UNCHANGED radio
       ELSE pc' = "join" /\ link' = "off" /\ sender' = FALSE
    /\ UNCHANGED <<air, phase, client, broker, data, left>>

MqttCheck ==
    /\ pc = "mqtt"
    /\ pc' = IF session THEN "serve" ELSE "connect"
    /\ met' = session
    /\ UNCHANGED <<air, phase, radio, client, broker, data, left>>

(* Mutant: the session has no last will.                                   *)
ConnectOkNoWill ==
    /\ pc = "connect" /\ Reach
    /\ session' = TRUE /\ tcp' = TRUE
    /\ will' = FALSE
    /\ status' \in IF will THEN {status, "offline"} ELSE {status}
    /\ pc' = "announce"
    /\ UNCHANGED <<air, phase, radio, data, met, left>>

(* mqtt_connect.  The broker ends a session it still held before it        *)
(* accepts the new one, and may publish its will then.                     *)
ConnectOk ==
    /\ pc = "connect" /\ Reach
    /\ session' = TRUE /\ tcp' = TRUE
    /\ will' = TRUE
    /\ status' \in IF will THEN {status, "offline"} ELSE {status}
    /\ pc' = "announce"
    /\ UNCHANGED <<air, phase, radio, data, met, left>>

(* Mutants: setup tries again; the publisher goes on without a connection. *)
ConnectFailsAgain ==
    /\ pc = "connect" /\ ~Stalls
    /\ session' = FALSE /\ tcp' = FALSE
    /\ pc' = IF phase = "boot" THEN "connect" ELSE "wifi"
    /\ UNCHANGED <<air, phase, radio, broker, data, met, left>>

ConnectFailsOn ==
    /\ pc = "connect" /\ ~Stalls
    /\ session' = FALSE /\ tcp' = FALSE
    /\ pc' = IF phase = "boot" THEN "reinit" ELSE "serve"
    /\ UNCHANGED <<air, phase, radio, broker, data, met, left>>

(* No way to the broker, no certificate to show, a login or a handshake    *)
(* that a broker which is there refuses.                                   *)
ConnectFails ==
    /\ pc = "connect" /\ ~Stalls
    /\ session' = FALSE /\ tcp' = FALSE
    /\ pc' = IF phase = "boot" THEN "reinit" ELSE "wifi"
    /\ UNCHANGED <<air, phase, radio, broker, data, met, left>>

(* Mutant: nobody says that the gateway is back.                           *)
AnnounceNothing ==
    /\ pc = "announce"
    /\ pc' = IF phase = "boot" THEN "reinit" ELSE "serve"
    /\ met' = TRUE
    /\ UNCHANGED <<air, phase, radio, client, broker, data, left>>

Announce ==
    /\ pc = "announce"
    /\ Retain("online")
    /\ pc' = IF phase = "boot" THEN "reinit" ELSE "serve"
    /\ met' = TRUE
    /\ UNCHANGED <<air, phase, radio, client, will, data, left>>

(* mqtt_loop, called once before the queue is looked at and after every    *)
(* reading: nothing comes, ...                                             *)
ServeNothing ==
    /\ pc = "serve"
    /\ pc' = "drain"
    /\ UNCHANGED <<air, phase, radio, client, broker, data, met, left>>

(* ... or the connection is found dead, by a write or a missing ping, ...  *)
ServeDead ==
    /\ pc = "serve" /\ session /\ ~tcp
    /\ session' = FALSE
    /\ pc' = "drain"
    /\ UNCHANGED <<air, phase, radio, tcp, broker, data, met, left>>

(* ... or on_mqtt_command gets one for the gateway itself: PING and PAIR   *)
(* are answered on the status topic, OTA starts there and goes on.         *)
Order ==
    /\ pc = "serve" /\ session /\ tcp /\ left.orders > 0
    /\ left' = [left EXCEPT !.orders = @ - 1]
    /\ Retain("other")
    /\ pc' \in {"drain", "ota"}
    /\ UNCHANGED <<air, phase, radio, client, will, data, met>>

(* ota_self_update_https came to nothing.                                  *)
OtaFails ==
    /\ pc = "ota"
    /\ Retain("other")
    /\ pc' = "drain"
    /\ UNCHANGED <<air, phase, radio, client, will, data, met, left>>

(* A reading leaves the queue, published or not.                           *)
DrainOne ==
    /\ pc = "drain" /\ data > 0
    /\ data' = data - 1
    /\ pc' = "serve"
    /\ UNCHANGED <<air, phase, radio, client, broker, met, left>>

DrainEmpty ==
    /\ pc = "drain" /\ data = 0
    /\ pc' = "wifi"
    /\ UNCHANGED <<air, phase, radio, client, broker, data, met, left>>

(* Mutant: the queue has no limit.                                         *)
ArriveAny ==
    /\ phase = "run" /\ pc # "off" /\ left.readings > 0
    /\ data' = data + 1
    /\ left' = [left EXCEPT !.readings = @ - 1]
    /\ UNCHANGED <<air, pc, phase, radio, client, broker, met>>

(* The receiver and the reader task queue a reading, or drop it.           *)
Arrive ==
    /\ phase = "run" /\ pc # "off" /\ left.readings > 0
    /\ data' = IF data < DATA_QUEUE_SIZE THEN data + 1 ELSE data
    /\ left' = [left EXCEPT !.readings = @ - 1]
    /\ UNCHANGED <<air, pc, phase, radio, client, broker, met>>

-----------------------------------------------------------------------------
(* Restarts                                                                *)

(* RAM is gone; nobody tells the broker.                                   *)
Restart ==
    /\ pc' = "off" /\ phase' = "boot"
    /\ link' = "off" /\ sender' = FALSE
    /\ session' = FALSE /\ tcp' = FALSE
    /\ data' = 0 /\ met' = FALSE
    /\ UNCHANGED <<air, will>>

(* REBOOT, or an update that is complete.                                  *)
RebootOrder ==
    /\ pc = "serve" /\ session /\ tcp /\ left.orders > 0
    /\ left' = [left EXCEPT !.orders = @ - 1]
    /\ Retain("other")
    /\ Restart

OtaDone ==
    /\ pc = "ota"
    /\ Restart
    /\ UNCHANGED <<status, left>>

(* The task watchdog: nothing feeds it while a TLS handshake waits for a   *)
(* broker that stalls, nor while the signature of an update is fetched.    *)
WatchdogBites ==
    /\ (pc = "connect" /\ Stalls) \/ pc = "ota"
    /\ Restart
    /\ UNCHANGED <<status, left>>

PowerCut ==
    /\ pc # "off" /\ left.cuts > 0
    /\ left' = [left EXCEPT !.cuts = @ - 1]
    /\ Restart
    /\ UNCHANGED status

-----------------------------------------------------------------------------
(* The environment                                                         *)

AccessPoint ==
    /\ ap' = ~ap
    /\ link' = IF link \in Joined /\ ap THEN "lost" ELSE link
    /\ tcp' = FALSE
    /\ UNCHANGED <<wan, pc, phase, sender, session, broker, data, met, left>>

WayToBroker ==
    /\ wan' \in {"up", "down", "stalls"} \ {wan}
    /\ tcp' = FALSE
    /\ UNCHANGED <<ap, pc, phase, radio, session, broker, data, met, left>>

(* The WiFi library rejoins the network it was connected to, on a task of  *)
(* its own.                                                                *)
DriverRejoin ==
    /\ link = "lost" /\ ap
    /\ link' = "rejoined" /\ sender' = FALSE
    /\ UNCHANGED <<air, pc, phase, client, broker, data, met, left>>

(* The broker has heard nothing for one and a half keep-alive times, and   *)
(* publishes the will.  A gateway in the middle of an update sends no ping.*)
BrokerTimeout ==
    /\ will /\ (~tcp \/ pc = "ota")
    /\ will' = FALSE /\ status' = "offline"
    /\ tcp' = FALSE
    /\ UNCHANGED <<air, pc, phase, radio, session, data, met, left>>

-----------------------------------------------------------------------------
GatewayStep ==
    \/ Boot \/ JoinOk \/ JoinFails \/ ScanOk \/ ScanFails \/ Reinit
    \/ WifiCheck \/ MqttCheck \/ ConnectOk \/ ConnectFails \/ Announce
    \/ ServeNothing \/ ServeDead \/ Order \/ RebootOrder
    \/ OtaFails \/ OtaDone \/ WatchdogBites
    \/ DrainOne \/ DrainEmpty

UplinkNext ==
    \/ GatewayStep
    \/ Arrive \/ PowerCut
    \/ AccessPoint \/ WayToBroker \/ DriverRejoin \/ BrokerTimeout

(* Setup and the publisher run, with a limit on every wait; a network that *)
(* is there is joined and found at last, a broker that is there accepts at *)
(* last; a dead connection is noticed at last; the broker keeps its time.  *)
UplinkFairness ==
    /\ WF_uplinkVars(GatewayStep)
    /\ SF_uplinkVars(JoinOk) /\ SF_uplinkVars(ScanOk) /\ SF_uplinkVars(ConnectOk)
    /\ SF_uplinkVars(ServeDead)
    /\ WF_uplinkVars(BrokerTimeout)

UplinkSpec == UplinkInit /\ [][UplinkNext]_uplinkVars /\ UplinkFairness

-----------------------------------------------------------------------------
(* Properties                                                              *)

(* espnow_gateway_reinit after every join of setup and of the publisher:   *)
(* whenever the publisher is at work on a link of theirs, replies to       *)
(* sensors go out.                                                         *)
SenderFollowsLink ==
    phase = "run" /\ pc \in Online /\ link \in {"joined", "up"} => sender

(* The re-init "covers EVERY later reconnect too" (wifi_manager.cpp), also *)
(* that of the WiFi driver.                                                *)
EveryReconnect ==
    phase = "run" /\ pc \in Online /\ link \in Joined => sender

(* wifi_policy.cpp "fail closed": no publication, command or update over a *)
(* network that was joined and whose security was not looked at.           *)
OnlyVerified == pc \in Online => link # "joined"

(* A round of the publisher that finds no session leaves the readings in   *)
(* the queue for a later one.                                              *)
KeptWhileDown == [][data' < data /\ pc' # "off" => met]_uplinkVars

(* "background retry" (main.cpp): once network and broker are there to     *)
(* stay, whatever happened before, the gateway has a session again, the    *)
(* queue is empty and the status topic does not call it offline.           *)
ComesBack ==
    <>[]Good => <>[](session /\ tcp /\ data = 0 /\ status # "offline")

(* While the status topic calls the gateway anything but offline, the      *)
(* broker holds its last will (mqtt_connect): no restart, cut or update    *)
(* leaves a topic behind that nobody would correct.                        *)
AliveIsWatched == status \in {"online", "other"} => will

(* The last will: a house cut off for good is told from a silent one.      *)
GoneIsOffline == <>[]~Good => <>[](status \in {"none", "offline"})

(* "MQTT connect failed -- background retry." (main.cpp): whatever is      *)
(* missing, network or broker, setup is over at last, unless a broker that *)
(* stalls keeps it waiting until the watchdog bites; and with an access    *)
(* point that is there to stay, replies to sensors go out for good whether *)
(* or not the broker is there, is refusing or comes and goes.  A link that *)
(* the WiFi driver rejoined is excepted: EveryReconnect is false of it.    *)
(* Without an access point nothing is said of sensors: each try to join    *)
(* takes the radio down (wifi_manager.cpp).                                *)
ServesWithoutBroker ==
    <>[](wan # "stalls") =>
        /\ <>[](phase = "run")
        /\ <>[]ap => <>[](sender \/ link = "rejoined")

=============================================================================
