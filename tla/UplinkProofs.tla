---------------------------- MODULE UplinkProofs -----------------------------
(***************************************************************************)
(* Proofs about Uplink, for any queue and any number of readings, orders   *)
(* and power cuts, whatever the networks do: the types; that replies go    *)
(* out over every link setup or publisher made, and nothing is published   *)
(* over one that was not looked at; that readings wait while there is no   *)
(* session; that the broker will announce the end of every session that is *)
(* alive.                                                                  *)
(***************************************************************************)
EXTENDS Uplink, TLAPS

-----------------------------------------------------------------------------
(* The invariant                                                           *)

(* Only the scan still has to look at the network that was joined.         *)
LinkInv == link = "joined" => pc = "scan"

(* SenderFollowsLink reaches back to where the publisher starts a round.   *)
SenderInv ==
    phase = "run" /\ pc \in Online \cup {"wifi"} /\ link \in {"joined", "up"} => sender

(* Whoever serves the queue had a session in this round.                   *)
MetInv == pc \in {"serve", "drain", "ota"} => met

UplinkInv == UplinkTypeOK /\ LinkInv /\ SenderInv /\ MetInv

(* UplinkTypeOK in two parts, for the two provers.                         *)
TruthType ==
    /\ ap \in BOOLEAN /\ sender \in BOOLEAN /\ session \in BOOLEAN
    /\ tcp \in BOOLEAN /\ will \in BOOLEAN /\ met \in BOOLEAN

ValueType ==
    /\ wan \in {"up", "down", "stalls"}
    /\ pc \in {"off", "join", "scan", "reinit", "wifi"} \cup Online
    /\ phase \in {"boot", "run"} /\ link \in {"off", "lost"} \cup Joined
    /\ status \in {"none", "online", "offline", "other"}
    /\ data \in 0 .. DATA_QUEUE_SIZE
    /\ left \in [readings : 0 .. MaxReadings, orders : 0 .. MaxOrders, cuts : 0 .. MaxCuts]

LEMMA TypeParts ==
  /\ TruthType /\ ValueType => UplinkTypeOK
  /\ TruthType' /\ ValueType' => UplinkTypeOK'
  BY DEF UplinkTypeOK, TruthType, ValueType

-----------------------------------------------------------------------------
LEMMA UplinkInitInv == UplinkInit => UplinkInv
  <1>1. UplinkInit => TruthType
      BY Zenon DEF UplinkInit, TruthType
  <1>2. UplinkInit => ValueType
      BY UplinkAssumption DEF UplinkInit, ValueType, Online, Joined
  <1>3. UplinkInit => LinkInv /\ SenderInv /\ MetInv
      BY DEF UplinkInit, LinkInv, SenderInv, MetInv, Online, Joined
  <1> QED BY <1>1, <1>2, <1>3, TypeParts DEF UplinkInv

(* The steps of setup and of the publisher up to the connection.           *)
LEMMA JoinSteps ==
  ASSUME UplinkInv,
         Boot \/ JoinOk \/ JoinFails \/ ScanOk \/ ScanFails \/ Reinit \/ WifiCheck
  PROVE  UplinkInv'
  <1> USE DEF UplinkInv, UplinkTypeOK, LinkInv, SenderInv, MetInv, Online, Joined,
              air, radio, client, broker
  <1>1. CASE Boot
      BY <1>1 DEF Boot
  <1>2. CASE JoinOk
      BY <1>2 DEF JoinOk
  <1>3. CASE JoinFails
      BY <1>3 DEF JoinFails, NoWifi
  <1>4. CASE ScanOk
      BY <1>4 DEF ScanOk
  <1>5. CASE ScanFails
      BY <1>5 DEF ScanFails, NoWifi
  <1>6. CASE Reinit
    <2>1. TruthType'
        BY <1>6, Zenon DEF Reinit, TruthType
    <2>2. ValueType'
        BY <1>6 DEF Reinit, ValueType
    <2>3. LinkInv' /\ SenderInv' /\ MetInv'
        BY <1>6 DEF Reinit
    <2> QED BY ONLY <2>1, <2>2, <2>3, TypeParts DEF UplinkInv
  <1>7. CASE WifiCheck
    <2>1. TruthType'
        BY <1>7, Zenon DEF WifiCheck, TruthType
    <2>2. ValueType'
        BY <1>7 DEF WifiCheck, ValueType
    <2>3. LinkInv' /\ SenderInv' /\ MetInv'
        BY <1>7 DEF WifiCheck
    <2> QED BY ONLY <2>1, <2>2, <2>3, TypeParts DEF UplinkInv
  <1> QED BY <1>1, <1>2, <1>3, <1>4, <1>5, <1>6, <1>7

(* The connection and what is done over it.                                *)
LEMMA ServeSteps ==
  ASSUME UplinkInv,
         \/ MqttCheck \/ ConnectOk \/ ConnectFails \/ Announce
         \/ ServeNothing \/ ServeDead \/ Order \/ OtaFails \/ DrainOne \/ DrainEmpty
  PROVE  UplinkInv'
  <1> USE UplinkAssumption
      DEF UplinkInv, UplinkTypeOK, LinkInv, SenderInv, MetInv, Online, Joined,
          air, radio, client, broker, Retain
  <1>1. CASE MqttCheck
      BY <1>1 DEF MqttCheck
  <1>2. CASE ConnectOk
      BY <1>2 DEF ConnectOk
  <1>3. CASE ConnectFails
      BY <1>3 DEF ConnectFails
  <1>4. CASE Announce
      BY <1>4 DEF Announce
  <1>5. CASE ServeNothing
      BY <1>5 DEF ServeNothing
  <1>6. CASE ServeDead
      BY <1>6 DEF ServeDead
  <1>7. CASE Order
      BY <1>7 DEF Order
  <1>8. CASE OtaFails
      BY <1>8 DEF OtaFails
  <1>9. CASE DrainOne
      BY <1>9 DEF DrainOne
  <1>10. CASE DrainEmpty
      BY <1>10 DEF DrainEmpty
  <1> QED BY <1>1, <1>2, <1>3, <1>4, <1>5, <1>6, <1>7, <1>8, <1>9, <1>10

(* Restarts, readings and the world outside.                               *)
LEMMA OutsideSteps ==
  ASSUME UplinkInv,
         \/ RebootOrder \/ OtaDone \/ WatchdogBites \/ PowerCut
         \/ Arrive \/ AccessPoint \/ WayToBroker \/ DriverRejoin \/ BrokerTimeout
  PROVE  UplinkInv'
  <1> USE UplinkAssumption
      DEF UplinkInv, UplinkTypeOK, LinkInv, SenderInv, MetInv, Online, Joined,
          air, radio, client, broker, Retain, Restart
  <1>1. CASE RebootOrder
    <2>1. TruthType'
        BY <1>1, Zenon DEF RebootOrder, TruthType
    <2>2. ValueType'
        BY <1>1 DEF RebootOrder, ValueType
    <2>3. LinkInv' /\ SenderInv' /\ MetInv'
        BY <1>1 DEF RebootOrder
    <2> QED BY ONLY <2>1, <2>2, <2>3, TypeParts DEF UplinkInv
  <1>2. CASE OtaDone
    <2>1. TruthType'
        BY <1>2, Zenon DEF OtaDone, TruthType
    <2>2. ValueType'
        BY <1>2 DEF OtaDone, ValueType
    <2>3. LinkInv' /\ SenderInv' /\ MetInv'
        BY <1>2 DEF OtaDone
    <2> QED BY ONLY <2>1, <2>2, <2>3, TypeParts DEF UplinkInv
  <1>3. CASE WatchdogBites
    <2>1. TruthType'
        BY <1>3, Zenon DEF WatchdogBites, TruthType
    <2>2. ValueType'
        BY <1>3 DEF WatchdogBites, ValueType
    <2>3. LinkInv' /\ SenderInv' /\ MetInv'
        BY <1>3 DEF WatchdogBites
    <2> QED BY ONLY <2>1, <2>2, <2>3, TypeParts DEF UplinkInv
  <1>4. CASE PowerCut
    <2>1. TruthType'
        BY <1>4, Zenon DEF PowerCut, TruthType
    <2>2. ValueType'
        BY <1>4 DEF PowerCut, ValueType
    <2>3. LinkInv' /\ SenderInv' /\ MetInv'
        BY <1>4 DEF PowerCut
    <2> QED BY ONLY <2>1, <2>2, <2>3, TypeParts DEF UplinkInv
  <1>5. CASE Arrive
      BY <1>5 DEF Arrive
  <1>6. CASE AccessPoint
    <2>1. TruthType'
        BY <1>6, Zenon DEF AccessPoint, TruthType
    <2>2. ValueType'
        BY <1>6 DEF AccessPoint, ValueType
    <2>3. LinkInv' /\ SenderInv' /\ MetInv'
        BY <1>6 DEF AccessPoint
    <2> QED BY ONLY <2>1, <2>2, <2>3, TypeParts DEF UplinkInv
  <1>7. CASE WayToBroker
    <2>1. TruthType'
        BY <1>7, Zenon DEF WayToBroker, TruthType
    <2>2. ValueType'
        BY <1>7 DEF WayToBroker, ValueType
    <2>3. LinkInv' /\ SenderInv' /\ MetInv'
        BY <1>7 DEF WayToBroker
    <2> QED BY ONLY <2>1, <2>2, <2>3, TypeParts DEF UplinkInv
  <1>8. CASE DriverRejoin
      BY <1>8 DEF DriverRejoin
  <1>9. CASE BrokerTimeout
    <2>1. TruthType'
        BY <1>9, Zenon DEF BrokerTimeout, TruthType
    <2>2. ValueType'
        BY <1>9 DEF BrokerTimeout, ValueType
    <2>3. LinkInv' /\ SenderInv' /\ MetInv'
        BY <1>9 DEF BrokerTimeout
    <2> QED BY ONLY <2>1, <2>2, <2>3, TypeParts DEF UplinkInv
  <1> QED BY <1>1, <1>2, <1>3, <1>4, <1>5, <1>6, <1>7, <1>8, <1>9

LEMMA UplinkStepInv == UplinkInv /\ [UplinkNext]_uplinkVars => UplinkInv'
  <1> SUFFICES ASSUME UplinkInv, [UplinkNext]_uplinkVars PROVE UplinkInv'
      OBVIOUS
  <1>1. CASE UNCHANGED uplinkVars
      BY <1>1 DEF uplinkVars, UplinkInv, UplinkTypeOK, LinkInv, SenderInv, MetInv
  <1>2. CASE UplinkNext
      BY <1>2, JoinSteps, ServeSteps, OutsideSteps DEF UplinkNext, GatewayStep
  <1> QED BY <1>1, <1>2

LEMMA UplinkInvariant == UplinkSpec => []UplinkInv
  BY UplinkInitInv, UplinkStepInv, PTL DEF UplinkSpec

-----------------------------------------------------------------------------
(* Queue, link, session and what the broker keeps have their types.        *)
THEOREM UplinkTypeCorrect == UplinkSpec => []UplinkTypeOK
  <1>1. UplinkInv => UplinkTypeOK
      BY DEF UplinkInv
  <1> QED BY <1>1, UplinkInvariant, PTL

(* wifi_ensure_connected covers every reconnect that is its own: replies   *)
(* to sensors go out whenever the publisher is at work on a link that was  *)
(* not remade behind its back.                                             *)
THEOREM UplinkSenderFollowsLink == UplinkSpec => []SenderFollowsLink
  <1>1. UplinkInv => SenderFollowsLink
      BY DEF UplinkInv, SenderInv, SenderFollowsLink
  <1> QED BY <1>1, UplinkInvariant, PTL

(* wifi_policy.cpp fails closed: of the networks the code joins, the       *)
(* publisher works over those only that the scan has accepted.             *)
THEOREM UplinkOnlyVerified == UplinkSpec => []OnlyVerified
  <1>1. UplinkInv => OnlyVerified
      BY DEF UplinkInv, LinkInv, OnlyVerified, Online
  <1> QED BY <1>1, UplinkInvariant, PTL

-----------------------------------------------------------------------------
(* Only the drain takes a reading from the queue while the box runs.       *)
LEMMA LessIsDrained ==
  ASSUME UplinkInv, UplinkNext, data' < data, pc' # "off"
  PROVE  met
  <1> USE DEF UplinkInv, UplinkTypeOK, broker, air, radio, client
  <1>1. data \in Nat
      BY UplinkAssumption
  <1>2. CASE DrainOne
      BY <1>2 DEF DrainOne, MetInv
  <1>3. CASE Arrive
      BY <1>1, <1>3 DEF Arrive
  <1>4. CASE RebootOrder \/ OtaDone \/ WatchdogBites \/ PowerCut
      BY <1>4 DEF RebootOrder, OtaDone, WatchdogBites, PowerCut, Restart
  <1>5. CASE Boot \/ JoinOk \/ JoinFails \/ ScanOk \/ ScanFails \/ Reinit \/ WifiCheck
      BY <1>1, <1>5 DEF Boot, JoinOk, JoinFails, ScanOk, ScanFails, Reinit, WifiCheck
  <1>6. CASE \/ MqttCheck \/ ConnectOk \/ ConnectFails \/ Announce
             \/ ServeNothing \/ ServeDead \/ Order \/ OtaFails \/ DrainEmpty
      BY <1>1, <1>6 DEF MqttCheck, ConnectOk, ConnectFails, Announce,
                        ServeNothing, ServeDead, Order, OtaFails, DrainEmpty
  <1>7. CASE AccessPoint \/ WayToBroker \/ DriverRejoin \/ BrokerTimeout
      BY <1>1, <1>7 DEF AccessPoint, WayToBroker, DriverRejoin, BrokerTimeout
  <1> QED BY <1>2, <1>3, <1>4, <1>5, <1>6, <1>7 DEF UplinkNext, GatewayStep

(* A round of the publisher that found no session takes nothing from       *)
(* g_data_queue, whatever fails and whoever restarts.                      *)
THEOREM UplinkKeptWhileDown == UplinkSpec => KeptWhileDown
  <1>1. UplinkInv /\ [UplinkNext]_uplinkVars
          => [data' < data /\ pc' # "off" => met]_uplinkVars
    <2> SUFFICES ASSUME UplinkInv, [UplinkNext]_uplinkVars
                 PROVE  [data' < data /\ pc' # "off" => met]_uplinkVars
        OBVIOUS
    <2>1. CASE UNCHANGED uplinkVars
        BY <2>1
    <2>2. CASE UplinkNext
        BY <2>2, LessIsDrained
    <2> QED BY <2>1, <2>2
  <1> QED BY <1>1, UplinkInvariant, PTL DEF UplinkSpec, KeptWhileDown

-----------------------------------------------------------------------------
(* A connection that lives is one the broker would miss.                   *)
WatchInv == (tcp => will) /\ AliveIsWatched

LEMMA WatchStep == WatchInv /\ [UplinkNext]_uplinkVars => WatchInv'
  <1> SUFFICES ASSUME WatchInv, [UplinkNext]_uplinkVars PROVE WatchInv'
      OBVIOUS
  <1> USE DEF WatchInv, AliveIsWatched, air, radio, client, broker
  <1>1. CASE UNCHANGED uplinkVars
      BY <1>1 DEF uplinkVars
  <1>2. CASE \/ Boot \/ JoinOk \/ JoinFails \/ ScanOk \/ ScanFails \/ Reinit
             \/ WifiCheck \/ MqttCheck
      BY <1>2 DEF Boot, JoinOk, JoinFails, ScanOk, ScanFails, Reinit, WifiCheck, MqttCheck
  <1>3. CASE ConnectOk \/ ConnectFails
      BY <1>3 DEF ConnectOk, ConnectFails
  <1>4. CASE Announce \/ Order \/ OtaFails
      BY <1>4 DEF Announce, Order, OtaFails, Retain
  <1>5. CASE ServeNothing \/ ServeDead \/ DrainOne \/ DrainEmpty \/ Arrive
      BY <1>5 DEF ServeNothing, ServeDead, DrainOne, DrainEmpty, Arrive
  <1>6. CASE RebootOrder \/ OtaDone \/ WatchdogBites \/ PowerCut
      BY <1>6 DEF RebootOrder, OtaDone, WatchdogBites, PowerCut, Restart, Retain
  <1>7. CASE AccessPoint \/ WayToBroker \/ DriverRejoin \/ BrokerTimeout
      BY <1>7 DEF AccessPoint, WayToBroker, DriverRejoin, BrokerTimeout
  <1> QED BY <1>1, <1>2, <1>3, <1>4, <1>5, <1>6, <1>7 DEF UplinkNext, GatewayStep

(* The last will of mqtt_connect covers all a gateway ever says on its     *)
(* status topic: the safety half of GoneIsOffline.                         *)
THEOREM UplinkAliveIsWatched == UplinkSpec => []AliveIsWatched
  <1>1. UplinkInit => WatchInv
      BY DEF UplinkInit, WatchInv, AliveIsWatched
  <1>2. WatchInv => AliveIsWatched
      BY DEF WatchInv
  <1> QED BY <1>1, <1>2, WatchStep, PTL DEF UplinkSpec

=============================================================================
