-------------------------- MODULE ConnectionProofs --------------------------
(***************************************************************************)
(* What Lte, MqttClient and HttpClient believe and return, however much    *)
(* the modem has on its way: the proofs of the invariants of Connection.   *)
(***************************************************************************)
EXTENDS Connection, SequenceTheorems, TLAPS

LteRuns ==
  \/ pc \in LteBeginPoints \union LteEndPoints
  \/ pc \in MqttEndPoints /\ after = "lte_detach"

(* The points between the commands' and end()'s.                           *)
DetachPoints ==
  {"lte_detach", "lte_detach_response", "lte_detaching", "lte_close"}
Unregistered == MqttEndPoints \ {"mqtt_end"}
ShutdownPoints ==
  {"http_wait_register", "http_wait", "http_shutdown", "http_unregister"}

(* Who is registered for what, and that waitForURC() cleans up.            *)
Registered ==
  /\ callback["CEREG"] \in {"wait", "connectionStatus", NULL}
  /\ callback["ONDISCONNECT"] \in {"internalDisconnect", NULL}
  /\ callback["ONMESSAGE"] \in {"onReceive", NULL}
  /\ callback["HTTPSH"] \in {"httpShutdown", NULL}
  /\ \A u \in {"HCESIGN", "ONCONNECT", "ONPUBLISH", "ONSUBSCRIBE",
               "HTTPRING"} : callback[u] \in {"wait", NULL}
  /\ callback["CEREG"] = "wait" => pc = "lte_wait"
  /\ callback["HCESIGN"] = "wait" => pc = "mqtt_sign_wait"
  /\ callback["ONCONNECT"] = "wait" => pc = "mqtt_wait"
  /\ callback["ONPUBLISH"] = "wait" => pc = "publish_wait"
  /\ callback["ONSUBSCRIBE"] = "wait" => pc = "subscribe_wait"
  /\ callback["HTTPRING"] = "wait" => pc = "http_wait"
  /\ callback["HTTPSH"] # NULL => pc \in ShutdownPoints

(* The controller runs as long as the library uses the network.            *)
Initialized ==
  /\ LteRuns \/ pc \in MqttBeginPoints => initialized
  /\ pc = "mqtt_end" => after = "lte_detach"
  /\ ~initialized =>
       /\ callback["CEREG"] = NULL /\ callback["ONDISCONNECT"] = NULL
       /\ is_connected = FALSE /\ connected_to_broker = FALSE

Ended ==
  /\ pc \in Unregistered \union DetachPoints => callback["ONDISCONNECT"] = NULL
  /\ pc \in DetachPoints => connected_to_broker = FALSE
  /\ pc = "lte_close" => callback["CEREG"] = NULL

(* connectionStatus() is registered whenever Lte.begin() has succeeded, and *)
(* the reports it has missed since did not leave it unconnected.           *)
Watching ==
  /\ initialized /\ ~LteRuns =>
       /\ callback["CEREG"] = "connectionStatus"
       /\ history.missed => is_connected
  /\ pc = "lte_connecting" => callback["CEREG"] = "connectionStatus"

LifeInvariant == TypeOK /\ Registered /\ Initialized /\ Ended /\ Watching
-----------------------------------------------------------------------------
IsReport(m) == m.of = "CEREG"
IsUp(m) == m.of = "CEREG" /\ m.data
IsDown(m) == m.of = "CEREG" /\ ~m.data

(* The modem will report how it is attached, or has, or the report has     *)
(* been received.                                                          *)
NetworkKnown ==
  \/ modem.report
  \/ \E i \in DOMAIN sent :
       /\ IsReport(sent[i]) /\ sent[i].data = modem.attached
       /\ \A j \in DOMAIN sent : j > i => ~IsReport(sent[j])
  \/ /\ \A i \in DOMAIN sent : ~IsReport(sent[i])
     /\ history.missed \/ is_connected = modem.attached

(* is_connected once the first k messages have been received.              *)
Connected(k) ==
  /\ \A i \in 1 .. k : IsDown(sent[i]) => \E j \in i + 1 .. k : IsUp(sent[j])
  /\ is_connected \/ LteRuns \/ \E j \in 1 .. k : IsUp(sent[j])

(* A session is begun, and an answer sent, on a network reported before.   *)
SessionReported ==
  modem.session # "none" => modem.attached /\ Connected(Len(sent))
AnswersReported ==
  \A k \in DOMAIN sent : sent[k].of = "ONCONNECT" => Connected(k)

(* After the first k messages, one will say that the session is lost.      *)
LossIsDue(k) ==
  \/ modem.report /\ ~modem.attached
  \/ \E j \in DOMAIN sent :
       j > k /\ (IsDown(sent[j]) \/ sent[j].of = "ONDISCONNECT")

Connecting ==
  {"mqtt_connect_response", "mqtt_connect_response_ecc", "mqtt_sign_register",
   "mqtt_sign_wait", "mqtt_sign", "mqtt_wait_register", "mqtt_wait",
   "mqtt_status"}
Answered == (pc = "mqtt_wait" /\ got # NULL) \/ pc = "mqtt_status"

(* The broker has accepted this begin(): ...                               *)
AnswersLost ==
  \A k \in DOMAIN sent : sent[k].of = "ONCONNECT" => LossIsDue(k)
AcceptedOrLost ==
  /\ pc \in Connecting /\ history.accepted # NULL =>
       modem.session = "up" \/ modem.session = "none"
  /\ pc \in Connecting /\ history.accepted = TRUE /\ modem.session # "up" =>
       AnswersLost
  /\ (Answered /\ history.accepted = TRUE) \/ pc = "mqtt_connected" =>
       modem.session = "up" \/ history.unnoticed \/ LossIsDue(0)
  /\ Answered \/ pc = "mqtt_connected" => history.unnoticed \/ is_connected

(* ... and MqttClient believes it.                                         *)
BeliefOrLost ==
  connected_to_broker /\ ~history.unnoticed =>
    /\ is_connected
    /\ pc \notin Unregistered =>
         /\ modem.session = "up" \/ LossIsDue(0)
         /\ pc = "mqtt_return"
              \/ callback["ONDISCONNECT"] = "internalDisconnect"

(* begin() gives up the former session, and end() the network.             *)
GivenUp ==
  /\ pc \in MqttBeginPoints \ {"mqtt_return"} => connected_to_broker = FALSE
  /\ ~initialized =>
       /\ ~modem.radio /\ ~modem.attached /\ ~modem.report
       /\ ~OnItsWay("CEREG")

BrokerInvariant ==
  SessionReported /\ AnswersReported /\ AcceptedOrLost /\ BeliefOrLost
    /\ GivenUp
-----------------------------------------------------------------------------
(* The disconnect that begin() starts with separates its session from the  *)
(* one before: what is on its way after the response to it ...             *)
ResetAnswered ==
  \A i \in DOMAIN sent : sent[i].of = "command" =>
    /\ modem.session = "none"
    /\ \A j \in DOMAIN sent :
         j > i => sent[j].of # "HCESIGN" /\ sent[j].of # "ONCONNECT"

(* ... is of the session that begin() asks for then.                       *)
OfThisSession ==
  /\ modem.session \in {"handshake", "signing", "asked"} =>
       history.accepted = NULL
  /\ modem.session = "handshake" => ~OnItsWay("HCESIGN")
  /\ \A i \in DOMAIN sent :
       /\ sent[i].of = "ONCONNECT" => sent[i].data = history.accepted
       /\ sent[i].of = "HCESIGN" => history.signing

Separated ==
  pc \in MqttBeginPoints /\ ~history.untimely =>
    /\ pc = "mqtt_reset" => ~OnItsWay("command")
    /\ pc = "mqtt_reset_response" => ResetAnswered
    /\ pc = "mqtt_connect" =>
         /\ modem.session = "none"
         /\ ~OnItsWay("HCESIGN") /\ ~OnItsWay("ONCONNECT")
    /\ pc \in Connecting => OfThisSession
    /\ pc = "mqtt_sign_wait" /\ got # NULL => history.signing
    /\ pc = "mqtt_sign" => history.signing
    /\ pc = "mqtt_wait" /\ got # NULL => got = history.accepted
    /\ pc = "mqtt_status" =>
         /\ history.accepted # NULL
         /\ urc_buffer = history.accepted \/ history.overwritten
-----------------------------------------------------------------------------
(* What is confirmed is what was published or subscribed to.               *)
PublishOnce ==
  pc \in PublishPoints /\ ~history.owing =>
    /\ pc \in {"publish", "publish_prompt", "publish_payload"} =>
         ~modem.publishing /\ ~OnItsWay("ONPUBLISH")
    /\ \A i \in DOMAIN sent : sent[i].of = "ONPUBLISH" =>
         ~modem.publishing /\ (sent[i].data => history.confirmed)
    /\ pc = "publish_wait" /\ got # NULL =>
         ~modem.publishing /\ (got = TRUE => history.confirmed)
    /\ pc = "published" => ~modem.publishing /\ history.confirmed

SubscribeOnce ==
  pc \in SubscribePoints /\ ~history.owing =>
    /\ pc = "subscribe" => ~modem.subscribing /\ ~OnItsWay("ONSUBSCRIBE")
    /\ \A i \in DOMAIN sent : sent[i].of = "ONSUBSCRIBE" =>
         ~modem.subscribing /\ (sent[i].data => history.confirmed)
    /\ pc = "subscribe_wait" /\ got # NULL =>
         ~modem.subscribing /\ (got = TRUE => history.confirmed)
    /\ pc = "subscribed" => ~modem.subscribing /\ history.confirmed

(* Between the client's sessions HTTP has the modem for itself, ...        *)
NoSession ==
  /\ modem.publishing \/ modem.subscribing => modem.session = "up"
  /\ pc \in HttpPoints => modem.session = "none"

(* ... and what answers a request is about that request.                   *)
RequestOnce ==
  pc \in HttpPoints /\ ~history.owing =>
    /\ \A i \in DOMAIN sent :
         /\ sent[i].of = "HTTPRING" /\ sent[i].data => history.confirmed
         /\ sent[i].of = "HTTPSH" => history.shut
    /\ pc = "http_wait" /\ got = TRUE => history.confirmed
    /\ pc \in ShutdownPoints /\ got_shutdown_callback => history.shut
    /\ http_response.status => history.confirmed
    /\ http_response.error => history.shut
-----------------------------------------------------------------------------
LEMMA InitLife == Init => LifeInvariant
<1>1. SUFFICES ASSUME Init
               PROVE  LifeInvariant
  OBVIOUS
<1> USE DEF Init
<1>2. TypeOK
  <2>1. modem \in Modem
    BY <1>1 DEF Modem, ModemOff
  <2>2. history \in History
    BY <1>1 DEF History
  <2>3. callback \in [Urcs -> Callbacks] /\ sent \in Seq(Sent)
    BY <1>1 DEF Callbacks
  <2>4. http_response \in HttpResponse
    BY <1>1 DEF HttpResponse, NoResponse
  <2>5. QED
    BY <1>1, <2>1, <2>2, <2>3, <2>4 DEF TypeOK
<1>3. Registered
  BY <1>1, FunctionAssumption DEF Registered, Function, Urcs
<1>4. Initialized /\ Ended /\ Watching
  BY <1>1 DEF Initialized, Ended, Watching, LteRuns, Urcs, LteBeginPoints,
              LteEndPoints, MqttBeginPoints, MqttEndPoints, DetachPoints,
              Unregistered
<1>5. QED
  BY <1>2, <1>3, <1>4 DEF LifeInvariant

(* Types.  What a step appends to what has been sent are messages.         *)
LEMMA SentTypes ==
  ASSUME TypeOK
  PROVE  /\ \A a \in Sent : sent \o <<a>> \in Seq(Sent)
         /\ \A a, b \in Sent : sent \o <<a, b>> \in Seq(Sent)
         /\ sent # <<>> => Tail(sent) \in Seq(Sent) /\ Head(sent) \in Sent
         /\ \A b \in BOOLEAN : Response(b) \in Sent
         /\ \A b \in BOOLEAN, u \in Urcs : Urc(u, b) \in Sent
         /\ [of |-> "prompt", data |-> TRUE] \in Sent
<1>1. sent \in Seq(Sent)
  BY DEF TypeOK
<1>2. \A a, b \in Sent : <<a>> \in Seq(Sent) /\ <<a, b>> \in Seq(Sent)
  OBVIOUS
<1>3. /\ \A a \in Sent : sent \o <<a>> \in Seq(Sent)
      /\ \A a, b \in Sent : sent \o <<a, b>> \in Seq(Sent)
  BY <1>1, <1>2, ConcatProperties
<1>4. sent # <<>> => Tail(sent) \in Seq(Sent) /\ Head(sent) \in Sent
  BY <1>1, HeadTailProperties
<1>5. QED
  BY <1>3, <1>4 DEF Response, Urc, Sent

(* A command, whatever it makes of the modem.                              *)
Effect ==
  \/ pc \in {"lte_radio_off", "lte_detach"} /\ RadioOff
  \/ pc = "lte_radio_on" /\ RadioOn
  \/ pc \in {"mqtt_reset", "mqtt_disconnect"} /\ Disconnect
  \/ pc = "mqtt_connect" /\ (Connect("asked") \/ Connect("handshake"))
  \/ pc = "mqtt_sign" /\ Signature
  \/ pc = "publish" /\ Prompt
  \/ pc = "publish_payload" /\ Payload
  \/ pc = "subscribe" /\ Subscription
  \/ pc \in HttpPoints /\ (Attention \/ Query \/ HttpPrompt \/ HttpPayload)

LEMMA EffectTypes ==
  ASSUME TypeOK, Effect
  PROVE  modem' \in Modem /\ sent' \in Seq(Sent)
<1> USE SentTypes DEF Send
<1>1. modem \in Modem /\ sent \in Seq(Sent)
  BY DEF TypeOK
<1>2. CASE RadioOff
  <2>1. modem' \in Modem
    BY <1>2 DEF RadioOff, ModemOff, Modem
  <2>2. sent' \in Seq(Sent)
    BY <1>2 DEF RadioOff, Urcs
  <2>3. QED
    BY <2>1, <2>2
<1>3. CASE RadioOn \/ Attention \/ HttpPrompt \/ HttpPayload
  BY <1>1, <1>3 DEF RadioOn, Attention, HttpPrompt, HttpPayload, Request, Modem
<1>4. CASE Disconnect
  <2>1. modem' \in Modem
    BY <1>1, <1>4 DEF Disconnect, Lost, Modem
  <2>2. sent' \in Seq(Sent)
    BY <1>4 DEF Disconnect, Urcs
  <2>3. QED
    BY <2>1, <2>2
<1>5. ASSUME NEW to \in {"asked", "handshake"}, Connect(to)
      PROVE  modem' \in Modem /\ sent' \in Seq(Sent)
  <2>1. modem' \in Modem
    BY <1>1, <1>5 DEF Connect, Modem
  <2>2. sent' \in Seq(Sent)
    BY <1>1, <1>5 DEF Connect
  <2>3. QED
    BY <2>1, <2>2
<1>6. CASE Signature
  BY <1>1, <1>6 DEF Signature, Modem
<1>7. CASE Prompt
  BY <1>1, <1>7 DEF Prompt
<1>8. CASE Payload
  <2>1. modem' \in Modem
    BY <1>1, <1>8 DEF Payload, Modem
  <2>2. sent' \in Seq(Sent)
    BY <1>1, <1>8 DEF Payload
  <2>3. QED
    BY <2>1, <2>2
<1>9. CASE Subscription
  <2>1. modem' \in Modem
    BY <1>1, <1>9 DEF Subscription, Modem
  <2>2. sent' \in Seq(Sent)
    BY <1>1, <1>9 DEF Subscription
  <2>3. QED
    BY <2>1, <2>2
<1>10. CASE Query
  <2>1. modem' \in Modem
    BY <1>1, <1>10 DEF Query, Request, Modem
  <2>2. sent' \in Seq(Sent)
    BY <1>1, <1>10 DEF Query, Request
  <2>3. QED
    BY <2>1, <2>2
<1>11. QED
  BY <1>2, <1>3, <1>4, <1>5, <1>6, <1>7, <1>8, <1>9, <1>10 DEF Effect

LEMMA ModemTypes ==
  ASSUME TypeOK, ModemActs
  PROVE  modem' \in Modem /\ sent' \in Seq(Sent) /\ history' \in History
<1> USE SentTypes DEF Send
<1>1. modem \in Modem /\ sent \in Seq(Sent) /\ history \in History
  BY DEF TypeOK
<1>2. CASE Network
  <2>1. modem' \in Modem
    BY <1>1, <1>2 DEF Network, Lost, Modem
  <2>2. QED
    BY <1>1, <1>2, <2>1 DEF Network
<1>3. CASE Report
  <2>1. modem.attached \in BOOLEAN
    BY <1>1 DEF Modem
  <2>2. QED
    BY <1>1, <1>3, <2>1 DEF Report, Modem, Urcs
<1>4. CASE ModemAsksForSignature
  <2>1. modem' \in Modem /\ sent' \in Seq(Sent)
    BY <1>1, <1>4 DEF ModemAsksForSignature, Modem, Urcs
  <2>2. history' = [history EXCEPT !.signing = FALSE]
          \/ history' = [history EXCEPT !.signing = TRUE]
    BY <1>4 DEF ModemAsksForSignature
  <2>3. QED
    BY <1>1, <2>1, <2>2 DEF History
<1>5. CASE BrokerAnswers
  <2>1. PICK ok \in BOOLEAN :
          /\ sent' = sent \o <<Urc("ONCONNECT", ok)>>
          /\ modem' = [modem EXCEPT !.session = IF ok THEN "up" ELSE "none"]
          /\ history' = [history EXCEPT !.accepted = ok]
    BY <1>5 DEF BrokerAnswers
  <2>2. QED
    BY <1>1, <2>1 DEF Modem, Urcs, History
<1>6. CASE BrokerDrops \/ BrokerMessage
  <2>1. modem' \in Modem
    BY <1>1, <1>6 DEF BrokerDrops, BrokerMessage, Lost, Modem
  <2>2. sent' \in Seq(Sent) /\ history' = history
    BY <1>6 DEF BrokerDrops, BrokerMessage, Urcs
  <2>3. QED
    BY <1>1, <2>1, <2>2
<1>7. CASE BrokerConfirms
  <2>1. PICK ok \in BOOLEAN :
          /\ sent' = sent \o <<Urc("ONPUBLISH", ok)>>
          /\ history' = [history EXCEPT
                           !.confirmed = IF pc \in SubscribePoints THEN @
                                         ELSE ok]
    BY <1>7 DEF BrokerConfirms
  <2>2. modem' \in Modem
    BY <1>1, <1>7 DEF BrokerConfirms, Modem
  <2>3. QED
    BY <1>1, <2>1, <2>2 DEF Urcs, History
<1>8. CASE BrokerSubscribes
  <2>1. PICK ok \in BOOLEAN :
          /\ sent' = sent \o <<Urc("ONSUBSCRIBE", ok)>>
          /\ history' = [history EXCEPT
                           !.confirmed = IF pc \in PublishPoints THEN @
                                         ELSE ok]
    BY <1>8 DEF BrokerSubscribes
  <2>2. modem' \in Modem
    BY <1>1, <1>8 DEF BrokerSubscribes, Modem
  <2>3. QED
    BY <1>1, <2>1, <2>2 DEF Urcs, History
<1>9. CASE ServerAnswers
  <2>1. modem' \in Modem
    BY <1>1, <1>9 DEF ServerAnswers, Modem
  <2>2. sent' \in Seq(Sent)
    BY <1>9 DEF ServerAnswers, Urcs
  <2>3. history' \in History
    BY <1>1, <1>9 DEF ServerAnswers, History
  <2>4. QED
    BY <2>1, <2>2, <2>3
<1>10. QED
  BY <1>2, <1>3, <1>4, <1>5, <1>6, <1>7, <1>8, <1>9 DEF ModemActs

(* The main program's part of the types.                                   *)
ControlTypeOK ==
  /\ pc \in {"idle"} \union LteBeginPoints \union LteEndPoints
        \union MqttBeginPoints \union PublishPoints \union MqttEndPoints
        \union SubscribePoints \union HttpPoints
  /\ after \in {"idle", "lte_detach"}
  /\ initialized \in BOOLEAN
  /\ is_connected \in BOOLEAN /\ connected_to_broker \in BOOLEAN

DataTypeOK ==
  /\ callback \in [Urcs -> Callbacks]
  /\ got \in BOOLEAN \union {NULL}
  /\ urc_buffer \in BOOLEAN \union {Message, NULL}
  /\ got_shutdown_callback \in BOOLEAN /\ http_response \in HttpResponse

ModemTypeOK == modem \in Modem /\ sent \in Seq(Sent)

LEMMA TypesSplit ==
  TypeOK <=> ControlTypeOK /\ DataTypeOK /\ ModemTypeOK /\ history \in History
BY DEF TypeOK, ControlTypeOK, DataTypeOK, ModemTypeOK

LteActs == LteBegin \/ LteRadio \/ LteFirstReport \/ LteConnect
             \/ LteEnd \/ LteDetach \/ LteDetaching \/ LteClose
MqttActs ==
  \/ MqttBegin \/ MqttConnect \/ MqttSign \/ MqttWait \/ MqttStatus
  \/ MqttConnected \/ MqttReturn \/ OnReceive
  \/ MqttEnd \/ MqttDisconnect \/ MqttEnded
PublishActs == Publish \/ PublishMessage \/ PublishWait
                 \/ Subscribe \/ SubscribeWait
HttpActs == HttpRequest \/ HttpSend \/ HttpRegister \/ HttpWait

LEMMA ControlTypes ==
  ASSUME TypeOK, Main
  PROVE  ControlTypeOK'
<1> USE TypesSplit
    DEF ControlTypeOK, Goto, Step, Command, ResponseTo, Prompted, Register,
        WaitForURC, belief, LteBeginPoints, LteEndPoints, MqttBeginPoints,
        PublishPoints, MqttEndPoints, SubscribePoints, HttpPoints
<1>1. CASE LteBegin \/ LteRadio \/ LteFirstReport \/ LteConnect
  <2>1. CASE LteBegin
    BY <2>1 DEF LteBegin
  <2>2. CASE LteRadio
    BY <2>2 DEF LteRadio
  <2>3. CASE LteFirstReport
    BY <2>3 DEF LteFirstReport
  <2>4. CASE LteConnect
    BY <2>4 DEF LteConnect
  <2>5. QED
    BY <1>1, <2>1, <2>2, <2>3, <2>4
<1>2. CASE LteEnd \/ LteDetach \/ LteDetaching \/ LteClose
  <2>1. CASE LteEnd
    BY <2>1 DEF LteEnd
  <2>2. CASE LteDetach
    BY <2>2 DEF LteDetach
  <2>3. CASE LteDetaching
    BY <2>3 DEF LteDetaching
  <2>4. CASE LteClose
    BY <2>4 DEF LteClose, IsConnectedAfterEnd
  <2>5. QED
    BY <1>2, <2>1, <2>2, <2>3, <2>4
<1>3. CASE MqttBegin \/ MqttConnect \/ MqttSign \/ MqttWait
  <2>1. CASE MqttBegin
    BY <2>1 DEF MqttBegin
  <2>2. CASE MqttConnect
    BY <2>2 DEF MqttConnect
  <2>3. CASE MqttSign
    BY <2>3 DEF MqttSign
  <2>4. CASE MqttWait
    BY <2>4 DEF MqttWait
  <2>5. QED
    BY <1>3, <2>1, <2>2, <2>3, <2>4
<1>4. CASE MqttStatus \/ MqttConnected \/ MqttReturn \/ OnReceive
  BY <1>4 DEF MqttStatus, MqttConnected, MqttReturn, OnReceive
<1>5. CASE MqttEnd \/ MqttDisconnect \/ MqttEnded
  BY <1>5 DEF MqttEnd, MqttDisconnect, MqttEnded
<1>6. CASE Publish \/ PublishMessage \/ PublishWait
  <2>1. CASE Publish
    BY <2>1 DEF Publish
  <2>2. CASE PublishMessage
    BY <2>2 DEF PublishMessage
  <2>3. CASE PublishWait
    BY <2>3 DEF PublishWait
  <2>4. QED
    BY <1>6, <2>1, <2>2, <2>3
<1>7. CASE Subscribe \/ SubscribeWait
  BY <1>7 DEF Subscribe, SubscribeWait
<1>8. CASE HttpActs
  BY <1>8 DEF HttpActs, HttpRequest, HttpSend, HttpRegister, HttpWait
<1>9. QED
  BY <1>1, <1>2, <1>3, <1>4, <1>5, <1>6, <1>7, <1>8
  DEF Main, PublishActs, HttpActs

LEMMA DataTypes ==
  ASSUME TypeOK, Main
  PROVE  DataTypeOK'
<1> USE TypesSplit
    DEF DataTypeOK, Goto, Step, Command, ResponseTo, Prompted, Register,
        WaitForURC, http, Urcs, Callbacks, Function
<1>1. CASE LteActs
  BY <1>1 DEF LteActs, LteBegin, LteRadio, LteFirstReport, LteConnect, LteEnd,
              LteDetach, LteDetaching, LteClose, FlagOfWait
<1>2. CASE MqttBegin \/ MqttConnect \/ MqttSign \/ MqttWait
  <2>1. callback' \in [Urcs -> Callbacks]
    BY <1>2 DEF MqttBegin, MqttConnect, MqttSign, MqttWait
  <2>2. UNCHANGED http
        /\ got' \in {got, NULL} /\ urc_buffer' \in {got, urc_buffer}
    BY <1>2 DEF MqttBegin, MqttConnect, MqttSign, MqttWait, FlagOfWait
  <2>3. QED
    BY <2>1, <2>2
<1>3. CASE MqttStatus \/ MqttConnected \/ MqttReturn \/ OnReceive
  BY <1>3 DEF MqttStatus, MqttConnected, MqttReturn, OnReceive
<1>4. CASE MqttEnd \/ MqttDisconnect \/ MqttEnded
  BY <1>4 DEF MqttEnd, MqttDisconnect, MqttEnded
<1>5. CASE PublishActs
  BY <1>5 DEF PublishActs, Publish, PublishMessage, PublishWait, Subscribe,
              SubscribeWait, FlagOfWait
<1>6. CASE HttpActs
  <2>1. callback' \in [Urcs -> Callbacks]
    BY <1>6 DEF HttpActs, HttpRequest, HttpSend, HttpRegister, HttpWait
  <2>2. /\ got' \in {got, NULL} /\ UNCHANGED urc_buffer
        /\ got_shutdown_callback' \in {got_shutdown_callback, FALSE}
    BY <1>6 DEF HttpActs, HttpRequest, HttpSend, HttpRegister, HttpWait,
                FlagOfWait, FlagOfShutdown
  <2>3. http_response' \in HttpResponse
    <3>1. \/ http_response' = http_response \/ http_response' = NoResponse
          \/ \E b \in BOOLEAN :
               \/ http_response' = [http_response EXCEPT !.status = b]
               \/ http_response' = [http_response EXCEPT !.error = b]
      BY <1>6 DEF HttpActs, HttpRequest, HttpSend, HttpRegister, HttpWait
    <3>2. http_response \in HttpResponse
      BY DEF TypeOK
    <3>3. NoResponse \in HttpResponse
      BY DEF HttpResponse, NoResponse
    <3>4. ASSUME NEW b \in BOOLEAN
          PROVE  /\ [http_response EXCEPT !.status = b] \in HttpResponse
                 /\ [http_response EXCEPT !.error = b] \in HttpResponse
      BY <3>2 DEF HttpResponse
    <3>5. QED
      BY <3>1, <3>2, <3>3, <3>4
  <2>4. QED
    BY <2>1, <2>2, <2>3
<1>7. QED
  BY <1>1, <1>2, <1>3, <1>4, <1>5, <1>6
  DEF Main, LteActs, PublishActs, HttpActs

(* What a step of the main program makes of the modem and of what it sent. *)
LEMMA MainSends ==
  ASSUME Main
  PROVE  \/ UNCHANGED <<modem, sent>>
         \/ Effect
         \/ /\ sent # <<>> /\ Head(sent).of \in {"command", "prompt"}
            /\ sent' = Tail(sent) /\ modem' = modem
         \/ pc = "lte_close" /\ sent' = <<>> /\ modem' = ModemOff
<1> USE DEF Goto, Step, Command, ResponseTo, Prompted, Register, WaitForURC,
            Effect
<1>1. CASE LteActs
  BY <1>1 DEF LteActs, LteBegin, LteRadio, LteFirstReport, LteConnect, LteEnd,
              LteDetach, LteDetaching, LteClose
<1>2. CASE MqttActs
  BY <1>2 DEF MqttActs, MqttBegin, MqttConnect, MqttSign, MqttWait, MqttStatus,
              MqttConnected, MqttReturn, OnReceive, MqttEnd, MqttDisconnect,
              MqttEnded
<1>3. CASE PublishActs
  BY <1>3 DEF PublishActs, Publish, PublishMessage, PublishWait, Subscribe,
              SubscribeWait
<1>4. CASE HttpActs
  BY <1>4 DEF HttpActs, HttpRequest, HttpSend, HttpRegister, HttpWait,
              HttpPoints
<1>5. QED
  BY <1>1, <1>2, <1>3, <1>4 DEF Main, LteActs, MqttActs, PublishActs, HttpActs

LEMMA HistoryTypes ==
  ASSUME TypeOK, Main
  PROVE  history' \in History
<1> USE DEF Step, Command, ResponseTo, Prompted, Register, WaitForURC
<1>0. history \in History
  BY DEF TypeOK
<1>1. CASE LteActs \/ HttpSend \/ HttpRegister \/ HttpWait
  BY <1>0, <1>1 DEF LteActs, LteBegin, LteRadio, LteFirstReport, LteConnect,
              LteEnd, LteDetach, LteDetaching, LteClose, HttpSend,
              HttpRegister, HttpWait, History
<1>2. CASE MqttConnect \/ MqttSign \/ MqttWait \/ MqttConnected \/ MqttReturn
           \/ OnReceive \/ MqttEnd \/ MqttDisconnect \/ MqttEnded
  BY <1>0, <1>2 DEF MqttConnect, MqttSign, MqttWait, MqttConnected,
              MqttReturn, OnReceive, MqttEnd, MqttDisconnect, MqttEnded, History
<1>3. CASE PublishMessage \/ PublishWait \/ SubscribeWait
  BY <1>0, <1>3 DEF PublishMessage, PublishWait, SubscribeWait, History
<1>4. CASE MqttBegin
  <2>1. OnItsWay("command") \in BOOLEAN
    BY DEF OnItsWay
  <2>2. QED
    BY <1>0, <1>4, <2>1 DEF MqttBegin, History
<1>5. CASE MqttStatus
  <2>1. \E b \in BOOLEAN : history' = [history EXCEPT !.unnoticed = b]
    BY <1>0, <1>5 DEF MqttStatus, History
  <2>2. QED
    BY <1>0, <2>1 DEF History
<1>6. CASE Publish \/ Subscribe
  <2>1. \E b \in BOOLEAN :
          history' = [history EXCEPT !.confirmed = FALSE, !.owing = b]
    BY <1>6 DEF Publish, Subscribe
  <2>2. QED
    BY <1>0, <2>1 DEF History
<1>7. CASE HttpRequest
  <2>1. \E b \in BOOLEAN :
          history' = [history EXCEPT !.confirmed = FALSE, !.shut = FALSE,
                                     !.owing = b]
    BY <1>7 DEF HttpRequest
  <2>2. QED
    BY <1>0, <2>1 DEF History
<1>8. QED
  BY <1>1, <1>2, <1>3, <1>4, <1>5, <1>6, <1>7 DEF Main, LteActs

LEMMA ReceiveTypes ==
  ASSUME TypeOK, ReceiveUrc
  PROVE  TypeOK'
<1>1. /\ history \in History /\ Head(sent) \in Sent
      /\ Tail(sent) \in Seq(Sent) /\ modem \in Modem
      /\ callback \in [Urcs -> Callbacks]
  BY SentTypes DEF TypeOK, ReceiveUrc
<1>2. Head(sent).of \in Urcs /\ Head(sent).data \in BOOLEAN
  BY <1>1 DEF ReceiveUrc, Sent
<1>3. ControlTypeOK'
  BY <1>2, TypesSplit DEF ReceiveUrc, ControlTypeOK, ConnectionStatus, IsLoss
<1>4. DataTypeOK'
  <2>1. callback' \in [Urcs -> Callbacks]
    BY <1>1 DEF ReceiveUrc, ConnectionStatus, Callbacks
  <2>2. got' \in BOOLEAN \union {NULL}
        /\ urc_buffer' \in BOOLEAN \union {Message, NULL}
    BY <1>2, TypesSplit DEF ReceiveUrc, DataTypeOK
  <2>3. got_shutdown_callback' \in BOOLEAN /\ http_response' \in HttpResponse
    BY <1>2, TypesSplit DEF ReceiveUrc, DataTypeOK
  <2>4. QED
    BY <2>1, <2>2, <2>3 DEF DataTypeOK
<1>5. history' \in History
  <2>1. \E m, o, u \in BOOLEAN :
          history' = [history EXCEPT !.missed = m, !.overwritten = o,
                                     !.unnoticed = u]
    <3> DEFINE urc == Head(sent).of
               to == callback[urc]
               loss == urc = "CEREG" /\ ~Head(sent).data
               m == IF urc = "CEREG" THEN to # "connectionStatus"
                    ELSE history.missed
               o == history.overwritten \/ to = "onReceive"
               u == history.unnoticed \/ (urc = "ONDISCONNECT" /\ Succeeding)
                     \/ (loss /\ Succeeding /\ pc # "mqtt_return")
                     \/ (loss /\ to # "connectionStatus")
    <3>1. m \in BOOLEAN /\ o \in BOOLEAN /\ u \in BOOLEAN
      BY <1>1 DEF History
    <3>2. history' = [history EXCEPT !.missed = m, !.overwritten = o,
                                     !.unnoticed = u]
      BY <1>1 DEF ReceiveUrc, History
    <3>3. QED
      BY <3>1, <3>2
  <2>2. QED
    BY <1>1, <2>1 DEF History
<1>6. QED
  BY <1>1, <1>3, <1>4, <1>5
  DEF TypeOK, ControlTypeOK, DataTypeOK, ReceiveUrc

LEMMA TypeStep ==
  ASSUME TypeOK, [Next]_vars
  PROVE  TypeOK'
<1>1. CASE Main
  <2>1. ModemTypeOK'
    <3>1. ModemOff \in Modem
      BY DEF ModemOff, Modem
    <3>2. modem \in Modem /\ sent \in Seq(Sent) /\ <<>> \in Seq(Sent)
      BY DEF TypeOK
    <3>3. CASE Effect
      BY <3>3, EffectTypes DEF ModemTypeOK
    <3>4. CASE ~Effect
      BY <1>1, <3>1, <3>2, <3>4, MainSends, SentTypes DEF ModemTypeOK
    <3>5. QED
      BY <3>3, <3>4
  <2>2. QED
    BY <1>1, <2>1, ControlTypes, DataTypes, HistoryTypes
    DEF TypeOK, ControlTypeOK, DataTypeOK, ModemTypeOK
<1>2. CASE ReceiveUrc
  BY <1>2, ReceiveTypes
<1>3. CASE ModemActs
  <2>1. UNCHANGED <<main, belief>>
    BY <1>3 DEF ModemActs, Network, Report, ServerAnswers,
         ModemAsksForSignature, BrokerAnswers, BrokerDrops, BrokerMessage,
         BrokerConfirms, BrokerSubscribes
  <2>2. QED
    BY <1>3, <2>1, ModemTypes DEF TypeOK, main, belief, http
<1>4. CASE Drop
  BY <1>4, SentTypes DEF Drop, TypeOK, main, belief, http
<1>5. CASE UNCHANGED vars
  BY <1>5 DEF vars, TypeOK, main, belief, http
<1>6. QED
  BY <1>1, <1>2, <1>3, <1>4, <1>5 DEF Next
-----------------------------------------------------------------------------
(* The modem's steps and Drop leave the program alone.                     *)
LEMMA Outside ==
  ASSUME TypeOK, ModemActs \/ Drop \/ UNCHANGED vars
  PROVE  UNCHANGED <<main, belief>> /\ history'.missed = history.missed
         /\ history'.owing = history.owing
         /\ history'.untimely = history.untimely
         /\ history'.overwritten = history.overwritten
         /\ history'.unnoticed = history.unnoticed
<1> USE DEF TypeOK, History
<1>1. CASE Network \/ Report \/ BrokerDrops \/ BrokerMessage \/ Drop
  BY <1>1 DEF Network, Report, BrokerDrops, BrokerMessage, Drop
<1>2. CASE ModemAsksForSignature \/ BrokerAnswers \/ ServerAnswers
  BY <1>2 DEF ModemAsksForSignature, BrokerAnswers, ServerAnswers
<1>3. CASE BrokerConfirms \/ BrokerSubscribes
  BY <1>3 DEF BrokerConfirms, BrokerSubscribes
<1>4. CASE UNCHANGED vars
  BY <1>4 DEF vars
<1>5. QED
  BY <1>1, <1>2, <1>3, <1>4 DEF ModemActs

LEMMA RegisteredStep ==
  ASSUME TypeOK, Registered, [Next]_vars
  PROVE  Registered'
<1>0. callback \in [Urcs -> Callbacks]
  BY DEF TypeOK
<1> USE DEF Goto, Step, Command, ResponseTo, Prompted, Register, WaitForURC,
            Urcs, Function, Registered, ShutdownPoints
<1>1. CASE LteActs
  BY <1>0, <1>1, FunctionAssumption
  DEF LteActs, LteBegin, LteRadio, LteFirstReport, LteConnect, LteEnd,
      LteDetach, LteDetaching, LteClose
<1>2. CASE MqttBegin \/ MqttConnect \/ MqttStatus \/ MqttConnected
  BY <1>0, <1>2, FunctionAssumption
  DEF MqttBegin, MqttConnect, MqttStatus, MqttConnected
<1>3. CASE MqttSign \/ MqttWait
  BY <1>0, <1>3, FunctionAssumption DEF MqttSign, MqttWait
<1>4. CASE MqttReturn \/ OnReceive
  BY <1>0, <1>4, FunctionAssumption DEF MqttReturn, OnReceive
<1>5. CASE MqttEnd \/ MqttDisconnect \/ MqttEnded
  BY <1>0, <1>5, FunctionAssumption, TypesSplit
  DEF MqttEnd, MqttDisconnect, MqttEnded, ControlTypeOK
<1>6. CASE PublishActs
  BY <1>0, <1>6, FunctionAssumption
  DEF PublishActs, Publish, PublishMessage, PublishWait, Subscribe,
      SubscribeWait
<1>7. CASE HttpActs
  BY <1>0, <1>7, FunctionAssumption
  DEF HttpActs, HttpRequest, HttpSend, HttpRegister, HttpWait
<1>8. CASE ReceiveUrc
  <2>1. pc' = pc
        /\ \/ callback' = callback
           \/ callback' = [callback EXCEPT !["ONMESSAGE"] = NULL,
                                           !["ONDISCONNECT"] = NULL]
    BY <1>8 DEF ReceiveUrc, ConnectionStatus
  <2>2. QED
    BY <1>0, <2>1, FunctionAssumption
<1>9. CASE ModemActs \/ Drop \/ UNCHANGED vars
  BY <1>9, Outside DEF main
<1>10. QED
  BY <1>1, <1>2, <1>3, <1>4, <1>5, <1>6, <1>7, <1>8, <1>9
  DEF Next, Main, LteActs, PublishActs, HttpActs

LEMMA InitializedStep ==
  ASSUME TypeOK, Registered, Initialized, Ended, [Next]_vars
  PROVE  Initialized'
<1>0. callback \in [Urcs -> Callbacks] /\ initialized \in BOOLEAN
      /\ is_connected \in BOOLEAN /\ connected_to_broker \in BOOLEAN
      /\ after \in {"idle", "lte_detach"}
  BY DEF TypeOK
<1> USE DEF Goto, Step, Command, ResponseTo, Prompted, Register, WaitForURC,
            Urcs, Initialized, LteRuns, LteBeginPoints, LteEndPoints,
            MqttBeginPoints, MqttEndPoints, belief
<1>1. CASE LteBegin \/ LteRadio \/ LteFirstReport \/ LteConnect
  BY <1>0, <1>1 DEF LteBegin, LteRadio, LteFirstReport, LteConnect
<1>2. CASE LteEnd \/ LteDetach \/ LteDetaching \/ LteClose
  BY <1>0, <1>2 DEF LteEnd, LteDetach, LteDetaching, LteClose, Ended,
                    Unregistered, DetachPoints, IsConnectedAfterEnd
<1>3. CASE MqttBegin \/ MqttConnect \/ MqttStatus \/ MqttConnected
  BY <1>0, <1>3 DEF MqttBegin, MqttConnect, MqttStatus, MqttConnected
<1>4. CASE MqttSign \/ MqttWait
  BY <1>0, <1>4 DEF MqttSign, MqttWait
<1>5. CASE MqttReturn \/ OnReceive
  BY <1>0, <1>5 DEF MqttReturn, OnReceive
<1>6. CASE MqttEnd \/ MqttDisconnect \/ MqttEnded
  BY <1>0, <1>6 DEF MqttEnd, MqttDisconnect, MqttEnded
<1>7. CASE PublishActs
  BY <1>0, <1>7
  DEF PublishActs, Publish, PublishMessage, PublishWait, Subscribe,
      SubscribeWait
<1>8. CASE HttpActs
  BY <1>0, <1>8
  DEF HttpActs, HttpRequest, HttpSend, HttpRegister, HttpWait
<1>9. CASE ReceiveUrc
  <2> DEFINE to == callback[Head(sent).of]
  <2>1. Head(sent).of \in Urcs /\ UNCHANGED <<pc, after, initialized>>
    BY <1>9 DEF ReceiveUrc
  <2>2. to = "connectionStatus" => initialized
    BY <2>1, FunctionAssumption DEF Registered, Function
  <2>3. to # "connectionStatus" =>
          /\ UNCHANGED <<callback, is_connected>>
          /\ connected_to_broker = FALSE => connected_to_broker' = FALSE
    BY <1>9 DEF ReceiveUrc
  <2>4. QED
    BY <2>1, <2>2, <2>3
<1>10. CASE ModemActs \/ Drop \/ UNCHANGED vars
  BY <1>10, Outside DEF main
<1>11. QED
  BY <1>1, <1>2, <1>3, <1>4, <1>5, <1>6, <1>7, <1>8, <1>9, <1>10
  DEF Next, Main, LteActs, PublishActs, HttpActs

LEMMA EndedStep ==
  ASSUME TypeOK, Registered, Initialized, Ended, [Next]_vars
  PROVE  Ended'
<1>0. callback \in [Urcs -> Callbacks] /\ initialized \in BOOLEAN
      /\ is_connected \in BOOLEAN /\ connected_to_broker \in BOOLEAN
      /\ after \in {"idle", "lte_detach"}
  BY DEF TypeOK
<1> USE DEF Goto, Step, Command, ResponseTo, Prompted, Register, WaitForURC,
            Urcs, Ended, Unregistered, DetachPoints, MqttEndPoints, belief
<1>1. CASE LteBegin \/ LteRadio \/ LteFirstReport \/ LteConnect
  BY <1>0, <1>1 DEF LteBegin, LteRadio, LteFirstReport, LteConnect
<1>2. CASE LteEnd \/ LteDetach \/ LteDetaching \/ LteClose
  BY <1>0, <1>2 DEF LteEnd, LteDetach, LteDetaching, LteClose
<1>3. CASE MqttBegin \/ MqttConnect \/ MqttStatus \/ MqttConnected
  BY <1>0, <1>3 DEF MqttBegin, MqttConnect, MqttStatus, MqttConnected
<1>4. CASE MqttSign \/ MqttWait
  BY <1>0, <1>4 DEF MqttSign, MqttWait
<1>5. CASE MqttReturn \/ OnReceive
  BY <1>0, <1>5 DEF MqttReturn, OnReceive
<1>6. CASE MqttEnd \/ MqttDisconnect \/ MqttEnded
  BY <1>0, <1>6 DEF MqttEnd, MqttDisconnect, MqttEnded
<1>7. CASE PublishActs
  BY <1>0, <1>7
  DEF PublishActs, Publish, PublishMessage, PublishWait, Subscribe,
      SubscribeWait
<1>8. CASE HttpActs
  BY <1>0, <1>8
  DEF HttpActs, HttpRequest, HttpSend, HttpRegister, HttpWait
<1>9. CASE ReceiveUrc
  BY <1>0, <1>9, FunctionAssumption DEF ReceiveUrc, ConnectionStatus, Function
<1>10. CASE ModemActs \/ Drop \/ UNCHANGED vars
  BY <1>10, Outside DEF main
<1>11. QED
  BY <1>1, <1>2, <1>3, <1>4, <1>5, <1>6, <1>7, <1>8, <1>9, <1>10
  DEF Next, Main, LteActs, PublishActs, HttpActs

(* The main program writes no report off, and receives none.               *)
LEMMA MainHistory ==
  ASSUME TypeOK, Main
  PROVE  /\ history'.missed = history.missed
         /\ history'.signing = history.signing \/ pc = "mqtt_connect"
         /\ history'.shut = history.shut \/ pc = "idle"
         /\ history'.accepted = history.accepted \/ pc = "mqtt_connect"
<1>0. history \in History
  BY DEF TypeOK
<1> USE DEF Goto, Step, Command, ResponseTo, Prompted, Register, WaitForURC,
            History
<1>1. CASE LteActs \/ HttpActs
  BY <1>0, <1>1
  DEF LteActs, LteBegin, LteRadio, LteFirstReport, LteConnect, LteEnd,
      LteDetach, LteDetaching, LteClose, HttpActs, HttpRequest, HttpSend,
      HttpRegister, HttpWait
<1>2. CASE MqttActs
  BY <1>0, <1>2
  DEF MqttActs, MqttBegin, MqttConnect, MqttSign, MqttWait, MqttStatus,
      MqttConnected, MqttReturn, OnReceive, MqttEnd, MqttDisconnect, MqttEnded
<1>3. CASE PublishActs
  BY <1>0, <1>3
  DEF PublishActs, Publish, PublishMessage, PublishWait, Subscribe,
      SubscribeWait
<1>4. QED
  BY <1>1, <1>2, <1>3 DEF Main, LteActs, MqttActs, PublishActs, HttpActs

LEMMA WatchingStep ==
  ASSUME TypeOK, Registered, Initialized, Ended, Watching, [Next]_vars
  PROVE  Watching'
<1>0. /\ callback \in [Urcs -> Callbacks] /\ initialized \in BOOLEAN
      /\ is_connected \in BOOLEAN /\ connected_to_broker \in BOOLEAN
      /\ after \in {"idle", "lte_detach"} /\ history.missed \in BOOLEAN
  BY DEF TypeOK, History
<1> USE DEF Goto, Step, Command, ResponseTo, Prompted, Register, WaitForURC,
            Urcs, Watching, LteRuns, LteBeginPoints, LteEndPoints,
            MqttEndPoints, belief
<1>1. CASE Main
  <2>0. history'.missed = history.missed
    BY <1>1, MainHistory
  <2>1. CASE LteBegin \/ LteRadio \/ LteFirstReport \/ LteConnect
    BY <1>0, <2>0, <2>1 DEF LteBegin, LteRadio, LteFirstReport, LteConnect
  <2>2. CASE LteEnd \/ LteDetach \/ LteDetaching \/ LteClose
    BY <1>0, <2>0, <2>2 DEF LteEnd, LteDetach, LteDetaching, LteClose
  <2>3. CASE MqttBegin \/ MqttConnect \/ MqttStatus \/ MqttConnected
    BY <1>0, <2>0, <2>3 DEF MqttBegin, MqttConnect, MqttStatus, MqttConnected
  <2>4. CASE MqttSign \/ MqttWait
    BY <1>0, <2>0, <2>4 DEF MqttSign, MqttWait
  <2>5. CASE MqttReturn \/ OnReceive
    BY <1>0, <2>0, <2>5 DEF MqttReturn, OnReceive
  <2>6. CASE MqttEnd \/ MqttDisconnect \/ MqttEnded
    BY <1>0, <2>0, <2>6 DEF MqttEnd, MqttDisconnect, MqttEnded, Initialized
  <2>7. CASE PublishActs
    BY <1>0, <2>0, <2>7
    DEF PublishActs, Publish, PublishMessage, PublishWait, Subscribe,
        SubscribeWait
  <2>8. CASE HttpActs
    BY <1>0, <2>0, <2>8
    DEF HttpActs, HttpRequest, HttpSend, HttpRegister, HttpWait
  <2>9. QED
    BY <1>1, <2>1, <2>2, <2>3, <2>4, <2>5, <2>6, <2>7, <2>8
    DEF Main, PublishActs, HttpActs
<1>2. CASE ReceiveUrc
  <2> DEFINE to == callback[Head(sent).of]
  <2>1. /\ Head(sent).of \in Urcs /\ UNCHANGED <<pc, after, initialized>>
        /\ history'.missed = IF Head(sent).of = "CEREG"
                             THEN to # "connectionStatus" ELSE history.missed
    BY <1>2 DEF ReceiveUrc, TypeOK, History
  <2>2. CASE to = "connectionStatus"
    <3>1. /\ Head(sent).of = "CEREG"
          /\ callback'["CEREG"] = callback["CEREG"]
      BY <1>0, <1>2, <2>1, <2>2, FunctionAssumption
      DEF ReceiveUrc, ConnectionStatus, Registered, Function
    <3>2. QED
      BY <2>1, <2>2, <3>1
  <2>3. CASE to # "connectionStatus"
    <3>1. UNCHANGED <<callback, is_connected>>
      BY <1>2, <2>3 DEF ReceiveUrc
    <3>2. QED
      BY <2>1, <2>3, <3>1
  <2>4. QED
    BY <2>2, <2>3
<1>3. CASE ModemActs \/ Drop \/ UNCHANGED vars
  BY <1>3, Outside DEF main
<1>4. QED
  BY <1>1, <1>2, <1>3 DEF Next

LEMMA LifeStep ==
  ASSUME LifeInvariant, [Next]_vars
  PROVE  LifeInvariant'
BY TypeStep, RegisteredStep, InitializedStep, EndedStep, WatchingStep
DEF LifeInvariant

(* Every variable has its type (lte.cpp, mqtt_client.cpp, http_client.cpp). *)
THEOREM ConnectionTypeCorrect == Spec => []TypeOK
<1>1. Init => TypeOK
  BY InitLife DEF LifeInvariant
<1>2. TypeOK /\ [Next]_vars => TypeOK'
  BY TypeStep
<1>3. QED
  BY <1>1, <1>2, PTL DEF Spec

LEMMA LifeCorrect == Spec => []LifeInvariant
<1>1. LifeInvariant /\ [Next]_vars => LifeInvariant'
  BY LifeStep
<1>2. QED
  BY <1>1, InitLife, PTL DEF Spec

(* After Lte.end(), also one called by Lte.begin() because it failed, no   *)
(* flag and no callback of the connection is left, whatever URCs the       *)
(* interrupt handled between the steps of end().                           *)
THEOREM EndLeavesNothingTheorem == Spec => []EndLeavesNothing
<1>1. LifeInvariant => EndLeavesNothing
  BY DEF LifeInvariant, Initialized, Registered, ShutdownPoints,
         EndLeavesNothing
<1>2. QED
  BY <1>1, LifeCorrect, PTL
-----------------------------------------------------------------------------
(* What is sent goes to the end, ...                                       *)
Grows(kinds) ==
  /\ Len(sent) \in Nat /\ Len(sent') \in Nat /\ Len(sent) <= Len(sent')
  /\ DOMAIN sent = 1 .. Len(sent) /\ DOMAIN sent' = 1 .. Len(sent')
  /\ \A i \in 1 .. Len(sent) : sent'[i] = sent[i]
  /\ \A i \in 1 .. Len(sent') : i > Len(sent) => sent'[i].of \in kinds

(* ... and received from the front.                                        *)
Shrinks ==
  /\ Len(sent) \in Nat \ {0} /\ Len(sent') = Len(sent) - 1
  /\ DOMAIN sent = 1 .. Len(sent) /\ DOMAIN sent' = 1 .. Len(sent')
  /\ sent[1] = Head(sent)
  /\ \A i \in 1 .. Len(sent') : sent'[i] = sent[i + 1]

LEMMA SameGrows ==
  ASSUME TypeOK, sent' = sent, NEW kinds
  PROVE  Grows(kinds)
<1>1. Len(sent) \in Nat /\ DOMAIN sent = 1 .. Len(sent)
  BY LenProperties DEF TypeOK
<1>2. QED
  BY <1>1 DEF Grows

LEMMA AppendGrows ==
  ASSUME TypeOK, NEW a \in Sent, sent' = sent \o <<a>>
  PROVE  Grows({a.of}) /\ Len(sent') = Len(sent) + 1
         /\ sent'[Len(sent) + 1] = a
<1>1. sent \in Seq(Sent) /\ Len(sent) \in Nat /\ DOMAIN sent = 1 .. Len(sent)
  BY LenProperties DEF TypeOK
<1>2. QED
  BY <1>1 DEF Grows

LEMMA AppendTwoGrows ==
  ASSUME TypeOK, NEW a \in Sent, NEW b \in Sent, sent' = sent \o <<a, b>>
  PROVE  Grows({a.of, b.of}) /\ Len(sent') = Len(sent) + 2
         /\ sent'[Len(sent) + 1] = a /\ sent'[Len(sent) + 2] = b
<1>1. sent \in Seq(Sent) /\ Len(sent) \in Nat /\ DOMAIN sent = 1 .. Len(sent)
  BY LenProperties DEF TypeOK
<1>2. QED
  BY <1>1 DEF Grows

LEMMA TailShrinks ==
  ASSUME TypeOK, sent # <<>>, sent' = Tail(sent)
  PROVE  Shrinks
<1>1. sent \in Seq(Sent) /\ Len(sent) \in Nat /\ DOMAIN sent = 1 .. Len(sent)
  BY LenProperties DEF TypeOK
<1>2. QED
  BY <1>1 DEF Shrinks

(* What a command makes of the modem, and of what is on its way, ...       *)
Quietly == {"command", "prompt"}

LEMMA RadioOffSends ==
  ASSUME TypeOK, RadioOff
  PROVE  /\ modem' = ModemOff
         /\ Grows({"command", "CEREG"})
         /\ \A i \in 1 .. Len(sent') : i > Len(sent) =>
              ~IsReport(sent'[i]) \/ IsDown(sent'[i])
         /\ modem.attached \/ modem.report =>
              \E i \in 1 .. Len(sent') :
                /\ i > Len(sent) /\ IsDown(sent'[i])
                /\ \A j \in 1 .. Len(sent') : j > i => ~IsReport(sent'[j])
         /\ ~(modem.attached \/ modem.report) => Grows(Quietly)
<1> DEFINE off == Urc("CEREG", FALSE)
           ok == Response(TRUE)
<1>1. off \in Sent /\ ok \in Sent /\ off.of = "CEREG" /\ off.data = FALSE
      /\ ok.of = "command"
  BY DEF Urc, Response, Sent, Urcs
<1>2. modem' = ModemOff
  BY DEF RadioOff
<1>3. CASE modem.attached \/ modem.report
  <2>1. sent' = sent \o <<ok, off>> \/ sent' = sent \o <<off, ok>>
    BY <1>3 DEF RadioOff, Send
  <2> HIDE DEF off, ok
  <2>2. CASE sent' = sent \o <<ok, off>>
    <3>1. /\ Grows({ok.of, off.of}) /\ Len(sent') = Len(sent) + 2
          /\ sent'[Len(sent) + 1] = ok /\ sent'[Len(sent) + 2] = off
      BY <1>1, <2>2, AppendTwoGrows
    <3>2. QED
      BY <1>1, <1>2, <1>3, <3>1 DEF Grows, IsReport, IsDown
  <2>3. CASE sent' = sent \o <<off, ok>>
    <3>1. /\ Grows({off.of, ok.of}) /\ Len(sent') = Len(sent) + 2
          /\ sent'[Len(sent) + 1] = off /\ sent'[Len(sent) + 2] = ok
      BY <1>1, <2>3, AppendTwoGrows
    <3>2. QED
      BY <1>1, <1>2, <1>3, <3>1 DEF Grows, IsReport, IsDown
  <2>4. QED
    BY <2>1, <2>2, <2>3
<1>4. CASE ~(modem.attached \/ modem.report)
  <2>1. sent' = sent \o <<ok>>
    BY <1>4 DEF RadioOff, Send
  <2> HIDE DEF off, ok
  <2>2. Grows({ok.of})
    BY <1>1, <2>1, AppendGrows
  <2>3. QED
    BY <1>1, <1>2, <1>4, <2>2 DEF Grows, IsReport, IsDown, Quietly
<1>5. QED
  BY <1>3, <1>4

LEMMA DisconnectSends ==
  ASSUME TypeOK, Disconnect
  PROVE  /\ modem' = Lost(modem)
         /\ Grows({"command", "ONDISCONNECT"})
         /\ \A i \in 1 .. Len(sent') : i > Len(sent) =>
              sent'[i].of = "command" \/ sent'[i].of = "ONDISCONNECT"
<1> DEFINE lost == Urc("ONDISCONNECT", TRUE)
<1>1. lost \in Sent /\ lost.of = "ONDISCONNECT"
  BY DEF Urc, Sent, Urcs
<1>2. \A b \in BOOLEAN : Response(b) \in Sent /\ Response(b).of = "command"
  BY DEF Response, Sent
<1>3. modem' = Lost(modem)
  BY DEF Disconnect
<1>4. \/ \E b \in BOOLEAN : sent' = sent \o <<Response(b)>>
      \/ sent' = sent \o <<Response(TRUE), lost>>
  BY DEF Disconnect, Send
<1> HIDE DEF lost
<1>5. Grows({"command", "ONDISCONNECT"})
  <2>1. CASE \E b \in BOOLEAN : sent' = sent \o <<Response(b)>>
    BY <1>2, <2>1, AppendGrows DEF Grows
  <2>2. CASE sent' = sent \o <<Response(TRUE), lost>>
    <3>1. Grows({Response(TRUE).of, lost.of})
      BY <1>1, <1>2, <2>2, AppendTwoGrows
    <3>2. QED
      BY <1>1, <1>2, <3>1
  <2>3. QED
    BY <1>4, <2>1, <2>2
<1>6. QED
  BY <1>3, <1>5 DEF Grows

(* ... and the commands that nothing but their response follows.           *)
LEMMA OthersSend ==
  ASSUME TypeOK, Effect, ~RadioOff, ~Disconnect
  PROVE  Grows(Quietly)
<1>1. \A b \in BOOLEAN : Response(b) \in Sent /\ Response(b).of = "command"
  BY DEF Response, Sent
<1> DEFINE prompt == [of |-> "prompt", data |-> TRUE]
<1>2. prompt \in Sent /\ prompt.of = "prompt"
  BY DEF Sent
<1>3. \/ sent' = sent \/ sent' = sent \o <<prompt>>
      \/ \E b \in BOOLEAN : sent' = sent \o <<Response(b)>>
  BY DEF Effect, RadioOn, Connect, Signature, Prompt, Payload, Subscription,
         Attention, Query, HttpPrompt, HttpPayload, Send
<1> HIDE DEF prompt
<1>4. CASE sent' = sent
  BY <1>4, SameGrows
<1>5. CASE sent' = sent \o <<prompt>>
  <2>1. Grows({prompt.of})
    BY <1>2, <1>5, AppendGrows
  <2>2. QED
    BY <1>2, <2>1 DEF Grows, Quietly
<1>6. CASE \E b \in BOOLEAN : sent' = sent \o <<Response(b)>>
  <2>1. PICK b \in BOOLEAN : sent' = sent \o <<Response(b)>>
    BY <1>6
  <2>2. Grows({Response(b).of})
    BY <1>1, <2>1, AppendGrows
  <2>3. QED
    BY <1>1, <2>2 DEF Grows, Quietly
<1>7. QED
  BY <1>3, <1>4, <1>5, <1>6

(* A URC is sent.                                                          *)
Sends(u, b) ==
  /\ Grows({u}) /\ Len(sent') = Len(sent) + 1
  /\ sent'[Len(sent) + 1].of = u /\ sent'[Len(sent) + 1].data = b

LEMMA UrcSends ==
  ASSUME TypeOK, NEW u \in Urcs, NEW b \in BOOLEAN, Send(<<Urc(u, b)>>)
  PROVE  Sends(u, b)
<1> DEFINE m == Urc(u, b)
<1>1. m \in Sent /\ m.of = u /\ m.data = b
  BY DEF Urc, Sent
<1>2. sent' = sent \o <<m>>
  BY DEF Send
<1> HIDE DEF m
<1>3. Grows({m.of}) /\ Len(sent') = Len(sent) + 1 /\ sent'[Len(sent) + 1] = m
  BY <1>1, <1>2, AppendGrows
<1>4. QED
  BY <1>1, <1>3 DEF Sends

(* What a program that answers sends: a failure, or a shutdown with it.    *)
LEMMA AnswerSends ==
  ASSUME TypeOK, ServerAnswers
  PROVE  /\ Grows({"HTTPRING", "HTTPSH"})
         /\ \A i \in 1 .. Len(sent') : i > Len(sent) =>
              /\ sent'[i].of = "HTTPRING" /\ sent'[i].data =>
                   history'.confirmed
              /\ sent'[i].of = "HTTPSH" => history'.shut
<1> DEFINE fails == Urc("HTTPRING", FALSE)
           shuts == Urc("HTTPSH", TRUE)
<1>1. fails \in Sent /\ shuts \in Sent /\ fails.of = "HTTPRING"
      /\ shuts.of = "HTTPSH" /\ ~fails.data
  BY DEF Urc, Sent, Urcs
<1>2. \/ Send(<<Urc("HTTPRING", TRUE)>>) /\ history'.confirmed = TRUE
      \/ Send(<<Urc("HTTPRING", FALSE)>>)
      \/ sent' = sent \o <<fails, shuts>> /\ history'.shut = TRUE
      \/ sent' = sent \o <<shuts, fails>> /\ history'.shut = TRUE
  BY DEF ServerAnswers, TypeOK, History, Send
<1> HIDE DEF fails, shuts
<1>3. CASE Send(<<Urc("HTTPRING", TRUE)>>) /\ history'.confirmed = TRUE
  <2>1. Sends("HTTPRING", TRUE)
    BY <1>3, UrcSends DEF Urcs
  <2>2. QED
    BY <1>3, <2>1 DEF Sends, Grows
<1>4. CASE Send(<<Urc("HTTPRING", FALSE)>>)
  <2>1. Sends("HTTPRING", FALSE)
    BY <1>4, UrcSends DEF Urcs
  <2>2. QED
    BY <2>1 DEF Sends, Grows
<1>5. CASE sent' = sent \o <<fails, shuts>> /\ history'.shut = TRUE
  <2>1. /\ Grows({fails.of, shuts.of}) /\ Len(sent') = Len(sent) + 2
        /\ sent'[Len(sent) + 1] = fails /\ sent'[Len(sent) + 2] = shuts
    BY <1>1, <1>5, AppendTwoGrows
  <2>2. \A i \in 1 .. Len(sent') : i > Len(sent) =>
          sent'[i] = fails \/ sent'[i] = shuts
    BY <2>1 DEF Grows
  <2>3. history'.shut
    BY <1>5
  <2>4. QED
    BY <1>1, <2>1, <2>2, <2>3
<1>6. CASE sent' = sent \o <<shuts, fails>> /\ history'.shut = TRUE
  <2>1. /\ Grows({shuts.of, fails.of}) /\ Len(sent') = Len(sent) + 2
        /\ sent'[Len(sent) + 1] = shuts /\ sent'[Len(sent) + 2] = fails
    BY <1>1, <1>6, AppendTwoGrows
  <2>2. \A i \in 1 .. Len(sent') : i > Len(sent) =>
          sent'[i] = fails \/ sent'[i] = shuts
    BY <2>1 DEF Grows
  <2>3. history'.shut
    BY <1>6
  <2>4. QED
    BY <1>1, <2>1, <2>2, <2>3
<1>7. QED
  BY <1>2, <1>3, <1>4, <1>5, <1>6

LEMMA PointOfClose ==
  ASSUME Main, pc = "lte_close"
  PROVE  LteClose
<1> USE DEF Goto, Step, Command, ResponseTo, Prompted, Register, WaitForURC
<1>1. ~MqttActs
  BY DEF MqttActs, MqttBegin, MqttConnect, MqttSign, MqttWait, MqttStatus,
         MqttConnected, MqttReturn, OnReceive, MqttEnd, MqttDisconnect,
         MqttEnded
<1>2. ~PublishActs /\ ~HttpActs
  BY DEF PublishActs, Publish, PublishMessage, PublishWait, Subscribe,
         SubscribeWait, HttpActs, HttpRequest, HttpSend, HttpRegister, HttpWait
<1>3. ~(LteBegin \/ LteRadio \/ LteFirstReport \/ LteConnect \/ LteEnd
          \/ LteDetach \/ LteDetaching)
  BY DEF LteBegin, LteRadio, LteFirstReport, LteConnect, LteEnd, LteDetach,
         LteDetaching
<1>4. QED
  BY <1>1, <1>2, <1>3 DEF Main, MqttActs, PublishActs, HttpActs

(* The main program does not touch what the interrupt writes but in end(). *)
LEMMA MainBelief ==
  ASSUME TypeOK, Initialized, Main
  PROVE  is_connected' = is_connected \/ (pc = "lte_close" /\ ~is_connected')
<1>0. is_connected \in BOOLEAN /\ initialized \in BOOLEAN
  BY DEF TypeOK
<1> USE DEF Goto, Step, Command, ResponseTo, Prompted, Register, WaitForURC,
            belief
<1>1. CASE LteActs
  BY <1>0, <1>1
  DEF LteActs, LteBegin, LteRadio, LteFirstReport, LteConnect, LteEnd,
      LteDetach, LteDetaching, LteClose, IsConnectedAfterEnd, Initialized
<1>2. CASE MqttActs
  BY <1>2
  DEF MqttActs, MqttBegin, MqttConnect, MqttSign, MqttWait, MqttStatus,
      MqttConnected, MqttReturn, OnReceive, MqttEnd, MqttDisconnect, MqttEnded
<1>3. CASE PublishActs
  BY <1>3
  DEF PublishActs, Publish, PublishMessage, PublishWait, Subscribe,
      SubscribeWait
<1>4. CASE HttpActs
  BY <1>4 DEF HttpActs, HttpRequest, HttpSend, HttpRegister, HttpWait
<1>5. QED
  BY <1>1, <1>2, <1>3, <1>4 DEF Main, LteActs, MqttActs, PublishActs, HttpActs
-----------------------------------------------------------------------------
LEMMA NetworkKnownGrows ==
  ASSUME NetworkKnown, NEW kinds, Grows(kinds), "CEREG" \notin kinds,
         modem'.attached = modem.attached, modem.report => modem'.report,
         history'.missed = history.missed, is_connected' = is_connected
  PROVE  NetworkKnown'
<1>1. \A i \in 1 .. Len(sent') : i > Len(sent) => ~IsReport(sent'[i])
  BY DEF Grows, IsReport
<1>2. CASE modem.report
  BY <1>2 DEF NetworkKnown
<1>3. ASSUME NEW i \in DOMAIN sent, IsReport(sent[i]),
             sent[i].data = modem.attached,
             \A j \in DOMAIN sent : j > i => ~IsReport(sent[j])
      PROVE  NetworkKnown'
  <2>1. i \in 1 .. Len(sent') /\ sent'[i] = sent[i]
    BY <1>3 DEF Grows
  <2>2. ASSUME NEW j \in 1 .. Len(sent'), j > i
        PROVE  ~IsReport(sent'[j])
    BY <1>1, <1>3, <2>2 DEF Grows
  <2>3. QED
    BY <1>3, <2>1, <2>2 DEF NetworkKnown, Grows
<1>4. CASE /\ \A i \in DOMAIN sent : ~IsReport(sent[i])
           /\ history.missed \/ is_connected = modem.attached
  <2>1. ASSUME NEW j \in 1 .. Len(sent')
        PROVE  ~IsReport(sent'[j])
    BY <1>1, <1>4 DEF Grows
  <2>2. QED
    BY <1>4, <2>1 DEF NetworkKnown, Grows
<1>5. QED
  BY <1>2, <1>3, <1>4 DEF NetworkKnown

LEMMA NetworkKnownShrinks ==
  ASSUME NetworkKnown, Shrinks, ~IsReport(sent[1]),
         modem' = modem,
         history'.missed = history.missed, is_connected' = is_connected
  PROVE  NetworkKnown'
<1>1. CASE modem.report
  BY <1>1 DEF NetworkKnown
<1>2. ASSUME NEW i \in DOMAIN sent, IsReport(sent[i]),
             sent[i].data = modem.attached,
             \A j \in DOMAIN sent : j > i => ~IsReport(sent[j])
      PROVE  NetworkKnown'
  <2>1. i \in 1 .. Len(sent) /\ i # 1
    BY <1>2 DEF Shrinks
  <2>2. i - 1 \in 1 .. Len(sent') /\ sent'[i - 1] = sent[i]
    BY <2>1 DEF Shrinks
  <2>3. ASSUME NEW j \in 1 .. Len(sent'), j > i - 1
        PROVE  ~IsReport(sent'[j])
    <3>1. j + 1 \in 1 .. Len(sent) /\ j + 1 > i
      BY <2>1, <2>3 DEF Shrinks
    <3>2. QED
      BY <1>2, <3>1 DEF Shrinks
  <2>4. QED
    BY <1>2, <2>2, <2>3 DEF NetworkKnown, Shrinks
<1>3. CASE /\ \A i \in DOMAIN sent : ~IsReport(sent[i])
           /\ history.missed \/ is_connected = modem.attached
  <2>1. ASSUME NEW j \in 1 .. Len(sent')
        PROVE  ~IsReport(sent'[j])
    <3>1. j + 1 \in 1 .. Len(sent) /\ sent'[j] = sent[j + 1]
      BY DEF Shrinks
    <3>2. QED
      BY <1>3, <3>1 DEF Shrinks
  <2>2. QED
    BY <1>3, <2>1 DEF NetworkKnown, Shrinks
<1>4. QED
  BY <1>1, <1>2, <1>3 DEF NetworkKnown

(* A report is received.                                                   *)
LEMMA ReportReceived ==
  ASSUME TypeOK, Registered, NetworkKnown, ReceiveUrc, IsReport(Head(sent))
  PROVE  NetworkKnown'
<1> DEFINE to == callback["CEREG"]
<1>1. Shrinks /\ modem' = modem
  BY TailShrinks DEF ReceiveUrc
<1>2. history'.missed = (to # "connectionStatus")
  BY DEF ReceiveUrc, IsReport, TypeOK, History
<1>3. to = "connectionStatus" => is_connected' = Head(sent).data
  <2>1. Head(sent).data \in BOOLEAN /\ is_connected \in BOOLEAN
    BY SentTypes DEF ReceiveUrc, Sent, TypeOK
  <2>2. QED
    BY <2>1 DEF ReceiveUrc, IsReport, ConnectionStatus, IsLoss
<1>4. CASE modem.report
  BY <1>1, <1>4 DEF NetworkKnown
<1>5. ASSUME NEW i \in DOMAIN sent, IsReport(sent[i]),
             sent[i].data = modem.attached,
             \A j \in DOMAIN sent : j > i => ~IsReport(sent[j])
      PROVE  NetworkKnown'
  <2>1. CASE i = 1
    <3>1. ASSUME NEW j \in 1 .. Len(sent')
          PROVE  ~IsReport(sent'[j])
      <4>1. j + 1 \in 1 .. Len(sent) /\ j + 1 > 1 /\ sent'[j] = sent[j + 1]
        BY <1>1 DEF Shrinks
      <4>2. QED
        BY <1>1, <1>5, <2>1, <4>1 DEF Shrinks
    <3>2. Head(sent).data = modem'.attached
      BY <1>1, <1>5, <2>1 DEF Shrinks
    <3>3. history'.missed \/ is_connected' = modem'.attached
      BY <1>2, <1>3, <3>2
    <3>4. QED
      BY <1>1, <3>1, <3>3 DEF NetworkKnown, Shrinks
  <2>2. CASE i # 1
    <3>1. i \in 1 .. Len(sent) /\ i - 1 \in 1 .. Len(sent')
          /\ sent'[i - 1] = sent[i]
      BY <1>1, <1>5, <2>2 DEF Shrinks
    <3>2. ASSUME NEW j \in 1 .. Len(sent'), j > i - 1
          PROVE  ~IsReport(sent'[j])
      <4>1. j + 1 \in 1 .. Len(sent) /\ j + 1 > i
        BY <1>1, <3>1, <3>2 DEF Shrinks
      <4>2. QED
        BY <1>1, <1>5, <4>1 DEF Shrinks
    <3>3. QED
      BY <1>1, <1>5, <3>1, <3>2 DEF NetworkKnown, Shrinks
  <2>3. QED
    BY <2>1, <2>2
<1>6. ~(\A i \in DOMAIN sent : ~IsReport(sent[i]))
  BY <1>1 DEF Shrinks
<1>7. QED
  BY <1>4, <1>5, <1>6 DEF NetworkKnown

LEMMA NetworkKnownStep ==
  ASSUME LifeInvariant, NetworkKnown, [Next]_vars
  PROVE  NetworkKnown'
<1>0. TypeOK /\ Registered /\ Initialized /\ modem \in Modem
      /\ is_connected \in BOOLEAN
  BY DEF LifeInvariant, TypeOK
<1> USE DEF Quietly
<1>1. CASE Main
  <2>0. history'.missed = history.missed
        /\ (is_connected' = is_connected
              \/ (pc = "lte_close" /\ ~is_connected'))
    BY <1>0, <1>1, MainHistory, MainBelief
  <2>1. CASE UNCHANGED <<modem, sent>> /\ pc # "lte_close"
    <3>1. Grows({})
      BY <1>0, <2>1, SameGrows
    <3>2. QED
      BY <2>0, <2>1, <3>1, NetworkKnownGrows
  <2>2. CASE Effect
    <3>0. is_connected' = is_connected
      BY <2>0, <2>2 DEF Effect, HttpPoints
    <3>1. CASE RadioOff
      <4>1. CASE modem.attached \/ modem.report
        <5>1. PICK i \in 1 .. Len(sent') :
                /\ IsDown(sent'[i])
                /\ \A j \in 1 .. Len(sent') : j > i => ~IsReport(sent'[j])
          BY <1>0, <3>1, <4>1, RadioOffSends
        <5>2. modem'.attached = FALSE /\ DOMAIN sent' = 1 .. Len(sent')
          BY <1>0, <3>1, RadioOffSends DEF ModemOff, Grows
        <5>3. sent'[i].data = FALSE
          <6>1. sent'[i].data \in BOOLEAN
            <7>1. sent' \in Seq(Sent) /\ i \in 1 .. Len(sent')
              BY <1>0, <2>2, EffectTypes
            <7>2. sent'[i] \in Sent
              BY <7>1, ElementOfSeq
            <7>3. QED
              BY <7>2 DEF Sent
          <6>2. QED
            BY <5>1, <6>1 DEF IsDown
        <5>4. QED
          BY <5>1, <5>2, <5>3 DEF NetworkKnown, IsDown, IsReport
      <4>2. CASE ~(modem.attached \/ modem.report)
        <5>1. Grows(Quietly) /\ modem' = ModemOff
          BY <1>0, <3>1, <4>2, RadioOffSends
        <5>2. modem'.attached = modem.attached /\ modem.report = FALSE
          BY <1>0, <4>2, <5>1 DEF Modem, ModemOff
        <5>3. QED
          BY <2>0, <3>0, <5>1, <5>2, NetworkKnownGrows
      <4>3. QED
        BY <4>1, <4>2
    <3>2. CASE Disconnect
      <4>1. Grows({"command", "ONDISCONNECT"}) /\ modem' = Lost(modem)
        BY <1>0, <3>2, DisconnectSends
      <4>2. modem'.attached = modem.attached /\ modem'.report = modem.report
        BY <1>0, <4>1 DEF Modem, Lost
      <4>3. QED
        BY <2>0, <3>0, <4>1, <4>2, NetworkKnownGrows
    <3>3. CASE ~RadioOff /\ ~Disconnect
      <4>1. Grows(Quietly)
        BY <1>0, <2>2, <3>3, OthersSend
      <4>2. modem'.attached = modem.attached /\ (modem.report => modem'.report)
        BY <1>0, <2>2, <3>3
        DEF Effect, RadioOn, Connect, Signature, Prompt, Payload,
            Subscription, Attention, Query, HttpPrompt, HttpPayload, Request,
            Modem
      <4>3. QED
        BY <2>0, <3>0, <4>1, <4>2, NetworkKnownGrows
    <3>4. QED
      BY <3>1, <3>2, <3>3
  <2>3. CASE /\ sent # <<>> /\ Head(sent).of \in {"command", "prompt"}
             /\ sent' = Tail(sent) /\ modem' = modem /\ pc # "lte_close"
    <3>1. Shrinks /\ ~IsReport(sent[1])
      BY <1>0, <2>3, TailShrinks DEF Shrinks, IsReport
    <3>2. QED
      BY <2>0, <2>3, <3>1, NetworkKnownShrinks
  <2>4. CASE pc = "lte_close"
    <3>1. LteClose
      BY <1>1, <2>4, PointOfClose
    <3>2. sent' = <<>> /\ is_connected' = FALSE /\ modem'.attached = FALSE
      BY <3>1 DEF LteClose, ModemOff, IsConnectedAfterEnd
    <3>3. DOMAIN sent' = {}
      BY <3>2
    <3>4. QED
      BY <3>2, <3>3 DEF NetworkKnown
  <2>5. QED
    BY <1>1, <2>1, <2>2, <2>3, <2>4, MainSends
<1>2. CASE ReceiveUrc
  <2>1. CASE IsReport(Head(sent))
    BY <1>0, <1>2, <2>1, ReportReceived
  <2>2. CASE ~IsReport(Head(sent))
    <3>1. Shrinks /\ ~IsReport(sent[1]) /\ modem' = modem
      BY <1>0, <1>2, <2>2, TailShrinks DEF ReceiveUrc, Shrinks
    <3>2. history'.missed = history.missed
      BY <1>0, <1>2, <2>2 DEF ReceiveUrc, IsReport, TypeOK, History
    <3>3. is_connected' = is_connected
      <4>1. callback[Head(sent).of] # "connectionStatus"
        BY <1>0, <1>2, <2>2, FunctionAssumption
        DEF ReceiveUrc, IsReport, Registered, Urcs, Function
      <4>2. QED
        BY <1>2, <4>1 DEF ReceiveUrc
    <3>4. QED
      BY <3>1, <3>2, <3>3, NetworkKnownShrinks
  <2>3. QED
    BY <2>1, <2>2
<1>3. CASE ModemActs \/ Drop \/ UNCHANGED vars
  <2>0. history'.missed = history.missed /\ is_connected' = is_connected
    BY <1>0, <1>3, Outside DEF belief
  <2>1. CASE Network
    <3>1. modem'.report
      BY <1>0, <2>1 DEF Network, Lost, Modem
    <3>2. QED
      BY <3>1 DEF NetworkKnown
  <2>2. CASE Report
    <3>1. Sends("CEREG", modem.attached) /\ modem'.attached = modem.attached
      BY <1>0, <2>2, UrcSends DEF Report, Modem, Urcs
    <3>2. /\ Len(sent') \in Nat /\ DOMAIN sent' = 1 .. Len(sent')
          /\ Len(sent) + 1 = Len(sent') /\ Len(sent) + 1 \in DOMAIN sent'
      BY <3>1 DEF Sends, Grows
    <3>3. /\ IsReport(sent'[Len(sent')])
          /\ sent'[Len(sent')].data = modem'.attached
      BY <3>1, <3>2 DEF Sends, IsReport
    <3>4. \A j \in DOMAIN sent' : ~(j > Len(sent'))
      BY <3>2
    <3>5. Len(sent') \in DOMAIN sent'
      BY <3>2
    <3>6. QED
      BY <3>3, <3>4, <3>5 DEF NetworkKnown
  <2>3. ASSUME NEW u \in Urcs \ {"CEREG"}, NEW b \in BOOLEAN, Sends(u, b),
               modem'.attached = modem.attached, modem'.report = modem.report
        PROVE  NetworkKnown'
    BY <2>0, <2>3, NetworkKnownGrows DEF Sends
  <2>4. CASE \/ ModemAsksForSignature \/ BrokerAnswers \/ BrokerDrops
             \/ BrokerMessage \/ BrokerConfirms \/ BrokerSubscribes
    <3>1. modem'.attached = modem.attached /\ modem'.report = modem.report
      BY <1>0, <2>4
      DEF ModemAsksForSignature, BrokerAnswers, BrokerDrops, BrokerMessage,
          BrokerConfirms, BrokerSubscribes, Lost, Modem
    <3>2. \E u \in Urcs \ {"CEREG"}, b \in BOOLEAN : Send(<<Urc(u, b)>>)
      BY <2>4
      DEF ModemAsksForSignature, BrokerAnswers, BrokerDrops, BrokerMessage,
          BrokerConfirms, BrokerSubscribes, Urcs
    <3>3. QED
      BY <1>0, <2>3, <3>1, <3>2, UrcSends
  <2>5. CASE ServerAnswers
    <3>1. Grows({"HTTPRING", "HTTPSH"})
      BY <1>0, <2>5, AnswerSends
    <3>2. modem'.attached = modem.attached /\ modem'.report = modem.report
      BY <1>0, <2>5 DEF ServerAnswers, Modem
    <3>3. QED
      BY <2>0, <3>1, <3>2, NetworkKnownGrows
  <2>6. CASE Drop
    <3>1. Shrinks /\ ~IsReport(sent[1]) /\ modem' = modem
      BY <1>0, <2>6, TailShrinks DEF Drop, Shrinks, IsReport
    <3>2. QED
      BY <2>0, <3>1, NetworkKnownShrinks
  <2>7. CASE UNCHANGED vars
    BY <2>7 DEF vars, main, belief, NetworkKnown
  <2>8. QED
    BY <1>3, <2>1, <2>2, <2>4, <2>5, <2>6, <2>7 DEF ModemActs
<1>4. QED
  BY <1>1, <1>2, <1>3 DEF Next

(* Lte.isConnected() is what the modem reported last, however many reports *)
(* are on their way, unless one came while nobody was registered for it.   *)
THEOREM NetworkBeliefTheorem == Spec => []NetworkBelief
<1>1. Init => NetworkKnown
  <2>1. SUFFICES ASSUME Init
                 PROVE  NetworkKnown
    OBVIOUS
  <2>2. sent = <<>> /\ is_connected = FALSE /\ modem.attached = FALSE
    BY <2>1 DEF Init, ModemOff
  <2>3. DOMAIN sent = {}
    BY <2>2
  <2>4. QED
    BY <2>2, <2>3 DEF NetworkKnown
<1>2. LifeInvariant /\ NetworkKnown /\ [Next]_vars => NetworkKnown'
  BY NetworkKnownStep
<1>3. NetworkKnown => NetworkBelief
  BY DEF NetworkKnown, NetworkBelief, Quiet
<1>4. QED
  BY <1>1, <1>2, <1>3, LifeCorrect, PTL DEF Spec
-----------------------------------------------------------------------------
(* What is on its way of a kind was so before.                             *)
NothingNew(u) ==
  \A i \in DOMAIN sent' : sent'[i].of = u =>
    \E j \in DOMAIN sent : sent[j] = sent'[i]

LEMMA GrowsOld ==
  ASSUME NEW kinds, Grows(kinds), NEW u, u \notin kinds
  PROVE  NothingNew(u)
BY DEF Grows, NothingNew

LEMMA SendsOld ==
  ASSUME NEW v, NEW b, Sends(v, b), NEW u, u # v
  PROVE  NothingNew(u)
<1>1. Grows({v})
  BY DEF Sends
<1>2. QED
  BY <1>1, GrowsOld

LEMMA ShrinksOld ==
  ASSUME Shrinks, NEW u
  PROVE  NothingNew(u)
<1>1. SUFFICES ASSUME NEW i \in DOMAIN sent'
               PROVE  \E j \in DOMAIN sent : sent[j] = sent'[i]
  BY DEF NothingNew
<1>2. i + 1 \in DOMAIN sent /\ sent[i + 1] = sent'[i]
  BY <1>1 DEF Shrinks
<1>3. QED
  BY <1>2

LEMMA MainNothingNew ==
  ASSUME TypeOK, Main,
         NEW u \in Urcs \ {"CEREG", "ONDISCONNECT"}
  PROVE  NothingNew(u)
<1>1. u # "command" /\ u # "prompt"
  BY DEF Urcs
<1>2. CASE sent' = sent
  BY <1>2, SameGrows, GrowsOld
<1>3. CASE Effect
  <2>1. CASE RadioOff
    <3>1. Grows({"command", "CEREG"})
      BY <2>1, RadioOffSends
    <3>2. QED
      BY <1>1, <3>1, GrowsOld
  <2>2. CASE Disconnect
    <3>1. Grows({"command", "ONDISCONNECT"})
      BY <2>2, DisconnectSends
    <3>2. QED
      BY <1>1, <3>1, GrowsOld
  <2>3. CASE ~RadioOff /\ ~Disconnect
    <3>1. Grows(Quietly)
      BY <1>3, <2>3, OthersSend
    <3>2. QED
      BY <1>1, <3>1, GrowsOld DEF Quietly
  <2>4. QED
    BY <2>1, <2>2, <2>3
<1>4. CASE sent # <<>> /\ sent' = Tail(sent)
  BY <1>4, TailShrinks, ShrinksOld
<1>5. CASE sent' = <<>>
  BY <1>5 DEF NothingNew
<1>6. QED
  BY <1>2, <1>3, <1>4, <1>5, MainSends

LEMMA TakenNothingNew ==
  ASSUME TypeOK, ReceiveUrc \/ Drop \/ UNCHANGED vars \/ Network, NEW u
  PROVE  NothingNew(u)
<1>1. \/ sent' = sent
      \/ sent # <<>> /\ sent' = Tail(sent)
  BY DEF ReceiveUrc, Drop, Network, vars
<1>2. sent' = sent => NothingNew(u)
  BY DEF NothingNew
<1>3. QED
  BY <1>1, <1>2, TailShrinks, ShrinksOld

(* What each step of the modem sends.                                      *)
LEMMA ModemSends ==
  ASSUME TypeOK
  PROVE  /\ Report => Sends("CEREG", modem.attached)
         /\ ModemAsksForSignature => Sends("HCESIGN", TRUE)
         /\ BrokerAnswers =>
              \E ok \in BOOLEAN :
                /\ Sends("ONCONNECT", ok)
                /\ modem' = [modem EXCEPT !.session =
                                            IF ok THEN "up" ELSE "none"]
                /\ history' = [history EXCEPT !.accepted = ok]
         /\ BrokerDrops => Sends("ONDISCONNECT", TRUE)
         /\ BrokerMessage => Sends("ONMESSAGE", TRUE)
         /\ BrokerConfirms =>
              \E ok \in BOOLEAN :
                /\ Sends("ONPUBLISH", ok)
                /\ history' = [history EXCEPT
                                 !.confirmed = IF pc \in SubscribePoints
                                               THEN @ ELSE ok]
         /\ BrokerSubscribes =>
              \E ok \in BOOLEAN :
                /\ Sends("ONSUBSCRIBE", ok)
                /\ history' = [history EXCEPT
                                 !.confirmed = IF pc \in PublishPoints
                                               THEN @ ELSE ok]
<1>0. modem.attached \in BOOLEAN
  BY DEF TypeOK, Modem
<1>1. Report => Sends("CEREG", modem.attached)
  BY <1>0, UrcSends DEF Report, Urcs
<1>2. ModemAsksForSignature => Sends("HCESIGN", TRUE)
  BY UrcSends DEF ModemAsksForSignature, Urcs
<1>3. BrokerDrops => Sends("ONDISCONNECT", TRUE)
  BY UrcSends DEF BrokerDrops, Urcs
<1>4. BrokerMessage => Sends("ONMESSAGE", TRUE)
  BY UrcSends DEF BrokerMessage, Urcs
<1>5. ASSUME BrokerAnswers
      PROVE  \E ok \in BOOLEAN :
               /\ Sends("ONCONNECT", ok)
               /\ modem' = [modem EXCEPT !.session =
                                           IF ok THEN "up" ELSE "none"]
               /\ history' = [history EXCEPT !.accepted = ok]
  BY <1>5, UrcSends DEF BrokerAnswers, Urcs
<1>6. ASSUME BrokerConfirms
      PROVE  \E ok \in BOOLEAN :
               /\ Sends("ONPUBLISH", ok)
               /\ history' = [history EXCEPT
                                !.confirmed = IF pc \in SubscribePoints
                                              THEN @ ELSE ok]
  BY <1>6, UrcSends DEF BrokerConfirms, Urcs
<1>7. ASSUME BrokerSubscribes
      PROVE  \E ok \in BOOLEAN :
               /\ Sends("ONSUBSCRIBE", ok)
               /\ history' = [history EXCEPT
                                !.confirmed = IF pc \in PublishPoints
                                              THEN @ ELSE ok]
  BY <1>7, UrcSends DEF BrokerSubscribes, Urcs
<1>8. QED
  BY <1>1, <1>2, <1>3, <1>4, <1>5, <1>6, <1>7

LEMMA LostSession ==
  ASSUME NEW m \in Modem
  PROVE  /\ Lost(m).session = "none"
         /\ Lost(m).publishing = FALSE /\ Lost(m).subscribing = FALSE
         /\ Lost(m).attached = m.attached /\ Lost(m).report = m.report
         /\ Lost(m).requested = m.requested
BY DEF Lost, Modem

LEMMA ModemNothingNew ==
  ASSUME TypeOK, NEW u
  PROVE  /\ Report /\ u # "CEREG" => NothingNew(u)
         /\ ModemAsksForSignature /\ u # "HCESIGN" => NothingNew(u)
         /\ BrokerAnswers /\ u # "ONCONNECT" => NothingNew(u)
         /\ BrokerDrops /\ u # "ONDISCONNECT" => NothingNew(u)
         /\ BrokerMessage /\ u # "ONMESSAGE" => NothingNew(u)
         /\ BrokerConfirms /\ u # "ONPUBLISH" => NothingNew(u)
         /\ BrokerSubscribes /\ u # "ONSUBSCRIBE" => NothingNew(u)
         /\ ServerAnswers /\ u \notin {"HTTPRING", "HTTPSH"} => NothingNew(u)
<1>1. Report /\ u # "CEREG" => NothingNew(u)
  BY ModemSends, SendsOld
<1>2. ModemAsksForSignature /\ u # "HCESIGN" => NothingNew(u)
  BY ModemSends, SendsOld
<1>3. BrokerAnswers /\ u # "ONCONNECT" => NothingNew(u)
  BY ModemSends, SendsOld
<1>4. BrokerDrops /\ u # "ONDISCONNECT" => NothingNew(u)
  BY ModemSends, SendsOld
<1>5. BrokerMessage /\ u # "ONMESSAGE" => NothingNew(u)
  BY ModemSends, SendsOld
<1>6. BrokerConfirms /\ u # "ONPUBLISH" => NothingNew(u)
  BY ModemSends, SendsOld
<1>7. BrokerSubscribes /\ u # "ONSUBSCRIBE" => NothingNew(u)
  BY ModemSends, SendsOld
<1>8. ServerAnswers /\ u \notin {"HTTPRING", "HTTPSH"} => NothingNew(u)
  BY AnswerSends, GrowsOld
<1>9. QED
  BY <1>1, <1>2, <1>3, <1>4, <1>5, <1>6, <1>7, <1>8

LEMMA NoSessionStep ==
  ASSUME TypeOK, NoSession, [Next]_vars
  PROVE  NoSession'
<1>0. modem \in Modem
  BY DEF TypeOK
<1> USE DEF Modem, NoSession
<1>1. CASE Main
  <2>1. pc' \in HttpPoints => pc \in HttpPoints \/ HttpRequest
    <3> USE DEF Goto, Step, Command, ResponseTo, Prompted, Register,
                WaitForURC, HttpPoints
    <3>1. CASE LteActs
      BY TypesSplit, <3>1
      DEF LteActs, LteBegin, LteRadio, LteFirstReport, LteConnect, LteEnd,
          LteDetach, LteDetaching, LteClose
    <3>2. CASE MqttActs
      BY TypesSplit, <3>2
      DEF MqttActs, MqttBegin, MqttConnect, MqttSign, MqttWait, MqttStatus,
          MqttConnected, MqttReturn, OnReceive, MqttEnd, MqttDisconnect,
          MqttEnded, ControlTypeOK
    <3>3. CASE PublishActs
      BY <3>3
      DEF PublishActs, Publish, PublishMessage, PublishWait, Subscribe,
          SubscribeWait
    <3>4. CASE HttpActs
      BY <3>4 DEF HttpActs, HttpRequest, HttpSend, HttpRegister, HttpWait
    <3>5. QED
      BY <1>1, <3>1, <3>2, <3>3, <3>4
      DEF Main, LteActs, MqttActs, PublishActs, HttpActs
  <2>2. HttpRequest => modem.session = "none" /\ modem' = modem
    BY DEF HttpRequest, NoMqttClient
  <2>3. pc \in HttpPoints => modem'.session = modem.session
    <3>1. CASE Effect
      BY <1>0, <3>1
      DEF Effect, HttpPoints, Attention, Query, HttpPrompt, HttpPayload,
          Request
    <3>2. CASE ~Effect
      BY <1>1, <3>2, MainSends DEF HttpPoints
    <3>3. QED
      BY <3>1, <3>2
  <2>4. modem'.publishing \/ modem'.subscribing => modem'.session = "up"
    <3>1. CASE Effect
      <4>1. CASE RadioOff \/ RadioOn \/ Disconnect
        <5>1. RadioOff \/ Disconnect =>
                modem'.publishing = FALSE /\ modem'.subscribing = FALSE
          <6>1. RadioOff => modem' = ModemOff
            BY DEF RadioOff
          <6>2. Disconnect => modem' = Lost(modem)
            BY DEF Disconnect
          <6>3. ModemOff.publishing = FALSE /\ ModemOff.subscribing = FALSE
            BY DEF ModemOff
          <6>4. QED
            BY <1>0, <6>1, <6>2, <6>3, LostSession
        <5>2. RadioOn => /\ modem'.publishing = modem.publishing
                         /\ modem'.subscribing = modem.subscribing
                         /\ modem'.session = modem.session
          BY <1>0 DEF RadioOn
        <5>3. QED
          BY <4>1, <5>1, <5>2
      <4>2. CASE Connect("asked") \/ Connect("handshake") \/ Signature
        <5>1. modem'.publishing = modem.publishing
              /\ modem'.subscribing = modem.subscribing
          BY <1>0, <4>2 DEF Connect, Signature
        <5>2. modem'.session = modem.session
                \/ modem.session = "none" \/ modem.session = "signing"
          BY <1>0, <4>2 DEF Connect, Signature
        <5>3. QED
          BY <5>1, <5>2
      <4>3. CASE \/ Prompt \/ Payload \/ Subscription \/ Attention \/ Query
                 \/ HttpPrompt \/ HttpPayload
        BY <1>0, <4>3
        DEF Prompt, Payload, Subscription, Attention, Query, HttpPrompt,
            HttpPayload, Request
      <4>4. QED
        BY <3>1, <4>1, <4>2, <4>3 DEF Effect
    <3>2. CASE ~Effect
      BY <1>1, <3>2, MainSends DEF ModemOff
    <3>3. QED
      BY <3>1, <3>2
  <2>5. QED
    BY <2>1, <2>2, <2>3, <2>4
<1>2. CASE ReceiveUrc \/ Drop \/ UNCHANGED vars
  BY <1>2 DEF ReceiveUrc, Drop, vars, main
<1>3. CASE ModemActs
  <2>1. pc' = pc
    BY <1>3, Outside DEF main
  <2>2. CASE Network \/ Report \/ ServerAnswers \/ BrokerDrops
    BY <1>0, <2>1, <2>2 DEF Network, Report, ServerAnswers, BrokerDrops, Lost
  <2>3. CASE \/ ModemAsksForSignature \/ BrokerAnswers \/ BrokerMessage
             \/ BrokerConfirms \/ BrokerSubscribes
    BY <1>0, <2>1, <2>3
    DEF ModemAsksForSignature, BrokerAnswers, BrokerMessage, BrokerConfirms,
        BrokerSubscribes
  <2>4. QED
    BY <1>3, <2>2, <2>3 DEF ModemActs
<1>4. QED
  BY <1>1, <1>2, <1>3 DEF Next
-----------------------------------------------------------------------------
(* Which steps lead to which points.                                       *)
LEMMA PointsOf ==
  ASSUME TypeOK, Main
  PROVE  /\ pc' \in PublishPoints => Publish \/ PublishMessage \/ PublishWait
         /\ pc' \in SubscribePoints => Subscribe \/ SubscribeWait
         /\ pc' \in HttpPoints => HttpActs
<1> USE DEF Goto, Step, Command, ResponseTo, Prompted, Register, WaitForURC,
            HttpPoints, PublishPoints, SubscribePoints
<1>1. CASE LteActs
  BY <1>1
  DEF LteActs, LteBegin, LteRadio, LteFirstReport, LteConnect, LteEnd,
      LteDetach, LteDetaching, LteClose
<1>2. CASE MqttActs
  BY TypesSplit, <1>2
  DEF MqttActs, MqttBegin, MqttConnect, MqttSign, MqttWait, MqttStatus,
      MqttConnected, MqttReturn, OnReceive, MqttEnd, MqttDisconnect,
      MqttEnded, ControlTypeOK
<1>3. CASE Publish \/ PublishMessage \/ PublishWait
  BY <1>3 DEF Publish, PublishMessage, PublishWait
<1>4. CASE Subscribe \/ SubscribeWait
  BY <1>4 DEF Subscribe, SubscribeWait
<1>5. CASE HttpActs
  BY <1>5 DEF HttpActs, HttpRequest, HttpSend, HttpRegister, HttpWait
<1>6. QED
  BY <1>1, <1>2, <1>3, <1>4, <1>5 DEF Main, LteActs, MqttActs, HttpActs

LEMMA NotOnItsWay ==
  ASSUME NEW u, ~OnItsWay(u), NothingNew(u)
  PROVE  ~OnItsWay(u)'
BY DEF OnItsWay, NothingNew

(* waitForURC() is given the URC it registered for.                        *)
LEMMA Got ==
  ASSUME TypeOK, Registered, ReceiveUrc
  PROVE  /\ got' = got \/ (got' = Head(sent).data /\ got' \in BOOLEAN)
         /\ got' # got /\ pc = "lte_wait" => Head(sent).of = "CEREG"
         /\ got' # got /\ pc = "mqtt_sign_wait" => Head(sent).of = "HCESIGN"
         /\ got' # got /\ pc = "mqtt_wait" => Head(sent).of = "ONCONNECT"
         /\ got' # got /\ pc = "publish_wait" => Head(sent).of = "ONPUBLISH"
         /\ got' # got /\ pc = "subscribe_wait" =>
              Head(sent).of = "ONSUBSCRIBE"
         /\ got' # got /\ pc = "http_wait" => Head(sent).of = "HTTPRING"
         /\ 1 \in DOMAIN sent /\ sent[1] = Head(sent)
         /\ Head(sent).data \in BOOLEAN
<1>1. /\ Head(sent).of \in Urcs /\ Head(sent).data \in BOOLEAN
      /\ 1 \in DOMAIN sent /\ sent[1] = Head(sent)
  BY SentTypes, TailShrinks DEF ReceiveUrc, Sent, Shrinks
<1>2. got' # got => callback[Head(sent).of] = "wait" /\ got' = Head(sent).data
  BY DEF ReceiveUrc
<1>3. callback[Head(sent).of] = "wait" =>
        /\ pc = "lte_wait" => Head(sent).of = "CEREG"
        /\ pc = "mqtt_sign_wait" => Head(sent).of = "HCESIGN"
        /\ pc = "mqtt_wait" => Head(sent).of = "ONCONNECT"
        /\ pc = "publish_wait" => Head(sent).of = "ONPUBLISH"
        /\ pc = "subscribe_wait" => Head(sent).of = "ONSUBSCRIBE"
        /\ pc = "http_wait" => Head(sent).of = "HTTPRING"
  BY <1>1, FunctionAssumption DEF Registered, Urcs, Function
<1>4. QED
  BY <1>1, <1>2, <1>3

(* What an interrupt leaves of the history.                                *)
LEMMA ReceiveHistory ==
  ASSUME TypeOK, ReceiveUrc \/ Drop
  PROVE  /\ history'.accepted = history.accepted
         /\ history'.signing = history.signing
         /\ history'.untimely = history.untimely
         /\ history'.confirmed = history.confirmed
         /\ history'.shut = history.shut
         /\ history'.owing = history.owing
         /\ modem' = modem /\ pc' = pc
BY DEF ReceiveUrc, Drop, main, TypeOK, History

LEMMA PublishOnceStep ==
  ASSUME TypeOK, Registered, PublishOnce, [Next]_vars
  PROVE  PublishOnce'
<1>0. /\ modem \in Modem /\ history \in History /\ got \in BOOLEAN \union {NULL}
      /\ modem.publishing \in BOOLEAN /\ history.confirmed \in BOOLEAN
      /\ history.owing \in BOOLEAN
  BY DEF TypeOK, Modem, History
<1> USE DEF PublishPoints
<1>1. CASE Main
  <2>0. NothingNew("ONPUBLISH")
    BY <1>1, MainNothingNew DEF Urcs
  <2> USE DEF Goto, Step, Command, Prompted, Register, WaitForURC
  <2>1. CASE Publish
    <3>1. /\ pc' = "publish" /\ UNCHANGED <<sent, modem>>
          /\ history'.owing = (modem.publishing \/ OnItsWay("ONPUBLISH"))
      BY <1>0, <2>1 DEF Publish, History
    <3>2. ~history'.owing =>
            ~modem'.publishing /\ ~OnItsWay("ONPUBLISH")'
      BY <3>1 DEF OnItsWay
    <3>3. QED
      BY <3>1, <3>2 DEF PublishOnce, OnItsWay
  <2>2. CASE PublishMessage
    <3>1. history' = history
          /\ pc \in {"publish", "publish_prompt", "publish_payload"}
      BY <2>2 DEF PublishMessage
    <3>2. CASE pc' \in {"publish_prompt", "publish_payload"}
      <4>1. modem' = modem
        BY <2>2, <3>2 DEF PublishMessage, Prompt
      <4>2. ~history.owing => ~modem'.publishing /\ ~OnItsWay("ONPUBLISH")'
        BY <2>0, <3>1, <4>1, NotOnItsWay DEF PublishOnce
      <4>3. QED
        BY <3>1, <3>2, <4>2 DEF PublishOnce, OnItsWay
    <3>3. CASE pc' = "publish_wait_register"
      <4>1. ~history.owing => ~OnItsWay("ONPUBLISH")'
        BY <2>0, <3>1, NotOnItsWay DEF PublishOnce
      <4>2. QED
        BY <3>1, <3>3, <4>1 DEF PublishOnce, OnItsWay
    <3>4. CASE pc' = "idle"
      BY <3>4 DEF PublishOnce
    <3>5. QED
      BY <2>2, <3>2, <3>3, <3>4 DEF PublishMessage
  <2>3. CASE PublishWait
    <3>1. UNCHANGED <<history, modem, sent>>
      BY <2>3 DEF PublishWait
    <3>2. /\ pc' \in {"publish_wait", "published", "idle"}
          /\ pc' = "publish_wait" => got' = NULL /\ pc = "publish_wait_register"
          /\ pc' = "published" => pc = "publish_wait" /\ got = TRUE
      BY <2>3 DEF PublishWait, Confirmed, FlagOfWait
    <3>3. CASE pc' = "publish_wait"
      BY <3>1, <3>2, <3>3 DEF PublishOnce
    <3>4. CASE pc' = "published"
      BY <3>1, <3>2, <3>4, ConnectionAssumption DEF PublishOnce
    <3>5. CASE pc' = "idle"
      BY <3>5 DEF PublishOnce
    <3>6. QED
      BY <3>2, <3>3, <3>4, <3>5
  <2>4. CASE pc' \notin PublishPoints
    BY <2>4 DEF PublishOnce
  <2>5. QED
    BY <1>1, <2>1, <2>2, <2>3, <2>4, PointsOf
<1>2. CASE ReceiveUrc
  <2>1. /\ NothingNew("ONPUBLISH") /\ UNCHANGED <<pc, modem>>
        /\ history'.owing = history.owing
        /\ history'.confirmed = history.confirmed
    BY <1>2, TakenNothingNew, ReceiveHistory
  <2>2. CASE pc \in PublishPoints /\ ~history.owing
    <3>1. pc \in {"publish", "publish_prompt", "publish_payload"} =>
            ~modem'.publishing /\ ~OnItsWay("ONPUBLISH")'
      BY <2>1, <2>2, NotOnItsWay DEF PublishOnce
    <3>2. \A i \in DOMAIN sent' : sent'[i].of = "ONPUBLISH" =>
            ~modem.publishing /\ (sent'[i].data => history.confirmed)
      BY <2>1, <2>2 DEF PublishOnce, NothingNew
    <3>3. pc = "publish_wait" /\ got' # NULL =>
            ~modem.publishing /\ (got' = TRUE => history.confirmed)
      BY <1>2, <2>2, Got DEF PublishOnce
    <3>4. QED
      BY <2>1, <2>2, <3>1, <3>2, <3>3 DEF PublishOnce
  <2>3. CASE ~(pc \in PublishPoints /\ ~history.owing)
    BY <2>1, <2>3 DEF PublishOnce
  <2>4. QED
    BY <2>2, <2>3
<1>3. CASE ModemActs \/ Drop \/ UNCHANGED vars
  <2>1. /\ UNCHANGED <<pc, got>> /\ history'.owing = history.owing
    BY <1>3, Outside DEF main
  <2>2. ASSUME NothingNew("ONPUBLISH"),
               modem'.publishing => modem.publishing,
               pc \in PublishPoints =>
                 (history.confirmed => history'.confirmed)
        PROVE  PublishOnce'
    <3>1. CASE pc \in PublishPoints /\ ~history.owing
      <4>1. pc \in {"publish", "publish_prompt", "publish_payload"} =>
              ~modem'.publishing /\ ~OnItsWay("ONPUBLISH")'
        BY <2>2, <3>1, NotOnItsWay DEF PublishOnce
      <4>2. \A i \in DOMAIN sent' : sent'[i].of = "ONPUBLISH" =>
              ~modem'.publishing /\ (sent'[i].data => history'.confirmed)
        BY <2>2, <3>1 DEF PublishOnce, NothingNew
      <4>3. QED
        BY <2>1, <2>2, <3>1, <4>1, <4>2 DEF PublishOnce
    <3>2. CASE ~(pc \in PublishPoints /\ ~history.owing)
      BY <2>1, <3>2 DEF PublishOnce
    <3>3. QED
      BY <3>1, <3>2
  <2>3. CASE Network \/ Drop \/ UNCHANGED vars
    <3>1. NothingNew("ONPUBLISH")
      BY <2>3, TakenNothingNew
    <3>2. modem'.publishing => modem.publishing
      BY <1>0, <2>3 DEF Network, Drop, vars, Lost, Modem
    <3>3. history' = history
      BY <2>3 DEF Network, Drop, vars
    <3>4. QED
      BY <2>2, <3>1, <3>2, <3>3
  <2>4. CASE \/ Report \/ ModemAsksForSignature \/ BrokerAnswers
             \/ BrokerDrops \/ BrokerMessage \/ BrokerSubscribes
    <3>1. NothingNew("ONPUBLISH")
      BY <2>4, ModemNothingNew
    <3>2. modem'.publishing => modem.publishing
      BY <1>0, <2>4
      DEF Report, ModemAsksForSignature, BrokerAnswers, BrokerDrops,
          BrokerMessage, BrokerSubscribes, Lost, Modem
    <3>3. pc \in PublishPoints => history'.confirmed = history.confirmed
      BY <1>0, <2>4
      DEF Report, ModemAsksForSignature, BrokerAnswers, BrokerDrops,
          BrokerMessage, BrokerSubscribes, History
    <3>4. QED
      BY <2>2, <3>1, <3>2, <3>3
  <2>5. CASE ServerAnswers
    <3>1. Grows({"HTTPRING", "HTTPSH"})
      BY <2>5, AnswerSends
    <3>2. modem'.publishing = modem.publishing
      BY <1>0, <2>5 DEF ServerAnswers, Modem
    <3>3. history'.confirmed = history.confirmed \/ history'.confirmed = TRUE
      BY <1>0, <2>5 DEF ServerAnswers, History
    <3>4. QED
      BY <2>2, <3>1, <3>2, <3>3, GrowsOld
  <2>6. CASE BrokerConfirms
    <3>1. PICK ok \in BOOLEAN :
            /\ Sends("ONPUBLISH", ok)
            /\ history' = [history EXCEPT
                             !.confirmed = IF pc \in SubscribePoints
                                           THEN @ ELSE ok]
      BY <2>6, ModemSends
    <3>2. modem.publishing /\ ~modem'.publishing
      BY <1>0, <2>6 DEF BrokerConfirms, Modem
    <3>3. CASE pc \in PublishPoints /\ ~history.owing
      <4>1. /\ pc \notin {"publish", "publish_prompt", "publish_payload"}
            /\ \A i \in DOMAIN sent : sent[i].of # "ONPUBLISH"
            /\ ~(pc = "publish_wait" /\ got # NULL) /\ pc # "published"
        BY <3>2, <3>3 DEF PublishOnce
      <4>2. history'.confirmed = ok
        BY <1>0, <3>1, <3>3 DEF History, SubscribePoints
      <4>3. \A i \in DOMAIN sent' : sent'[i].of = "ONPUBLISH" =>
              ~modem'.publishing /\ (sent'[i].data => history'.confirmed)
        BY <3>1, <3>2, <4>1, <4>2 DEF Sends, Grows
      <4>4. QED
        BY <2>1, <4>1, <4>3 DEF PublishOnce
    <3>4. CASE ~(pc \in PublishPoints /\ ~history.owing)
      BY <2>1, <3>4 DEF PublishOnce
    <3>5. QED
      BY <3>3, <3>4
  <2>7. QED
    BY <1>3, <2>3, <2>4, <2>5, <2>6 DEF ModemActs
<1>4. QED
  BY <1>1, <1>2, <1>3 DEF Next

LEMMA SubscribeOnceStep ==
  ASSUME TypeOK, Registered, SubscribeOnce, [Next]_vars
  PROVE  SubscribeOnce'
<1>0. /\ modem \in Modem /\ history \in History /\ got \in BOOLEAN \union {NULL}
      /\ modem.subscribing \in BOOLEAN /\ history.confirmed \in BOOLEAN
      /\ history.owing \in BOOLEAN
  BY DEF TypeOK, Modem, History
<1> USE DEF SubscribePoints
<1>1. CASE Main
  <2>0. NothingNew("ONSUBSCRIBE")
    BY <1>1, MainNothingNew DEF Urcs
  <2> USE DEF Goto, Step, Command, Prompted, Register, WaitForURC
  <2>1. CASE Subscribe
    <3>1. /\ pc' = "subscribe" /\ UNCHANGED <<sent, modem>>
          /\ history'.owing = (modem.subscribing \/ OnItsWay("ONSUBSCRIBE"))
      BY <1>0, <2>1 DEF Subscribe, History
    <3>2. ~history'.owing =>
            ~modem'.subscribing /\ ~OnItsWay("ONSUBSCRIBE")'
      BY <3>1 DEF OnItsWay
    <3>3. QED
      BY <3>1, <3>2 DEF SubscribeOnce, OnItsWay
  <2>2. CASE SubscribeWait
    <3>1. CASE pc = "subscribe"
      <4>1. history' = history /\ pc' = "subscribe_response"
        BY <2>2, <3>1 DEF SubscribeWait, ResponseTo
      <4>2. ~history.owing => ~OnItsWay("ONSUBSCRIBE")'
        BY <2>0, <3>1, NotOnItsWay DEF SubscribeOnce
      <4>3. QED
        BY <4>1, <4>2 DEF SubscribeOnce, OnItsWay
    <3>2. CASE pc = "subscribe_response" /\ pc' = "subscribe_wait_register"
      <4>1. /\ modem' = modem /\ history'.owing = history.owing
            /\ history'.confirmed = history.confirmed
        BY <1>0, <2>2, <3>2 DEF SubscribeWait, ResponseTo, History
      <4>2. QED
        BY <2>0, <3>2, <4>1 DEF SubscribeOnce, NothingNew
    <3>3. CASE pc = "subscribe_wait_register"
      <4>1. /\ UNCHANGED <<history, modem, sent>> /\ got' = NULL
            /\ pc' = "subscribe_wait"
        BY <2>2, <3>3 DEF SubscribeWait, ResponseTo, FlagOfWait
      <4>2. QED
        BY <3>3, <4>1 DEF SubscribeOnce
    <3>4. CASE pc = "subscribe_wait"
      <4>1. /\ UNCHANGED <<history, modem, sent>>
            /\ pc' = IF got = TRUE THEN "subscribed" ELSE "idle"
        BY <2>2, <3>4 DEF SubscribeWait, ResponseTo, Confirmed
      <4>2. QED
        BY <3>4, <4>1, ConnectionAssumption DEF SubscribeOnce
    <3>5. CASE pc' = "idle"
      BY <3>5 DEF SubscribeOnce
    <3>6. QED
      BY <2>2, <3>1, <3>2, <3>3, <3>4, <3>5 DEF SubscribeWait, ResponseTo
  <2>4. CASE pc' \notin SubscribePoints
    BY <2>4 DEF SubscribeOnce
  <2>5. QED
    BY <1>1, <2>1, <2>2, <2>4, PointsOf
<1>2. CASE ReceiveUrc
  <2>1. /\ NothingNew("ONSUBSCRIBE") /\ UNCHANGED <<pc, modem>>
        /\ history'.owing = history.owing
        /\ history'.confirmed = history.confirmed
    BY <1>2, TakenNothingNew, ReceiveHistory
  <2>2. CASE pc \in SubscribePoints /\ ~history.owing
    <3>1. pc = "subscribe" =>
            ~modem'.subscribing /\ ~OnItsWay("ONSUBSCRIBE")'
      BY <2>1, <2>2, NotOnItsWay DEF SubscribeOnce
    <3>2. \A i \in DOMAIN sent' : sent'[i].of = "ONSUBSCRIBE" =>
            ~modem.subscribing /\ (sent'[i].data => history.confirmed)
      BY <2>1, <2>2 DEF SubscribeOnce, NothingNew
    <3>3. pc = "subscribe_wait" /\ got' # NULL =>
            ~modem.subscribing /\ (got' = TRUE => history.confirmed)
      BY <1>2, <2>2, Got DEF SubscribeOnce
    <3>4. QED
      BY <2>1, <2>2, <3>1, <3>2, <3>3 DEF SubscribeOnce
  <2>3. CASE ~(pc \in SubscribePoints /\ ~history.owing)
    BY <2>1, <2>3 DEF SubscribeOnce
  <2>4. QED
    BY <2>2, <2>3
<1>3. CASE ModemActs \/ Drop \/ UNCHANGED vars
  <2>1. /\ UNCHANGED <<pc, got>> /\ history'.owing = history.owing
    BY <1>3, Outside DEF main
  <2>2. ASSUME NothingNew("ONSUBSCRIBE"),
               modem'.subscribing => modem.subscribing,
               pc \in SubscribePoints =>
                 (history.confirmed => history'.confirmed)
        PROVE  SubscribeOnce'
    <3>1. CASE pc \in SubscribePoints /\ ~history.owing
      <4>1. pc = "subscribe" =>
              ~modem'.subscribing /\ ~OnItsWay("ONSUBSCRIBE")'
        BY <2>2, <3>1, NotOnItsWay DEF SubscribeOnce
      <4>2. \A i \in DOMAIN sent' : sent'[i].of = "ONSUBSCRIBE" =>
              ~modem'.subscribing /\ (sent'[i].data => history'.confirmed)
        BY <2>2, <3>1 DEF SubscribeOnce, NothingNew
      <4>3. QED
        BY <2>1, <2>2, <3>1, <4>1, <4>2 DEF SubscribeOnce
    <3>2. CASE ~(pc \in SubscribePoints /\ ~history.owing)
      BY <2>1, <3>2 DEF SubscribeOnce
    <3>3. QED
      BY <3>1, <3>2
  <2>3. CASE Network \/ Drop \/ UNCHANGED vars
    <3>1. NothingNew("ONSUBSCRIBE")
      BY <2>3, TakenNothingNew
    <3>2. modem'.subscribing => modem.subscribing
      BY <1>0, <2>3 DEF Network, Drop, vars, Lost, Modem
    <3>3. history' = history
      BY <2>3 DEF Network, Drop, vars
    <3>4. QED
      BY <2>2, <3>1, <3>2, <3>3
  <2>4. CASE \/ Report \/ ModemAsksForSignature \/ BrokerAnswers
             \/ BrokerDrops \/ BrokerMessage \/ BrokerConfirms
    <3>1. NothingNew("ONSUBSCRIBE")
      BY <2>4, ModemNothingNew
    <3>2. modem'.subscribing => modem.subscribing
      BY <1>0, <2>4
      DEF Report, ModemAsksForSignature, BrokerAnswers, BrokerDrops,
          BrokerMessage, BrokerConfirms, Lost, Modem
    <3>3. pc \in SubscribePoints => history'.confirmed = history.confirmed
      BY <1>0, <2>4
      DEF Report, ModemAsksForSignature, BrokerAnswers, BrokerDrops,
          BrokerMessage, BrokerConfirms, History
    <3>4. QED
      BY <2>2, <3>1, <3>2, <3>3
  <2>5. CASE ServerAnswers
    <3>1. Grows({"HTTPRING", "HTTPSH"})
      BY <2>5, AnswerSends
    <3>2. modem'.subscribing = modem.subscribing
      BY <1>0, <2>5 DEF ServerAnswers, Modem
    <3>3. history'.confirmed = history.confirmed \/ history'.confirmed = TRUE
      BY <1>0, <2>5 DEF ServerAnswers, History
    <3>4. QED
      BY <2>2, <3>1, <3>2, <3>3, GrowsOld
  <2>6. CASE BrokerSubscribes
    <3>1. PICK ok \in BOOLEAN :
            /\ Sends("ONSUBSCRIBE", ok)
            /\ history' = [history EXCEPT
                             !.confirmed = IF pc \in PublishPoints
                                           THEN @ ELSE ok]
      BY <2>6, ModemSends
    <3>2. modem.subscribing /\ ~modem'.subscribing
      BY <1>0, <2>6 DEF BrokerSubscribes, Modem
    <3>3. CASE pc \in SubscribePoints /\ ~history.owing
      <4>1. /\ pc # "subscribe"
            /\ \A i \in DOMAIN sent : sent[i].of # "ONSUBSCRIBE"
            /\ ~(pc = "subscribe_wait" /\ got # NULL) /\ pc # "subscribed"
        BY <3>2, <3>3 DEF SubscribeOnce
      <4>2. history'.confirmed = ok
        BY <1>0, <3>1, <3>3 DEF History, PublishPoints
      <4>3. \A i \in DOMAIN sent' : sent'[i].of = "ONSUBSCRIBE" =>
              ~modem'.subscribing /\ (sent'[i].data => history'.confirmed)
        BY <3>1, <3>2, <4>1, <4>2 DEF Sends, Grows
      <4>4. QED
        BY <2>1, <4>1, <4>3 DEF SubscribeOnce
    <3>4. CASE ~(pc \in SubscribePoints /\ ~history.owing)
      BY <2>1, <3>4 DEF SubscribeOnce
    <3>5. QED
      BY <3>3, <3>4
  <2>7. QED
    BY <1>3, <2>3, <2>4, <2>5, <2>6 DEF ModemActs
<1>4. QED
  BY <1>1, <1>2, <1>3 DEF Next

LEMMA RequestOnceStep ==
  ASSUME TypeOK, Registered, NoSession, RequestOnce, [Next]_vars
  PROVE  RequestOnce'
<1>0. /\ modem \in Modem /\ history \in History /\ got \in BOOLEAN \union {NULL}
      /\ history.confirmed \in BOOLEAN /\ history.shut \in BOOLEAN
      /\ history.owing \in BOOLEAN /\ http_response \in HttpResponse
      /\ got_shutdown_callback \in BOOLEAN
  BY DEF TypeOK, History
<1>1. CASE Main
  <2>0. NothingNew("HTTPRING") /\ NothingNew("HTTPSH")
    BY <1>1, MainNothingNew DEF Urcs
  <2> USE DEF Goto, Step, Command, Prompted, ResponseTo, Register, WaitForURC
  <2>1. CASE HttpRequest
    <3>1. /\ pc' = "http_at" /\ UNCHANGED <<sent, modem>>
          /\ http_response' = NoResponse
          /\ history'.owing = \/ modem.requested
                              \/ OnItsWay("HTTPRING") \/ OnItsWay("HTTPSH")
      BY <1>0, <2>1 DEF HttpRequest, History
    <3>2. ~http_response'.status /\ ~http_response'.error
      BY <3>1 DEF NoResponse
    <3>3. QED
      BY <3>1, <3>2 DEF RequestOnce, OnItsWay, ShutdownPoints
  <2>2. CASE HttpSend
    <3>1. /\ pc \in HttpPoints /\ http_response' = http_response
          /\ UNCHANGED <<got_shutdown_callback>>
          /\ pc' \notin ShutdownPoints
          /\ history'.owing = history.owing /\ history'.shut = history.shut
          /\ history'.confirmed = history.confirmed
      BY <1>0, <2>2 DEF HttpSend, HttpPoints, History, http, ShutdownPoints
    <3>2. pc \in HttpPoints /\ ~history.owing =>
            \A i \in DOMAIN sent' :
              /\ sent'[i].of = "HTTPRING" /\ sent'[i].data =>
                   history.confirmed
              /\ sent'[i].of = "HTTPSH" => history.shut
      BY <2>0 DEF RequestOnce, NothingNew
    <3>3. QED
      BY <3>1, <3>2 DEF RequestOnce, ShutdownPoints
  <2>3. CASE HttpRegister
    <3>1. /\ pc \in HttpPoints /\ pc' = "http_wait_register"
          /\ UNCHANGED <<sent, history, http_response>>
          /\ got_shutdown_callback' = FALSE
      BY <2>3 DEF HttpRegister, FlagOfShutdown, HttpPoints
    <3>2. QED
      BY <3>1 DEF RequestOnce
  <2>4. CASE HttpWait
    <3>1. pc \in HttpPoints /\ UNCHANGED <<sent, history, got_shutdown_callback>>
      BY <2>4 DEF HttpWait, HttpPoints, http
    <3>2. CASE pc = "http_wait_register"
      <4>1. pc' = "http_wait" /\ got' = NULL /\ http_response' = http_response
        BY <2>4, <3>2 DEF HttpWait, FlagOfWait, http
      <4>2. QED
        BY <3>1, <3>2, <4>1, ConnectionAssumption
        DEF RequestOnce, ShutdownPoints
    <3>3. CASE pc = "http_wait"
      <4>1. /\ pc' \in {"http_shutdown", "http_unregister"}
            /\ http_response' = [http_response EXCEPT !.status = (got = TRUE)]
        BY <2>4, <3>3 DEF HttpWait
      <4>2. /\ http_response'.status = (got = TRUE)
            /\ http_response'.error = http_response.error
        BY <1>0, <4>1 DEF HttpResponse
      <4>3. QED
        BY <3>1, <3>3, <4>1, <4>2 DEF RequestOnce, ShutdownPoints
    <3>4. CASE pc = "http_shutdown"
      <4>1. /\ pc' = "http_unregister"
            /\ http_response' = [http_response EXCEPT
                                   !.error = got_shutdown_callback]
        BY <2>4, <3>4 DEF HttpWait
      <4>2. /\ http_response'.error = got_shutdown_callback
            /\ http_response'.status = http_response.status
        BY <1>0, <4>1 DEF HttpResponse
      <4>3. QED
        BY <3>1, <3>4, <4>1, <4>2 DEF RequestOnce, ShutdownPoints
    <3>5. CASE pc \in {"http_unregister", "http_done"}
      <4>1. pc' \in {"http_done", "idle"} /\ http_response' = http_response
        BY <2>4, <3>5 DEF HttpWait, http
      <4>2. QED
        BY <3>1, <3>5, <4>1 DEF RequestOnce, ShutdownPoints
    <3>6. QED
      BY <2>4, <3>2, <3>3, <3>4, <3>5 DEF HttpWait
  <2>5. CASE pc' \notin HttpPoints
    BY <2>5 DEF RequestOnce
  <2>6. QED
    BY <1>1, <2>1, <2>2, <2>3, <2>4, <2>5, PointsOf DEF HttpActs
<1>2. CASE ReceiveUrc
  <2>1. /\ NothingNew("HTTPRING") /\ NothingNew("HTTPSH")
        /\ pc' = pc /\ history'.owing = history.owing
        /\ history'.confirmed = history.confirmed
        /\ history'.shut = history.shut
    BY <1>2, TakenNothingNew, ReceiveHistory
  <2>2. http_response' = http_response
    BY <1>2 DEF ReceiveUrc
  <2>3. CASE pc \in HttpPoints /\ ~history.owing
    <3>1. \A i \in DOMAIN sent' :
            /\ sent'[i].of = "HTTPRING" /\ sent'[i].data => history.confirmed
            /\ sent'[i].of = "HTTPSH" => history.shut
      BY <2>1, <2>3 DEF RequestOnce, NothingNew
    <3>2. pc = "http_wait" /\ got' = TRUE => history.confirmed
      BY <1>2, <2>3, Got DEF RequestOnce
    <3>3. pc \in ShutdownPoints /\ got_shutdown_callback' => history.shut
      <4>1. got_shutdown_callback' =>
              got_shutdown_callback \/ callback[Head(sent).of] = "httpShutdown"
        BY <1>2 DEF ReceiveUrc
      <4>2. callback[Head(sent).of] = "httpShutdown" =>
              Head(sent).of = "HTTPSH"
        BY <1>2, FunctionAssumption DEF ReceiveUrc, Registered, Urcs, Function
      <4>3. Head(sent).of = "HTTPSH" => history.shut
        BY <1>2, <2>3, Got DEF RequestOnce
      <4>4. QED
        BY <2>3, <4>1, <4>2, <4>3 DEF RequestOnce
    <3>4. QED
      BY <2>1, <2>2, <2>3, <3>1, <3>2, <3>3 DEF RequestOnce
  <2>4. CASE ~(pc \in HttpPoints /\ ~history.owing)
    BY <2>1, <2>4 DEF RequestOnce
  <2>5. QED
    BY <2>3, <2>4
<1>3. CASE ModemActs \/ Drop \/ UNCHANGED vars
  <2>1. /\ UNCHANGED <<pc, got, http_response, got_shutdown_callback>>
        /\ history'.owing = history.owing
    BY <1>3, Outside DEF main, http
  <2>2. pc \in HttpPoints =>
          /\ history.confirmed => history'.confirmed
          /\ history.shut => history'.shut
    <3>1. CASE ServerAnswers
      BY <1>0, <3>1 DEF ServerAnswers, History
    <3>2. CASE BrokerConfirms \/ BrokerSubscribes
      BY <1>0, <3>2 DEF BrokerConfirms, BrokerSubscribes, NoSession
    <3>3. CASE ~(ServerAnswers \/ BrokerConfirms \/ BrokerSubscribes)
      BY <1>0, <1>3, <3>3
      DEF ModemActs, Network, Report, ModemAsksForSignature, BrokerAnswers,
          BrokerDrops, BrokerMessage, Drop, vars, History
    <3>4. QED
      BY <3>1, <3>2, <3>3
  <2>3. CASE pc \in HttpPoints /\ ~history.owing
    <3>1. \A i \in DOMAIN sent' :
            /\ sent'[i].of = "HTTPRING" /\ sent'[i].data => history'.confirmed
            /\ sent'[i].of = "HTTPSH" => history'.shut
      <4>1. CASE NothingNew("HTTPRING") /\ NothingNew("HTTPSH")
        BY <2>2, <2>3, <4>1 DEF RequestOnce, NothingNew
      <4>2. CASE ServerAnswers
        <5>1. /\ Grows({"HTTPRING", "HTTPSH"})
              /\ \A i \in 1 .. Len(sent') : i > Len(sent) =>
                   /\ sent'[i].of = "HTTPRING" /\ sent'[i].data =>
                        history'.confirmed
                   /\ sent'[i].of = "HTTPSH" => history'.shut
          BY <4>2, AnswerSends
        <5>2. ASSUME NEW i \in 1 .. Len(sent'), ~(i > Len(sent))
              PROVE  i \in DOMAIN sent /\ sent'[i] = sent[i]
          BY <5>1, <5>2 DEF Grows
        <5>3. QED
          BY <2>2, <2>3, <5>1, <5>2 DEF RequestOnce, Grows
      <4>3. ~ServerAnswers => NothingNew("HTTPRING") /\ NothingNew("HTTPSH")
        BY <1>3, TakenNothingNew, ModemNothingNew DEF ModemActs
      <4>4. QED
        BY <4>1, <4>2, <4>3
    <3>2. QED
      BY <2>1, <2>2, <2>3, <3>1 DEF RequestOnce
  <2>4. CASE ~(pc \in HttpPoints /\ ~history.owing)
    BY <2>1, <2>4 DEF RequestOnce
  <2>5. QED
    BY <2>3, <2>4
<1>4. QED
  BY <1>1, <1>2, <1>3 DEF Next

(* publish() and subscribe() return true only if the broker confirmed that *)
(* call's message or subscription, however many confirmations of others    *)
(* are on their way, unless one was due for an earlier call.               *)
THEOREM PublishedIsConfirmedTheorem == Spec => []PublishedIsConfirmed
<1>1. Init => PublishOnce /\ SubscribeOnce
  BY DEF Init, PublishOnce, SubscribeOnce, PublishPoints, SubscribePoints
<1>2. LifeInvariant /\ PublishOnce /\ SubscribeOnce /\ [Next]_vars
        => (PublishOnce /\ SubscribeOnce)'
  BY PublishOnceStep, SubscribeOnceStep DEF LifeInvariant
<1>3. PublishOnce /\ SubscribeOnce => PublishedIsConfirmed
  BY DEF PublishOnce, SubscribeOnce, PublishedIsConfirmed, PublishPoints,
         SubscribePoints
<1>4. QED
  BY <1>1, <1>2, <1>3, LifeCorrect, PTL DEF Spec

(* An HTTP request returns a status or an error code only if the modem     *)
(* reported one for that request, unless an earlier one was not done with. *)
THEOREM ResponseIsOfRequestTheorem == Spec => []ResponseIsOfRequest
<1>1. Init => NoSession /\ RequestOnce
  BY DEF Init, NoSession, RequestOnce, ModemOff, HttpPoints
<1>2. LifeInvariant /\ NoSession /\ RequestOnce /\ [Next]_vars
        => (NoSession /\ RequestOnce)'
  BY NoSessionStep, RequestOnceStep DEF LifeInvariant
<1>3. RequestOnce => ResponseIsOfRequest
  BY DEF RequestOnce, ResponseIsOfRequest, HttpPoints
<1>4. QED
  BY <1>1, <1>2, <1>3, LifeCorrect, PTL DEF Spec
-----------------------------------------------------------------------------
(* Which steps lead to the points of MqttClient.begin().                   *)
LEMMA PointsOfBegin ==
  ASSUME TypeOK, Main, pc' \in MqttBeginPoints
  PROVE  MqttBegin \/ MqttConnect \/ MqttSign \/ MqttWait \/ MqttStatus
           \/ MqttConnected
<1> USE DEF Goto, Step, Command, ResponseTo, Prompted, Register, WaitForURC,
            MqttBeginPoints
<1>1. ~LteActs
  BY DEF LteActs, LteBegin, LteRadio, LteFirstReport, LteConnect, LteEnd,
         LteDetach, LteDetaching, LteClose
<1>2. ~PublishActs /\ ~HttpActs
  BY DEF PublishActs, Publish, PublishMessage, PublishWait, Subscribe,
         SubscribeWait, HttpActs, HttpRequest, HttpSend, HttpRegister, HttpWait
<1>3. ~(MqttReturn \/ OnReceive \/ MqttEnd \/ MqttDisconnect)
  BY DEF MqttReturn, OnReceive, MqttEnd, MqttDisconnect
<1>4. ~MqttEnded
  BY TypesSplit DEF MqttEnded, ControlTypeOK
<1>5. QED
  BY <1>1, <1>2, <1>3, <1>4 DEF Main, LteActs, PublishActs, HttpActs

(* The modem's steps other than those of a session's beginning.            *)
LEMMA ModemGrows ==
  ASSUME TypeOK,
         \/ Network \/ Report \/ ServerAnswers \/ BrokerDrops
         \/ BrokerMessage \/ BrokerConfirms \/ BrokerSubscribes
  PROVE  /\ Grows({"CEREG", "ONDISCONNECT", "ONMESSAGE", "ONPUBLISH",
                   "ONSUBSCRIBE", "HTTPRING", "HTTPSH"})
         /\ modem'.session = modem.session \/ modem'.session = "none"
         /\ history'.accepted = history.accepted
         /\ history'.signing = history.signing
<1>0. modem \in Modem /\ history \in History
  BY DEF TypeOK
<1>1. CASE Network
  <2>1. sent' = sent
    BY <1>1 DEF Network
  <2>2. QED
    BY <1>0, <1>1, <2>1, SameGrows DEF Network, Lost, Modem
<1>2. CASE Report \/ BrokerDrops \/ BrokerMessage
  <2>1. \/ Sends("CEREG", modem.attached) \/ Sends("ONDISCONNECT", TRUE)
        \/ Sends("ONMESSAGE", TRUE)
    BY <1>2, ModemSends
  <2>2. /\ modem'.session = modem.session \/ modem'.session = "none"
        /\ history' = history
    BY <1>0, <1>2 DEF Report, BrokerDrops, BrokerMessage, Lost, Modem
  <2>3. QED
    BY <2>1, <2>2 DEF Sends, Grows
<1>3. CASE BrokerConfirms \/ BrokerSubscribes
  <2>1. \E ok \in BOOLEAN :
          Sends("ONPUBLISH", ok) \/ Sends("ONSUBSCRIBE", ok)
    BY <1>3, ModemSends
  <2>2. /\ modem'.session = modem.session
        /\ history'.accepted = history.accepted
        /\ history'.signing = history.signing
    BY <1>0, <1>3 DEF BrokerConfirms, BrokerSubscribes, Modem, History
  <2>3. QED
    BY <2>1, <2>2 DEF Sends, Grows
<1>4. CASE ServerAnswers
  <2>1. Grows({"HTTPRING", "HTTPSH"})
    BY <1>4, AnswerSends
  <2>2. /\ modem'.session = modem.session
        /\ history'.accepted = history.accepted
        /\ history'.signing = history.signing
    BY <1>0, <1>4 DEF ServerAnswers, Modem, History
  <2>3. QED
    BY <2>1, <2>2 DEF Grows
<1>5. QED
  BY <1>1, <1>2, <1>3, <1>4

LEMMA OfThisSessionFrame ==
  ASSUME OfThisSession, NothingNew("HCESIGN"), NothingNew("ONCONNECT"),
         \/ modem'.session = modem.session \/ modem'.session = "none"
         \/ modem.session = "signing" /\ modem'.session = "asked",
         history'.accepted = history.accepted,
         history'.signing = history.signing
  PROVE  OfThisSession'
<1>1. modem'.session = "handshake" => ~OnItsWay("HCESIGN")'
  BY NotOnItsWay DEF OfThisSession
<1>2. \A i \in DOMAIN sent' :
        /\ sent'[i].of = "ONCONNECT" => sent'[i].data = history'.accepted
        /\ sent'[i].of = "HCESIGN" => history'.signing
  BY DEF OfThisSession, NothingNew
<1>3. QED
  BY <1>1, <1>2 DEF OfThisSession

LEMMA ResetAnsweredGrows ==
  ASSUME ResetAnswered, NEW kinds, Grows(kinds),
         kinds \cap {"command", "HCESIGN", "ONCONNECT"} = {},
         modem'.session = modem.session \/ modem'.session = "none"
  PROVE  ResetAnswered'
<1>1. \A i \in 1 .. Len(sent') : i > Len(sent) =>
        /\ sent'[i].of # "command" /\ sent'[i].of # "HCESIGN"
        /\ sent'[i].of # "ONCONNECT"
  BY DEF Grows
<1>2. QED
  BY <1>1 DEF ResetAnswered, Grows

LEMMA ResetAnsweredShrinks ==
  ASSUME ResetAnswered, Shrinks, modem' = modem
  PROVE  ResetAnswered'
<1>1. SUFFICES ASSUME NEW i \in 1 .. Len(sent'), sent'[i].of = "command"
               PROVE  /\ modem'.session = "none"
                      /\ \A j \in 1 .. Len(sent') : j > i =>
                           sent'[j].of # "HCESIGN" /\ sent'[j].of # "ONCONNECT"
  BY DEF ResetAnswered, Shrinks
<1>2. i + 1 \in 1 .. Len(sent) /\ sent[i + 1].of = "command"
  BY <1>1 DEF Shrinks
<1>3. ASSUME NEW j \in 1 .. Len(sent'), j > i
      PROVE  sent'[j].of # "HCESIGN" /\ sent'[j].of # "ONCONNECT"
  <2>1. j + 1 \in 1 .. Len(sent) /\ j + 1 > i + 1 /\ sent'[j] = sent[j + 1]
    BY <1>3 DEF Shrinks
  <2>2. QED
    BY <1>2, <2>1 DEF ResetAnswered, Shrinks
<1>4. QED
  BY <1>2, <1>3 DEF ResetAnswered, Shrinks

LEMMA SeparatedMain ==
  ASSUME TypeOK, Separated, Main
  PROVE  Separated'
<1>0. modem \in Modem /\ history \in History
  BY DEF TypeOK
<1>1. NothingNew("HCESIGN") /\ NothingNew("ONCONNECT")
  BY MainNothingNew DEF Urcs
<1> USE DEF Goto, Step, Command, Register, WaitForURC, Connecting,
            MqttBeginPoints
<1>2. ASSUME pc \in Connecting, pc' \in Connecting,
             \/ modem'.session = modem.session \/ modem'.session = "none"
             \/ modem.session = "signing" /\ modem'.session = "asked",
             history'.accepted = history.accepted,
             history'.signing = history.signing,
             history'.untimely = history.untimely,
             pc' = "mqtt_sign_wait" => got' = NULL,
             pc' = "mqtt_sign" /\ ~history.untimely => history.signing,
             pc' = "mqtt_wait" => got' = NULL,
             pc' = "mqtt_status" /\ ~history.untimely =>
               history.accepted # NULL /\ urc_buffer' = history.accepted
      PROVE  Separated'
  <2>1. ~history.untimely => OfThisSession'
    BY <1>1, <1>2, OfThisSessionFrame DEF Separated
  <2>2. QED
    BY <1>2, <2>1 DEF Separated
<1>3. ASSUME history'.untimely = TRUE
      PROVE  Separated'
  BY <1>3 DEF Separated
<1>4. CASE MqttBegin
  <2>1. pc' = "mqtt_reset" /\ sent' = sent
        /\ history'.untimely = OnItsWay("command")
    BY <1>0, <1>4 DEF MqttBegin, History
  <2>2. OnItsWay("command")' <=> OnItsWay("command")
    BY <2>1 DEF OnItsWay
  <2>3. QED
    BY <2>1, <2>2 DEF Separated
<1>5. CASE Command("mqtt_reset", "mqtt_reset_response", Disconnect)
  <2>1. /\ pc = "mqtt_reset" /\ pc' = "mqtt_reset_response"
        /\ history' = history
        /\ Disconnect \/ UNCHANGED <<modem, sent>>
    BY <1>5
  <2>2. ~history.untimely => ResetAnswered'
    <3>1. SUFFICES ASSUME ~history.untimely
                   PROVE  ResetAnswered'
      OBVIOUS
    <3>2. \A i \in DOMAIN sent : sent[i].of # "command"
      BY <2>1, <3>1 DEF Separated, OnItsWay
    <3>3. CASE UNCHANGED <<modem, sent>>
      BY <3>2, <3>3 DEF ResetAnswered
    <3>4. CASE Disconnect
      <4>1. /\ modem' = Lost(modem)
            /\ Grows({"command", "ONDISCONNECT"})
            /\ \A i \in 1 .. Len(sent') : i > Len(sent) =>
                 sent'[i].of = "command" \/ sent'[i].of = "ONDISCONNECT"
        BY <3>4, DisconnectSends
      <4>2. modem'.session = "none"
        BY <1>0, <4>1, LostSession
      <4>3. \A i \in 1 .. Len(sent') : sent'[i].of = "command" => i > Len(sent)
        BY <3>2, <4>1 DEF Grows
      <4>4. \A i, j \in 1 .. Len(sent') : i > Len(sent) /\ j > i =>
              sent'[j].of # "HCESIGN" /\ sent'[j].of # "ONCONNECT"
        BY <4>1 DEF Grows
      <4>5. QED
        BY <4>1, <4>2, <4>3, <4>4 DEF ResetAnswered, Grows
    <3>5. QED
      BY <2>1, <3>3, <3>4
  <2>3. QED
    BY <2>1, <2>2 DEF Separated
<1>6. CASE ResponseTo("mqtt_reset_response", "mqtt_connect", "mqtt_connect")
  <2>1. CASE sent # <<>> /\ Head(sent).of = "command" /\ sent' = Tail(sent)
             /\ history' = history
    <3>1. /\ pc = "mqtt_reset_response" /\ pc' = "mqtt_connect"
          /\ modem' = modem
      BY <1>6 DEF ResponseTo
    <3>2. Shrinks
      BY <2>1, TailShrinks
    <3>3. ~history.untimely =>
            /\ modem.session = "none"
            /\ \A j \in 2 .. Len(sent) :
                 sent[j].of # "HCESIGN" /\ sent[j].of # "ONCONNECT"
      BY <2>1, <3>1, <3>2 DEF Separated, ResetAnswered, Shrinks
    <3>4. ~history.untimely => ~OnItsWay("HCESIGN")' /\ ~OnItsWay("ONCONNECT")'
      BY <3>2, <3>3 DEF Shrinks, OnItsWay
    <3>5. QED
      BY <2>1, <3>1, <3>3, <3>4 DEF Separated
  <2>2. QED
    BY <1>0, <1>3, <1>6, <2>1 DEF ResponseTo, History
<1>7. CASE \/ Command("mqtt_connect", "mqtt_connect_response",
                      Connect("asked"))
           \/ Command("mqtt_connect", "mqtt_connect_response_ecc",
                      Connect("handshake"))
  <2>1. /\ pc = "mqtt_connect"
        /\ pc' = "mqtt_connect_response" \/ pc' = "mqtt_connect_response_ecc"
        /\ history'.accepted = NULL /\ history'.untimely = history.untimely
    BY <1>0, <1>7 DEF History
  <2>2. ~history.untimely => ~OnItsWay("HCESIGN")' /\ ~OnItsWay("ONCONNECT")'
    BY <1>1, <2>1, NotOnItsWay DEF Separated
  <2>3. ~history.untimely => OfThisSession'
    BY <2>1, <2>2 DEF OfThisSession, OnItsWay
  <2>4. QED
    BY <2>1, <2>3 DEF Separated
<1>8. CASE \/ ResponseTo("mqtt_connect_response", "mqtt_wait_register", "idle")
           \/ ResponseTo("mqtt_connect_response_ecc", "mqtt_sign_register",
                         "idle")
  <2>1. /\ pc \in Connecting /\ modem' = modem
        /\ pc' \in {"mqtt_wait_register", "mqtt_sign_register", "idle"}
        /\ history' = history \/ history'.untimely = TRUE
    BY <1>0, <1>8 DEF ResponseTo, History
  <2>2. pc' = "idle" => Separated'
    BY DEF Separated
  <2>3. QED
    BY <1>2, <1>3, <2>1, <2>2
<1>9. CASE MqttSign
  <2>1. /\ pc \in Connecting /\ history' = history
        /\ pc' \in Connecting \union {"idle"}
        /\ pc' # "mqtt_wait" /\ pc' # "mqtt_status"
        /\ pc' = "mqtt_sign_wait" => got' = NULL
        /\ pc' = "mqtt_sign" => pc = "mqtt_sign_wait" /\ got # NULL
    BY <1>9 DEF MqttSign, FlagOfWait
  <2>2. \/ modem'.session = modem.session
        \/ modem.session = "signing" /\ modem'.session = "asked"
    BY <1>0, <1>9 DEF MqttSign, Signature, Modem
  <2>3. pc' = "mqtt_sign" /\ ~history.untimely => history.signing
    BY <2>1 DEF Separated
  <2>4. pc' = "idle" => Separated'
    BY DEF Separated
  <2>5. QED
    BY <1>2, <2>1, <2>2, <2>3, <2>4
<1>10. CASE MqttWait
  <2>1. /\ pc \in Connecting /\ modem' = modem
        /\ \/ pc' = "idle"
           \/ pc' = "mqtt_wait" /\ got' = NULL
           \/ /\ pc = "mqtt_wait" /\ pc' = "mqtt_status"
              /\ got # NULL /\ urc_buffer' = got
        /\ history'.accepted = history.accepted
        /\ history'.signing = history.signing
        /\ history'.untimely = history.untimely
    BY <1>0, <1>10 DEF MqttWait, FlagOfWait, History
  <2>2. pc' = "mqtt_status" /\ ~history.untimely =>
          history.accepted # NULL /\ urc_buffer' = history.accepted
    BY <2>1 DEF Separated
  <2>3. pc' = "idle" => Separated'
    BY DEF Separated
  <2>4. QED
    BY <1>2, <2>1, <2>2, <2>3
<1>11. CASE pc' \notin MqttBeginPoints \/ MqttStatus \/ MqttConnected
            \/ Step("mqtt_connect", "idle")
  BY <1>11 DEF Separated, MqttStatus, MqttConnected
<1>12. QED
  BY <1>4, <1>5, <1>6, <1>7, <1>8, <1>9, <1>10, <1>11, PointsOfBegin
  DEF MqttConnect

LEMMA SeparatedStep ==
  ASSUME LifeInvariant, Separated, [Next]_vars
  PROVE  Separated'
<1>0. /\ TypeOK /\ Registered /\ modem \in Modem /\ history \in History
      /\ \A i \in DOMAIN sent : sent[i].data \in BOOLEAN
  <2>1. TypeOK /\ Registered
    BY DEF LifeInvariant
  <2>2. \A i \in DOMAIN sent : sent[i] \in Sent
    BY <2>1, ElementOfSeq, LenProperties DEF TypeOK
  <2>3. QED
    BY <2>1, <2>2 DEF TypeOK, Sent
<1> USE DEF Connecting, MqttBeginPoints
<1>1. CASE Main
  BY <1>0, <1>1, SeparatedMain
<1>2. CASE ReceiveUrc \/ Drop
  <2>1. /\ UNCHANGED <<pc, modem>> /\ sent # <<>> /\ sent' = Tail(sent)
        /\ history'.accepted = history.accepted
        /\ history'.signing = history.signing
        /\ history'.untimely = history.untimely
    BY <1>0, <1>2, ReceiveHistory DEF ReceiveUrc, Drop
  <2>2. Shrinks /\ \A u : NothingNew(u)
    BY <1>0, <2>1, TailShrinks, ShrinksOld
  <2>3. CASE pc \in MqttBeginPoints /\ ~history.untimely
    <3>1. pc = "mqtt_reset" => ~OnItsWay("command")'
      BY <2>2, <2>3, NotOnItsWay DEF Separated
    <3>2. pc = "mqtt_reset_response" => ResetAnswered'
      BY <2>1, <2>2, <2>3, ResetAnsweredShrinks DEF Separated
    <3>3. pc = "mqtt_connect" =>
            modem.session = "none" /\ ~OnItsWay("HCESIGN")'
              /\ ~OnItsWay("ONCONNECT")'
      BY <2>2, <2>3, NotOnItsWay DEF Separated
    <3>4. pc \in Connecting => OfThisSession'
      BY <2>1, <2>2, <2>3, OfThisSessionFrame DEF Separated
    <3>5. pc = "mqtt_sign_wait" /\ got' # NULL => history.signing
      <4>1. CASE got' = got
        BY <2>3, <4>1 DEF Separated
      <4>2. CASE got' # got
        BY <1>0, <1>2, <2>3, <4>2, Got
        DEF Separated, OfThisSession, Drop, main
      <4>3. QED
        BY <4>1, <4>2
    <3>6. pc = "mqtt_wait" /\ got' # NULL => got' = history.accepted
      <4>1. CASE got' = got
        BY <2>3, <4>1 DEF Separated
      <4>2. CASE got' # got
        BY <1>0, <1>2, <2>3, <4>2, Got
        DEF Separated, OfThisSession, Drop, main
      <4>3. QED
        BY <4>1, <4>2
    <3>7. \/ /\ urc_buffer' = urc_buffer
             /\ history'.overwritten = history.overwritten
          \/ history'.overwritten = TRUE
      BY <1>0, <1>2 DEF ReceiveUrc, Drop, main, History
    <3>8. pc = "mqtt_status" =>
            /\ history.accepted # NULL
            /\ urc_buffer' = history.accepted \/ history'.overwritten
      BY <2>3, <3>7 DEF Separated
    <3>9. pc = "mqtt_sign" => history.signing
      BY <2>3 DEF Separated
    <3>10. QED
      BY <2>1, <2>3, <3>1, <3>2, <3>3, <3>4, <3>5, <3>6, <3>8, <3>9
      DEF Separated
  <2>4. CASE ~(pc \in MqttBeginPoints /\ ~history.untimely)
    BY <2>1, <2>4 DEF Separated
  <2>5. QED
    BY <2>3, <2>4
<1>3. CASE ModemActs
  <2>1. /\ UNCHANGED <<pc, got, urc_buffer>>
        /\ history'.untimely = history.untimely
        /\ history'.overwritten = history.overwritten
    BY <1>0, <1>3, Outside DEF main
  <2>2. CASE ~(pc \in MqttBeginPoints /\ ~history.untimely)
    BY <2>1, <2>2 DEF Separated
  <2>3. CASE /\ pc \in MqttBeginPoints /\ ~history.untimely
             /\ ModemAsksForSignature
    <3>1. /\ modem.session = "handshake" /\ modem'.session = "signing"
          /\ Sends("HCESIGN", TRUE)
          /\ history'.accepted = history.accepted
          /\ history'.signing = ~OnItsWay("HCESIGN")
      BY <1>0, <2>3, ModemSends DEF ModemAsksForSignature, Modem, History
    <3>2. NothingNew("command") /\ NothingNew("ONCONNECT")
      BY <1>0, <2>3, ModemNothingNew
    <3>3. pc = "mqtt_reset" => ~OnItsWay("command")'
      BY <2>3, <3>2, NotOnItsWay DEF Separated
    <3>4. pc = "mqtt_reset_response" => ResetAnswered'
      BY <2>3, <3>1 DEF Separated, ResetAnswered, Sends, Grows
    <3>5. pc # "mqtt_connect"
      BY <2>3, <3>1 DEF Separated
    <3>6. pc \in Connecting => history.accepted = NULL /\ history'.signing
      BY <2>3, <3>1 DEF Separated, OfThisSession
    <3>7. pc \in Connecting => OfThisSession'
      BY <2>3, <3>1, <3>2, <3>6 DEF Separated, OfThisSession, NothingNew
    <3>8. QED
      BY <2>1, <2>3, <3>1, <3>3, <3>4, <3>5, <3>6, <3>7 DEF Separated
  <2>4. CASE pc \in MqttBeginPoints /\ ~history.untimely /\ BrokerAnswers
    <3>1. PICK ok \in BOOLEAN :
            /\ Sends("ONCONNECT", ok)
            /\ modem' = [modem EXCEPT !.session = IF ok THEN "up" ELSE "none"]
            /\ history' = [history EXCEPT !.accepted = ok]
      BY <1>0, <2>4, ModemSends
    <3>2. /\ modem.session \in {"handshake", "signing", "asked"}
          /\ modem'.session \in {"up", "none"}
          /\ history'.accepted = ok /\ history'.signing = history.signing
      BY <1>0, <2>4, <3>1 DEF BrokerAnswers, Modem, History
    <3>3. NothingNew("command") /\ NothingNew("HCESIGN")
      BY <3>1, SendsOld
    <3>4. pc = "mqtt_reset" => ~OnItsWay("command")'
      BY <2>4, <3>3, NotOnItsWay DEF Separated
    <3>5. pc = "mqtt_reset_response" => ResetAnswered'
      BY <2>4, <3>1, <3>2 DEF Separated, ResetAnswered, Sends, Grows
    <3>6. pc # "mqtt_connect"
      BY <2>4, <3>2 DEF Separated
    <3>7. pc \in Connecting =>
            /\ history.accepted = NULL
            /\ \A i \in DOMAIN sent : sent[i].of # "ONCONNECT"
      BY <1>0, <2>4, <3>2, ConnectionAssumption DEF Separated, OfThisSession
    <3>8. pc \in Connecting => OfThisSession'
      BY <2>4, <3>1, <3>2, <3>3, <3>7
      DEF Separated, OfThisSession, NothingNew, Sends, Grows
    <3>9. pc # "mqtt_status" /\ (pc = "mqtt_wait" => got = NULL)
      BY <2>4, <3>7 DEF Separated
    <3>10. QED
      BY <2>1, <2>4, <3>2, <3>4, <3>5, <3>6, <3>8, <3>9 DEF Separated
  <2>5. CASE /\ pc \in MqttBeginPoints /\ ~history.untimely
             /\ ~ModemAsksForSignature /\ ~BrokerAnswers
    <3> DEFINE K == {"CEREG", "ONDISCONNECT", "ONMESSAGE", "ONPUBLISH",
                     "ONSUBSCRIBE", "HTTPRING", "HTTPSH"}
    <3>1. /\ Grows(K)
          /\ modem'.session = modem.session \/ modem'.session = "none"
          /\ history'.accepted = history.accepted
          /\ history'.signing = history.signing
      BY <1>0, <1>3, <2>5, ModemGrows DEF ModemActs
    <3>2. K \cap {"command", "HCESIGN", "ONCONNECT"} = {}
      OBVIOUS
    <3> HIDE DEF K
    <3>3. /\ NothingNew("command") /\ NothingNew("HCESIGN")
          /\ NothingNew("ONCONNECT")
      BY <3>1, <3>2, GrowsOld
    <3>4. pc = "mqtt_reset" => ~OnItsWay("command")'
      BY <2>5, <3>3, NotOnItsWay DEF Separated
    <3>5. pc = "mqtt_reset_response" => ResetAnswered'
      BY <2>5, <3>1, <3>2, ResetAnsweredGrows DEF Separated
    <3>6. pc = "mqtt_connect" =>
            /\ modem'.session = "none"
            /\ ~OnItsWay("HCESIGN")' /\ ~OnItsWay("ONCONNECT")'
      BY <2>5, <3>1, <3>3, NotOnItsWay DEF Separated
    <3>7. pc \in Connecting => OfThisSession'
      BY <2>5, <3>1, <3>3, OfThisSessionFrame DEF Separated
    <3>8. QED
      BY <2>1, <2>5, <3>1, <3>4, <3>5, <3>6, <3>7 DEF Separated
  <2>6. QED
    BY <2>2, <2>3, <2>4, <2>5
<1>4. CASE UNCHANGED vars
  BY <1>4 DEF Separated, vars, main, OfThisSession, ResetAnswered, OnItsWay
<1>5. QED
  BY <1>1, <1>2, <1>3, <1>4 DEF Next

(* What MqttClient.begin() acts on, the request for a signature and the    *)
(* status, is what the modem sent for this begin(), unless a message was   *)
(* copied over the status or a response came too late.                     *)
THEOREM StatusOfThisConnectTheorem == Spec => []StatusOfThisConnect
<1>1. Init => Separated
  BY DEF Init, Separated, MqttBeginPoints
<1>2. LifeInvariant /\ Separated /\ [Next]_vars => Separated'
  BY SeparatedStep
<1>3. Separated => StatusOfThisConnect
  BY DEF Separated, StatusOfThisConnect, MqttBeginPoints
<1>4. QED
  BY <1>1, <1>2, <1>3, LifeCorrect, PTL DEF Spec
-----------------------------------------------------------------------------
(* ModemGrows, when it is not a report.                                    *)
LEMMA OthersGrow ==
  ASSUME TypeOK,
         \/ Network \/ ServerAnswers \/ BrokerDrops \/ BrokerMessage
         \/ BrokerConfirms \/ BrokerSubscribes \/ ModemAsksForSignature
         \/ BrokerAnswers \/ UNCHANGED vars
  PROVE  Grows({"HCESIGN", "ONCONNECT", "ONDISCONNECT", "ONMESSAGE",
                "ONPUBLISH", "ONSUBSCRIBE", "HTTPRING", "HTTPSH"})
<1>1. CASE Network \/ UNCHANGED vars
  BY <1>1, SameGrows DEF Network, vars
<1>2. CASE ServerAnswers
  <2>1. Grows({"HTTPRING", "HTTPSH"})
    BY <1>2, AnswerSends
  <2>2. QED
    BY <2>1 DEF Grows
<1>3. CASE \/ ModemAsksForSignature \/ BrokerAnswers \/ BrokerDrops
           \/ BrokerMessage
  <2>1. \/ Sends("HCESIGN", TRUE) \/ Sends("ONDISCONNECT", TRUE)
        \/ Sends("ONMESSAGE", TRUE) \/ \E b \in BOOLEAN : Sends("ONCONNECT", b)
    BY <1>3, ModemSends
  <2>2. QED
    BY <2>1 DEF Sends, Grows
<1>4. CASE BrokerConfirms \/ BrokerSubscribes
  <2>1. \E ok \in BOOLEAN :
          Sends("ONPUBLISH", ok) \/ Sends("ONSUBSCRIBE", ok)
    BY <1>4, ModemSends
  <2>2. QED
    BY <2>1 DEF Sends, Grows
<1>5. QED
  BY <1>1, <1>2, <1>3, <1>4

(* Where begin() gives up the former session, and who sets the flag.       *)
LEMMA MainConnected ==
  ASSUME TypeOK, Main
  PROVE  \/ MqttConnected
         \/ connected_to_broker' = FALSE
         \/ /\ connected_to_broker' = connected_to_broker
            /\ history'.unnoticed = history.unnoticed \/ MqttStatus
            /\ pc' \in MqttBeginPoints =>
                 pc \in MqttBeginPoints \ {"mqtt_return"}
<1>0. history \in History
  BY DEF TypeOK
<1> USE DEF Goto, Step, Command, ResponseTo, Prompted, Register, WaitForURC,
            History, belief, MqttBeginPoints
<1>1. CASE LteActs
  BY <1>0, <1>1
  DEF LteActs, LteBegin, LteRadio, LteFirstReport, LteConnect, LteEnd,
      LteDetach, LteDetaching, LteClose
<1>2. CASE MqttBegin \/ MqttConnect \/ MqttSign
  BY <1>0, <1>2 DEF MqttBegin, MqttConnect, MqttSign
<1>3. CASE MqttWait \/ MqttStatus \/ MqttReturn \/ OnReceive
  BY <1>0, <1>3 DEF MqttWait, MqttStatus, MqttReturn, OnReceive
<1>4. CASE MqttEnd \/ MqttDisconnect \/ MqttEnded
  BY <1>0, <1>4 DEF MqttEnd, MqttDisconnect, MqttEnded
<1>5. CASE PublishActs
  BY <1>0, <1>5
  DEF PublishActs, Publish, PublishMessage, PublishWait, Subscribe,
      SubscribeWait
<1>6. CASE HttpActs
  BY <1>0, <1>6 DEF HttpActs, HttpRequest, HttpSend, HttpRegister, HttpWait
<1>7. QED
  BY <1>1, <1>2, <1>3, <1>4, <1>5, <1>6
  DEF Main, LteActs, PublishActs, HttpActs

LEMMA ReceiveConnected ==
  ASSUME TypeOK, ReceiveUrc
  PROVE  /\ connected_to_broker' => connected_to_broker
         /\ history.unnoticed => history'.unnoticed
BY DEF ReceiveUrc, ConnectionStatus, TypeOK, History

(* What a command makes of the network and of the session.                 *)
LEMMA MainModem ==
  ASSUME TypeOK, Main
  PROVE  \/ modem' = ModemOff /\ pc \in {"lte_radio_off", "lte_detach",
                                         "lte_close"}
         \/ /\ modem'.radio = modem.radio \/ pc = "lte_radio_on"
            /\ modem'.attached = modem.attached
            /\ modem'.report = modem.report \/ pc = "lte_radio_on"
            /\ modem.report => modem'.report
            /\ \/ modem'.session = modem.session
               \/ /\ modem'.session = "none"
                  /\ pc \in {"mqtt_reset", "mqtt_disconnect"}
               \/ /\ modem'.session \in {"asked", "handshake"}
                  /\ pc = "mqtt_connect" /\ modem.session = "none"
                  /\ modem.attached /\ ~modem.report
               \/ /\ modem'.session = "asked" /\ modem.session = "signing"
                  /\ pc = "mqtt_sign"
<1>0. modem \in Modem /\ \A b \in BOOLEAN : b = TRUE \/ b = FALSE
  BY DEF TypeOK
<1>1. CASE modem' = modem
  BY <1>1
<1>2. CASE pc = "lte_close" /\ modem' = ModemOff
  BY <1>2
<1>3. CASE Effect
  <2>1. CASE pc \in {"lte_radio_off", "lte_detach"} /\ RadioOff
    BY <2>1 DEF RadioOff
  <2>2. CASE pc = "lte_radio_on" /\ RadioOn
    BY <1>0, <2>2 DEF RadioOn, Modem
  <2>3. CASE pc \in {"mqtt_reset", "mqtt_disconnect"} /\ Disconnect
    <3>1. modem' = Lost(modem)
      BY <2>3 DEF Disconnect
    <3>2. modem'.radio = modem.radio
      BY <1>0, <3>1 DEF Lost, Modem
    <3>3. QED
      BY <1>0, <2>3, <3>1, <3>2, LostSession
  <2>4. CASE pc = "mqtt_connect"
             /\ (Connect("asked") \/ Connect("handshake"))
    BY <1>0, <2>4 DEF Connect, Modem
  <2>5. CASE pc = "mqtt_sign" /\ Signature
    BY <1>0, <2>5 DEF Signature, Modem
  <2>6. CASE \/ Prompt \/ Payload \/ Subscription \/ Attention \/ Query
             \/ HttpPrompt \/ HttpPayload
    BY <1>0, <2>6
    DEF Prompt, Payload, Subscription, Attention, Query, HttpPrompt,
        HttpPayload, Request, Modem
  <2>7. QED
    BY <1>3, <2>1, <2>2, <2>3, <2>4, <2>5, <2>6 DEF Effect
<1>4. QED
  BY <1>1, <1>2, <1>3, MainSends

LEMMA GivenUpStep ==
  ASSUME LifeInvariant, GivenUp, [Next]_vars
  PROVE  GivenUp'
<1>0. /\ TypeOK /\ Initialized /\ modem \in Modem
      /\ connected_to_broker \in BOOLEAN
  BY DEF LifeInvariant, TypeOK
<1>1. CASE Main
  <2>1. pc' \in MqttBeginPoints \ {"mqtt_return"} =>
          connected_to_broker' = FALSE
    <3>1. MqttConnected => pc' = "mqtt_return"
      BY DEF MqttConnected, Goto
    <3>2. QED
      BY <1>0, <1>1, <3>1, MainConnected DEF GivenUp
  <2>2. initialized' = initialized \/ initialized' = TRUE \/ pc = "lte_close"
    <3> USE DEF Goto, Step, Command, ResponseTo, Prompted, Register, WaitForURC
    <3>1. CASE LteActs
      BY <3>1
      DEF LteActs, LteBegin, LteRadio, LteFirstReport, LteConnect, LteEnd,
          LteDetach, LteDetaching, LteClose
    <3>2. CASE MqttActs
      BY <3>2
      DEF MqttActs, MqttBegin, MqttConnect, MqttSign, MqttWait, MqttStatus,
          MqttConnected, MqttReturn, OnReceive, MqttEnd, MqttDisconnect,
          MqttEnded
    <3>3. CASE PublishActs
      BY <3>3
      DEF PublishActs, Publish, PublishMessage, PublishWait, Subscribe,
          SubscribeWait
    <3>4. CASE HttpActs
      BY <3>4 DEF HttpActs, HttpRequest, HttpSend, HttpRegister, HttpWait
    <3>5. QED
      BY <1>1, <3>1, <3>2, <3>3, <3>4
      DEF Main, LteActs, MqttActs, PublishActs, HttpActs
  <2>3. CASE pc = "lte_close"
    <3>1. sent' = <<>> /\ modem' = ModemOff
      BY <1>1, <2>3, PointOfClose DEF LteClose
    <3>2. ~OnItsWay("CEREG")'
      BY <3>1 DEF OnItsWay
    <3>3. QED
      BY <2>1, <3>1, <3>2 DEF GivenUp, ModemOff
  <2>4. CASE ~initialized /\ pc # "lte_close"
    <3>1. pc \notin LteBeginPoints /\ pc \notin LteEndPoints
      BY <1>0, <2>4 DEF Initialized, LteRuns
    <3>2. /\ ~modem'.radio /\ ~modem'.attached /\ ~modem'.report
      BY <1>0, <1>1, <2>4, <3>1, MainModem
      DEF GivenUp, LteBeginPoints, LteEndPoints
    <3>3. NothingNew("CEREG")
      <4>1. CASE Effect
        <5>1. ~RadioOff \/ Grows(Quietly)
          BY <1>0, <2>4, RadioOffSends DEF GivenUp
        <5>2. Disconnect => Grows({"command", "ONDISCONNECT"})
          BY <1>0, DisconnectSends
        <5>3. ~RadioOff /\ ~Disconnect => Grows(Quietly)
          BY <1>0, <4>1, OthersSend
        <5>4. QED
          BY <5>1, <5>2, <5>3, GrowsOld DEF Quietly
      <4>2. CASE sent' = sent
        BY <4>2 DEF NothingNew
      <4>3. CASE sent # <<>> /\ sent' = Tail(sent)
        BY <1>0, <4>3, TailShrinks, ShrinksOld
      <4>4. QED
        BY <1>1, <2>4, <4>1, <4>2, <4>3, MainSends
    <3>4. ~OnItsWay("CEREG")'
      BY <2>4, <3>3, NotOnItsWay DEF GivenUp
    <3>5. QED
      BY <2>1, <3>2, <3>4 DEF GivenUp
  <2>5. CASE initialized /\ pc # "lte_close"
    BY <2>1, <2>2, <2>5 DEF GivenUp
  <2>6. QED
    BY <2>3, <2>4, <2>5
<1>2. CASE ReceiveUrc \/ Drop
  <2>1. /\ NothingNew("CEREG") /\ UNCHANGED <<pc, modem, initialized>>
        /\ connected_to_broker' \in {connected_to_broker, FALSE}
    <3>1. NothingNew("CEREG")
      BY <1>0, <1>2, TakenNothingNew
    <3>2. ReceiveUrc => connected_to_broker' \in {connected_to_broker, FALSE}
      BY <1>0 DEF ReceiveUrc, ConnectionStatus
    <3>3. QED
      BY <1>2, <3>1, <3>2 DEF ReceiveUrc, Drop, main, belief
  <2>2. ~OnItsWay("CEREG") => ~OnItsWay("CEREG")'
    BY <2>1, NotOnItsWay
  <2>3. QED
    BY <2>1, <2>2 DEF GivenUp
<1>3. CASE ModemActs \/ UNCHANGED vars
  <2>1. UNCHANGED <<pc, initialized, connected_to_broker>>
    BY <1>0, <1>3, Outside DEF main, belief
  <2>2. ASSUME ~initialized
        PROVE  /\ ~modem'.radio /\ ~modem'.attached /\ ~modem'.report
               /\ ~OnItsWay("CEREG")'
    <3>1. ~Network /\ ~Report
      BY <2>2 DEF GivenUp, Network, Report
    <3>2. /\ modem'.radio = modem.radio /\ modem'.attached = modem.attached
          /\ modem'.report = modem.report
      <4>1. CASE BrokerDrops
        BY <1>0, <4>1 DEF BrokerDrops, Lost, Modem
      <4>2. CASE ServerAnswers \/ ModemAsksForSignature \/ BrokerAnswers
        BY <1>0, <4>2 DEF ServerAnswers, ModemAsksForSignature, BrokerAnswers,
                          Modem
      <4>3. CASE BrokerMessage \/ BrokerConfirms \/ BrokerSubscribes
        BY <1>0, <4>3 DEF BrokerMessage, BrokerConfirms, BrokerSubscribes,
                          Modem
      <4>4. QED
        BY <1>3, <3>1, <4>1, <4>2, <4>3 DEF ModemActs, vars
    <3>3. NothingNew("CEREG")
      BY <1>0, <1>3, <3>1, ModemNothingNew, TakenNothingNew DEF ModemActs
    <3>4. QED
      BY <2>2, <3>2, <3>3, NotOnItsWay DEF GivenUp
  <2>3. QED
    BY <2>1, <2>2 DEF GivenUp
<1>4. QED
  BY <1>1, <1>2, <1>3 DEF Next

(* What is_connected rests on is left alone.                               *)
StaysConnected == is_connected \/ LteRuns => is_connected' \/ LteRuns'

LEMMA ConnectedGrows ==
  ASSUME NEW kinds, Grows(kinds), StaysConnected,
         NEW k \in Nat, k <= Len(sent), Connected(k)
  PROVE  Connected(k)'
<1>1. \A i \in 1 .. k : sent'[i] = sent[i]
  BY DEF Grows
<1>2. \A i \in 1 .. k : IsDown(sent'[i]) =>
        \E j \in i + 1 .. k : IsUp(sent'[j])
  <2>1. SUFFICES ASSUME NEW i \in 1 .. k, IsDown(sent'[i])
                 PROVE  \E j \in i + 1 .. k : IsUp(sent'[j])
    OBVIOUS
  <2>2. PICK j \in i + 1 .. k : IsUp(sent[j])
    BY <1>1, <2>1 DEF Connected
  <2>3. j \in 1 .. k
    OBVIOUS
  <2>4. QED
    BY <1>1, <2>2, <2>3
<1>3. (\E j \in 1 .. k : IsUp(sent[j])) => \E j \in 1 .. k : IsUp(sent'[j])
  BY <1>1
<1>4. QED
  BY <1>2, <1>3 DEF Connected, StaysConnected

LEMMA ConnectedLonger ==
  ASSUME NEW kinds, Grows(kinds), "CEREG" \notin kinds, StaysConnected,
         Connected(Len(sent))
  PROVE  Connected(Len(sent))'
<1>1. \A i \in 1 .. Len(sent') :
        IsDown(sent'[i]) \/ IsUp(sent'[i]) =>
          i \in 1 .. Len(sent) /\ sent'[i] = sent[i]
  BY DEF Grows, IsDown, IsUp
<1>2. \A i \in 1 .. Len(sent') : IsDown(sent'[i]) =>
        \E j \in i + 1 .. Len(sent') : IsUp(sent'[j])
  <2>1. SUFFICES ASSUME NEW i \in 1 .. Len(sent'), IsDown(sent'[i])
                 PROVE  \E j \in i + 1 .. Len(sent') : IsUp(sent'[j])
    OBVIOUS
  <2>2. PICK j \in i + 1 .. Len(sent) : IsUp(sent[j])
    BY <1>1, <2>1 DEF Connected
  <2>3. j \in i + 1 .. Len(sent') /\ sent'[j] = sent[j]
    BY <2>1, <2>2 DEF Grows
  <2>4. QED
    BY <2>2, <2>3
<1>3. (\E j \in 1 .. Len(sent) : IsUp(sent[j])) =>
        \E j \in 1 .. Len(sent') : IsUp(sent'[j])
  BY DEF Grows
<1>4. QED
  BY <1>2, <1>3 DEF Connected, StaysConnected

LEMMA ConnectedShrinks ==
  ASSUME Shrinks, NEW k \in 1 .. Len(sent), Connected(k),
         \/ IsDown(sent[1])
         \/ is_connected \/ LteRuns \/ IsUp(sent[1])
              => is_connected' \/ LteRuns'
  PROVE  Connected(k - 1)'
<1>1. \A i \in 1 .. k - 1 : i + 1 \in 1 .. k /\ sent'[i] = sent[i + 1]
  BY DEF Shrinks
<1>2. \A j \in 2 .. k : j - 1 \in 1 .. k - 1 /\ sent'[j - 1] = sent[j]
  BY DEF Shrinks
<1>3. \A i \in 1 .. k - 1 : IsDown(sent'[i]) =>
        \E j \in i + 1 .. k - 1 : IsUp(sent'[j])
  <2>1. SUFFICES ASSUME NEW i \in 1 .. k - 1, IsDown(sent'[i])
                 PROVE  \E j \in i + 1 .. k - 1 : IsUp(sent'[j])
    OBVIOUS
  <2>2. PICK j \in i + 2 .. k : IsUp(sent[j])
    BY <1>1, <2>1 DEF Connected
  <2>3. j - 1 \in i + 1 .. k - 1 /\ IsUp(sent'[j - 1])
    BY <1>2, <2>1, <2>2
  <2>4. QED
    BY <2>3
<1>4. is_connected' \/ LteRuns' \/ \E j \in 1 .. k - 1 : IsUp(sent'[j])
  <2>1. CASE \E j \in 2 .. k : IsUp(sent[j])
    BY <1>2, <2>1
  <2>2. CASE ~(\E j \in 2 .. k : IsUp(sent[j]))
    <3>1. ~IsDown(sent[1])
      BY <2>2 DEF Connected
    <3>2. \A j \in 1 .. k : IsUp(sent[j]) => j = 1
      BY <2>2
    <3>3. is_connected \/ LteRuns \/ IsUp(sent[1])
      BY <3>2 DEF Connected
    <3>4. QED
      BY <3>1, <3>3
  <2>3. QED
    BY <2>1, <2>2
<1>5. QED
  BY <1>3, <1>4 DEF Connected

LEMMA AnswersGrow ==
  ASSUME AnswersReported, NEW kinds, Grows(kinds), "ONCONNECT" \notin kinds,
         StaysConnected
  PROVE  AnswersReported'
<1>1. SUFFICES ASSUME NEW k \in 1 .. Len(sent'), sent'[k].of = "ONCONNECT"
               PROVE  Connected(k)'
  BY DEF AnswersReported, Grows
<1>2. k \in Nat /\ k <= Len(sent) /\ k \in DOMAIN sent /\ sent'[k] = sent[k]
  BY <1>1 DEF Grows
<1>3. Connected(k)
  BY <1>1, <1>2 DEF AnswersReported
<1>4. QED
  BY <1>2, <1>3, ConnectedGrows

LEMMA ReportedShrinks ==
  ASSUME SessionReported, AnswersReported, Shrinks,
         \/ IsDown(sent[1])
         \/ is_connected \/ LteRuns \/ IsUp(sent[1])
              => is_connected' \/ LteRuns',
         modem' = modem
  PROVE  SessionReported' /\ AnswersReported'
<1>1. \A k \in 1 .. Len(sent) : Connected(k) => Connected(k - 1)'
  BY ConnectedShrinks
<1>2. AnswersReported'
  <2>1. SUFFICES ASSUME NEW k \in 1 .. Len(sent'), sent'[k].of = "ONCONNECT"
                 PROVE  Connected(k)'
    BY DEF AnswersReported, Shrinks
  <2>2. k + 1 \in 1 .. Len(sent) /\ sent[k + 1].of = "ONCONNECT"
    BY <2>1 DEF Shrinks
  <2>3. Connected(k + 1)
    BY <2>2 DEF AnswersReported, Shrinks
  <2>4. Connected((k + 1) - 1)'
    BY <1>1, <2>2, <2>3
  <2>5. (k + 1) - 1 = k
    OBVIOUS
  <2>6. QED
    BY <2>4, <2>5
<1>3. modem.session # "none" => Connected(Len(sent))'
  <2>1. SUFFICES ASSUME Connected(Len(sent))
                 PROVE  Connected(Len(sent))'
    BY DEF SessionReported
  <2>2. Len(sent) \in 1 .. Len(sent) /\ Len(sent') = Len(sent) - 1
    BY DEF Shrinks
  <2>3. PICK k \in 1 .. Len(sent) : k = Len(sent)
    BY <2>2
  <2>4. Connected(k - 1)' /\ Len(sent') = k - 1
    BY <1>1, <2>1, <2>2, <2>3
  <2>5. QED
    BY <2>4 DEF Connected
<1>4. QED
  BY <1>2, <1>3 DEF SessionReported

LEMMA MainStays ==
  ASSUME TypeOK, Initialized, Main, pc # "lte_close"
  PROVE  StaysConnected
<1>0. is_connected' = is_connected
  BY MainBelief
<1> USE DEF Goto, Step, Command, ResponseTo, Prompted, Register, WaitForURC,
            LteRuns, LteBeginPoints, LteEndPoints, MqttEndPoints
<1>1. CASE LteActs
  <2>1. CASE LteBegin \/ LteRadio \/ LteFirstReport
    <3>1. pc' \in LteBeginPoints
      BY <2>1 DEF LteBegin, LteRadio, LteFirstReport
    <3>2. QED
      BY <1>0, <3>1 DEF StaysConnected
  <2>2. CASE LteConnect
    BY <1>0, <2>2 DEF StaysConnected, LteConnect
  <2>3. CASE LteEnd
    BY <1>0, <2>3 DEF StaysConnected, LteEnd, Initialized
  <2>4. CASE LteDetach \/ LteDetaching
    <3>1. pc' \in LteEndPoints
      BY <2>4 DEF LteDetach, LteDetaching
    <3>2. QED
      BY <1>0, <3>1 DEF StaysConnected
  <2>5. QED
    BY <1>1, <2>1, <2>2, <2>3, <2>4 DEF LteActs, LteClose
<1>2. CASE MqttEnd \/ MqttDisconnect \/ MqttEnded
  BY <1>0, <1>2 DEF StaysConnected, MqttEnd, MqttDisconnect, MqttEnded,
                    Initialized
<1>3. CASE ~LteActs /\ ~(MqttEnd \/ MqttDisconnect \/ MqttEnded)
  <2>1. pc \notin LteBeginPoints \union LteEndPoints \union MqttEndPoints
    <3>1. CASE MqttActs
      BY <1>3, <3>1
      DEF MqttActs, MqttBegin, MqttConnect, MqttSign, MqttWait, MqttStatus,
          MqttConnected, MqttReturn, OnReceive
    <3>2. CASE PublishActs
      BY <3>2
      DEF PublishActs, Publish, PublishMessage, PublishWait, Subscribe,
          SubscribeWait
    <3>3. CASE HttpActs
      BY <3>3 DEF HttpActs, HttpRequest, HttpSend, HttpRegister, HttpWait
    <3>4. QED
      BY <1>3, <3>1, <3>2, <3>3
      DEF Main, LteActs, MqttActs, PublishActs, HttpActs
  <2>2. QED
    BY <1>0, <2>1 DEF StaysConnected
<1>4. QED
  BY <1>1, <1>2, <1>3

(* A +CEREG reaches connectionStatus() whenever it matters.                *)
LEMMA ReceiveStays ==
  ASSUME LifeInvariant, GivenUp, ReceiveUrc \/ Drop
  PROVE  \/ IsDown(sent[1])
         \/ is_connected \/ LteRuns \/ IsUp(sent[1])
              => is_connected' \/ LteRuns'
<1>1. /\ TypeOK /\ Registered /\ Watching
  BY DEF LifeInvariant
<1>2. /\ Head(sent) \in Sent /\ sent[1] = Head(sent) /\ 1 \in DOMAIN sent
      /\ sent # <<>> /\ pc' = pc /\ after' = after
  BY <1>1, SentTypes, TailShrinks DEF ReceiveUrc, Drop, Shrinks, main
<1>3. LteRuns' <=> LteRuns
  BY <1>2 DEF LteRuns
<1>4. CASE Drop
  BY <1>2, <1>3, <1>4 DEF Drop, belief, IsUp
<1>5. CASE ReceiveUrc /\ Head(sent).of # "CEREG"
  <2>1. callback[Head(sent).of] # "connectionStatus"
    BY <1>1, <1>5, FunctionAssumption
    DEF ReceiveUrc, Registered, Urcs, Function
  <2>2. is_connected' = is_connected
    BY <1>5, <2>1 DEF ReceiveUrc
  <2>3. QED
    BY <1>2, <1>3, <1>5, <2>2 DEF IsUp
<1>6. CASE ReceiveUrc /\ IsUp(Head(sent)) /\ ~LteRuns
  <2>1. initialized
    BY <1>2, <1>6 DEF GivenUp, OnItsWay, IsUp
  <2>2. callback["CEREG"] = "connectionStatus"
    BY <1>1, <1>6, <2>1 DEF Watching
  <2>3. is_connected' = (is_connected \/ Head(sent).data)
    BY <1>6, <2>2 DEF ReceiveUrc, ConnectionStatus, IsLoss, IsUp
  <2>4. QED
    BY <1>6, <2>3 DEF IsUp
<1>7. QED
  BY <1>2, <1>3, <1>4, <1>5, <1>6 DEF IsUp, IsDown

LEMMA ReportedMain ==
  ASSUME LifeInvariant, NetworkKnown, SessionReported, AnswersReported, Main
  PROVE  SessionReported' /\ AnswersReported'
<1>0. /\ TypeOK /\ Initialized /\ Watching /\ modem \in Modem
      /\ modem.attached \in BOOLEAN
  BY DEF LifeInvariant, TypeOK, Modem
<1>1. CASE pc = "lte_close"
  <2>1. sent' = <<>> /\ modem' = ModemOff
    BY <1>1, PointOfClose DEF LteClose
  <2>2. QED
    BY <2>1 DEF SessionReported, AnswersReported, ModemOff
<1>2. CASE pc # "lte_close" /\ ~Effect
  <2>1. StaysConnected
    BY <1>0, <1>2, MainStays
  <2>2. CASE UNCHANGED <<modem, sent>>
    <3>1. Grows({})
      BY <1>0, <2>2, SameGrows
    <3>2. QED
      BY <2>1, <2>2, <3>1, AnswersGrow, ConnectedLonger DEF SessionReported
  <2>3. CASE /\ sent # <<>> /\ Head(sent).of \in {"command", "prompt"}
             /\ sent' = Tail(sent) /\ modem' = modem
    <3>1. Shrinks
      BY <1>0, <2>3, TailShrinks
    <3>2. ~IsUp(sent[1]) /\ ~IsDown(sent[1])
      BY <2>3, <3>1 DEF Shrinks, IsUp, IsDown
    <3>3. QED
      BY <2>1, <2>3, <3>1, <3>2, ReportedShrinks DEF StaysConnected
  <2>4. QED
    BY <1>2, <2>2, <2>3, MainSends
<1>3. CASE pc # "lte_close" /\ Effect
  <2>1. StaysConnected
    BY <1>0, <1>3, MainStays
  <2>2. CASE RadioOff \/ Disconnect
    <3>1. \/ Grows({"command", "CEREG"})
          \/ Grows({"command", "ONDISCONNECT"})
      BY <1>0, <2>2, RadioOffSends, DisconnectSends
    <3>2. modem'.session = "none"
      <4>1. modem' = ModemOff \/ modem' = Lost(modem)
        BY <2>2 DEF RadioOff, Disconnect
      <4>2. ModemOff.session = "none"
        BY DEF ModemOff
      <4>3. QED
        BY <1>0, <4>1, <4>2, LostSession
    <3>3. QED
      BY <2>1, <3>1, <3>2, AnswersGrow DEF SessionReported
  <2>3. CASE ~RadioOff /\ ~Disconnect
    <3>1. Grows(Quietly)
      BY <1>0, <1>3, <2>3, OthersSend
    <3>2. AnswersReported'
      BY <2>1, <3>1, AnswersGrow DEF Quietly
    <3>3. Connected(Len(sent)) => Connected(Len(sent))'
      BY <2>1, <3>1, ConnectedLonger DEF Quietly
    <3>4. modem'.session # "none" =>
            \/ modem.session # "none" /\ modem'.attached = modem.attached
            \/ /\ modem'.attached = modem.attached /\ modem.attached
               /\ ~modem.report /\ pc = "mqtt_connect"
      BY <1>0, MainModem DEF ModemOff
    <3>5. modem.attached /\ ~modem.report /\ pc = "mqtt_connect" =>
            Connected(Len(sent))
      <4>1. SUFFICES ASSUME modem.attached, ~modem.report,
                            pc = "mqtt_connect"
                     PROVE  Connected(Len(sent))
        OBVIOUS
      <4>2. initialized /\ ~LteRuns
        BY <1>0, <4>1
        DEF Initialized, LteRuns, MqttBeginPoints, LteBeginPoints,
            LteEndPoints, MqttEndPoints
      <4>3. history.missed => is_connected
        BY <1>0, <4>2 DEF Watching
      <4>4. DOMAIN sent = 1 .. Len(sent) /\ Len(sent) \in Nat
        BY <3>1 DEF Grows
      <4>5. CASE \E i \in DOMAIN sent :
                   /\ IsReport(sent[i]) /\ sent[i].data = modem.attached
                   /\ \A j \in DOMAIN sent : j > i => ~IsReport(sent[j])
        <5>1. PICK i \in 1 .. Len(sent) :
                /\ IsReport(sent[i]) /\ sent[i].data = modem.attached
                /\ \A j \in 1 .. Len(sent) : j > i => ~IsReport(sent[j])
          BY <4>4, <4>5
        <5>2. IsUp(sent[i])
          BY <4>1, <5>1 DEF IsReport, IsUp
        <5>3. \A j \in 1 .. Len(sent) : IsDown(sent[j]) => j < i
          BY <5>1, <5>2 DEF IsReport, IsUp, IsDown
        <5>4. QED
          BY <4>4, <5>2, <5>3 DEF Connected
      <4>6. CASE /\ \A i \in DOMAIN sent : ~IsReport(sent[i])
                 /\ history.missed \/ is_connected = modem.attached
        BY <4>1, <4>3, <4>4, <4>6 DEF Connected, IsReport, IsDown
      <4>7. QED
        BY <4>1, <4>5, <4>6 DEF NetworkKnown
    <3>6. QED
      BY <3>2, <3>3, <3>4, <3>5 DEF SessionReported
  <2>4. QED
    BY <2>2, <2>3
<1>4. QED
  BY <1>1, <1>2, <1>3

(* A session is begun, and an answer sent, on a network reported before.   *)
LEMMA ReportedStep ==
  ASSUME LifeInvariant, NetworkKnown, GivenUp, SessionReported,
         AnswersReported, [Next]_vars
  PROVE  SessionReported' /\ AnswersReported'
<1>0. TypeOK /\ modem \in Modem /\ modem.attached \in BOOLEAN
  BY DEF LifeInvariant, TypeOK, Modem
<1>1. CASE Main
  BY <1>1, ReportedMain
<1>2. CASE ReceiveUrc \/ Drop
  <2>1. Shrinks /\ modem' = modem
    BY <1>0, <1>2, TailShrinks DEF ReceiveUrc, Drop
  <2>2. QED
    BY <1>2, <2>1, ReceiveStays, ReportedShrinks
<1>3. CASE ModemActs \/ UNCHANGED vars
  <2>1. StaysConnected
    BY <1>0, <1>3, Outside DEF StaysConnected, LteRuns, main, belief
  <2>2. CASE Report
    <3>1. Sends("CEREG", modem.attached)
      BY <1>0, <2>2, ModemSends
    <3>2. AnswersReported'
      BY <2>1, <3>1, AnswersGrow DEF Sends
    <3>3. /\ modem'.session = modem.session
          /\ modem'.attached = modem.attached
      BY <1>0, <2>2 DEF Report, Modem
    <3>4. ASSUME modem.session # "none"
          PROVE  Connected(Len(sent))'
      <4>1. modem.attached
        BY <3>4 DEF SessionReported
      <4>2. IsUp(sent'[Len(sent)+1]) /\ Len(sent') = Len(sent) + 1
            /\ Len(sent) \in Nat
        BY <3>1, <4>1 DEF Sends, IsUp, Grows
      <4>3. \A i \in 1 .. Len(sent') : IsDown(sent'[i]) => i < Len(sent')
        BY <4>2 DEF IsUp, IsDown
      <4>4. QED
        BY <4>2, <4>3 DEF Connected
    <3>5. QED
      BY <3>2, <3>3, <3>4 DEF SessionReported
  <2>3. CASE BrokerAnswers
    <3>1. PICK ok \in BOOLEAN :
            /\ Sends("ONCONNECT", ok)
            /\ modem' = [modem EXCEPT !.session = IF ok THEN "up" ELSE "none"]
      BY <1>0, <2>3, ModemSends
    <3>2. Connected(Len(sent)) /\ modem.attached
      BY <2>3 DEF BrokerAnswers, SessionReported
    <3>3. Connected(Len(sent))' /\ modem'.attached
      BY <1>0, <2>1, <3>1, <3>2, ConnectedLonger DEF Sends, Modem
    <3>4. ASSUME NEW k \in DOMAIN sent', sent'[k].of = "ONCONNECT"
          PROVE  Connected(k)'
      <4>1. Grows({"ONCONNECT"}) /\ Len(sent') = Len(sent) + 1
        BY <3>1 DEF Sends
      <4>2. CASE k = Len(sent')
        BY <3>3, <4>2 DEF Connected
      <4>3. CASE k # Len(sent')
        <5>1. k \in Nat /\ k <= Len(sent) /\ k \in DOMAIN sent
              /\ sent'[k] = sent[k]
          BY <3>4, <4>1, <4>3 DEF Grows
        <5>2. Connected(k)
          BY <3>4, <5>1 DEF AnswersReported
        <5>3. QED
          BY <2>1, <4>1, <5>1, <5>2, ConnectedGrows
      <4>4. QED
        BY <4>2, <4>3
    <3>5. QED
      BY <3>3, <3>4 DEF SessionReported, AnswersReported
  <2>4. CASE \/ Network \/ ServerAnswers \/ BrokerDrops \/ BrokerMessage
             \/ BrokerConfirms \/ BrokerSubscribes \/ UNCHANGED vars
             \/ ModemAsksForSignature
    <3> DEFINE K == {"HCESIGN", "ONDISCONNECT", "ONMESSAGE",
                     "ONPUBLISH", "ONSUBSCRIBE", "HTTPRING", "HTTPSH"}
    <3>1. Grows(K)
      <4>1. CASE ModemAsksForSignature
        BY <1>0, <4>1, ModemSends DEF Sends, Grows
      <4>2. CASE UNCHANGED vars
        BY <1>0, <4>2, SameGrows DEF vars
      <4>3. CASE ServerAnswers
        <5>1. Grows({"HTTPRING", "HTTPSH"})
          BY <1>0, <4>3, AnswerSends
        <5>2. QED
          BY <5>1 DEF Grows
      <4>4. CASE Network
        BY <1>0, <4>4, SameGrows DEF Network
      <4>5. CASE BrokerDrops \/ BrokerMessage
        BY <1>0, <4>5, ModemSends DEF Sends, Grows
      <4>6. CASE BrokerConfirms \/ BrokerSubscribes
        <5>1. \E ok \in BOOLEAN :
                Sends("ONPUBLISH", ok) \/ Sends("ONSUBSCRIBE", ok)
          BY <1>0, <4>6, ModemSends
        <5>2. QED
          BY <5>1 DEF Sends, Grows
      <4>7. QED
        BY <2>4, <4>1, <4>2, <4>3, <4>4, <4>5, <4>6
    <3>2. AnswersReported' /\ (Connected(Len(sent)) => Connected(Len(sent))')
      BY <2>1, <3>1, AnswersGrow, ConnectedLonger
    <3>3. modem'.session # "none" => modem.session # "none"
          /\ (modem.attached => modem'.attached)
      BY <1>0, <2>4
      DEF Network, ServerAnswers, BrokerDrops, BrokerMessage, BrokerConfirms,
          BrokerSubscribes, ModemAsksForSignature, vars, Lost, Modem
    <3>4. QED
      BY <3>2, <3>3 DEF SessionReported
  <2>5. QED
    BY <1>3, <2>2, <2>3, <2>4 DEF ModemActs
<1>4. QED
  BY <1>1, <1>2, <1>3 DEF Next

(* What will say that the session is lost stays on its way.                *)
LEMMA LossGrows ==
  ASSUME NEW kinds, Grows(kinds), NEW k \in Nat, k <= Len(sent),
         LossIsDue(k),
         modem.report /\ ~modem.attached =>
           \/ modem'.report /\ ~modem'.attached
           \/ \E j \in 1 .. Len(sent') : j > Len(sent) /\ IsDown(sent'[j])
  PROVE  LossIsDue(k)'
<1>1. CASE modem.report /\ ~modem.attached
  <2>1. CASE modem'.report /\ ~modem'.attached
    BY <2>1 DEF LossIsDue
  <2>2. CASE \E j \in 1 .. Len(sent') : j > Len(sent) /\ IsDown(sent'[j])
    <3>1. PICK j \in 1 .. Len(sent') : j > Len(sent) /\ IsDown(sent'[j])
      BY <2>2
    <3>2. j \in DOMAIN sent' /\ j > k
      BY <3>1 DEF Grows
    <3>3. QED
      BY <3>1, <3>2 DEF LossIsDue
  <2>3. QED
    BY <1>1, <2>1, <2>2
<1>2. CASE \E j \in DOMAIN sent :
             j > k /\ (IsDown(sent[j]) \/ sent[j].of = "ONDISCONNECT")
  BY <1>2 DEF LossIsDue, Grows
<1>3. QED
  BY <1>1, <1>2 DEF LossIsDue

LEMMA LossShrinks ==
  ASSUME Shrinks, modem' = modem, NEW k \in Nat, LossIsDue(k + 1)
  PROVE  LossIsDue(k)'
<1>1. CASE modem.report /\ ~modem.attached
  BY <1>1 DEF LossIsDue
<1>2. CASE \E j \in DOMAIN sent :
             j > k + 1 /\ (IsDown(sent[j]) \/ sent[j].of = "ONDISCONNECT")
  <2>1. PICK j \in 1 .. Len(sent) :
          j > k + 1 /\ (IsDown(sent[j]) \/ sent[j].of = "ONDISCONNECT")
    BY <1>2 DEF Shrinks
  <2>2. j - 1 \in DOMAIN sent' /\ j - 1 > k /\ sent'[j - 1] = sent[j]
    BY <2>1 DEF Shrinks
  <2>3. QED
    BY <2>1, <2>2 DEF LossIsDue
<1>3. QED
  BY <1>1, <1>2 DEF LossIsDue

LEMMA LossHead ==
  ASSUME Shrinks, LossIsDue(0), ~IsDown(sent[1]),
         sent[1].of # "ONDISCONNECT"
  PROVE  LossIsDue(1)
BY DEF LossIsDue, Shrinks

LEMMA AnswersLostShrinks ==
  ASSUME AnswersLost, Shrinks, modem' = modem
  PROVE  AnswersLost'
<1>1. SUFFICES ASSUME NEW k \in 1 .. Len(sent'), sent'[k].of = "ONCONNECT"
               PROVE  LossIsDue(k)'
  BY DEF AnswersLost, Shrinks
<1>2. k + 1 \in DOMAIN sent /\ sent[k + 1].of = "ONCONNECT" /\ k \in Nat
  BY <1>1 DEF Shrinks
<1>3. LossIsDue(k + 1)
  BY <1>2 DEF AnswersLost
<1>4. QED
  BY <1>2, <1>3, LossShrinks

(* What the modem does while nothing is received.                          *)
LossStays ==
  \A k \in Nat : k <= Len(sent) =>
    /\ LossIsDue(k) => LossIsDue(k)'
    /\ modem.session = "up" /\ modem'.session # "up" => LossIsDue(k)'

LEMMA AnswersLostGrows ==
  ASSUME LossStays, NEW kinds, Grows(kinds), "ONCONNECT" \notin kinds
  PROVE  /\ AnswersLost => AnswersLost'
         /\ modem.session = "up" /\ modem'.session # "up" => AnswersLost'
<1>1. \A k \in DOMAIN sent' : sent'[k].of = "ONCONNECT" =>
        k \in DOMAIN sent /\ sent[k].of = "ONCONNECT"
          /\ k \in Nat /\ k <= Len(sent)
  BY DEF Grows
<1>2. QED
  BY <1>1 DEF AnswersLost, LossStays

LEMMA ModemLoss ==
  ASSUME TypeOK, ModemActs \/ UNCHANGED vars
  PROVE  LossStays
<1>0. modem \in Modem /\ modem.attached \in BOOLEAN
  BY DEF TypeOK, Modem
<1>1. CASE Network
  <2>1. Grows({})
    BY <1>0, <1>1, SameGrows DEF Network
  <2>2. ~modem.report
        /\ (modem.session = "up" /\ modem'.session # "up" =>
              modem'.report /\ ~modem'.attached)
    <3>1. ~modem.report
      BY <1>1 DEF Network
    <3>2. CASE modem' = [modem EXCEPT !.attached = TRUE, !.report = TRUE]
      BY <1>0, <3>1, <3>2 DEF Modem
    <3>3. CASE modem' = Lost([modem EXCEPT !.attached = FALSE,
                                           !.report = TRUE])
      BY <1>0, <3>1, <3>3 DEF Lost, Modem
    <3>4. QED
      BY <1>1, <3>2, <3>3 DEF Network
  <2>3. \A k \in Nat : k <= Len(sent) => (LossIsDue(k) => LossIsDue(k)')
    BY <2>1, <2>2, LossGrows
  <2>4. QED
    BY <2>2, <2>3 DEF LossStays, LossIsDue
<1>2. CASE Report
  <2>1. Sends("CEREG", modem.attached) /\ Grows({"CEREG"})
    BY <1>2, ModemSends DEF Sends
  <2>2. modem'.session = modem.session
    BY <1>0, <1>2 DEF Report, Modem
  <2>3. ~modem.attached =>
          /\ Len(sent) + 1 \in 1 .. Len(sent') /\ Len(sent) + 1 > Len(sent)
          /\ IsDown(sent'[Len(sent) + 1])
    BY <1>0, <2>1 DEF Sends, Grows, IsDown
  <2>4. \A k \in Nat : k <= Len(sent) => (LossIsDue(k) => LossIsDue(k)')
    BY <2>1, <2>3, LossGrows
  <2>5. QED
    BY <2>2, <2>4 DEF LossStays
<1>3. CASE BrokerDrops
  <2>1. Sends("ONDISCONNECT", TRUE) /\ Grows({"ONDISCONNECT"})
    BY <1>3, ModemSends DEF Sends
  <2>2. Len(sent) + 1 \in DOMAIN sent' /\ Len(sent) \in Nat
        /\ sent'[Len(sent) + 1].of = "ONDISCONNECT"
    BY <2>1 DEF Sends, Grows
  <2>3. QED
    BY <2>2 DEF LossStays, LossIsDue
<1>4. CASE \/ ServerAnswers \/ BrokerMessage \/ BrokerConfirms
           \/ BrokerSubscribes \/ ModemAsksForSignature \/ BrokerAnswers
           \/ UNCHANGED vars
  <2>1. /\ modem'.report = modem.report /\ modem'.attached = modem.attached
        /\ modem.session = "up" => modem'.session = "up"
    <3>1. CASE BrokerAnswers
      BY <1>0, <3>1 DEF BrokerAnswers, Modem
    <3>2. CASE ~BrokerAnswers
      BY <1>0, <1>4, <3>2
      DEF ServerAnswers, BrokerMessage, BrokerConfirms, BrokerSubscribes,
          ModemAsksForSignature, vars, Modem
    <3>3. QED
      BY <3>1, <3>2
  <2>2. \A k \in Nat : k <= Len(sent) => (LossIsDue(k) => LossIsDue(k)')
    BY <1>4, <2>1, OthersGrow, LossGrows
  <2>3. QED
    BY <2>1, <2>2 DEF LossStays
<1>5. QED
  BY <1>1, <1>2, <1>3, <1>4 DEF ModemActs

(* The main program does not end a session unnoticed but by a disconnect.  *)
LEMMA MainLoss ==
  ASSUME TypeOK, SessionReported, Main, pc # "lte_close"
  PROVE  \/ /\ LossIsDue(0) => LossIsDue(0)'
            /\ modem.session = "up" /\ modem'.session # "up" => LossIsDue(0)'
         \/ pc \in {"mqtt_reset", "mqtt_disconnect"}
<1>0. modem \in Modem /\ modem.attached \in BOOLEAN /\ modem.report \in BOOLEAN
  BY DEF TypeOK, Modem
<1>1. CASE Effect /\ RadioOff
  <2>1. modem.attached \/ modem.report =>
          \E i \in 1 .. Len(sent') :
            /\ i > Len(sent) /\ IsDown(sent'[i])
            /\ \A j \in 1 .. Len(sent') : j > i => ~IsReport(sent'[j])
    BY <1>1, RadioOffSends
  <2>2. Grows({"command", "CEREG"})
    BY <1>1, RadioOffSends
  <2>3. modem.attached \/ modem.report => LossIsDue(0)'
    <3>1. SUFFICES ASSUME modem.attached \/ modem.report
                   PROVE  LossIsDue(0)'
      OBVIOUS
    <3>2. PICK i \in 1 .. Len(sent') : i > Len(sent) /\ IsDown(sent'[i])
      BY <2>1, <3>1
    <3>3. i \in DOMAIN sent' /\ i > 0
      BY <2>2, <3>2 DEF Grows
    <3>4. QED
      BY <3>2, <3>3 DEF LossIsDue
  <2>4. modem.session = "up" => modem.attached
    BY DEF SessionReported
  <2>5. LossIsDue(0) /\ ~modem.report => LossIsDue(0)'
    <3>1. 0 \in Nat /\ 0 <= Len(sent)
      BY <2>2 DEF Grows
    <3>2. QED
      BY <2>2, <3>1, LossGrows
  <2>6. QED
    BY <2>3, <2>4, <2>5
<1>2. CASE Effect /\ ~RadioOff
  <2>1. PICK kinds : Grows(kinds)
    BY <1>2, OthersSend, DisconnectSends
  <2>2. 0 \in Nat /\ 0 <= Len(sent)
    BY <2>1 DEF Grows
  <2>3. pc \notin {"lte_radio_off", "lte_detach"}
    BY <1>2 DEF Effect, HttpPoints
  <2>4. \/ /\ modem'.attached = modem.attached
           /\ modem.report => modem'.report
           /\ modem.session = "up" => modem'.session = "up"
        \/ pc \in {"mqtt_reset", "mqtt_disconnect"}
    BY <2>3, MainModem
  <2>5. QED
    BY <2>1, <2>2, <2>4, LossGrows
<1>3. CASE UNCHANGED <<modem, sent>>
  BY <1>3 DEF LossIsDue
<1>4. CASE /\ sent # <<>> /\ Head(sent).of \in {"command", "prompt"}
           /\ sent' = Tail(sent) /\ modem' = modem
  <2>1. Shrinks
    BY <1>4, TailShrinks
  <2>2. LossIsDue(0) => LossIsDue(1)
    BY <1>4, <2>1, LossHead DEF Shrinks, IsDown
  <2>3. LossIsDue(0 + 1) => LossIsDue(0)'
    BY <1>4, <2>1, LossShrinks
  <2>4. QED
    BY <1>4, <2>2, <2>3
<1>5. QED
  BY <1>1, <1>2, <1>3, <1>4, MainSends

(* The points at which the broker's answer is known, to one that accepted. *)
Decided == (Answered /\ history.accepted = TRUE) \/ pc = "mqtt_connected"

LEMMA AcceptedFrame ==
  ASSUME AcceptedOrLost,
         pc' \in Connecting => pc \in Connecting,
         Answered' => Answered, pc' = "mqtt_connected" => pc = "mqtt_connected",
         history'.accepted = history.accepted,
         history.unnoticed => history'.unnoticed,
         \/ modem'.session = modem.session \/ modem'.session = "none"
         \/ modem.session = "signing" /\ modem'.session = "asked",
         AnswersLost => AnswersLost',
         modem.session = "up" /\ modem'.session # "up" => AnswersLost',
         Decided' =>
           /\ LossIsDue(0) => LossIsDue(0)' \/ history'.unnoticed
           /\ modem.session = "up" /\ modem'.session # "up" => LossIsDue(0)',
         (Answered \/ pc = "mqtt_connected")' =>
           (is_connected => is_connected' \/ history'.unnoticed)
  PROVE  AcceptedOrLost'
<1>1. pc' \in Connecting /\ history'.accepted # NULL =>
        modem'.session = "up" \/ modem'.session = "none"
  BY DEF AcceptedOrLost
<1>2. pc' \in Connecting /\ history'.accepted = TRUE /\ modem'.session # "up" =>
        AnswersLost'
  BY DEF AcceptedOrLost
<1>3. Decided' => modem'.session = "up" \/ history'.unnoticed \/ LossIsDue(0)'
  BY DEF AcceptedOrLost, Decided
<1>4. (Answered \/ pc = "mqtt_connected")' =>
        history'.unnoticed \/ is_connected'
  BY DEF AcceptedOrLost
<1>5. QED
  BY <1>1, <1>2, <1>3, <1>4 DEF AcceptedOrLost, Decided

LEMMA AcceptedMain ==
  ASSUME TypeOK, Initialized, SessionReported, AcceptedOrLost, Main
  PROVE  AcceptedOrLost'
<1>0. modem \in Modem /\ history \in History
  BY DEF TypeOK
<1> USE DEF Goto, Step, Command, ResponseTo, Register, WaitForURC, Connecting
<1>1. CASE pc' \notin Connecting /\ pc' # "mqtt_connected"
  BY <1>1 DEF AcceptedOrLost, Answered
<1>2. CASE pc' \in Connecting /\ pc = "mqtt_connect"
  <2>1. pc' # "mqtt_wait" /\ pc' # "mqtt_status" /\ history'.accepted = NULL
    BY <1>0, <1>2, PointsOfBegin
    DEF MqttBegin, MqttConnect, MqttSign, MqttWait, MqttStatus, MqttConnected,
        MqttBeginPoints, History
  <2>2. pc' # "mqtt_connected" /\ NULL # TRUE
    BY <1>2, ConnectionAssumption
  <2>3. QED
    BY <2>1, <2>2 DEF AcceptedOrLost, Answered
<1>3. CASE pc' \in Connecting /\ pc # "mqtt_connect"
  <2>1. MqttConnect \/ MqttSign \/ MqttWait
    BY <1>3, PointsOfBegin
    DEF MqttBegin, MqttStatus, MqttConnected, MqttBeginPoints
  <2>2. /\ pc \in Connecting
        /\ Answered' => Answered
        /\ history'.accepted = history.accepted
        /\ history'.unnoticed = history.unnoticed
        /\ is_connected' = is_connected
    <3>1. pc \in Connecting /\ (Answered' => Answered)
      BY <1>3, <2>1, PointsOfBegin
      DEF MqttConnect, MqttSign, MqttWait, Answered, FlagOfWait
    <3>2. /\ history'.accepted = history.accepted
          /\ history'.unnoticed = history.unnoticed
      BY <1>0, <1>3, <2>1 DEF MqttConnect, MqttSign, MqttWait, History
    <3>3. is_connected' = is_connected
      BY <2>1 DEF MqttConnect, MqttSign, MqttWait, belief
    <3>4. QED
      BY <3>1, <3>2, <3>3
  <2> HIDE DEF Goto, Step, Command, ResponseTo, Register, WaitForURC
  <2>3. /\ \/ modem'.session = modem.session
           \/ modem.session = "signing" /\ modem'.session = "asked"
        /\ modem.session = "up" => modem'.session = "up"
        /\ modem'.report = modem.report /\ modem'.attached = modem.attached
    <3>1. pc \notin {"lte_radio_off", "lte_radio_on", "lte_detach", "lte_close",
                    "mqtt_reset", "mqtt_disconnect", "mqtt_connect"}
      BY <1>3, <2>2
    <3>2. /\ modem'.report = modem.report /\ modem'.attached = modem.attached
          /\ \/ modem'.session = modem.session
             \/ modem.session = "signing" /\ modem'.session = "asked"
      BY <3>1, MainModem
    <3>3. QED
      BY <3>2
  <2>4. /\ LossIsDue(0) => LossIsDue(0)'
        /\ AnswersLost => AnswersLost'
    <3>1. CASE Effect \/ UNCHANGED <<modem, sent>>
      <4>1. \E kinds : Grows(kinds) /\ "ONCONNECT" \notin kinds
        <5>1. Effect => ~RadioOff \/ Grows({"command", "CEREG"})
          BY RadioOffSends
        <5>2. Effect => ~Disconnect \/ Grows({"command", "ONDISCONNECT"})
          BY DisconnectSends
        <5>3. Effect /\ ~RadioOff /\ ~Disconnect => Grows(Quietly)
          BY OthersSend
        <5>4. UNCHANGED <<modem, sent>> => Grows({})
          BY SameGrows
        <5>5. QED
          BY <3>1, <5>1, <5>2, <5>3, <5>4 DEF Quietly
      <4>2. PICK kinds : Grows(kinds) /\ "ONCONNECT" \notin kinds
        BY <4>1
      <4>3. \A k \in Nat : k <= Len(sent) => (LossIsDue(k) => LossIsDue(k)')
        BY <2>3, <4>2, LossGrows
      <4>4. LossStays
        BY <2>3, <4>3 DEF LossStays
      <4>5. 0 \in Nat /\ 0 <= Len(sent)
        BY <4>2 DEF Grows
      <4>6. QED
        BY <4>2, <4>3, <4>4, <4>5, AnswersLostGrows
    <3>2. CASE /\ sent # <<>> /\ Head(sent).of \in {"command", "prompt"}
               /\ sent' = Tail(sent) /\ modem' = modem
      <4>1. Shrinks
        BY <3>2, TailShrinks
      <4>2. LossIsDue(0) => LossIsDue(0 + 1)
        BY <3>2, <4>1, LossHead DEF Shrinks, IsDown
      <4>3. LossIsDue(0 + 1) => LossIsDue(0)'
        BY <3>2, <4>1, LossShrinks
      <4>4. QED
        BY <3>2, <4>1, <4>2, <4>3, AnswersLostShrinks
    <3>3. pc # "lte_close"
      BY <2>2
    <3>4. QED
      BY <3>1, <3>2, <3>3, MainSends
  <2>5. pc' # "mqtt_connected"
    BY <1>3
  <2>6. ~(modem.session = "up" /\ modem'.session # "up")
    BY <2>3
  <2> HIDE DEF Connecting
  <2>7. QED
    BY <2>2, <2>3, <2>4, <2>5, <2>6, AcceptedFrame
<1>4. CASE pc' = "mqtt_connected"
  <2>1. MqttStatus
    BY <1>4, PointsOfBegin
    DEF MqttBegin, MqttConnect, MqttSign, MqttWait, MqttConnected,
        MqttBeginPoints
  <2>2. PICK ok \in Status :
          /\ pc = "mqtt_status" /\ ok
          /\ history' = [history EXCEPT
                           !.unnoticed = @ \/ ok # history.accepted]
    BY <1>4, <2>1 DEF MqttStatus
  <2>3. ok = TRUE
    BY <2>2
  <2>4. /\ UNCHANGED <<modem, sent, is_connected>>
        /\ history'.unnoticed \/ (history.accepted = TRUE /\ ~history.unnoticed)
    BY <1>0, <2>1, <2>2, <2>3 DEF MqttStatus, belief, History
  <2>5. QED
    BY <1>4, <2>2, <2>4 DEF AcceptedOrLost, Answered, LossIsDue
<1>5. QED
  BY <1>1, <1>2, <1>3, <1>4

(* What an interrupt makes of a loss while begin() is about to succeed, or *)
(* has.                                                                    *)
LEMMA LossReceived ==
  ASSUME TypeOK, Registered, ReceiveUrc, LossIsDue(0)
  PROVE  \/ LossIsDue(0)'
         \/ IsDown(sent[1]) \/ sent[1].of = "ONDISCONNECT"
<1>1. Shrinks /\ modem' = modem
  BY TailShrinks DEF ReceiveUrc
<1>2. ~IsDown(sent[1]) /\ sent[1].of # "ONDISCONNECT" => LossIsDue(0 + 1)
  BY <1>1, LossHead
<1>3. LossIsDue(0 + 1) => LossIsDue(0)'
  BY <1>1, LossShrinks
<1>4. QED
  BY <1>2, <1>3

LEMMA ConnectionReceived ==
  ASSUME TypeOK, Registered, ReceiveUrc
  PROVE  /\ sent[1] = Head(sent) /\ sent[1].data \in BOOLEAN
         /\ is_connected /\ ~is_connected' =>
              IsDown(sent[1]) /\ callback["CEREG"] = "connectionStatus"
         /\ IsDown(sent[1]) /\ ~history'.unnoticed =>
              /\ ~(Succeeding /\ pc # "mqtt_return")
              /\ callback["CEREG"] = "connectionStatus"
         /\ sent[1].of = "ONDISCONNECT" /\ ~history'.unnoticed => ~Succeeding
<1>1. /\ sent[1] = Head(sent) /\ sent[1].data \in BOOLEAN
      /\ Head(sent).of \in Urcs /\ is_connected \in BOOLEAN
      /\ history \in History
  BY Got DEF ReceiveUrc, TypeOK
<1>2. callback[Head(sent).of] = "connectionStatus" => Head(sent).of = "CEREG"
  BY <1>1, FunctionAssumption DEF Registered, Urcs, Function
<1>3. is_connected /\ ~is_connected' =>
        IsDown(sent[1]) /\ callback["CEREG"] = "connectionStatus"
  BY <1>1, <1>2 DEF ReceiveUrc, ConnectionStatus, IsLoss, IsDown
<1>4. history'.unnoticed =
        (\/ history.unnoticed
         \/ Head(sent).of = "ONDISCONNECT" /\ Succeeding
         \/ IsDown(Head(sent)) /\ Succeeding /\ pc # "mqtt_return"
         \/ /\ IsDown(Head(sent))
            /\ callback[Head(sent).of] # "connectionStatus")
  BY <1>1 DEF ReceiveUrc, History, IsDown
<1>5. QED
  BY <1>1, <1>2, <1>3, <1>4 DEF IsDown

LEMMA AcceptedReceive ==
  ASSUME TypeOK, Registered, AnswersReported, AcceptedOrLost, ReceiveUrc
  PROVE  AcceptedOrLost'
<1>1. /\ Shrinks /\ modem' = modem /\ pc' = pc /\ after' = after
      /\ history'.accepted = history.accepted
      /\ history.unnoticed => history'.unnoticed
  BY TailShrinks, ReceiveHistory, ReceiveConnected DEF ReceiveUrc
<1>2. AnswersLost => AnswersLost'
  BY <1>1, AnswersLostShrinks
<1>3. CASE Answered' => Answered
  <2>1. (Answered \/ pc = "mqtt_connected")' =>
          Succeeding /\ pc # "mqtt_return"
    BY <1>1, <1>3 DEF Answered, Succeeding
  <2>2. Decided' => (Answered \/ pc = "mqtt_connected")'
    BY DEF Decided
  <2>3. Succeeding /\ pc # "mqtt_return" =>
          /\ LossIsDue(0) => LossIsDue(0)' \/ history'.unnoticed
          /\ is_connected => is_connected' \/ history'.unnoticed
    BY LossReceived, ConnectionReceived
  <2>4. QED
    BY <1>1, <1>2, <1>3, <2>1, <2>2, <2>3, AcceptedFrame
<1>4. CASE Answered' /\ ~Answered
  <2>1. pc = "mqtt_wait" /\ got' # got
    BY <1>1, <1>4 DEF Answered
  <2>2. Head(sent).of = "ONCONNECT" /\ sent[1] = Head(sent)
        /\ 1 \in DOMAIN sent
    BY <2>1, Got
  <2>3. AnswersLost => LossIsDue(0)'
    <3>1. AnswersLost => LossIsDue(0 + 1)
      BY <2>2 DEF AnswersLost
    <3>2. LossIsDue(0 + 1) => LossIsDue(0)'
      BY <1>1, LossShrinks
    <3>3. QED
      BY <3>1, <3>2
  <2>4. Connected(1)
    BY <2>2 DEF AnswersReported
  <2>5. is_connected
    BY <2>1, <2>2, <2>4
    DEF Connected, IsUp, LteRuns, LteBeginPoints, LteEndPoints, MqttEndPoints
  <2>6. is_connected'
    BY <2>2, <2>5, ConnectionReceived DEF IsDown
  <2>7. QED
    BY <1>1, <1>2, <2>1, <2>3, <2>6 DEF AcceptedOrLost, Connecting, Answered
<1>5. QED
  BY <1>3, <1>4

LEMMA AcceptedStep ==
  ASSUME LifeInvariant, SessionReported, AnswersReported, AcceptedOrLost,
         [Next]_vars
  PROVE  AcceptedOrLost'
<1>0. /\ TypeOK /\ Registered /\ Initialized /\ modem \in Modem
      /\ history \in History
  BY DEF LifeInvariant, TypeOK
<1>1. CASE Main
  BY <1>0, <1>1, AcceptedMain
<1>2. CASE ReceiveUrc
  BY <1>0, <1>2, AcceptedReceive
<1>3. CASE Drop
  <2>1. /\ Shrinks /\ UNCHANGED <<main, belief, modem, history>>
        /\ sent[1].of # "CEREG" /\ sent[1].of # "ONDISCONNECT"
    BY <1>0, <1>3, TailShrinks DEF Drop, Shrinks
  <2>2. LossIsDue(0) => LossIsDue(0 + 1)
    BY <2>1, LossHead DEF IsDown
  <2>3. LossIsDue(0 + 1) => LossIsDue(0)'
    BY <2>1, LossShrinks
  <2>4. AnswersLost => AnswersLost'
    BY <2>1, AnswersLostShrinks
  <2>5. UNCHANGED <<pc, got, is_connected>>
    BY <2>1 DEF main, belief
  <2>6. QED
    BY <2>1, <2>2, <2>3, <2>4, <2>5, AcceptedFrame DEF Answered
<1>4. CASE ModemActs \/ UNCHANGED vars
  <2>1. /\ UNCHANGED <<pc, got, is_connected>>
        /\ history'.unnoticed = history.unnoticed
    BY <1>0, <1>4, Outside DEF main, belief
  <2>2. LossStays
    BY <1>0, <1>4, ModemLoss
  <2>3. CASE BrokerAnswers
    <3>1. PICK ok \in BOOLEAN :
            /\ Sends("ONCONNECT", ok)
            /\ modem' = [modem EXCEPT !.session = IF ok THEN "up" ELSE "none"]
            /\ history' = [history EXCEPT !.accepted = ok]
      BY <1>0, <2>3, ModemSends
    <3>2. /\ modem'.session = (IF ok THEN "up" ELSE "none")
          /\ history'.accepted = ok /\ modem.session # "up"
          /\ modem.session # "none"
      BY <1>0, <2>3, <3>1 DEF BrokerAnswers, Modem, History
    <3>3. 0 \in Nat /\ 0 <= Len(sent)
      BY <3>1 DEF Sends, Grows
    <3>4. LossIsDue(0) => LossIsDue(0)'
      BY <2>2, <3>3 DEF LossStays
    <3>5. pc \in Connecting => history.accepted = NULL
      BY <3>2 DEF AcceptedOrLost
    <3>6. pc' = "mqtt_connected" =>
            modem'.session = "up" \/ history'.unnoticed \/ LossIsDue(0)'
      BY <2>1, <3>2, <3>4 DEF AcceptedOrLost
    <3>7. Answered' /\ history'.accepted = TRUE => modem'.session = "up"
      BY <3>2
    <3>8. QED
      BY <2>1, <3>2, <3>6, <3>7 DEF AcceptedOrLost, Answered
  <2>4. CASE ~BrokerAnswers
    <3>1. \E kinds : Grows(kinds) /\ "ONCONNECT" \notin kinds
      <4>1. CASE Report
        BY <1>0, <4>1, ModemSends DEF Sends
      <4>2. CASE ModemAsksForSignature
        BY <1>0, <4>2, ModemSends DEF Sends
      <4>3. CASE UNCHANGED vars
        <5>1. Grows({})
          BY <1>0, <4>3, SameGrows DEF vars
        <5>2. QED
          BY <5>1
      <4>4. CASE ~Report /\ ~ModemAsksForSignature /\ ~UNCHANGED vars
        <5>1. Grows({"CEREG", "ONDISCONNECT", "ONMESSAGE", "ONPUBLISH",
                     "ONSUBSCRIBE", "HTTPRING", "HTTPSH"})
          BY <1>0, <1>4, <2>4, <4>4, ModemGrows DEF ModemActs
        <5>2. QED
          BY <5>1
      <4>5. QED
        BY <4>1, <4>2, <4>3, <4>4
    <3>2. PICK kinds : Grows(kinds) /\ "ONCONNECT" \notin kinds
      BY <3>1
    <3>3. /\ history'.accepted = history.accepted
          /\ \/ modem'.session = modem.session \/ modem'.session = "none"
             \/ modem.session = "handshake" /\ modem'.session = "signing"
      <4>1. CASE ModemAsksForSignature
        BY <1>0, <4>1 DEF ModemAsksForSignature, Modem, History
      <4>2. CASE UNCHANGED vars
        BY <4>2 DEF vars
      <4>3. CASE ~ModemAsksForSignature /\ ~UNCHANGED vars
        BY <1>0, <1>4, <2>4, <4>3, ModemGrows DEF ModemActs
      <4>4. QED
        BY <4>1, <4>2, <4>3
    <3>4. /\ AnswersLost => AnswersLost'
          /\ modem.session = "up" /\ modem'.session # "up" => AnswersLost'
      BY <2>2, <3>2, AnswersLostGrows
    <3>5. /\ LossIsDue(0) => LossIsDue(0)'
          /\ modem.session = "up" /\ modem'.session # "up" => LossIsDue(0)'
      BY <2>2, <3>2 DEF LossStays, Grows
    <3>6. CASE modem.session = "handshake" /\ modem'.session = "signing"
      BY <2>1, <3>3, <3>4, <3>5, <3>6 DEF AcceptedOrLost, Answered, Connecting
    <3>7. CASE modem'.session = modem.session \/ modem'.session = "none"
      BY <2>1, <3>3, <3>4, <3>5, <3>7, AcceptedFrame DEF Answered
    <3>8. QED
      BY <3>3, <3>6, <3>7
  <2>5. QED
    BY <2>3, <2>4
<1>5. QED
  BY <1>1, <1>2, <1>3, <1>4 DEF Next

(* Only MqttClient.end() and connectionStatus() take the registration for  *)
(* the disconnect URC away.                                                *)
LEMMA MainRegistered ==
  ASSUME TypeOK, Initialized, Main
  PROVE  /\ pc' \notin Unregistered =>
              /\ pc \notin Unregistered \/ MqttEnded
              /\ \/ callback'["ONDISCONNECT"] = callback["ONDISCONNECT"]
                 \/ callback'["ONDISCONNECT"] = "internalDisconnect"
         /\ pc = "mqtt_return" =>
              callback'["ONDISCONNECT"] = "internalDisconnect"
<1>0. callback \in [Urcs -> Callbacks]
  BY DEF TypeOK
<1> USE DEF Goto, Step, Command, ResponseTo, Prompted, Register, WaitForURC,
            Urcs, Unregistered, MqttEndPoints
<1>1. CASE LteActs
  BY <1>0, <1>1
  DEF LteActs, LteBegin, LteRadio, LteFirstReport, LteConnect, LteEnd,
      LteDetach, LteDetaching, LteClose
<1>2. CASE MqttBegin \/ MqttConnect \/ MqttSign \/ MqttWait
  BY <1>0, <1>2 DEF MqttBegin, MqttConnect, MqttSign, MqttWait
<1>3. CASE MqttStatus \/ MqttConnected \/ MqttReturn \/ OnReceive
  BY <1>0, <1>3 DEF MqttStatus, MqttConnected, MqttReturn, OnReceive
<1>4. CASE MqttEnd \/ MqttDisconnect \/ MqttEnded
  BY <1>0, <1>4 DEF MqttEnd, MqttDisconnect, MqttEnded
<1>5. CASE PublishActs
  BY <1>0, <1>5
  DEF PublishActs, Publish, PublishMessage, PublishWait, Subscribe,
      SubscribeWait
<1>6. CASE HttpActs
  BY <1>0, <1>6 DEF HttpActs, HttpRequest, HttpSend, HttpRegister, HttpWait
<1>7. QED
  BY <1>1, <1>2, <1>3, <1>4, <1>5, <1>6
  DEF Main, LteActs, PublishActs, HttpActs

LEMMA BeliefMain ==
  ASSUME LifeInvariant, SessionReported, AcceptedOrLost, GivenUp,
         BeliefOrLost, Main
  PROVE  BeliefOrLost'
<1>0. /\ TypeOK /\ Initialized /\ Ended /\ history \in History
      /\ connected_to_broker \in BOOLEAN
  BY DEF LifeInvariant, TypeOK
<1>1. CASE MqttConnected
  <2>1. /\ pc = "mqtt_connected" /\ pc' = "mqtt_return"
        /\ UNCHANGED <<modem, sent, history, is_connected>>
    BY <1>1 DEF MqttConnected, Goto
  <2>2. /\ modem.session = "up" \/ history.unnoticed \/ LossIsDue(0)
        /\ history.unnoticed \/ is_connected
    BY <2>1 DEF AcceptedOrLost
  <2>3. LossIsDue(0) => LossIsDue(0)'
    BY <2>1 DEF LossIsDue
  <2>4. QED
    BY <2>1, <2>2, <2>3 DEF BeliefOrLost
<1>2. CASE connected_to_broker' = FALSE
  BY <1>2 DEF BeliefOrLost
<1>3. CASE /\ ~MqttConnected
           /\ connected_to_broker' /\ ~history'.unnoticed
  <2>1. /\ connected_to_broker
        /\ history'.unnoticed = history.unnoticed \/ MqttStatus
        /\ pc' \in MqttBeginPoints => pc \in MqttBeginPoints \ {"mqtt_return"}
    BY <1>0, <1>3, MainConnected
  <2>2. /\ pc \notin MqttBeginPoints \ {"mqtt_return"}
        /\ ~history.unnoticed /\ pc # "lte_close"
    <3>1. pc \notin MqttBeginPoints \ {"mqtt_return"}
      BY <2>1 DEF GivenUp
    <3>2. ~MqttStatus
      BY <3>1 DEF MqttStatus, Goto, MqttBeginPoints
    <3>3. pc # "lte_close"
      BY <1>0, <2>1 DEF Ended, DetachPoints
    <3>4. QED
      BY <1>3, <2>1, <3>1, <3>2, <3>3
  <2>3. /\ is_connected
        /\ pc \notin Unregistered =>
             /\ modem.session = "up" \/ LossIsDue(0)
             /\ pc = "mqtt_return"
                  \/ callback["ONDISCONNECT"] = "internalDisconnect"
    BY <2>1, <2>2 DEF BeliefOrLost
  <2>4. is_connected'
    BY <1>0, <2>2, <2>3, MainBelief
  <2>5. ~MqttEnded
    BY <1>3 DEF MqttEnded
  <2>6. ASSUME pc' \notin Unregistered
        PROVE  /\ modem'.session = "up" \/ LossIsDue(0)'
               /\ callback'["ONDISCONNECT"] = "internalDisconnect"
    <3>1. /\ pc \notin Unregistered
          /\ \/ callback'["ONDISCONNECT"] = callback["ONDISCONNECT"]
             \/ callback'["ONDISCONNECT"] = "internalDisconnect"
          /\ pc = "mqtt_return" =>
               callback'["ONDISCONNECT"] = "internalDisconnect"
      BY <1>0, <2>5, <2>6, MainRegistered
    <3>2. pc # "mqtt_reset" /\ pc # "mqtt_disconnect"
      BY <2>2, <3>1 DEF MqttBeginPoints, Unregistered, MqttEndPoints
    <3>3. /\ LossIsDue(0) => LossIsDue(0)'
          /\ modem.session = "up" /\ modem'.session # "up" => LossIsDue(0)'
      BY <1>0, <2>2, <3>2, MainLoss
    <3>4. QED
      BY <2>3, <3>1, <3>3
  <2>7. QED
    BY <2>4, <2>6 DEF BeliefOrLost
<1>4. QED
  BY <1>0, <1>1, <1>2, <1>3 DEF BeliefOrLost

LEMMA BeliefReceive ==
  ASSUME LifeInvariant, BeliefOrLost, ReceiveUrc
  PROVE  BeliefOrLost'
<1>0. TypeOK /\ Registered /\ connected_to_broker \in BOOLEAN
  BY DEF LifeInvariant, TypeOK
<1>1. SUFFICES ASSUME connected_to_broker', ~history'.unnoticed
               PROVE  /\ is_connected'
                      /\ pc \notin Unregistered =>
                           /\ modem.session = "up" \/ LossIsDue(0)'
                           /\ pc = "mqtt_return"
                                \/ callback'["ONDISCONNECT"] =
                                     "internalDisconnect"
  BY ReceiveHistory DEF BeliefOrLost, LifeInvariant
<1>2. /\ is_connected
      /\ pc \notin Unregistered =>
           /\ modem.session = "up" \/ LossIsDue(0)
           /\ pc = "mqtt_return"
                \/ callback["ONDISCONNECT"] = "internalDisconnect"
  BY <1>0, <1>1, ReceiveConnected DEF BeliefOrLost
<1>3. /\ sent[1] = Head(sent) /\ Head(sent).data \in BOOLEAN
      /\ is_connected \in BOOLEAN
  BY <1>0, Got DEF TypeOK
<1>4. ~IsDown(sent[1])
  <2>1. SUFFICES ASSUME IsDown(sent[1])
                 PROVE  FALSE
    OBVIOUS
  <2>2. callback["CEREG"] = "connectionStatus"
    BY <1>0, <1>1, <2>1, ConnectionReceived
  <2>3. connected_to_broker' = FALSE
    BY <1>2, <1>3, <2>1, <2>2
    DEF ReceiveUrc, ConnectionStatus, IsLoss, IsDown
  <2>4. QED
    BY <1>1, <2>3
<1>5. is_connected'
  BY <1>0, <1>2, <1>4, ConnectionReceived
<1>6. callback' = callback
  <2>1. callback[Head(sent).of] = "connectionStatus" =>
          Head(sent).of = "CEREG"
    BY <1>0, FunctionAssumption DEF ReceiveUrc, Registered, Urcs, Function
  <2>2. CASE callback[Head(sent).of] = "connectionStatus"
    BY <1>3, <1>4, <2>1, <2>2
    DEF ReceiveUrc, ConnectionStatus, IsLoss, IsDown
  <2>3. CASE callback[Head(sent).of] # "connectionStatus"
    BY <2>3 DEF ReceiveUrc
  <2>4. QED
    BY <2>2, <2>3
<1>7. ASSUME pc \notin Unregistered
      PROVE  sent[1].of # "ONDISCONNECT"
  <2>1. SUFFICES ASSUME sent[1].of = "ONDISCONNECT"
                 PROVE  FALSE
    OBVIOUS
  <2>2. pc # "mqtt_return"
    BY <1>0, <1>1, <2>1, ConnectionReceived DEF Succeeding
  <2>3. callback["ONDISCONNECT"] = "internalDisconnect"
    BY <1>2, <1>7, <2>2
  <2>4. connected_to_broker' = FALSE
    BY <1>0, <1>3, <2>1, <2>3 DEF ReceiveUrc
  <2>5. QED
    BY <1>1, <2>4
<1>8. pc \notin Unregistered /\ LossIsDue(0) => LossIsDue(0)'
  BY <1>0, <1>4, <1>7, LossReceived
<1>9. QED
  BY <1>2, <1>5, <1>6, <1>8

LEMMA BeliefStep ==
  ASSUME LifeInvariant, SessionReported, AcceptedOrLost, GivenUp,
         BeliefOrLost, [Next]_vars
  PROVE  BeliefOrLost'
<1>0. TypeOK
  BY DEF LifeInvariant
<1>1. CASE Main
  BY <1>1, BeliefMain
<1>2. CASE ReceiveUrc
  BY <1>2, BeliefReceive
<1>3. CASE Drop
  <2>1. /\ Shrinks /\ UNCHANGED <<main, belief, modem, history>>
        /\ sent[1].of # "CEREG" /\ sent[1].of # "ONDISCONNECT"
    BY <1>0, <1>3, TailShrinks DEF Drop, Shrinks
  <2>2. LossIsDue(0) => LossIsDue(0 + 1)
    BY <2>1, LossHead DEF IsDown
  <2>3. LossIsDue(0 + 1) => LossIsDue(0)'
    BY <2>1, LossShrinks
  <2>4. UNCHANGED <<pc, callback, is_connected, connected_to_broker>>
    BY <2>1 DEF main, belief
  <2>5. QED
    BY <2>1, <2>2, <2>3, <2>4 DEF BeliefOrLost
<1>4. CASE ModemActs \/ UNCHANGED vars
  <2>1. /\ UNCHANGED <<pc, callback, is_connected, connected_to_broker>>
        /\ history'.unnoticed = history.unnoticed
    BY <1>0, <1>4, Outside DEF main, belief
  <2>2. LossStays
    BY <1>0, <1>4, ModemLoss
  <2>3. 0 \in Nat /\ 0 <= Len(sent)
    BY <1>0, LenProperties DEF TypeOK
  <2>4. /\ LossIsDue(0) => LossIsDue(0)'
        /\ modem.session = "up" /\ modem'.session # "up" => LossIsDue(0)'
    BY <2>2, <2>3 DEF LossStays
  <2>5. QED
    BY <2>1, <2>4 DEF BeliefOrLost
<1>5. QED
  BY <1>1, <1>2, <1>3, <1>4 DEF Next

(* MqttClient.isConnected() only while there is a session, unless its loss *)
(* could not be noticed: whatever is on its way, and wherever the main     *)
(* program is when it is received.                                         *)
THEOREM BrokerBeliefTheorem == Spec => []BrokerBelief
<1>1. Init => NetworkKnown /\ BrokerInvariant
  <2>1. SUFFICES ASSUME Init
                 PROVE  NetworkKnown /\ BrokerInvariant
    OBVIOUS
  <2>2. NetworkKnown
    <3>1. sent = <<>> /\ is_connected = FALSE /\ modem.attached = FALSE
      BY <2>1 DEF Init, ModemOff
    <3>2. DOMAIN sent = {}
      BY <3>1
    <3>3. QED
      BY <3>1, <3>2 DEF NetworkKnown
  <2>3. SessionReported /\ AnswersReported /\ AcceptedOrLost /\ BeliefOrLost
    BY <2>1 DEF Init, SessionReported, AnswersReported, AcceptedOrLost,
                BeliefOrLost, ModemOff, Connecting, Answered
  <2>4. GivenUp
    BY <2>1 DEF Init, GivenUp, ModemOff, MqttBeginPoints, OnItsWay
  <2>5. QED
    BY <2>2, <2>3, <2>4 DEF BrokerInvariant
<1>2. LifeInvariant /\ NetworkKnown /\ BrokerInvariant /\ [Next]_vars
        => (NetworkKnown /\ BrokerInvariant)'
  <2>1. SUFFICES ASSUME LifeInvariant, NetworkKnown, BrokerInvariant,
                        [Next]_vars
                 PROVE  NetworkKnown' /\ BrokerInvariant'
    OBVIOUS
  <2>2. NetworkKnown'
    BY <2>1, NetworkKnownStep
  <2>3. SessionReported' /\ AnswersReported'
    BY <2>1, ReportedStep DEF BrokerInvariant
  <2>4. AcceptedOrLost' /\ BeliefOrLost'
    BY <2>1, AcceptedStep, BeliefStep DEF BrokerInvariant
  <2>5. GivenUp'
    BY <2>1, GivenUpStep DEF BrokerInvariant
  <2>6. QED
    BY <2>2, <2>3, <2>4, <2>5 DEF BrokerInvariant
<1>3. LifeInvariant /\ BrokerInvariant => BrokerBelief
  <2>1. SUFFICES ASSUME LifeInvariant, BrokerInvariant, Quiet,
                        connected_to_broker, ~history.unnoticed
                 PROVE  modem.session = "up"
    BY DEF BrokerBelief
  <2>2. pc = "idle" /\ sent = <<>> /\ ~modem.report
    BY <2>1 DEF Quiet
  <2>3. ~LossIsDue(0)
    BY <2>2 DEF LossIsDue
  <2>4. QED
    BY <2>1, <2>2, <2>3
    DEF BrokerInvariant, BeliefOrLost, Unregistered, MqttEndPoints
<1>4. QED
  BY <1>1, <1>2, <1>3, LifeCorrect, PTL DEF Spec
=============================================================================
