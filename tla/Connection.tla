----------------------------- MODULE Connection -----------------------------
(***************************************************************************)
(* Lte, MqttClient and HttpClient: begin() and end() of the first two,     *)
(* publish(), subscribe() and HTTP requests (lte.cpp, mqtt_client.cpp,     *)
(* http_client.cpp) as the main program runs them, the URC callbacks they  *)
(* register, as the receive interrupt calls them between any two steps,    *)
(* and the modem, which attaches to the network and loses it, accepts,     *)
(* refuses and drops the session with the broker, and answers requests, as *)
(* it likes.                                                               *)
(*                                                                         *)
(* What the modem sends is a FIFO of responses to commands and of URCs.  A *)
(* URC is taken out of it by the interrupt; whoever is registered for it   *)
(* then gets it, or nobody.  A command may get lost, and its response may  *)
(* come after the main program has stopped waiting for it.  The retries of *)
(* a command are in CommandResponse, the table of callbacks is in          *)
(* UrcTable; here a command is sent once and registration is one step.     *)
(***************************************************************************)
EXTENDS Naturals, Sequences

CONSTANTS
  MaxSent,      \* the modem sends nothing while that much is on its way
  Message,      \* what internalOnReceiveCallback() leaves in urc_buffer
  NULL

ASSUME ConnectionAssumption ==
  /\ MaxSent \in Nat \ {0}
  /\ NULL \notin BOOLEAN /\ Message \notin BOOLEAN /\ Message # NULL

Function == {"wait", "connectionStatus", "internalDisconnect", "onReceive",
             "httpShutdown"}
ASSUME FunctionAssumption == NULL \notin Function

VARIABLES
  pc,                   \* what the main program does next
  after,                \* where MqttClient.end() returns to
  initialized,          \* of the controller
  callback,             \* URC -> who is registered for it
  got,                  \* what waitForURC() was given, or NULL
  is_connected,         \* of Lte
  connected_to_broker,  \* of MqttClient
  urc_buffer,           \* of MqttClient: a status, Message or NULL
  got_shutdown_callback,    \* of HttpClient
  http_response,            \* what the HTTP request will return
  modem,
  sent,                 \* what the modem has sent and nobody has received
  history               \* read by properties only

http == <<got_shutdown_callback, http_response>>
main == <<pc, after, initialized, callback, got, urc_buffer, http>>
belief == <<is_connected, connected_to_broker>>
vars == <<main, belief, modem, sent, history>>

Urcs == {"CEREG", "HCESIGN", "ONCONNECT", "ONDISCONNECT", "ONMESSAGE",
         "ONPUBLISH", "ONSUBSCRIBE", "HTTPRING", "HTTPSH"}
Callbacks == Function \union {NULL}
Sent == [of : Urcs \union {"command", "prompt"}, data : BOOLEAN]

Modem ==
  [radio : BOOLEAN,         \* CFUN=1
   attached : BOOLEAN,      \* registered with the network
   report : BOOLEAN,        \* it has a +CEREG to send
   \* with the broker; with the secure element there is a TLS handshake
   \* first, in which the modem has a signature to ask for or waits for it
   session : {"none", "handshake", "signing", "asked", "up"},
   publishing : BOOLEAN,    \* a message was published, not confirmed
   subscribing : BOOLEAN,   \* a subscription was asked for, not confirmed
   requested : BOOLEAN]     \* an HTTP request was made, not answered

History ==
  [missed : BOOLEAN,        \* the last +CEREG was not for connectionStatus()
   accepted : BOOLEAN \union {NULL},    \* the answer to the last CONNECT
   signing : BOOLEAN,       \* it has asked for a signature since then
   untimely : BOOLEAN,      \* a response came, or may come, too late
   overwritten : BOOLEAN,   \* a message got into urc_buffer after the status
   unnoticed : BOOLEAN,     \* MqttClient.begin() succeeded wrongly, or the
                            \* session was lost while it did so
   confirmed : BOOLEAN,     \* what is being published, subscribed to or
                            \* requested was answered with success
   shut : BOOLEAN,          \* the request was shut down with an error
   owing : BOOLEAN]         \* when it began, that was due to an earlier one

(* What HttpResponse says: a status code other than 0, an error code.      *)
HttpResponse == [status : BOOLEAN, error : BOOLEAN]
NoResponse == [status |-> FALSE, error |-> FALSE]

LteBeginPoints ==
  {"lte_radio_off", "lte_radio_off_response", "lte_radio_on",
   "lte_radio_on_response", "lte_wait_register", "lte_wait", "lte_register",
   "lte_connecting"}
LteEndPoints ==
  {"lte_end", "lte_detach", "lte_detach_response", "lte_detaching",
   "lte_close"}
MqttBeginPoints ==
  {"mqtt_reset", "mqtt_reset_response", "mqtt_connect",
   "mqtt_connect_response", "mqtt_connect_response_ecc", "mqtt_sign_register",
   "mqtt_sign_wait", "mqtt_sign", "mqtt_wait_register", "mqtt_wait",
   "mqtt_status", "mqtt_connected", "mqtt_return"}
PublishPoints ==
  {"publish", "publish_prompt", "publish_payload", "publish_wait_register",
   "publish_wait", "published"}
SubscribePoints ==
  {"subscribe", "subscribe_response", "subscribe_wait_register",
   "subscribe_wait", "subscribed"}
HttpPoints ==
  {"http_at", "http_at_response", "http_request", "http_request_response",
   "http_prompt", "http_payload", "http_register", "http_wait_register",
   "http_wait", "http_shutdown", "http_unregister", "http_done"}
MqttEndPoints ==
  {"mqtt_end", "mqtt_disconnect", "mqtt_disconnect_response", "mqtt_ended"}

TypeOK ==
  /\ pc \in {"idle"} \union LteBeginPoints \union LteEndPoints
        \union MqttBeginPoints \union PublishPoints \union MqttEndPoints
        \union SubscribePoints \union HttpPoints
  /\ after \in {"idle", "lte_detach"}
  /\ initialized \in BOOLEAN
  /\ callback \in [Urcs -> Callbacks]
  /\ got \in BOOLEAN \union {NULL}
  /\ is_connected \in BOOLEAN /\ connected_to_broker \in BOOLEAN
  /\ urc_buffer \in BOOLEAN \union {Message, NULL}
  /\ got_shutdown_callback \in BOOLEAN /\ http_response \in HttpResponse
  /\ modem \in Modem
  /\ sent \in Seq(Sent)
  /\ history \in History

ModemOff == [radio |-> FALSE, attached |-> FALSE, report |-> FALSE,
             session |-> "none", publishing |-> FALSE,
             subscribing |-> FALSE, requested |-> FALSE]

Lost(m) == [m EXCEPT !.session = "none", !.publishing = FALSE,
                     !.subscribing = FALSE]

Init ==
  /\ pc = "idle" /\ after = "idle" /\ initialized = FALSE
  /\ callback = [u \in Urcs |-> NULL] /\ got = NULL
  /\ is_connected = FALSE /\ connected_to_broker = FALSE /\ urc_buffer = NULL
  /\ got_shutdown_callback = FALSE /\ http_response = NoResponse
  /\ modem = ModemOff /\ sent = <<>>
  /\ history = [missed |-> FALSE, accepted |-> NULL, signing |-> FALSE,
                untimely |-> FALSE, overwritten |-> FALSE, unnoticed |-> FALSE,
                confirmed |-> FALSE, shut |-> FALSE, owing |-> FALSE]
-----------------------------------------------------------------------------
(* The modem.  It reports each change of its registration, and what rests  *)
(* on it only after that.                                                  *)
Urc(id, data) == [of |-> id, data |-> data]
Response(ok) == [of |-> "command", data |-> ok]
HasRoom == Len(sent) < MaxSent
Send(messages) == HasRoom /\ sent' = sent \o messages
OnItsWay(of) == \E i \in DOMAIN sent : sent[i].of = of

(* With the network the session is lost, of which the modem says nothing   *)
(* (lte.cpp:67).                                                           *)
Network ==
  /\ ~modem.report
  /\ \/ /\ modem.radio /\ ~modem.attached
        /\ modem' = [modem EXCEPT !.attached = TRUE, !.report = TRUE]
     \/ /\ modem.attached
        /\ modem' = Lost([modem EXCEPT !.attached = FALSE, !.report = TRUE])
  /\ UNCHANGED <<main, belief, sent, history>>

Report ==
  /\ modem.report
  /\ Send(<<Urc("CEREG", modem.attached)>>)
  /\ modem' = [modem EXCEPT !.report = FALSE]
  /\ UNCHANGED <<main, belief, history>>

ModemAsksForSignature ==
  /\ modem.session = "handshake"
  /\ Send(<<Urc("HCESIGN", TRUE)>>)
  /\ modem' = [modem EXCEPT !.session = "signing"]
  /\ history' = [history EXCEPT !.signing = ~OnItsWay("HCESIGN")]
  /\ UNCHANGED <<main, belief>>

BrokerAnswers ==
  /\ modem.session \in {"handshake", "signing", "asked"}
  /\ \E ok \in IF modem.session = "asked" THEN BOOLEAN ELSE {FALSE} :
       /\ Send(<<Urc("ONCONNECT", ok)>>)
       /\ modem' = [modem EXCEPT !.session = IF ok THEN "up" ELSE "none"]
       /\ history' = [history EXCEPT !.accepted = ok]
  /\ UNCHANGED <<main, belief>>

BrokerDrops ==
  /\ modem.session = "up"
  /\ Send(<<Urc("ONDISCONNECT", TRUE)>>)
  /\ modem' = Lost(modem)
  /\ UNCHANGED <<main, belief, history>>

BrokerMessage ==
  /\ modem.session = "up"
  /\ Send(<<Urc("ONMESSAGE", TRUE)>>)
  /\ UNCHANGED <<main, belief, modem, history>>

BrokerConfirms ==
  /\ modem.publishing
  /\ \E ok \in BOOLEAN :
       /\ Send(<<Urc("ONPUBLISH", ok)>>)
       /\ history' = [history EXCEPT
                        !.confirmed = IF pc \in SubscribePoints THEN @
                                      ELSE ok]
  /\ modem' = [modem EXCEPT !.publishing = FALSE]
  /\ UNCHANGED <<main, belief>>

BrokerSubscribes ==
  /\ modem.subscribing
  /\ \E ok \in BOOLEAN :
       /\ Send(<<Urc("ONSUBSCRIBE", ok)>>)
       /\ history' = [history EXCEPT
                        !.confirmed = IF pc \in PublishPoints THEN @ ELSE ok]
  /\ modem' = [modem EXCEPT !.subscribing = FALSE]
  /\ UNCHANGED <<main, belief>>

(* A request is answered with a status, or fails: then the status is 0,    *)
(* and the connection may be reported as shut down, before that or after.  *)
ServerAnswers ==
  /\ modem.requested
  /\ modem' = [modem EXCEPT !.requested = FALSE]
  /\ \/ /\ Send(<<Urc("HTTPRING", TRUE)>>)
        /\ history' = [history EXCEPT !.confirmed = TRUE]
     \/ /\ Send(<<Urc("HTTPRING", FALSE)>>)
        /\ UNCHANGED history
     \/ /\ \/ Send(<<Urc("HTTPRING", FALSE), Urc("HTTPSH", TRUE)>>)
           \/ Send(<<Urc("HTTPSH", TRUE), Urc("HTTPRING", FALSE)>>)
        /\ history' = [history EXCEPT !.shut = TRUE]
  /\ UNCHANGED <<main, belief>>

ModemActs == \/ Network \/ Report \/ ServerAnswers
             \/ ModemAsksForSignature
             \/ BrokerAnswers \/ BrokerDrops \/ BrokerMessage
             \/ BrokerConfirms \/ BrokerSubscribes

(* What commands make of the modem: AT+CFUN=0 and 1, ...                   *)
RadioOff ==
  /\ modem' = ModemOff
  /\ IF modem.attached \/ modem.report
     THEN \/ Send(<<Response(TRUE), Urc("CEREG", FALSE)>>)
          \/ Send(<<Urc("CEREG", FALSE), Response(TRUE)>>)
     ELSE Send(<<Response(TRUE)>>)

RadioOn ==
  /\ modem' = [modem EXCEPT !.radio = TRUE, !.report = TRUE]
  /\ Send(<<Response(TRUE)>>)

(* ... the disconnect, which may be reported as one, the connect, and the  *)
(* signature, whose OK nobody reads, ...                                   *)
Disconnect ==
  /\ modem' = Lost(modem)
  /\ IF modem.session = "up"
     THEN \/ Send(<<Response(TRUE)>>)
          \/ Send(<<Response(TRUE), Urc("ONDISCONNECT", TRUE)>>)
     ELSE Send(<<Response(FALSE)>>)

Connect(session) ==
  \/ /\ modem.attached /\ ~modem.report /\ modem.session = "none"
     /\ modem' = [modem EXCEPT !.session = session]
     /\ Send(<<Response(TRUE)>>)
  \/ Send(<<Response(FALSE)>>) /\ UNCHANGED modem

Signature ==
  /\ modem' = [modem EXCEPT !.session = IF @ = "signing" THEN "asked" ELSE @]
  /\ Send(<<Response(modem.session = "signing")>>)

(* ... the publication of a message, which is asked for with a '>', ...    *)
Prompt ==
  /\ modem.session = "up"
  /\ Send(<<[of |-> "prompt", data |-> TRUE]>>)
  /\ UNCHANGED modem

Payload ==
  /\ modem.session = "up" /\ ~modem.publishing
  /\ modem' = [modem EXCEPT !.publishing = TRUE]
  /\ UNCHANGED sent

(* ... a subscription, ...                                                 *)
Subscription ==
  \/ /\ modem.session = "up" /\ ~modem.subscribing
     /\ modem' = [modem EXCEPT !.subscribing = TRUE]
     /\ Send(<<Response(TRUE)>>)
  \/ Send(<<Response(FALSE)>>) /\ UNCHANGED modem

(* ... and AT and an HTTP request, without data and with.                  *)
Attention == Send(<<Response(TRUE)>>) /\ UNCHANGED modem

Request ==
  /\ ~modem.requested
  /\ modem' = [modem EXCEPT !.requested = TRUE]

Query ==
  \/ Request /\ Send(<<Response(TRUE)>>)
  \/ Send(<<Response(FALSE)>>) /\ UNCHANGED modem

HttpPrompt ==
  Send(<<[of |-> "prompt", data |-> TRUE]>>) /\ UNCHANGED modem
HttpPayload == Request /\ UNCHANGED sent
-----------------------------------------------------------------------------
(* The receive interrupt.                                                  *)

(* Mutant: a loss matters only to a client that is connected.              *)
IsLoss_OfBroker(registered) ==
  ~registered /\ is_connected /\ connected_to_broker
IsLoss(registered) == ~registered /\ is_connected

(* connectionStatus() clears is_connected before it calls MqttClient.end(), *)
(* which therefore sends no command in the interrupt.                      *)
ConnectionStatus(registered) ==
  IF IsLoss(registered)
  THEN /\ is_connected' = FALSE
       /\ callback' = [callback EXCEPT !["ONMESSAGE"] = NULL,
                                       !["ONDISCONNECT"] = NULL]
       /\ connected_to_broker' = FALSE
  ELSE /\ is_connected' = (is_connected \/ registered)
       /\ UNCHANGED <<callback, connected_to_broker>>

(* The points of MqttClient.begin() between the arrival of the URC that    *)
(* says that the broker accepted and the registration for the URC that     *)
(* says that the connection was lost.                                      *)
Succeeding ==
  \/ pc = "mqtt_wait" /\ got # NULL
  \/ pc \in {"mqtt_status", "mqtt_connected", "mqtt_return"}

(* A URC is complete and its callback, if any, called.                     *)
ReceiveUrc ==
  /\ sent # <<>> /\ Head(sent).of \in Urcs
  /\ sent' = Tail(sent)
  /\ LET urc == Head(sent).of
         data == Head(sent).data
         to == callback[urc]
         loss == urc = "CEREG" /\ ~data
     IN
     /\ IF to = "connectionStatus"
        THEN ConnectionStatus(data)
        ELSE /\ connected_to_broker' = (connected_to_broker
                                          /\ to # "internalDisconnect")
             /\ UNCHANGED <<is_connected, callback>>
     /\ got' = IF to = "wait" THEN data ELSE got
     /\ urc_buffer' = IF to = "onReceive" THEN Message ELSE urc_buffer
     /\ got_shutdown_callback' = (got_shutdown_callback
                                    \/ to = "httpShutdown")
     /\ history' =
          [history EXCEPT
             !.missed = IF urc = "CEREG" THEN to # "connectionStatus" ELSE @,
             !.overwritten = @ \/ to = "onReceive",
             !.unnoticed = @ \/ (urc = "ONDISCONNECT" /\ Succeeding)
                             \/ (loss /\ Succeeding /\ pc # "mqtt_return")
                             \/ (loss /\ to # "connectionStatus")]
  /\ UNCHANGED <<pc, after, initialized, http_response, modem>>

(* Something nobody waits for is dropped by the next clearReceiveBuffer(), *)
(* or passed over by waitForByte().                                        *)
Awaiting == pc \in {"lte_radio_off_response", "lte_radio_on_response",
                    "lte_detach_response", "mqtt_reset_response",
                    "mqtt_connect_response", "mqtt_connect_response_ecc",
                    "mqtt_disconnect_response", "subscribe_response",
                    "http_at_response", "http_request_response"}

Drop ==
  /\ sent # <<>>
  /\ Head(sent).of = "prompt" \/ (Head(sent).of = "command" /\ ~Awaiting)
  /\ sent' = Tail(sent)
  /\ UNCHANGED <<main, belief, modem, history>>
-----------------------------------------------------------------------------
(* The main program: steps from one point to another that ...              *)
Goto(p, q) == pc = p /\ pc' = q

(* ... touch nothing else, ...                                             *)
Step(p, q) ==
  /\ Goto(p, q)
  /\ UNCHANGED <<after, initialized, callback, got, urc_buffer, http, belief,
                 modem, sent, history>>

(* ... send a command, which may be lost, ...                              *)
Command(p, q, effect) ==
  /\ Goto(p, q)
  /\ effect \/ UNCHANGED <<modem, sent>>
  /\ history' = IF p = "mqtt_connect"
                THEN [history EXCEPT !.accepted = NULL, !.signing = FALSE]
                ELSE history
  /\ UNCHANGED <<after, initialized, callback, got, urc_buffer, http, belief>>

(* ... read a response or time out, ...                                    *)
ResponseTo(p, ok, failed) ==
  /\ \/ /\ sent # <<>> /\ Head(sent).of = "command"
        /\ Goto(p, IF Head(sent).data THEN ok ELSE failed)
        /\ sent' = Tail(sent)
        /\ UNCHANGED history
     \/ /\ Goto(p, failed)
        /\ history' = [history EXCEPT !.untimely = TRUE]
        /\ UNCHANGED sent
  /\ UNCHANGED <<after, initialized, callback, got, urc_buffer, http, belief,
                 modem>>

(* ... wait for the '>' that asks for data, ...                            *)
Prompted(p, q) ==
  /\ sent # <<>> /\ Head(sent).of = "prompt"
  /\ Goto(p, q)
  /\ sent' = Tail(sent)
  /\ UNCHANGED <<after, initialized, callback, got, urc_buffer, http, belief,
                 modem, history>>

(* ... register a callback, ...                                            *)
Register(p, q, urc, function) ==
  /\ Goto(p, q)
  /\ callback' = [callback EXCEPT ![urc] = function]
  /\ UNCHANGED <<after, initialized, got, urc_buffer, http, belief, modem,
                 sent, history>>

(* Mutant: the flag of the former wait is left.                            *)
FlagOfWait_Kept == got
FlagOfWait == NULL

(* ... or wait for a URC: waitForURC() clears its flag and registers its   *)
(* callback; when the URC has come or the time is over it unregisters it.  *)
WaitForURC(p, q, urc) ==
  /\ Goto(p, q)
  /\ callback' = [callback EXCEPT ![urc] = "wait"]
  /\ got' = FlagOfWait
  /\ UNCHANGED <<after, initialized, urc_buffer, http, belief, modem, sent,
                 history>>
-----------------------------------------------------------------------------
(* Lte.begin(): start the controller unless it is running, ...             *)
LteBegin ==
  /\ Goto("idle", "lte_radio_off")
  /\ initialized' = TRUE
  /\ UNCHANGED <<after, callback, got, urc_buffer, http, belief, modem, sent,
                 history>>

(* ... turn the radio off and on again, ...                                *)
LteRadio ==
  \/ Command("lte_radio_off", "lte_radio_off_response", RadioOff)
  \/ ResponseTo("lte_radio_off_response", "lte_radio_on", "lte_radio_on")
  \/ Command("lte_radio_on", "lte_radio_on_response", RadioOn)
  \/ ResponseTo("lte_radio_on_response", "lte_wait_register",
                "lte_wait_register")

(* ... wait for a first +CEREG, whatever it says, and register for those   *)
(* that follow, ...                                                        *)
LteFirstReport ==
  \/ WaitForURC("lte_wait_register", "lte_wait", "CEREG")
  \/ Register("lte_wait", "lte_register", "CEREG", NULL)
  \/ Register("lte_register", "lte_connecting", "CEREG", "connectionStatus")

(* ... check the SIM card, wait until is_connected or the timeout, and get *)
(* the time, with NTP if need be: anything but success calls end().        *)
LteConnect ==
  \/ is_connected /\ Step("lte_connecting", "idle")
  \/ Step("lte_connecting", "lte_end")

(* Lte.end() calls MqttClient.end(), ...                                   *)
LteEnd ==
  /\ \/ Goto("idle", IF initialized THEN "mqtt_end" ELSE "idle")
     \/ Goto("lte_end", "mqtt_end")
  /\ after' = IF initialized THEN "lte_detach" ELSE after
  /\ is_connected' = (initialized /\ is_connected)
  /\ UNCHANGED <<initialized, callback, got, urc_buffer, http,
                 connected_to_broker, modem, sent, history>>

(* ... turns the radio off, ...                                            *)
LteDetach ==
  \/ Command("lte_detach", "lte_detach_response", RadioOff)
  \/ ResponseTo("lte_detach_response", "lte_detaching", "lte_detaching")

(* Mutant: nothing ends the wait but the URC.                              *)
DetachingEnds_NoTimeout == ~is_connected
DetachingEnds == TRUE

(* ... waits for is_connected to become false, for ten seconds at most,    *)
LteDetaching ==
  DetachingEnds /\ Register("lte_detaching", "lte_close", "CEREG", NULL)

(* Mutant: is_connected is left as it is.                                  *)
IsConnectedAfterEnd_Kept == is_connected
IsConnectedAfterEnd == FALSE

(* and shuts the modem down with SequansController.end().                  *)
LteClose ==
  /\ Goto("lte_close", "idle")
  /\ initialized' = FALSE
  /\ is_connected' = IsConnectedAfterEnd
  /\ modem' = ModemOff
  /\ sent' = <<>>
  /\ UNCHANGED <<after, callback, got, urc_buffer, http, connected_to_broker,
                 history>>
-----------------------------------------------------------------------------
(* MqttClient.begin(): give up the former session, ...                     *)
MqttBegin ==
  /\ Goto("idle", "mqtt_reset")
  /\ is_connected
  /\ ~modem.requested
  /\ connected_to_broker' = FALSE
  /\ history' = [history EXCEPT !.unnoticed = FALSE,
                                !.untimely = OnItsWay("command")]
  /\ UNCHANGED <<after, initialized, callback, got, urc_buffer, http,
                 is_connected, modem, sent>>

(* ... configure, which may fail, ask for a new session, without the       *)
(* secure element or with it, ...                                          *)
MqttConnect ==
  \/ Command("mqtt_reset", "mqtt_reset_response", Disconnect)
  \/ ResponseTo("mqtt_reset_response", "mqtt_connect", "mqtt_connect")
  \/ Step("mqtt_connect", "idle")
  \/ Command("mqtt_connect", "mqtt_connect_response", Connect("asked"))
  \/ ResponseTo("mqtt_connect_response", "mqtt_wait_register", "idle")
  \/ Command("mqtt_connect", "mqtt_connect_response_ecc",
             Connect("handshake"))
  \/ ResponseTo("mqtt_connect_response_ecc", "mqtt_sign_register", "idle")

(* ... then wait for the modem to ask for a signature, and send it one: if *)
(* the element does not sign, begin() fails, ...                           *)
MqttSign ==
  \/ WaitForURC("mqtt_sign_register", "mqtt_sign_wait", "HCESIGN")
  \/ /\ Goto("mqtt_sign_wait", IF got = NULL THEN "idle" ELSE "mqtt_sign")
     /\ callback' = [callback EXCEPT !["HCESIGN"] = NULL]
     /\ urc_buffer' = IF got = NULL THEN urc_buffer ELSE got
     /\ UNCHANGED <<after, initialized, got, http, belief, modem, sent,
                    history>>
  \/ Step("mqtt_sign", "idle")
  \/ Command("mqtt_sign", "mqtt_wait_register", Signature)

(* ... and wait for the broker's answer, ...                               *)
MqttWait ==
  \/ WaitForURC("mqtt_wait_register", "mqtt_wait", "ONCONNECT")
  \/ /\ Goto("mqtt_wait", IF got = NULL THEN "idle" ELSE "mqtt_status")
     /\ callback' = [callback EXCEPT !["ONCONNECT"] = NULL]
     /\ urc_buffer' = IF got = NULL THEN urc_buffer ELSE got
     /\ history' = [history EXCEPT !.overwritten = FALSE]
     /\ UNCHANGED <<after, initialized, got, http, belief, modem, sent>>

(* ... whose status is taken from urc_buffer.  What a message has in the   *)
(* place of the status is its length, or text that does not fit.           *)
Status == IF urc_buffer = Message THEN BOOLEAN ELSE {urc_buffer}

MqttStatus ==
  \E ok \in Status :
    /\ Goto("mqtt_status", IF ok THEN "mqtt_connected" ELSE "idle")
    /\ history' = [history EXCEPT !.unnoticed = @ \/ ok # history.accepted]
    /\ UNCHANGED <<after, initialized, callback, got, urc_buffer, http, belief,
                   modem, sent>>

(* connected_to_broker = true, ...                                         *)
MqttConnected ==
  /\ Goto("mqtt_connected", "mqtt_return")
  /\ connected_to_broker' = TRUE
  /\ UNCHANGED <<after, initialized, callback, got, urc_buffer, http,
                 is_connected, modem, sent, history>>

(* Mutant: nobody is registered for the disconnect URC.                    *)
MqttReturn_NotRegistered == Step("mqtt_return", "idle")

(* ... and only then registerCallback().                                   *)
MqttReturn ==
  Register("mqtt_return", "idle", "ONDISCONNECT", "internalDisconnect")

(* MqttClient.onReceive()                                                  *)
OnReceive == Register("idle", "idle", "ONMESSAGE", "onReceive")

(* MqttClient.publish(): the command, the '>', the message, ...            *)
Publish ==
  /\ Goto("idle", "publish")
  /\ connected_to_broker
  /\ history' = [history EXCEPT
                   !.confirmed = FALSE,
                   !.owing = modem.publishing \/ OnItsWay("ONPUBLISH")]
  /\ UNCHANGED <<after, initialized, callback, got, urc_buffer, http, belief,
                 modem, sent>>

PublishMessage ==
  \/ Command("publish", "publish_prompt", Prompt)
  \/ Prompted("publish_prompt", "publish_payload")
  \/ Step("publish_prompt", "idle")
  \/ Command("publish_payload", "publish_wait_register", Payload)

(* Mutant: the result of waitForURC() is ignored.                          *)
Confirmed_TimeoutIgnored == got # FALSE
Confirmed == got = TRUE

(* ... and the wait for its confirmation.                                  *)
PublishWait ==
  \/ WaitForURC("publish_wait_register", "publish_wait", "ONPUBLISH")
  \/ Register("publish_wait", IF Confirmed THEN "published" ELSE "idle",
              "ONPUBLISH", NULL)
  \/ Step("published", "idle")

(* MqttClient.subscribe(): the command and the wait for its confirmation.  *)
Subscribe ==
  /\ Goto("idle", "subscribe")
  /\ connected_to_broker
  /\ history' = [history EXCEPT
                   !.confirmed = FALSE,
                   !.owing = modem.subscribing \/ OnItsWay("ONSUBSCRIBE")]
  /\ UNCHANGED <<after, initialized, callback, got, urc_buffer, http, belief,
                 modem, sent>>

SubscribeWait ==
  \/ Command("subscribe", "subscribe_response", Subscription)
  \/ ResponseTo("subscribe_response", "subscribe_wait_register", "idle")
  \/ WaitForURC("subscribe_wait_register", "subscribe_wait", "ONSUBSCRIBE")
  \/ Register("subscribe_wait", IF Confirmed THEN "subscribed" ELSE "idle",
              "ONSUBSCRIBE", NULL)
  \/ Step("subscribed", "idle")

(* MqttClient.end(), called by the main program or by Lte.end().           *)
MqttEnd ==
  /\ \/ Goto("idle", "mqtt_disconnect") /\ after' = "idle"
     \/ Goto("mqtt_end", "mqtt_disconnect") /\ UNCHANGED after
  /\ callback' = [callback EXCEPT !["ONMESSAGE"] = NULL,
                                  !["ONDISCONNECT"] = NULL]
  /\ UNCHANGED <<initialized, got, urc_buffer, http, belief, modem, sent,
                 history>>

MqttDisconnect ==
  \/ /\ is_connected /\ connected_to_broker
     /\ Command("mqtt_disconnect", "mqtt_disconnect_response", Disconnect)
  \/ /\ ~(is_connected /\ connected_to_broker)
     /\ Step("mqtt_disconnect", "mqtt_ended")
  \/ ResponseTo("mqtt_disconnect_response", "mqtt_ended", "mqtt_ended")

MqttEnded ==
  /\ Goto("mqtt_ended", after)
  /\ connected_to_broker' = FALSE
  /\ UNCHANGED <<after, initialized, callback, got, urc_buffer, http,
                 is_connected, modem, sent, history>>
-----------------------------------------------------------------------------
(* An HTTP request: sendData() and queryData().  To bound the model, there *)
(* are none while there is an MQTT client, and MqttClient.begin() waits    *)
(* for the answers to all of them.                                         *)
NoMqttClient ==
  /\ modem.session = "none" /\ ~connected_to_broker
  /\ callback["ONMESSAGE"] = NULL /\ callback["ONDISCONNECT"] = NULL

HttpRequest ==
  /\ Goto("idle", "http_at")
  /\ NoMqttClient
  /\ http_response' = NoResponse
  /\ history' = [history EXCEPT
                   !.confirmed = FALSE, !.shut = FALSE,
                   !.owing = \/ modem.requested
                             \/ OnItsWay("HTTPRING") \/ OnItsWay("HTTPSH")]
  /\ UNCHANGED <<after, initialized, callback, got, urc_buffer,
                 got_shutdown_callback, belief, modem, sent>>

(* AT, and then queryData()'s command, or sendData()'s, whose data, if     *)
(* any, is asked for with a '>'.                                           *)
HttpSend ==
  \/ Command("http_at", "http_at_response", Attention)
  \/ ResponseTo("http_at_response", "http_request", "http_request")
  \/ Command("http_request", "http_request_response", Query)
  \/ ResponseTo("http_request_response", "http_register", "http_done")
  \/ Command("http_request", "http_register", HttpPayload)
  \/ Command("http_request", "http_prompt", HttpPrompt)
  \/ Step("http_request", "http_done")
  \/ Prompted("http_prompt", "http_payload")
  \/ Step("http_prompt", "http_done")
  \/ Command("http_payload", "http_register", HttpPayload)

(* Mutant: the flag of the former request is left.                         *)
FlagOfShutdown_Kept == got_shutdown_callback
FlagOfShutdown == FALSE

(* waitForResponse() registers for the shutdown URC, ...                   *)
HttpRegister ==
  /\ Goto("http_register", "http_wait_register")
  /\ got_shutdown_callback' = FlagOfShutdown
  /\ callback' = [callback EXCEPT !["HTTPSH"] = "httpShutdown"]
  /\ UNCHANGED <<after, initialized, got, urc_buffer, http_response, belief,
                 modem, sent, history>>

(* ... waits for the answer, and, if the status is 0, for a second for the *)
(* shutdown URC as well, whose error code it returns.                      *)
HttpWait ==
  \/ WaitForURC("http_wait_register", "http_wait", "HTTPRING")
  \/ /\ Goto("http_wait", IF got = FALSE THEN "http_shutdown"
                          ELSE "http_unregister")
     /\ callback' = [callback EXCEPT !["HTTPRING"] = NULL]
     /\ http_response' = [http_response EXCEPT !.status = (got = TRUE)]
     /\ UNCHANGED <<after, initialized, got, urc_buffer, got_shutdown_callback,
                    belief, modem, sent, history>>
  \/ /\ Goto("http_shutdown", "http_unregister")
     /\ http_response' = [http_response EXCEPT
                            !.error = got_shutdown_callback]
     /\ UNCHANGED <<after, initialized, callback, got, urc_buffer,
                    got_shutdown_callback, belief, modem, sent, history>>
  \/ Register("http_unregister", "http_done", "HTTPSH", NULL)
  \/ Step("http_done", "idle")
-----------------------------------------------------------------------------
Main ==
  \/ LteBegin \/ LteRadio \/ LteFirstReport \/ LteConnect
  \/ LteEnd \/ LteDetach \/ LteDetaching \/ LteClose
  \/ MqttBegin \/ MqttConnect \/ MqttSign \/ MqttWait \/ MqttStatus \/ MqttConnected
  \/ MqttReturn \/ OnReceive \/ Publish \/ PublishMessage \/ PublishWait
  \/ Subscribe \/ SubscribeWait
  \/ MqttEnd \/ MqttDisconnect \/ MqttEnded
  \/ HttpRequest \/ HttpSend \/ HttpRegister \/ HttpWait

Next == Main \/ ReceiveUrc \/ Drop \/ ModemActs
Spec == Init /\ [][Next]_vars /\ WF_vars(Main)
-----------------------------------------------------------------------------
(* Nothing is happening, and the modem has nothing to say.                 *)
Quiet == pc = "idle" /\ initialized /\ sent = <<>> /\ ~modem.report

(* Lte.isConnected() is what the modem reported last, unless the report    *)
(* came while connectionStatus() was not registered: Lte.begin() waits for *)
(* one with waitForURC(), which takes the registration away.               *)
NetworkBelief == Quiet => is_connected = modem.attached \/ history.missed

(* MqttClient.isConnected() only while there is a session, unless the loss *)
(* was reported after the broker accepted and before begin() had set the   *)
(* flag and registered for it, or while connectionStatus() was not         *)
(* registered, or begin() took something else for the broker's answer (see *)
(* StatusOfThisConnect).                                                   *)
BrokerBelief ==
  Quiet /\ connected_to_broker => modem.session = "up" \/ history.unnoticed

(* What begin() acts on, the request for a signature and the status, is    *)
(* what the modem sent for this begin(), and not for an earlier one that   *)
(* timed out, unless a message was copied over the status, or a response   *)
(* came after the wait for it, so that the disconnect begin() starts with  *)
(* did not separate the two.                                               *)
StatusOfThisConnect ==
  /\ pc = "mqtt_sign" => history.signing \/ history.untimely
  /\ pc = "mqtt_status" => \/ urc_buffer = history.accepted
                           \/ history.overwritten \/ history.untimely

(* publish() and subscribe() return true only if the broker confirmed that *)
(* message or subscription, unless the confirmation of an earlier one, of  *)
(* which the program had given up waiting, was still due when the call     *)
(* began: nothing tells the two apart.                                     *)
PublishedIsConfirmed ==
  pc \in {"published", "subscribed"} => history.confirmed \/ history.owing

(* A request returns a status or an error code only if the modem reported  *)
(* one for this request, unless an earlier one, of which the program had   *)
(* given up waiting, was not done with when it began.                      *)
ResponseIsOfRequest ==
  pc = "http_done" => \/ history.owing
                      \/ /\ http_response.status => history.confirmed
                         /\ http_response.error => history.shut

(* After Lte.end() the library is as if it had not been used: no flag and  *)
(* no callback of the connection is left, whatever came in meanwhile.      *)
EndLeavesNothing ==
  pc = "idle" /\ ~initialized =>
    /\ ~is_connected /\ ~connected_to_broker
    /\ callback["CEREG"] = NULL /\ callback["ONDISCONNECT"] = NULL
    /\ callback["HTTPSH"] = NULL

(* Every call returns, whatever the modem leaves out.                      *)
CallsReturn == pc # "idle" ~> pc = "idle"
=============================================================================
