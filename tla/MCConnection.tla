---------------------------- MODULE MCConnection ----------------------------
EXTENDS Connection

(* States that differ only in what nothing reads any more are one state:   *)
(* what waitForURC() was given is read when it returns, urc_buffer after   *)
(* begin() has written to it, where MqttClient.end() returns to only while *)
(* it runs, and of the histories most are about the call that runs.  The   *)
(* flag of the shutdown is cleared by each request; it is kept so that a   *)
(* request that did not clear it would show.                               *)
Live(condition, value) == IF condition THEN value ELSE NULL
Waits == {"lte_wait", "mqtt_sign_wait", "mqtt_wait", "publish_wait",
          "subscribe_wait", "http_wait"}
DeadValuesAside ==
  <<pc, Live(pc \in MqttEndPoints \ {"mqtt_end"}, after), initialized,
    callback, Live(pc \in Waits, got), belief, modem, sent,
    Live(pc \in {"mqtt_sign", "mqtt_status", "mqtt_connected"}, urc_buffer),
    Live(pc \in HttpPoints, http_response),
    Live(pc \in HttpPoints \union {"idle"}, got_shutdown_callback),
    history.missed,
    Live(pc \in MqttBeginPoints,
         <<history.accepted, history.signing, history.untimely>>),
    Live(pc = "mqtt_status", history.overwritten),
    Live(pc \in MqttBeginPoints \/ connected_to_broker, history.unnoticed),
    Live(pc \in PublishPoints \union SubscribePoints \union HttpPoints,
         <<history.confirmed, history.shut, history.owing>>)>>
=============================================================================
