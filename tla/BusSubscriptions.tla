-------------------------- MODULE BusSubscriptions --------------------------
(* What a bus does around its messages: start(), stop(), subscribe() and     *)
(* unsubscribe(), called by one thread, against the threads behind them: a   *)
(* consumer thread for each topic with Kafka (kafka_system_bus.py), the      *)
(* client's network thread with MQTT (mqtt_system_bus.py).  SystemBus has    *)
(* what request() does meanwhile.                                            *)
EXTENDS Naturals

CONSTANTS
    Kinds,          \* the buses: "kafka", "mqtt"
    Topics,         \* topics to subscribe to
    Reply,          \* the one of them that start() subscribes to
    None

VARIABLES
    kind,           \* the bus
    started,        \* _started
    pool,           \* the executor of the callbacks takes work
    callbacks,      \* keys of _callbacks
    op,             \* <<step, topic>>: where the calling thread is
    deaf,           \* topics subscribed whose consumer is not there (history)
    running,        \* Kafka: topics whose _running is True
    loop,           \* Kafka: the thread of a topic's consumer
    outlived,       \* Kafka: topics with a loop that was still busy after its join
    client,         \* MQTT: there is a client, with its network thread
    link,           \* MQTT: the broker has a session with the client
    connected,      \* MQTT: _connected
    greeted,        \* MQTT: _on_connect is between _connected = True and its loop
    subscribed      \* MQTT: topics subscribed in the broker's session

callVars == <<started, pool, callbacks, op, deaf>>
kafkaVars == <<running, loop, outlived>>
mqttVars == <<client, link, connected, greeted, subscribed>>
vars == <<kind, callVars, kafkaVars, mqttVars>>

Idle == op = <<"idle", None>>
Go(step, t) == op' = <<step, t>>
Return == op' = <<"idle", None>>

Init ==
    /\ kind \in Kinds
    /\ started = FALSE /\ pool = TRUE
    /\ callbacks = {} /\ deaf = {}
    /\ op = <<"idle", None>>
    /\ running = {} /\ outlived = {}
    /\ loop = [t \in Topics |-> "none"]
    /\ client = FALSE /\ link = FALSE /\ connected = FALSE /\ greeted = FALSE
    /\ subscribed = {}
-----------------------------------------------------------------------------
(* Kafka: the caller.                                                        *)

\* subscribe(): a topic that has a callback counts as subscribed.  The callback is
\* stored first, and stays if the consumer cannot be created.
Consume(t) ==
    IF t \in callbacks
    THEN UNCHANGED <<callbacks, deaf, running, loop>>
    ELSE /\ callbacks' = callbacks \cup {t}
         /\ \/ /\ running' = running \cup {t}
               /\ loop' = [loop EXCEPT ![t] = "warm"]
               /\ UNCHANGED deaf
            \/ /\ deaf' = deaf \cup {t}
               /\ UNCHANGED <<running, loop>>

\* start() does not look at what subscribe() returns.
KafkaStart ==
    /\ Idle /\ ~started
    /\ Consume(Reply)
    /\ started' = TRUE
    /\ UNCHANGED <<kind, pool, op, outlived, mqttVars>>

KafkaSubscribe(t) ==
    /\ Idle /\ t # Reply
    /\ Consume(t)
    /\ UNCHANGED <<kind, started, pool, op, outlived, mqttVars>>

\* unsubscribe() tells the loop to end and waits for it ...
KafkaUnsubscribe(t) ==
    /\ Idle /\ t # Reply
    /\ running' = running \ {t}
    /\ Go("joining", t)
    /\ UNCHANGED <<kind, started, pool, callbacks, deaf, loop, outlived, mqttVars>>

Alive(t) == loop[t] # "none"

\* A bug to check SubscribedIsServed against: the callback is not deleted.
KafkaLeaveKeepsCallback(t) ==
    /\ outlived' = IF Alive(t) THEN outlived \cup {t} ELSE outlived
    /\ loop' = [loop EXCEPT ![t] = "none"]
    /\ UNCHANGED callbacks
    /\ deaf' = deaf \ {t}

\* ... for at most 2 s, and closes the consumer.
KafkaLeave(t) ==
    /\ outlived' = IF Alive(t) THEN outlived \cup {t} ELSE outlived
    /\ loop' = [loop EXCEPT ![t] = "none"]
    /\ callbacks' = callbacks \ {t}
    /\ deaf' = deaf \ {t}

KafkaJoined ==
    /\ op[1] = "joining"
    /\ KafkaLeave(op[2])
    /\ Return
    /\ UNCHANGED <<kind, started, pool, running, mqttVars>>

\* stop() ends all loops, and the pool for good: the executor is made once, by the
\* constructor, so that a bus that is started again runs no callback.
KafkaStop ==
    /\ Idle
    /\ running' = {}
    /\ Go("stopping", None)
    /\ UNCHANGED <<kind, started, pool, callbacks, deaf, loop, outlived, mqttVars>>

KafkaStopped ==
    /\ op[1] = "stopping"
    /\ outlived' = outlived \cup {t \in Topics : Alive(t)}
    /\ loop' = [t \in Topics |-> "none"]
    /\ pool' = FALSE /\ started' = FALSE
    /\ callbacks' = {} /\ deaf' = {}
    /\ Return
    /\ UNCHANGED <<kind, running, mqttVars>>
-----------------------------------------------------------------------------
(* Kafka: _consumer_loop.                                                    *)

\* Three polls, whose records are dropped, before the first that counts.  They are
\* outside the try: a record that cannot be decoded ends the thread.
WarmUp(t) ==
    /\ loop[t] = "warm"
    /\ \/ loop' = [loop EXCEPT ![t] = "polling"] /\ UNCHANGED deaf
       \/ loop' = [loop EXCEPT ![t] = "none"] /\ deaf' = deaf \cup {t}
    /\ UNCHANGED <<kind, started, pool, callbacks, op, running, outlived, mqttVars>>

LoopEnds(t) ==
    /\ t \notin running
    /\ \/ /\ loop[t] = "polling"
          /\ loop' = [loop EXCEPT ![t] = "none"]
          /\ UNCHANGED outlived
       \/ /\ t \in outlived         \* its consumer is closed by now
          /\ outlived' = outlived \ {t}
          /\ UNCHANGED loop
    /\ UNCHANGED <<kind, callVars, running, mqttVars>>
-----------------------------------------------------------------------------
(* MQTT: the caller.                                                         *)

\* start(): connect() goes through or raises, and then it waits for _on_connect.
\* The exception at the end of that wait ends every process that starts a bus.
MqttStart ==
    /\ Idle /\ ~started /\ ~client
    /\ client' = TRUE /\ link' = TRUE /\ subscribed' = {}
    /\ Go("connecting", None)
    /\ UNCHANGED <<kind, started, pool, callbacks, deaf, kafkaVars, connected, greeted>>

Store(t) ==
    /\ callbacks' = callbacks \cup {t}
    /\ Go("sending", t)

MqttConnected ==
    /\ op[1] = "connecting" /\ connected
    /\ Store(Reply)
    /\ UNCHANGED <<kind, started, pool, deaf, kafkaVars, mqttVars>>

\* subscribe() stores the callback, under the lock, and then asks the broker.
MqttSubscribe(t) ==
    /\ Idle /\ started /\ t # Reply
    /\ Store(t)
    /\ UNCHANGED <<kind, started, pool, deaf, kafkaVars, mqttVars>>

\* Without a connection that is left to _on_connect.
MqttSent ==
    /\ op[1] = "sending"
    /\ subscribed' = IF connected /\ link THEN subscribed \cup {op[2]} ELSE subscribed
    /\ started' = (started \/ op[2] = Reply)
    /\ Return
    /\ UNCHANGED <<kind, pool, callbacks, deaf, kafkaVars, client, link, connected, greeted>>

MqttUnsubscribe(t) ==
    /\ Idle /\ started /\ t # Reply
    /\ callbacks' = callbacks \ {t}
    /\ Go("dropping", t)
    /\ UNCHANGED <<kind, started, pool, deaf, kafkaVars, mqttVars>>

MqttDropped ==
    /\ op[1] = "dropping"
    /\ subscribed' = IF connected /\ link THEN subscribed \ {op[2]} ELSE subscribed
    /\ Return
    /\ UNCHANGED <<kind, started, pool, callbacks, deaf, kafkaVars, client, link, connected, greeted>>

\* stop(): the network thread is joined, and with it a callback it is in.
MqttStop ==
    /\ Idle /\ client /\ ~greeted
    /\ client' = FALSE /\ link' = FALSE /\ subscribed' = {}
    /\ Go("stopping", None)
    /\ UNCHANGED <<kind, started, pool, callbacks, deaf, kafkaVars, connected, greeted>>

MqttStopped ==
    /\ op[1] = "stopping"
    /\ pool' = FALSE /\ started' = FALSE /\ connected' = FALSE
    /\ callbacks' = {}
    /\ Return
    /\ UNCHANGED <<kind, deaf, kafkaVars, client, link, greeted, subscribed>>
-----------------------------------------------------------------------------
(* MQTT: the network thread.                                                 *)

\* The connection breaks.  The broker keeps nothing of the session.
Break ==
    /\ link
    /\ link' = FALSE /\ subscribed' = {}
    /\ UNCHANGED <<kind, callVars, kafkaVars, client, connected, greeted>>

OnDisconnect ==
    /\ client /\ ~link /\ connected /\ ~greeted
    /\ connected' = FALSE
    /\ UNCHANGED <<kind, callVars, kafkaVars, client, link, greeted, subscribed>>

Reconnect ==
    /\ client /\ ~link /\ ~connected
    /\ link' = TRUE
    /\ UNCHANGED <<kind, callVars, kafkaVars, client, connected, greeted, subscribed>>

\* A bug to check ResubscribedOnConnect against: only the flag is set.
OnConnectFlagOnly ==
    /\ client /\ link /\ ~connected
    /\ connected' = TRUE
    /\ UNCHANGED <<kind, callVars, kafkaVars, client, link, greeted, subscribed>>

\* _on_connect sets the flag ...
OnConnect ==
    /\ client /\ link /\ ~connected
    /\ connected' = TRUE /\ greeted' = TRUE
    /\ UNCHANGED <<kind, callVars, kafkaVars, client, link, subscribed>>

\* ... and then subscribes, under the lock, to all topics that have a callback.
Resubscribe ==
    /\ greeted
    /\ greeted' = FALSE
    /\ subscribed' = IF link THEN subscribed \cup callbacks ELSE subscribed
    /\ UNCHANGED <<kind, callVars, kafkaVars, client, link, connected>>
-----------------------------------------------------------------------------
Kafka ==
    \/ KafkaStart \/ KafkaJoined \/ KafkaStop \/ KafkaStopped
    \/ \E t \in Topics : KafkaSubscribe(t) \/ KafkaUnsubscribe(t) \/ WarmUp(t) \/ LoopEnds(t)
Mqtt ==
    \/ MqttStart \/ MqttConnected \/ MqttSent \/ MqttDropped \/ MqttStop \/ MqttStopped
    \/ \E t \in Topics : MqttSubscribe(t) \/ MqttUnsubscribe(t)
    \/ Break \/ OnDisconnect \/ Reconnect \/ OnConnect \/ Resubscribe

Next == (kind = "kafka" /\ Kafka) \/ (kind = "mqtt" /\ Mqtt)

Spec == Init /\ [][Next]_vars
-----------------------------------------------------------------------------
TypeOK ==
    /\ kind \in Kinds
    /\ {started, pool, client, link, connected, greeted} \subseteq BOOLEAN
    /\ callbacks \subseteq Topics /\ deaf \subseteq Topics
    /\ op \in {"idle", "joining", "stopping", "connecting", "sending", "dropping"} \X (Topics \cup {None})
    /\ running \subseteq Topics /\ outlived \subseteq Topics /\ subscribed \subseteq Topics
    /\ loop \in [Topics -> {"none", "warm", "polling"}]

\* With Kafka, a topic that counts as subscribed is read by the loop of its own
\* consumer, through any sequence of calls, unless that consumer could not be
\* created or died on its first records.
SubscribedIsServed ==
    kind = "kafka" /\ Idle =>
        \A t \in callbacks \ deaf : loop[t] # "none" /\ t \in running

\* With MQTT, whenever the bus is connected and nobody is in the middle of a call,
\* the broker sends it the topics that have a callback and no others, however the
\* calls fell between the breaks of the connection.
ResubscribedOnConnect ==
    kind = "mqtt" /\ Idle /\ link /\ connected /\ ~greeted => subscribed = callbacks
=============================================================================
