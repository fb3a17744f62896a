------------------------------ MODULE MCPanel ------------------------------
(***************************************************************************)
(* Instances of Panel small enough for TLC.  One sensor is enough for a    *)
(* chain of handlers (dht11 feeds comfort, adxl345 feeds anomaly), two of   *)
(* its readings for order and supersession, queues of one or two places    *)
(* for overflow.                                                           *)
(***************************************************************************)
EXTENDS Panel

Climate == {"dht11"}
Motion == {"adxl345"}
Distance == {"sr04"}
None == {}
Sync == {"shm_sync"}
AlertQueue == {"mq", "uiMq"}
SegmentAndBroker == {"shm", "uiShm", "mqtt"}
Remote == {"ir"}

\* A daemon that has crashed may have left an alert, known as that of reading 0.
OldAlert == EventOf("anomaly", 0)

\* The panel after a restart: the alert queue is empty, or full of what was left.
RestartInit ==
  /\ IpcInit \/ (alerts = <<OldAlert>> /\ frames = <<>> /\ daemonEnd = "open"
                   /\ uiEnd = "open" /\ sem = "free")
  /\ DaemonInit
  /\ UiInit
  /\ faults = 0

RestartSpec == RestartInit /\ [][Next]_vars /\ Fairness

\* FlowSpec for a panel that may show old alerts: what database, MQTT and screen
\* receive of the readings taken since the start is in order and not duplicated.
FreshFlow == INSTANCE ReadingFlow WITH
  SourceOf  <- [k \in Kinds |-> Source(k)],
  Outlets   <- Sinks \cup {"screen"},
  delivered <- [o \in Sinks \cup {"screen"} |-> [k \in Kinds |->
                  IF o \in Sinks THEN rows[o][k]
                  ELSE SelectSeq(shown[k], LAMBDA n : n > 0)]]

FreshFlowSpec == FreshFlow!Spec

============================================================================
