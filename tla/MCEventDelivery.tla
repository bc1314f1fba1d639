--------------------------- MODULE MCEventDelivery ---------------------------
(* Small instances of EventDelivery. *)
EXTENDS EventDelivery

OneAndTwo == [e \in Events |-> IF e = 1 THEN "rabbitmq" ELSE "kafka"]
ConsumerCrashes == {"consumerCrash"}

=============================================================================
