------------------------------ MODULE MCEventBus ------------------------------
(* The part of the deployed wiring in which one handler publishes to others: a  *)
(* voided mark, the order status it sets, and, as in the tests of the router, a *)
(* subscriber of a dead-letter topic.                                           *)
EXTENDS EventBus, EventWiring

MCDead == {"mark.voided.dlq", "orders.status.updated.dlq"}
MCTopics == {"mark.voided", "orders.status.updated"} \cup MCDead
MCWatch == <<"watch", "mark.voided.dlq">>
MCHandlers == {<<"completion", "mark.voided">>, <<"shopify", "mark.voided">>,
               <<"analytics", "orders.status.updated">>, MCWatch}
MCStartupHandlers == {<<"completion", "mark.voided">>,
                      <<"analytics", "orders.status.updated">>}
CONSTANTS r1, r2
MCAnnounces == [r \in Requests |-> IF r = r1 THEN {"mark.voided"}
                                   ELSE {"orders.status.updated"}]
MCTopicOf == [h \in Handlers |-> h[2]]
MCEmits == [h \in Handlers |->
              IF WiredEmits(h) = "none" THEN Nil ELSE WiredEmits(h)]
MCDeadLetter == [t \in MCTopics |->
                   CASE t = "mark.voided"           -> "mark.voided.dlq"
                     [] t = "orders.status.updated" -> "orders.status.updated.dlq"
                     [] OTHER                       -> Nil]
===============================================================================
