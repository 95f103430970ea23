----------------------------- MODULE EventWiring -----------------------------
(* Who subscribes to what in the deployed program with every module enabled,    *)
(* and what the handlers' services publish (core/cmd/api, shopify, analytics).  *)
(* Topics without a subscriber (batches, assets, coupons, ...) are left out.    *)

ShippingTopics == {"mark.generated", "mark.voided"}
OrderTopics == {"orders.created", "orders.updated", "orders.status.updated"}
ContactTopics == {"contacts.created", "contacts.updated"}

WiredTopics == ShippingTopics \cup OrderTopics \cup ContactTopics
               \cup {"membership.changed"}

\* A handler of the bus is a consumer on one of its topics.
On(consumer, topics) == {<<consumer, t>> : t \in topics}

OrderCompletion == On("completion", ShippingTopics)
TransactionalMail == On("mail", ShippingTopics)
ShopifyShipping == On("shopify", ShippingTopics)
ShopifyOrders == On("shopify", {"orders.updated", "orders.status.updated"})
Analytics == On("analytics", OrderTopics \cup ContactTopics
                             \cup {"membership.changed"})

Wired == OrderCompletion \cup TransactionalMail \cup ShopifyShipping
         \cup ShopifyOrders \cup Analytics

\* A voided mark sets its order back, which OrderService.UpdateStatus announces;
\* the other handlers publish nothing.
WiredEmits(h) ==
  IF h = <<"completion", "mark.voided">> THEN "orders.status.updated" ELSE "none"

\* No set of topics feeds only itself.
ASSUME WiringAcyclic ==
  \A T \in SUBSET WiredTopics : T # {} =>
    \E t \in T : \A h \in Wired : h[2] = t => WiredEmits(h) \notin T
===============================================================================
