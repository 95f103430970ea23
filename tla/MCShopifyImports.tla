--------------------------- MODULE MCShopifyImports ---------------------------
(* What a Shopify shop has that is imported: its orders and its customers; and *)
(* the client all requests to the shop go through. Either import has a process *)
(* of its own and tables of its own, so that interleaving the two would add    *)
(* nothing but states: one of them, the focus, is picked at the start and      *)
(* runs, or one of the three things the client does: edit an order, walk       *)
(* through a shop's rows, pace its requests.                                   *)
EXTENDS OrderSync, ContactBook, ShopifyAdmin, TLC

CONSTANTS n1, n2, t1, t2, p1, p2, k1, k2, e1, e2

\* All Shopify orders have one name.
NameN1 == [r \in Remotes |-> n1]

\* Requests, contacts, customers and addresses are interchangeable.
ImportSymmetry ==
    Permutations({t1, t2}) \cup Permutations({p1, p2}) \cup Permutations({k1, k2})
      \cup Permutations({e1, e2})

VARIABLE focus

importVars == <<vars, contactVars, adminVars, focus>>

\* What is not in focus stays as it is, whatever that is.
ImportInit ==
    /\ Init
    /\ ContactInit
    /\ AdminInit
    /\ focus \in {"orders", "customers", "edits", "tour", "pace"}
    /\ focus # "orders" => \A r \in Remotes : shop[r].gateway = "card"
    /\ focus # "edits" => admin.lines = <<>>
    /\ focus # "tour" => ids = {}

ImportNext ==
    \/ focus = "orders" /\ Next /\ UNCHANGED <<contactVars, adminVars, focus>>
    \/ focus = "customers" /\ ContactNext /\ UNCHANGED <<vars, adminVars, focus>>
    \/ focus = "edits" /\ EditNext /\ UNCHANGED <<vars, contactVars, focus>>
    \/ focus = "tour" /\ TourNext /\ UNCHANGED <<vars, contactVars, focus>>
    \/ focus = "pace" /\ PaceNext /\ UNCHANGED <<vars, contactVars, focus>>

ImportSpec == ImportInit /\ [][ImportNext]_importVars

\* What must hold of customers and of the client's work, said above for each:
\* no import takes a contact for another's, no edit is left halfway in the order,
\* no walk leaves a row out (shopify/application, shopify/adapter/shopify/client.go).
ImportSafety == ContactSafety /\ AdminSafety
===============================================================================
