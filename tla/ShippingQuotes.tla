---------------------------- MODULE ShippingQuotes ----------------------------
(* What a parcel costs and what the courier collects for it. A quotation is    *)
(* asked of the carrier (TCC, the only one that quotes) and kept for a while;  *)
(* an equal one asked meanwhile is answered with the row that is there. Rows   *)
(* that have expired go with the next quotation, or with the hourly purge. A   *)
(* draft mark takes the freight from the client and what is to be collected    *)
(* from the client or the order; generating the mark works out the amount the  *)
(* courier asks for, so that the recipient pays no more than the order.        *)
(* Money is counted in units in which the surcharge is whole.                  *)
EXTENDS BoxPacking

CONSTANTS
    QuoteTasks,     \* requests for a quotation
    QuoteRows,      \* identifiers of stored quotations
    Parcels,        \* carrier, order, cities and carrier payload: what makes two quotations equal
    CodOrders,      \* orders with a draft mark at the carrier
    Debts,          \* what is to be collected for an order; 0 when it is paid
    FreightCosts,   \* freights
    Surcharge,      \* CODFeePercent of the carrier
    PaymentForms,   \* PaymentForm of the carrier, as configured
    QuoteTtl,       \* ExpirationTTLMinutes, in ticks
    LastInstant     \* bound: the clock stops here

ASSUME ShippingQuotesAssumption ==
    /\ IsFiniteSet(QuoteTasks) /\ IsFiniteSet(QuoteRows)
    /\ Debts \subseteq Nat /\ FreightCosts \subseteq Nat
    /\ Surcharge \in 0..100 /\ QuoteTtl \in Nat \ {0} /\ LastInstant \in Nat

VARIABLES
    instant,        \* the clock
    paymentForm,    \* the configured payment form
    debt,           \* what each order is worth at the door now
    quotes,         \* shipping_quotations
    quoteTasks,     \* the requests
    codMarks        \* each order's mark at the carrier

quoteVars == <<instant, paymentForm, debt, quotes, quoteTasks, codMarks>>

\* The row of an identifier that is not used.
Free == [parcel |-> "none", freight |-> 0, fee |-> 0, expires |-> 0]

Quiet == [phase |-> "idle", row |-> Free, twin |-> {}]

NoMark == [status |-> "NONE", freight |-> 0, cod |-> 0, charged |-> 0, form |-> "unset", collect |-> {}]

\* calculateCollectOnDeliveryChargedAmount.
Charged(amount) == amount + (amount * Surcharge) \div 100

Live(row) == row # Free /\ row.expires > instant

\* deleteExpiredQuotationsTx.
WithoutExpired == [q \in QuoteRows |-> IF Live(quotes[q]) THEN quotes[q] ELSE Free]

\* Rows quotationDuplicateExistsTx finds: the surcharge is not part of the
\* carrier's payload, so that it does not tell two quotations apart.
Twins(parcel) == {q \in QuoteRows : Live(quotes[q]) /\ quotes[q].parcel = parcel}

QuoteInit ==
    /\ instant = 0
    /\ paymentForm \in PaymentForms
    /\ debt \in [CodOrders -> Debts]
    /\ quotes = [q \in QuoteRows |-> Free]
    /\ quoteTasks = [t \in QuoteTasks |-> Quiet]
    /\ codMarks = [o \in CodOrders |-> NoMark]

\* The carrier answers a request with the freight; the surcharge is added here.
Quote(t, p, amount, f) ==
    /\ quoteTasks[t].phase = "idle"
    /\ quoteTasks' = [quoteTasks EXCEPT ![t] =
         [phase |-> "answered", twin |-> {},
          row |-> [parcel |-> p, freight |-> f, fee |-> Charged(amount) - amount,
                   expires |-> instant + QuoteTtl]]]
    /\ UNCHANGED <<instant, paymentForm, debt, quotes, codMarks>>

\* The transaction of Create drops what has expired and looks for an equal row,
BeginStore(t) ==
    /\ quoteTasks[t].phase = "answered"
    /\ quotes' = WithoutExpired
    /\ quoteTasks' = [quoteTasks EXCEPT ![t].phase = "looked", 
                                         ![t].twin = Twins(quoteTasks[t].row.parcel)]
    /\ UNCHANGED <<instant, paymentForm, debt, codMarks>>

\* and inserts the answer when it found none: nothing in the schema keeps a
\* second row out.
StoreQuote(t) ==
    /\ quoteTasks[t].phase = "looked"
    /\ IF quoteTasks[t].twin # {}
       THEN UNCHANGED quotes
       ELSE \E q \in QuoteRows : quotes[q] = Free /\ quotes' = [quotes EXCEPT ![q] = quoteTasks[t].row]
    /\ quoteTasks' = [quoteTasks EXCEPT ![t] = Quiet]
    /\ UNCHANGED <<instant, paymentForm, debt, codMarks>>

PurgeExpired ==
    /\ quotes' = WithoutExpired /\ quotes' # quotes
    /\ UNCHANGED <<instant, paymentForm, debt, quoteTasks, codMarks>>

QuoteTick ==
    /\ instant < LastInstant /\ instant' = instant + 1
    /\ UNCHANGED <<paymentForm, debt, quotes, quoteTasks, codMarks>>

\* The items or the payment of an order change.
ChangeOrder(o, amount) ==
    /\ debt[o] # amount /\ debt' = [debt EXCEPT ![o] = amount]
    /\ UNCHANGED <<instant, paymentForm, quotes, quoteTasks, codMarks>>

\* DraftMark: an order that cannot be read leaves the client's values as they
\* are. Normalize sets the charged amount to the amount itself: no quotation is
\* read for its surcharge.
DraftCodMark(o, f, amount, readable) ==
    LET cod == IF amount > 0 THEN amount ELSE IF readable THEN debt[o] ELSE 0
    IN  /\ codMarks[o] = NoMark
        /\ codMarks' = [codMarks EXCEPT ![o] =
             [NoMark EXCEPT !.status = "QUOTED", !.freight = f, !.cod = cod, !.charged = cod]]
        /\ UNCHANGED <<instant, paymentForm, debt, quotes, quoteTasks>>

\* The request GenerateMark builds of a mark: the payment form and the amount to
\* be collected, a set of one element, or of none when the key is absent.
Dispatch(mark) ==
    LET charged == IF mark.charged > mark.cod THEN mark.charged ELSE mark.cod
        rest == IF charged > mark.freight THEN charged - mark.freight ELSE 0
    IN  IF charged > 0 THEN [form |-> "2", collect |-> {rest}]
                       ELSE [form |-> paymentForm, collect |-> {}]

\* validateDispatchGuardrails without the rule on the amount.
FormGuardrail(mark, request) ==
    IF mark.charged > 0 \/ mark.cod > 0
    THEN request.form = "2" /\ request.collect # {}
    ELSE request.form = "1" /\ request.collect = {}

\* validateDispatchGuardrails.
Guardrail(mark, request) ==
    IF mark.charged > 0 \/ mark.cod > 0
    THEN request.form = "2" /\ \E a \in request.collect : a > 0
    ELSE request.form = "1" /\ request.collect = {}

\* Materialize: a request the guardrail refuses is not sent and fails the mark,
\* as a refusal of the carrier does.
GenerateCodMark(o, accepted) ==
    LET request == Dispatch(codMarks[o])
        ok == Guardrail(codMarks[o], request) /\ accepted
    IN  /\ codMarks[o].status = "QUOTED"
        /\ codMarks' = [codMarks EXCEPT ![o].status = IF ok THEN "CREATED" ELSE "FAILED",
                                        ![o].form = request.form, ![o].collect = request.collect]
        /\ UNCHANGED <<instant, paymentForm, debt, quotes, quoteTasks>>

\* Quotations and marks meet in the client only: it passes the freight on.
QuoteNext ==
    \/ \E t \in QuoteTasks, p \in Parcels, a \in Debts, f \in FreightCosts : Quote(t, p, a, f)
    \/ \E t \in QuoteTasks : BeginStore(t) \/ StoreQuote(t)
    \/ PurgeExpired \/ QuoteTick

CodNext ==
    \/ \E o \in CodOrders, a \in Debts : ChangeOrder(o, a)
    \/ \E o \in CodOrders, f \in FreightCosts, a \in Debts, r \in BOOLEAN : DraftCodMark(o, f, a, r)
    \/ \E o \in CodOrders, accepted \in BOOLEAN : GenerateCodMark(o, accepted)

QuoteSpec == QuoteInit /\ [][QuoteNext \/ CodNext]_quoteVars

-----------------------------------------------------------------------------
\* What the courier asks for and what the sender is billed for the freight make
\* up the debt of the mark, and a parcel that is paid for is delivered without a
\* word about money, whatever freight a client passes and whatever payment form
\* is configured (GenerateMark, validateDispatchGuardrails).
CollectsTheDebt ==
    \A o \in CodOrders :
        LET mark == codMarks[o]
        IN  mark.status = "CREATED" =>
                IF mark.cod > 0
                THEN mark.form = "2" /\ \E a \in mark.collect : a > 0 /\ a + mark.freight = mark.cod
                ELSE mark.form = "1" /\ mark.collect = {}

\* Equal quotations that are live at the same time are no more than the requests
\* that can be under way at once: a row that was found keeps others out, until it
\* expires, and whoever did not find it had looked before (QuotationRepository.Create).
FewTwins == \A p \in Parcels : Cardinality(Twins(p)) <= Cardinality(QuoteTasks)

\* What is kept of a quotation and what is collected at the door (Create, GenerateMark).
QuoteSafety == FewTwins /\ CollectsTheDebt

-----------------------------------------------------------------------------
(* What makes these inductive. *)

\* Requests that looked for an equal row, found none and will insert theirs.
Inserting(p) ==
    {t \in QuoteTasks : quoteTasks[t].phase = "looked" /\ quoteTasks[t].twin = {} /\ quoteTasks[t].row.parcel = p}

QuoteRow == [parcel : Parcels \cup {"none"}, freight : Nat, fee : Int, expires : Nat]

CodMark == [status : {"NONE", "QUOTED", "CREATED", "FAILED"}, freight : Nat, cod : Nat, charged : Nat,
            form : PaymentForms \cup {"unset", "2"}, collect : SUBSET Nat]

QuoteTypes ==
    /\ instant \in Nat /\ paymentForm \in PaymentForms
    /\ debt \in [CodOrders -> Debts]
    /\ quotes \in [QuoteRows -> QuoteRow]
    /\ quoteTasks \in [QuoteTasks -> [phase : {"idle", "answered", "looked"}, row : QuoteRow,
                                      twin : SUBSET QuoteRows]]
    /\ codMarks \in [CodOrders -> CodMark]

\* A row that is there and one that is about to be inserted each cost a request
\* that was under way when the first of them was; a draft charges what it is worth.
QuoteInv ==
    /\ QuoteTypes
    /\ \A p \in Parcels : Cardinality(Twins(p)) + Cardinality(Inserting(p)) <= Cardinality(QuoteTasks)
    /\ \A o \in CodOrders : codMarks[o].status = "QUOTED" => codMarks[o].charged = codMarks[o].cod
    /\ CollectsTheDebt
===============================================================================
