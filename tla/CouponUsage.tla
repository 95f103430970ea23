----------------------------- MODULE CouponUsage -----------------------------
(***************************************************************************)
(* Coupons: their administration and their redemption.  A request loads    *)
(* the coupon, asks the usage table its questions one by one, and inserts  *)
(* the usage at the end; nothing holds the answers until then.  Every      *)
(* statement is a step, so requests overlap.                               *)
(***************************************************************************)
EXTENDS Integers, FiniteSets

CONSTANTS
    Coupons,      \* coupon ids
    Codes,        \* coupon codes
    Purchases,    \* orders
    Redeemers,    \* e-mail addresses
    Limits,       \* usage limits that are set
    CouponTasks,  \* requests under way
    NoLimit,      \* a limit that is not set
    NoEmail,      \* a redemption without address
    NoUsage       \* no row, no coupon, no code, no order

ASSUME CouponAssumption ==
    /\ Limits \subseteq Nat /\ NoLimit \notin Nat
    /\ IsFiniteSet(Purchases)
    /\ NoUsage \notin Coupons \cup Codes \cup Purchases \cup Redeemers \cup {NoEmail}
    /\ NoEmail \notin Redeemers

VARIABLES
    coupon,      \* coupons
    usage,       \* coupon_usages: who redeemed a coupon with an order
    couponTask,  \* the requests
    late,        \* redemptions overtaken by a write since their first read
    contested    \* coupons for which a late redemption was recorded, or whose
                 \* limits were set below what had been used

couponVars == <<coupon, usage, couponTask, late, contested>>

------------------------------------------------------------------------------
(* Rows *)

AnyLimit == Limits \cup {NoLimit}

\* A row that is open is active and has not expired.
Coupon == [state : {"unused", "live", "deleted"}, code : Codes \cup {NoUsage},
           global : AnyLimit, perEmail : AnyLimit, sale : {"open", "shut"}]
NewCoupon == [state |-> "unused", code |-> NoUsage, global |-> NoLimit,
              perEmail |-> NoLimit, sale |-> "shut"]

OnSale(c) == coupon[c].state = "live"

\* CodeExists does not see deleted coupons; the unique index does.
CodeExists(k) == \E c \in Coupons : OnSale(c) /\ coupon[c].code = k
CodeTaken(k) == \E c \in Coupons : coupon[c].code = k

Used(c) == {o \in Purchases : usage[c][o] # NoUsage}
UsedBy(c, e) == {o \in Purchases : usage[c][o] = e}

CountGlobalUsage(c) == Cardinality(Used(c))
CountUsageByEmail(c, e) == Cardinality(UsedBy(c, e))

\* Mutant: the last usage allowed is counted as one still to come.
BelowOrAt(limit, count) == limit # NoLimit => count <= limit

\* A limit that is not set admits everybody.
Below(limit, count) == limit # NoLimit => count < limit

WithinLimits(row, c) ==
    /\ row.global # NoLimit => CountGlobalUsage(c) <= row.global
    /\ row.perEmail # NoLimit =>
         \A e \in Redeemers : CountUsageByEmail(c, e) <= row.perEmail

------------------------------------------------------------------------------
(* Requests *)

CouponStages == {"idle", "insert", "save", "remove",
                 "checkOrder", "countGlobal", "countEmail", "record"}
CouponTask == [at : CouponStages, on : Coupons \cup {NoUsage},
               code : Codes \cup {NoUsage}, global : AnyLimit, perEmail : AnyLimit,
               order : Purchases \cup {NoUsage}, email : Redeemers \cup {NoEmail}]
IdleRequest == [at |-> "idle", on |-> NoUsage, code |-> NoUsage, global |-> NoLimit,
                perEmail |-> NoLimit, order |-> NoUsage, email |-> NoEmail]

Redeeming == {"checkOrder", "countGlobal", "countEmail", "record"}
OtherRedemptions(t, c) ==
    {u \in CouponTasks \ {t} : couponTask[u].at \in Redeeming /\ couponTask[u].on = c}

CouponStep(t, stage) == couponTask' = [couponTask EXCEPT ![t].at = stage]
CouponEnd(t) == couponTask' = [couponTask EXCEPT ![t] = IdleRequest]

\* Every row an administrator may send; validation leaves nothing else.
Given(code) ==
    {[state |-> "live", code |-> code, global |-> g, perEmail |-> p, sale |-> s] :
       g \in AnyLimit, p \in AnyLimit, s \in {"open", "shut"}}

\* Create: a code that is given, or drawn, must not exist; the id is fresh.
CreateCoupon(t) ==
    /\ couponTask[t].at = "idle"
    /\ \E c \in Coupons, k \in Codes :
         /\ coupon[c].state = "unused"
         /\ \A u \in CouponTasks : couponTask[u].on # c
         /\ ~CodeExists(k)
         /\ couponTask' = [couponTask EXCEPT ![t] =
                              [IdleRequest EXCEPT !.at = "insert", !.on = c, !.code = k]]
    /\ UNCHANGED <<coupon, usage, late, contested>>

\* The insert fails when the index holds the code; then the request does.
InsertCoupon(t) ==
    /\ couponTask[t].at = "insert"
    /\ \/ /\ ~CodeTaken(couponTask[t].code)
          /\ \E row \in Given(couponTask[t].code) :
               coupon' = [coupon EXCEPT ![couponTask[t].on] = row]
       \/ UNCHANGED coupon
    /\ CouponEnd(t)
    /\ UNCHANGED <<usage, late, contested>>

\* Update: everything but the code is replaced.
UpdateCoupon(t, c) ==
    /\ couponTask[t].at = "idle"
    /\ OnSale(c)
    /\ couponTask' = [couponTask EXCEPT ![t] =
                        [IdleRequest EXCEPT !.at = "save", !.on = c, !.code = coupon[c].code]]
    /\ UNCHANGED <<coupon, usage, late, contested>>

\* Save writes the row as it was built, without deleted_at: a coupon deleted
\* since it was loaded is back.
SaveCoupon(t) ==
    LET c == couponTask[t].on
    IN  /\ couponTask[t].at = "save"
        /\ \/ \E row \in Given(couponTask[t].code) :
                /\ coupon' = [coupon EXCEPT ![c] = row]
                /\ late' = late \cup OtherRedemptions(t, c)
                /\ contested' = contested \cup (IF WithinLimits(row, c) THEN {} ELSE {c})
           \/ UNCHANGED <<coupon, late, contested>>
        /\ CouponEnd(t)
        /\ UNCHANGED usage

DeleteCoupon(t, c) ==
    /\ couponTask[t].at = "idle"
    /\ OnSale(c)
    /\ couponTask' = [couponTask EXCEPT ![t] =
                        [IdleRequest EXCEPT !.at = "remove", !.on = c]]
    /\ UNCHANGED <<coupon, usage, late, contested>>

SoftDeleteCoupon(t) ==
    /\ couponTask[t].at = "remove"
    /\ \/ coupon' = [coupon EXCEPT ![couponTask[t].on].state = "deleted"]
       \/ UNCHANGED coupon
    /\ CouponEnd(t)
    /\ UNCHANGED <<usage, late, contested>>

\* Time passes: ExpiresAt is over.
Expire(c) ==
    /\ OnSale(c)
    /\ coupon[c].sale = "open"
    /\ coupon' = [coupon EXCEPT ![c].sale = "shut"]
    /\ UNCHANGED <<usage, couponTask, late, contested>>

------------------------------------------------------------------------------
(* Redemption *)

\* RecordUsage: the coupon is loaded, and is open.
Redeem(t, c) ==
    /\ couponTask[t].at = "idle"
    /\ OnSale(c)
    /\ coupon[c].sale = "open"
    /\ \E o \in Purchases, e \in Redeemers \cup {NoEmail} :
         couponTask' = [couponTask EXCEPT ![t] =
                          [at |-> "checkOrder", on |-> c, code |-> NoUsage,
                           global |-> coupon[c].global, perEmail |-> coupon[c].perEmail,
                           order |-> o, email |-> e]]
    /\ UNCHANGED <<coupon, usage, late, contested>>

\* A question to the usage table: the answer lets the redemption go on, or it
\* is refused, or the statement fails.
Ask(t, stage, next, ok) ==
    /\ couponTask[t].at = stage
    /\ \/ ok /\ CouponStep(t, next) /\ UNCHANGED late
       \/ CouponEnd(t) /\ late' = late \ {t}
    /\ UNCHANGED <<coupon, usage, contested>>

CheckOrder(t) ==
    Ask(t, "checkOrder", "countGlobal", usage[couponTask[t].on][couponTask[t].order] = NoUsage)

CountGlobal(t) ==
    Ask(t, "countGlobal", "countEmail",
        Below(couponTask[t].global, CountGlobalUsage(couponTask[t].on)))

CountEmail(t) ==
    Ask(t, "countEmail", "record",
        couponTask[t].email # NoEmail =>
            Below(couponTask[t].perEmail,
                  CountUsageByEmail(couponTask[t].on, couponTask[t].email)))

\* The usage is inserted, unless another of the same order is there.
RecordUsage(t) ==
    LET c == couponTask[t].on
        o == couponTask[t].order
    IN  /\ couponTask[t].at = "record"
        /\ \/ /\ usage[c][o] = NoUsage
              /\ usage' = [usage EXCEPT ![c][o] = couponTask[t].email]
              /\ late' = (late \cup OtherRedemptions(t, c)) \ {t}
              /\ contested' = contested \cup (IF t \in late THEN {c} ELSE {})
           \/ UNCHANGED <<usage, contested>> /\ late' = late \ {t}
        /\ CouponEnd(t)
        /\ UNCHANGED coupon

------------------------------------------------------------------------------

CouponInit ==
    /\ coupon = [c \in Coupons |-> NewCoupon]
    /\ usage = [c \in Coupons |-> [o \in Purchases |-> NoUsage]]
    /\ couponTask = [t \in CouponTasks |-> IdleRequest]
    /\ late = {}
    /\ contested = {}

CouponNext ==
    \/ \E t \in CouponTasks :
         \/ CreateCoupon(t) \/ InsertCoupon(t)
         \/ SaveCoupon(t) \/ SoftDeleteCoupon(t)
         \/ \E c \in Coupons : UpdateCoupon(t, c) \/ DeleteCoupon(t, c) \/ Redeem(t, c)
         \/ CheckOrder(t) \/ CountGlobal(t) \/ CountEmail(t) \/ RecordUsage(t)
    \/ \E c \in Coupons : Expire(c)

CouponSpec == CouponInit /\ [][CouponNext]_couponVars

------------------------------------------------------------------------------
(* Properties *)

CouponTypes ==
    /\ coupon \in [Coupons -> Coupon]
    /\ usage \in [Coupons -> [Purchases -> Redeemers \cup {NoEmail, NoUsage}]]
    /\ couponTask \in [CouponTasks -> CouponTask]
    /\ late \subseteq CouponTasks
    /\ contested \subseteq Coupons

\* No coupon is redeemed more often than its limits allow, in all or by one
\* address, except where two redemptions, or a redemption and a change of the
\* limits, overlapped: the counts are taken before the insert and nothing
\* keeps them true (service.go, RecordUsage).
LimitsKept ==
    \A c \in Coupons \ contested : OnSale(c) => WithinLimits(coupon[c], c)

\* A code names at most one coupon that can be redeemed, although the check
\* and the insert are separate and an update may bring a deleted coupon back:
\* a deleted coupon keeps its code from others (service.go Create, repository.go).
CodeNamesOne ==
    \A c, d \in Coupons :
        OnSale(c) /\ OnSale(d) /\ coupon[c].code = coupon[d].code => c = d

CouponSafety == CouponTypes /\ LimitsKept /\ CodeNamesOne
==============================================================================
