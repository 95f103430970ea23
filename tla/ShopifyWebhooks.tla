---------------------------- MODULE ShopifyWebhooks ----------------------------
(***************************************************************************)
(* Shopify's side doors: the OAuth callback that installs the app in a     *)
(* shop, the cache of installations every call takes its token from, and   *)
(* the webhook endpoint with its queue and workers.  Requests overlap, and *)
(* every statement and call of theirs is a step.                           *)
(***************************************************************************)
EXTENDS Integers, FiniteSets

CONSTANTS
    Shops,          \* shops
    OrderHooks,     \* deliveries that ask for an import
    UninstallHooks, \* deliveries that tell of an uninstallation
    HookShop,       \* delivery -> its shop
    HookTasks,      \* requests under way
    QueueLimit,     \* jobs the channel holds, workers * 8
    MaxTokens,      \* bound on the tokens issued
    MaxRestarts,    \* bound on the restarts of the process
    NoHook          \* no delivery, no shop

Hooks == OrderHooks \cup UninstallHooks
Tokens == 0..MaxTokens
NoToken == 0

ASSUME WebhookAssumption ==
    /\ HookShop \in [Hooks -> Shops]
    /\ OrderHooks \cap UninstallHooks = {}
    /\ QueueLimit \in Nat \ {0}
    /\ MaxTokens \in Nat /\ MaxRestarts \in Nat
    /\ NoHook \notin Hooks \cup Shops

VARIABLES
    granted,    \* Shopify: the token a shop's installation has, 0 if none
    issued,     \* Shopify: the tokens issued so far
    registered, \* Shopify: shops that send webhooks
    hook,       \* Shopify: what it knows of each delivery
    installs,   \* shopify_installations
    cache,      \* the tokens of the active installations in memory
    deliveries, \* shopify_webhook_deliveries
    queued,     \* jobs waiting or being worked on
    worked,     \* deliveries whose job ran, and how often
    phase,      \* up, or database closed on the way down
    hookTask,   \* the requests
    restarts,
    overtaken,  \* requests that listed installations which changed since
    stale,      \* the cache may differ: a refresh failed or was overtaken
    refused,    \* deliveries whose first try ended in an error
    dropped,    \* jobs that died with a process
    estranged   \* shops whose row was written out of Shopify's order, or that
                \* could not tell us

webhookVars == <<granted, issued, registered, hook, installs, cache, deliveries,
                 queued, worked, phase, hookTask, restarts, overtaken, stale,
                 refused, dropped, estranged>>
shopifySide == <<granted, issued, registered, hook>>
jobsSide == <<queued, worked, phase, restarts, dropped>>

Install == [token : Tokens, active : {"no", "yes"}]
Active == [s \in Shops |-> IF installs[s].active = "yes" THEN installs[s].token ELSE NoToken]

HookStages == {"idle", "upsert", "list", "set", "register", "enqueue", "mark"}
HookTask == [at : HookStages, shop : Shops \cup {NoHook}, hook : Hooks \cup {NoHook},
             token : Tokens, list : [Shops -> Tokens]]
IdleHookTask == [at |-> "idle", shop |-> NoHook, hook |-> NoHook, token |-> NoToken,
                 list |-> [s \in Shops |-> NoToken]]

AtStage(t, stage) == hookTask[t].at = stage /\ phase = "up"
Advance(t, stage) == hookTask' = [hookTask EXCEPT ![t].at = stage]
Finish(t) == hookTask' = [hookTask EXCEPT ![t] = IdleHookTask]
IsCallback(t) == hookTask[t].token # NoToken
IsHook(t) == hookTask[t].hook # NoHook

\* Shopify has its answer: an acknowledged delivery is not sent again.
Acknowledge(t) == hook' = [hook EXCEPT ![hookTask[t].hook] = "acked"]

\* The request ends in an error.
Refuse(t) ==
    /\ Finish(t)
    /\ refused' = IF IsHook(t) THEN refused \cup {hookTask[t].hook} ELSE refused

\* Those that have listed the installations but not yet put them in the cache.
Listed(t) == {u \in HookTasks \ {t} : hookTask[u].at = "set"}

------------------------------------------------------------------------------
(* Merchants, and Shopify's deliveries *)

\* The app is removed; its token and its webhooks are gone, and one notice is
\* sent if the shop sends any.
Uninstall(s) ==
    /\ granted[s] # NoToken
    /\ granted' = [granted EXCEPT ![s] = NoToken]
    /\ registered' = registered \ {s}
    /\ \/ /\ s \in registered
          /\ \E h \in UninstallHooks :
               /\ HookShop[h] = s /\ hook[h] = "none"
               /\ hook' = [hook EXCEPT ![h] = "sent"]
          /\ UNCHANGED estranged
       \/ s \notin registered /\ estranged' = estranged \cup {s} /\ UNCHANGED hook
    /\ UNCHANGED <<issued, installs, cache, deliveries, jobsSide, hookTask,
                   overtaken, stale, refused>>

OrderChanges(h) ==
    /\ hook[h] = "none"
    /\ HookShop[h] \in registered
    /\ hook' = [hook EXCEPT ![h] = "sent"]
    /\ UNCHANGED <<granted, issued, registered, installs, cache, deliveries,
                   jobsSide, hookTask, overtaken, stale, refused, estranged>>

------------------------------------------------------------------------------
(* oauthCallback *)

\* The merchant authorizes the app, Shopify calls back, and the code becomes a
\* token: a new one, unless the app is installed.
ExchangeAuthorizationCode(t, s) ==
    /\ AtStage(t, "idle")
    /\ LET token == IF granted[s] = NoToken THEN issued + 1 ELSE granted[s]
       IN  /\ token <= MaxTokens
           /\ granted' = [granted EXCEPT ![s] = token]
           /\ issued' = IF granted[s] = NoToken THEN token ELSE issued
           /\ hookTask' = [hookTask EXCEPT ![t] =
                 [IdleHookTask EXCEPT !.at = "upsert", !.shop = s, !.token = token]]
    /\ UNCHANGED <<registered, hook, installs, cache, deliveries, jobsSide, overtaken,
                   stale, refused, estranged>>

\* The row is created or replaced, and is active; if it cannot be read back, the
\* request ends there and the cache is not refreshed.
UpsertInstallation(t) ==
    LET s == hookTask[t].shop
    IN  /\ AtStage(t, "upsert")
        /\ \/ /\ installs' = [installs EXCEPT ![s] = [token |-> hookTask[t].token, active |-> "yes"]]
              /\ overtaken' = overtaken \cup Listed(t)
              /\ estranged' = estranged \cup (IF hookTask[t].token = granted[s] THEN {} ELSE {s})
              /\ \/ Advance(t, "list") /\ UNCHANGED stale
                 \/ Finish(t) /\ stale' = TRUE
           \/ Finish(t) /\ UNCHANGED <<installs, overtaken, estranged, stale>>
        /\ UNCHANGED <<shopifySide, cache, deliveries, jobsSide, refused>>

\* RegisterWebhooks, topic by topic; a topic that exists is no error.
RegisterWebhooks(t) ==
    LET s == hookTask[t].shop
    IN  /\ AtStage(t, "register")
        /\ registered' = registered \cup (IF granted[s] = hookTask[t].token THEN {s} ELSE {})
             \/ UNCHANGED registered
        /\ Finish(t)
        /\ UNCHANGED <<granted, issued, hook, installs, cache, deliveries, jobsSide,
                       overtaken, stale, refused, estranged>>

------------------------------------------------------------------------------
(* The cache *)

\* A call finds the cache empty and has it refreshed.
ResolveInstallation(t) ==
    /\ AtStage(t, "idle")
    /\ \A s \in Shops : cache[s] = NoToken
    /\ Advance(t, "list")
    /\ UNCHANGED <<shopifySide, installs, cache, deliveries, jobsSide, overtaken,
                   stale, refused, estranged>>

\* Refresh reads the rows; who wrote one and cannot read leaves the cache behind.
ListActive(t) ==
    /\ AtStage(t, "list")
    /\ \/ /\ hookTask' = [hookTask EXCEPT ![t].at = "set", ![t].list = Active]
          /\ UNCHANGED <<stale, refused>>
       \/ Refuse(t) /\ stale' = (stale \/ hookTask[t].shop # NoHook)
    /\ UNCHANGED <<shopifySide, installs, cache, deliveries, jobsSide, overtaken, estranged>>

\* ... and replaces the cache under its lock.
SetActive(t) ==
    /\ AtStage(t, "set")
    /\ cache' = hookTask[t].list
    /\ stale' = (t \in overtaken)
    /\ overtaken' = overtaken \ {t}
    /\ IF IsCallback(t) THEN Advance(t, "register") ELSE Finish(t)
    /\ IF IsHook(t) THEN Acknowledge(t) ELSE UNCHANGED hook
    /\ UNCHANGED <<granted, issued, registered, installs, deliveries, jobsSide,
                   refused, estranged>>

------------------------------------------------------------------------------
(* handleWebhook *)

\* Mutant: nobody asks whether the delivery was there.
AlwaysNew(h) == TRUE

\* The insert that does nothing on conflict tells who was first.
IsNewDelivery(h) == h \notin deliveries

\* A delivery is sent until it is acknowledged, more than once at a time if
\* that takes long.  The insert may fail: then nothing has happened.
CreateDeliveryIfAbsent(t, h) ==
    /\ AtStage(t, "idle")
    /\ hook[h] = "sent"
    /\ \/ /\ IsNewDelivery(h)
          /\ deliveries' = deliveries \cup {h}
          /\ hookTask' = [hookTask EXCEPT ![t] =
                [IdleHookTask EXCEPT !.at = IF h \in UninstallHooks THEN "mark" ELSE "enqueue",
                                     !.hook = h, !.shop = HookShop[h]]]
          /\ UNCHANGED hook
       \/ /\ ~IsNewDelivery(h)
          /\ hook' = [hook EXCEPT ![h] = "acked"]
          /\ UNCHANGED <<deliveries, hookTask>>
    /\ UNCHANGED <<granted, issued, registered, installs, cache, jobsSide,
                   overtaken, stale, refused, estranged>>

MarkUninstalled(t) ==
    LET s == hookTask[t].shop
    IN  /\ AtStage(t, "mark")
        /\ \/ /\ installs' = [installs EXCEPT ![s].active = "no"]
              /\ overtaken' = overtaken \cup Listed(t)
              /\ estranged' = estranged \cup (IF granted[s] = NoToken THEN {} ELSE {s})
              /\ Advance(t, "list")
              /\ UNCHANGED refused
           \/ Refuse(t) /\ UNCHANGED <<installs, overtaken, estranged>>
        /\ UNCHANGED <<shopifySide, cache, deliveries, jobsSide, stale>>

\* Enqueue waits for room in the channel, or gives up with the request.
Enqueue(t) ==
    /\ AtStage(t, "enqueue")
    /\ \/ /\ Cardinality(queued) < QueueLimit
          /\ queued' = queued \cup {hookTask[t].hook}
          /\ Acknowledge(t) /\ Finish(t)
          /\ UNCHANGED refused
       \/ Refuse(t) /\ UNCHANGED <<queued, hook>>
    /\ UNCHANGED <<granted, issued, registered, installs, cache, deliveries, worked,
                   phase, restarts, dropped, overtaken, stale, estranged>>

\* A worker runs a job; whether it fails is only logged.  On the way down the
\* queue is drained, but the database is closed and every job fails.
WorkJob(h) ==
    /\ h \in queued
    /\ queued' = queued \ {h}
    /\ IF phase = "up"
         THEN worked' = [worked EXCEPT ![h] = @ + 1] /\ UNCHANGED dropped
         ELSE dropped' = dropped \cup {h} /\ UNCHANGED worked
    /\ UNCHANGED <<shopifySide, installs, cache, deliveries, phase, hookTask,
                   restarts, overtaken, stale, refused, estranged>>

------------------------------------------------------------------------------
(* The process *)

\* Shutdown lets the requests finish and closes the database, and only then
\* stops the modules.
ShutDown ==
    /\ phase = "up"
    /\ \A t \in HookTasks : hookTask[t].at = "idle"
    /\ restarts < MaxRestarts
    /\ phase' = "closed"
    /\ UNCHANGED <<shopifySide, installs, cache, deliveries, queued, worked, hookTask,
                   restarts, dropped, overtaken, stale, refused, estranged>>

\* A process that died, or has gone down, is started again: Start refreshes.
Restart ==
    /\ restarts < MaxRestarts
    /\ restarts' = restarts + 1
    /\ phase' = "up"
    /\ refused' = refused \cup {hookTask[t].hook : t \in
                     {u \in HookTasks : hookTask[u].at \in {"mark", "list", "set", "enqueue"} /\ IsHook(u)}}
    /\ hookTask' = [t \in HookTasks |-> IdleHookTask]
    /\ dropped' = dropped \cup queued
    /\ queued' = {}
    /\ cache' = Active
    /\ stale' = FALSE
    /\ overtaken' = {}
    /\ UNCHANGED <<shopifySide, installs, deliveries, worked, estranged>>

WebhookInit ==
    /\ granted = [s \in Shops |-> NoToken]
    /\ issued = 0
    /\ registered = {}
    /\ hook = [h \in Hooks |-> "none"]
    /\ installs = [s \in Shops |-> [token |-> NoToken, active |-> "no"]]
    /\ cache = [s \in Shops |-> NoToken]
    /\ deliveries = {} /\ queued = {} /\ dropped = {}
    /\ worked = [h \in Hooks |-> 0]
    /\ phase = "up"
    /\ hookTask = [t \in HookTasks |-> IdleHookTask]
    /\ restarts = 0
    /\ overtaken = {} /\ stale = FALSE /\ refused = {} /\ estranged = {}

WebhookNext ==
    \/ \E t \in HookTasks :
         \/ UpsertInstallation(t) \/ RegisterWebhooks(t)
         \/ ResolveInstallation(t) \/ ListActive(t) \/ SetActive(t)
         \/ MarkUninstalled(t) \/ Enqueue(t)
         \/ \E s \in Shops : ExchangeAuthorizationCode(t, s)
         \/ \E h \in Hooks : CreateDeliveryIfAbsent(t, h)
    \/ \E s \in Shops : Uninstall(s)
    \/ \E h \in OrderHooks : OrderChanges(h) \/ WorkJob(h)
    \/ ShutDown \/ Restart

WebhookSpec == WebhookInit /\ [][WebhookNext]_webhookVars

------------------------------------------------------------------------------
(* Properties *)

WebhookTypes ==
    /\ granted \in [Shops -> Tokens] /\ issued \in Tokens
    /\ registered \subseteq Shops
    /\ hook \in [Hooks -> {"none", "sent", "acked"}]
    /\ installs \in [Shops -> Install]
    /\ cache \in [Shops -> Tokens]
    /\ deliveries \subseteq Hooks
    /\ queued \subseteq OrderHooks /\ Cardinality(queued) <= QueueLimit
    /\ worked \in [Hooks -> Nat]
    /\ phase \in {"up", "closed"}
    /\ hookTask \in [HookTasks -> HookTask]
    /\ restarts \in 0..MaxRestarts
    /\ overtaken \subseteq HookTasks /\ stale \in BOOLEAN
    /\ refused \subseteq Hooks /\ dropped \subseteq Hooks
    /\ estranged \subseteq Shops

Quiet == \A t \in HookTasks : hookTask[t].at \in {"idle", "enqueue", "register"}

\* Between requests the cache holds the active installations, although it is
\* read and replaced in two steps, except after a refresh that failed or was
\* overtaken by a write (installations.go, Refresh).
CacheAgrees == Quiet /\ ~stale => cache = Active

\* A delivery leads to one job at most, however often and however many at a
\* time it arrives, across restarts (handler.go, handleWebhook).
JobsOnce ==
    \A h \in OrderHooks :
        worked[h] + (IF h \in queued THEN 1 ELSE 0) <= 1

\* An acknowledged delivery has been taken over, unless its first try ended in
\* an error: then the next one is acknowledged and nothing is done.
AckedIsTaken ==
    \A h \in OrderHooks \ refused :
        hook[h] = "acked" =>
            \/ h \in queued \cup dropped \/ worked[h] = 1
            \/ \E t \in HookTasks : hookTask[t].at = "enqueue" /\ hookTask[t].hook = h

\* When Shopify's notices are worked off, no shop that removed the app is
\* active with a token that is no longer good, except where a notice and an
\* installation overtook each other, a notice was refused, or webhooks were not
\* registered.
RemovedIsInactive ==
    \A s \in Shops \ estranged :
        /\ installs[s].active = "yes" /\ installs[s].token # granted[s]
        => \E h \in UninstallHooks :
             /\ HookShop[h] = s
             /\ \/ hook[h] = "sent" \/ h \in refused
                \/ \E t \in HookTasks : hookTask[t].at = "mark" /\ hookTask[t].hook = h

WebhookSafety ==
    WebhookTypes /\ CacheAgrees /\ JobsOnce /\ AckedIsTaken /\ RemovedIsInactive
------------------------------------------------------------------------------
(* The inductive invariant behind WebhookSafety. *)

\* What a request carries at each of its stages.
Carries(t) ==
    LET k == hookTask[t]
    IN  /\ k.at = "idle" => k = IdleHookTask
        /\ k.at \in {"upsert", "register"} => k.token # NoToken
        /\ k.token # NoToken => k.shop \in Shops /\ k.hook = NoHook
        /\ k.at = "enqueue" =>
             k.hook \in OrderHooks /\ k.hook \notin queued /\ worked[k.hook] = 0
        /\ k.at = "mark" => k.hook \in UninstallHooks /\ k.shop = HookShop[k.hook]
        /\ k.at \in {"list", "set"} /\ k.hook # NoHook => k.hook \in UninstallHooks
        /\ k.hook # NoHook => k.hook \in deliveries

\* A delivery is taken over once, by one request.
OneTaker ==
    \A t, u \in HookTasks :
        /\ hookTask[t].at = "enqueue" /\ hookTask[u].at = "enqueue"
        /\ hookTask[t].hook = hookTask[u].hook
        => t = u

\* Who has written a row goes on to the cache, and who was not overtaken brings
\* it up to date.
Catching(t) == hookTask[t].at \in {"list", "set"} /\ hookTask[t].shop # NoHook
CacheFollows ==
    /\ \A t \in HookTasks : hookTask[t].at = "set" /\ t \notin overtaken => hookTask[t].list = Active
    /\ ~stale /\ cache # Active => \E t \in HookTasks : Catching(t)

Taken(h) ==
    \/ h \in queued \cup dropped \/ worked[h] = 1
    \/ \E t \in HookTasks : hookTask[t].at = "enqueue" /\ hookTask[t].hook = h

\* What the endpoint remembers of a delivery.
Remembered(h) ==
    /\ h \in deliveries => hook[h] # "none"
    /\ hook[h] = "acked" => h \in deliveries
    /\ worked[h] <= 1
    /\ h \in queued => h \in deliveries /\ worked[h] = 0
    /\ worked[h] # 0 => h \in deliveries
    /\ h \in deliveries /\ h \in OrderHooks \ refused => Taken(h)

\* The notice of a removal is on its way.
Noticed(s) ==
    \E h \in UninstallHooks :
        /\ HookShop[h] = s
        /\ \/ hook[h] = "sent" /\ h \notin deliveries
           \/ h \in refused
           \/ \E t \in HookTasks : hookTask[t].at = "mark" /\ hookTask[t].hook = h

RemovalNoticed ==
    \A s \in Shops :
        /\ installs[s].active = "yes" => installs[s].token # NoToken
        /\ s \notin estranged /\ installs[s].active = "yes" /\ installs[s].token # granted[s]
           => Noticed(s)

WebhookInv ==
    /\ WebhookTypes /\ IsFiniteSet(queued)
    /\ \A t \in HookTasks : Carries(t)
    /\ OneTaker /\ CacheFollows
    /\ \A h \in Hooks : Remembered(h)
    /\ RemovalNoticed
==============================================================================
