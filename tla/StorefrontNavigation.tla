------------------------ MODULE StorefrontNavigation ------------------------
(***************************************************************************)
(* The category tree and the storefront navigation built from it.  Every   *)
(* change of a category regenerates the navigation before its request      *)
(* returns; so do a timer, and a reader that finds the cache empty.  A     *)
(* mutex lets one regeneration run at a time; it reads the roots and then  *)
(* the children of one category after the other while requests go on, and  *)
(* stores what it has gathered.                                            *)
(***************************************************************************)
EXTENDS Integers, FiniteSets

CONSTANTS
    Categories,  \* category ids
    ShopTasks,   \* requests, readers and timers
    Top,         \* the parent of a root category
    NoCategory,  \* no category
    Empty        \* nothing cached

ASSUME NavigationAssumption ==
    /\ Top \notin Categories /\ NoCategory \notin Categories \cup {Top} \cup ShopTasks

VARIABLES
    category,  \* categories: parent_id of each, its row's state
    shopTask,  \* the requests, readers and timers
    builder,   \* who holds the mutex
    todo,      \* categories whose children the builder has still to read
    gathered,  \* what the builder has read: who is below whom
    cached,    \* the navigation in Redis
    lapsed     \* a regeneration a change asked for failed, and none has succeeded since

navigationVars == <<category, shopTask, builder, todo, gathered, cached, lapsed>>

------------------------------------------------------------------------------
(* The tree *)

Parents == Categories \cup {Top}
Category == [state : {"unused", "live", "deleted"}, parent : Parents]
NewCategory == [state |-> "unused", parent |-> Top]

LiveCategory(c) == category[c].state = "live"
Children(p) == {c \in Categories : LiveCategory(c) /\ category[c].parent = p}

Entries == Categories \X Parents
ChildEntries(p) == Children(p) \X {p}

\* The categories that hang on a root; those on a cycle or below a deleted
\* one do not.
Hanging ==
    {c \in Categories : \A S \in SUBSET Categories :
        (Children(Top) \subseteq S /\ \A x \in S : Children(x) \subseteq S) => c \in S}

\* The navigation as it should be.
Navigation == UNION {ChildEntries(p) : p \in Hanging \cup {Top}}

------------------------------------------------------------------------------
(* Requests *)

ShopStages == {"idle", "write", "remove", "refresh", "regenerate"}
ShopTask == [at : ShopStages, on : Categories \cup {NoCategory},
             parent : Parents]
NoShopTask == [at |-> "idle", on |-> NoCategory, parent |-> Top]

ShopGoto(t, stage) == shopTask' = [shopTask EXCEPT ![t].at = stage]
ShopDone(t) == shopTask' = [shopTask EXCEPT ![t] = NoShopTask]
NavigationUnchanged == UNCHANGED <<builder, todo, gathered, cached, lapsed>>

\* Create: that the parent exists is not checked.
CreateCategory(t, c) ==
    /\ shopTask[t].at = "idle"
    /\ category[c].state = "unused"
    /\ \E p \in Parents \ {c} :
         category' = [category EXCEPT ![c] = [state |-> "live", parent |-> p]]
    /\ ShopGoto(t, "refresh")
    /\ NavigationUnchanged

\* Update: the category is loaded; a parent is refused only when it is the
\* category itself.
UpdateCategory(t, c) ==
    /\ shopTask[t].at = "idle"
    /\ LiveCategory(c)
    /\ \E p \in Parents \ {c} :
         shopTask' = [shopTask EXCEPT ![t] = [at |-> "write", on |-> c, parent |-> p]]
    /\ NavigationUnchanged
    /\ UNCHANGED category

\* The row is written if it is still there.
WriteCategory(t) ==
    LET c == shopTask[t].on
    IN  /\ shopTask[t].at = "write"
        /\ \/ /\ LiveCategory(c)
              /\ category' = [category EXCEPT ![c].parent = shopTask[t].parent]
              /\ ShopGoto(t, "refresh")
           \/ ShopDone(t) /\ UNCHANGED category
        /\ NavigationUnchanged

\* Delete counts the children ...
DeleteCategory(t, c) ==
    /\ shopTask[t].at = "idle"
    /\ LiveCategory(c)
    /\ Children(c) = {}
    /\ shopTask' = [shopTask EXCEPT ![t] = [NoShopTask EXCEPT !.at = "remove", !.on = c]]
    /\ NavigationUnchanged
    /\ UNCHANGED category

\* ... and then deletes, whoever has become a child since.
RemoveCategory(t) ==
    LET c == shopTask[t].on
    IN  /\ shopTask[t].at = "remove"
        /\ \/ /\ LiveCategory(c)
              /\ category' = [category EXCEPT ![c].state = "deleted"]
              /\ ShopGoto(t, "refresh")
           \/ ShopDone(t) /\ UNCHANGED category
        /\ NavigationUnchanged

------------------------------------------------------------------------------
(* Regeneration *)

\* The timer, and a reader that misses the cache, regenerate for themselves.
Reload(t) ==
    /\ shopTask[t].at = "idle"
    /\ ShopGoto(t, "refresh")
    /\ NavigationUnchanged
    /\ UNCHANGED category

\* Mutant: a request that finds a regeneration under way leaves it to that one.
JoinRunning(t) ==
    /\ shopTask[t].at = "refresh"
    /\ IF builder = NoCategory
       THEN /\ builder' = t
            /\ gathered' = ChildEntries(Top)
            /\ todo' = Children(Top)
            /\ ShopGoto(t, "regenerate")
       ELSE ShopDone(t) /\ UNCHANGED <<builder, gathered, todo>>
    /\ UNCHANGED <<category, cached, lapsed>>

\* Regenerate takes the mutex and reads the roots.
BeginRegeneration(t) ==
    /\ shopTask[t].at = "refresh"
    /\ builder = NoCategory
    /\ builder' = t
    /\ gathered' = ChildEntries(Top)
    /\ todo' = Children(Top)
    /\ ShopGoto(t, "regenerate")
    /\ UNCHANGED <<category, cached, lapsed>>

ReadChildren(t, c) ==
    /\ builder = t
    /\ c \in todo
    /\ gathered' = gathered \cup ChildEntries(c)
    /\ todo' = (todo \ {c}) \cup Children(c)
    /\ UNCHANGED <<category, shopTask, builder, cached, lapsed>>

Unlocked(t) ==
    /\ builder' = NoCategory
    /\ gathered' = {}
    /\ todo' = {}
    /\ ShopDone(t)

\* persist
StoreNavigation(t) ==
    /\ builder = t
    /\ todo = {}
    /\ cached' = gathered
    /\ lapsed' = FALSE
    /\ Unlocked(t)
    /\ UNCHANGED category

\* A read or the store fails, or the regeneration times out: the navigation
\* cached before is kept, for longer.
FailRegeneration(t) ==
    /\ builder = t
    /\ lapsed' = TRUE
    /\ Unlocked(t)
    /\ UNCHANGED <<category, cached>>

\* The navigation expires.
ExpireNavigation ==
    /\ cached # Empty
    /\ cached' = Empty
    /\ UNCHANGED <<category, shopTask, builder, todo, gathered, lapsed>>

\* The process dies: the requests and their refreshes are gone.
ShopRestart ==
    /\ \E t \in ShopTasks : shopTask[t].at # "idle"
    /\ lapsed' = (lapsed \/ \E t \in ShopTasks : shopTask[t].at \in {"refresh", "regenerate"})
    /\ shopTask' = [t \in ShopTasks |-> NoShopTask]
    /\ builder' = NoCategory
    /\ gathered' = {}
    /\ todo' = {}
    /\ UNCHANGED <<category, cached>>

------------------------------------------------------------------------------

NavigationInit ==
    /\ category = [c \in Categories |-> NewCategory]
    /\ shopTask = [t \in ShopTasks |-> NoShopTask]
    /\ builder = NoCategory
    /\ todo = {}
    /\ gathered = {}
    /\ cached = Empty
    /\ lapsed = FALSE

NavigationNext ==
    \/ \E t \in ShopTasks :
         \/ \E c \in Categories :
              CreateCategory(t, c) \/ UpdateCategory(t, c) \/ DeleteCategory(t, c) \/ ReadChildren(t, c)
         \/ WriteCategory(t) \/ RemoveCategory(t)
         \/ Reload(t) \/ BeginRegeneration(t) \/ StoreNavigation(t) \/ FailRegeneration(t)
    \/ ExpireNavigation
    \/ ShopRestart

NavigationSpec == NavigationInit /\ [][NavigationNext]_navigationVars

------------------------------------------------------------------------------
(* Properties *)

NavigationTypes ==
    /\ category \in [Categories -> Category]
    /\ shopTask \in [ShopTasks -> ShopTask]
    /\ builder \in ShopTasks \cup {NoCategory}
    /\ todo \subseteq Categories
    /\ gathered \subseteq Entries
    /\ cached = Empty \/ cached \subseteq Entries
    /\ lapsed \in BOOLEAN

\* One regeneration holds the mutex, and only it gathers.
OneBuilder ==
    \A t \in ShopTasks : shopTask[t].at = "regenerate" <=> builder = t

\* When no request has a refresh to do and none has failed since the last one
\* succeeded, what is cached is the tree as it is: although regenerations read
\* it piece by piece while it changes, the one that stored last began after
\* the last change (service.go, Regenerate and TriggerRefresh).
NavigationCurrent ==
    (cached # Empty /\ ~lapsed /\ \A t \in ShopTasks : shopTask[t].at \notin {"refresh", "regenerate"})
        => cached = Navigation

NavigationSafety == NavigationTypes /\ OneBuilder /\ NavigationCurrent
==============================================================================
