---------------------------- MODULE BackOfficeProofs ----------------------------
(***************************************************************************)
(* What holds of assets, folders, coupons, consent stamps, the server's    *)
(* start-up, the product catalogue, the storefront navigation and the      *)
(* listing of products for any number of rows, requests, replicas, answers *)
(* and crashes. The components share no state; each has its own section,   *)
(* invariant and theorems.                                                 *)
(***************************************************************************)
EXTENDS MCBackOffice, FiniteSetTheorems, SequenceTheorems, TLAPS

------------------------------------------------------------------------------
(* Assets: a live row names an object that exists. The invariant follows    *)
(* each task through its steps: an upload keeps its object until the row is *)
(* in, because nobody else creates that asset; a conversion knows which     *)
(* object the row names, because only the holder of the lock writes a row   *)
(* that is there. Whatever misreported steps undid is excused, as it is in  *)
(* the property.                                                            *)

\* Stages of an upload, and stages of work on a row that is there.
Creating == {"create", "insert", "undo"}
Working == {"lock", "lockDelete"} \cup Locked

\* What a task relies on at each stage; what misreported steps undid is excused.
TaskKnows(t) ==
    /\ assetTask[t].at # "idle" => Target(t) \in Assets
    /\ assetTask[t].at \in Creating =>
         assetTask[t].old \in {"png", "named", "jpg"} /\ row[Target(t)] # "unused"
    /\ assetTask[t].at \in {"create", "insert"} => row[Target(t)] = "new"
    /\ assetTask[t].at = "insert" => <<Target(t), KeyOf(assetTask[t].old)>> \in objects
    /\ assetTask[t].at = "undo" => Target(t) \in misreported \/ row[Target(t)] = "new"
    /\ assetTask[t].at \in Working => row[Target(t)] \notin {"unused", "new"}
    /\ assetTask[t].at \in {"convert", "swap"} =>
         row[Target(t)] = assetTask[t].old /\ assetTask[t].old \in {"png", "named"}
    /\ assetTask[t].at \in {"swap", "drop", "restore"} =>
         Target(t) \in misreported \/ <<Target(t), "jpg">> \in objects
    /\ assetTask[t].at \in {"drop", "restore"} => row[Target(t)] = "jpg"
    /\ assetTask[t].at \in {"drop", "restore", "clean"} => assetTask[t].old = "png"
    /\ assetTask[t].at \in {"drop", "restore"} =>
         Target(t) \in misreported \/ <<Target(t), "png">> \in objects
    /\ assetTask[t].at = "clean" =>
         Target(t) \in misreported \/ row[Target(t)] = "png"

\* An asset is created by one task.
OneCreator ==
    \A s, t \in AssetTasks :
        /\ assetTask[s].at \in Creating /\ assetTask[t].at \in Creating
        /\ Target(s) = Target(t)
        => s = t

AssetInv == AssetSafety /\ OneCreator /\ \A t \in AssetTasks : TaskKnows(t)

------------------------------------------------------------------------------
(* Locks *)

LEMMA AssetInvTypes ==
    ASSUME AssetInv
    PROVE  /\ row \in [Assets -> RowStates]
           /\ objects \subseteq Assets \X Extensions
           /\ assetLock \in [Assets -> AssetTasks \cup {Nobody}]
           /\ assetTask \in [AssetTasks -> AssetTask]
           /\ misreported \subseteq Assets
           /\ assetCrashes \in 0..MaxAssetCrashes
           /\ LockHeld /\ OneCreator
           /\ \A t \in AssetTasks : TaskKnows(t)
BY DEF AssetInv, AssetSafety, AssetTypes

\* The locks after a step are held by the tasks that work under one.
LocksSettled ==
    /\ assetLock' \in [Assets -> AssetTasks \cup {Nobody}]
    /\ LockHeld'

LEMMA TaskMoves ==
    ASSUME AssetInv, NEW t \in AssetTasks, NEW x \in AssetTask,
           assetTask' = [assetTask EXCEPT ![t] = x]
    PROVE  /\ assetTask' \in [AssetTasks -> AssetTask] /\ assetTask'[t] = x
           /\ \A s \in AssetTasks : s # t => assetTask'[s] = assetTask[s]
BY AssetInvTypes

LEMMA LockStays ==
    ASSUME AssetInv, NEW t \in AssetTasks, NEW x \in AssetTask,
           assetTask' = [assetTask EXCEPT ![t] = x], assetLock' = assetLock,
           x.at \in Locked <=> assetTask[t].at \in Locked,
           x.at \in Locked => x.asset = Target(t)
    PROVE  LocksSettled
BY TaskMoves, AssetInvTypes DEF LocksSettled, LockHeld, Target

LEMMA LockTaken ==
    ASSUME AssetInv, NEW t \in AssetTasks, NEW x \in AssetTask,
           assetTask' = [assetTask EXCEPT ![t] = x],
           Target(t) \in Assets, assetLock[Target(t)] = Nobody,
           assetLock' = [assetLock EXCEPT ![Target(t)] = t],
           assetTask[t].at \notin Locked, x.at \in Locked, x.asset = Target(t)
    PROVE  LocksSettled
<1>1. PICK b : b = Target(t)
  OBVIOUS
<1>2. /\ assetLock' \in [Assets -> AssetTasks \cup {Nobody}] /\ assetLock'[b] = t
      /\ \A a \in Assets : a # b => assetLock'[a] = assetLock[a]
  BY <1>1, AssetInvTypes
<1>3. /\ assetTask'[t] = x /\ \A s \in AssetTasks : s # t => assetTask'[s] = assetTask[s]
  BY TaskMoves
<1>4. \A a \in Assets : assetLock'[a] = t <=> x.at \in Locked /\ x.asset = a
  BY <1>1, <1>2, AssetInvTypes DEF LockHeld, Target
<1>5. ASSUME NEW s \in AssetTasks, s # t, NEW a \in Assets
      PROVE  assetLock'[a] = s <=> assetTask[s].at \in Locked /\ assetTask[s].asset = a
  BY <1>1, <1>2, <1>5, AssetInvTypes, AssetAssumption DEF LockHeld, Target
<1>6. LockHeld'
  BY <1>3, <1>4, <1>5 DEF LockHeld, Target
<1> QED BY <1>2, <1>6 DEF LocksSettled

LEMMA IdleTaskIs == IdleTask \in AssetTask /\ IdleTask.at = "idle"
BY DEF IdleTask, AssetTask, TaskStages, RowStates

LEMMA LockFreed ==
    ASSUME AssetInv, NEW t \in AssetTasks, EndTask(t)
    PROVE  LocksSettled
<1>1. assetTask' = [assetTask EXCEPT ![t] = IdleTask]
  BY DEF EndTask
<1>2. /\ assetTask'[t] = IdleTask
      /\ \A s \in AssetTasks : s # t => assetTask'[s] = assetTask[s]
  BY <1>1, IdleTaskIs, TaskMoves
<1>3. /\ assetLock' \in [Assets -> AssetTasks \cup {Nobody}]
      /\ \A a \in Assets :
           assetLock'[a] = IF assetLock[a] = t THEN Nobody ELSE assetLock[a]
  BY AssetInvTypes DEF EndTask
<1>4. "idle" \notin Locked
  BY DEF Locked
<1>5. \A a \in Assets : assetLock'[a] # t
  BY <1>3, AssetAssumption
<1>6. ASSUME NEW s \in AssetTasks, s # t, NEW a \in Assets
      PROVE  assetLock'[a] = s <=> assetTask[s].at \in Locked /\ assetTask[s].asset = a
  BY <1>3, <1>6, AssetInvTypes, AssetAssumption DEF LockHeld, Target
<1>7. LockHeld'
  BY <1>2, <1>4, <1>5, <1>6, IdleTaskIs DEF LockHeld, Target
<1> QED BY <1>3, <1>7 DEF LocksSettled

------------------------------------------------------------------------------
(* What the other tasks rely on *)

\* A step that touches the row and the objects of one asset only.
OnlyTouches(a) ==
    /\ row' \in [Assets -> RowStates] /\ objects' \subseteq Assets \X Extensions
    /\ misreported \subseteq misreported' /\ misreported' \subseteq misreported \cup {a}
    /\ \A b \in Assets : b # a =>
         /\ row'[b] = row[b]
         /\ \A e \in Extensions : <<b, e>> \in objects' <=> <<b, e>> \in objects

\* What the moving task leaves to tasks on the same asset: it holds the lock
\* and keeps the row a row, or it creates the asset.
Polite(t, a) ==
    \/ /\ assetTask[t].at \in Locked
       /\ row'[a] \notin {"unused", "new"}
    \/ /\ assetTask[t].at \in Creating
       /\ row'[a] # "unused"
       /\ row[a] # "new" => row'[a] = row[a] /\ a \in misreported
    \/ /\ row'[a] = row[a] /\ objects' = objects

LEMMA KeyIs == \A s : KeyOf(s) \in Extensions
BY DEF KeyOf, Extensions

LEMMA OthersKnow ==
    ASSUME AssetInv, NEW t \in AssetTasks, NEW a \in Assets, Target(t) = a,
           OnlyTouches(a), Polite(t, a),
           NEW s \in AssetTasks, s # t, assetTask'[s] = assetTask[s]
    PROVE  TaskKnows(s)'
<1>1. TaskKnows(s) /\ TaskKnows(t)
  BY AssetInvTypes
<1>2. PICK y, b : y = assetTask[s] /\ b = y.asset
  OBVIOUS
<1>3. /\ y.at # "idle" => b \in Assets
      /\ y.at \in Creating => y.old \in {"png", "named", "jpg"} /\ row[b] # "unused"
      /\ y.at \in {"create", "insert"} => row[b] = "new"
      /\ y.at = "insert" => <<b, KeyOf(y.old)>> \in objects
      /\ y.at = "undo" => b \in misreported \/ row[b] = "new"
      /\ y.at \in Working => row[b] \notin {"unused", "new"}
      /\ y.at \in {"convert", "swap"} => row[b] = y.old /\ y.old \in {"png", "named"}
      /\ y.at \in {"swap", "drop", "restore"} => b \in misreported \/ <<b, "jpg">> \in objects
      /\ y.at \in {"drop", "restore"} => row[b] = "jpg"
      /\ y.at \in {"drop", "restore", "clean"} => y.old = "png"
      /\ y.at \in {"drop", "restore"} => b \in misreported \/ <<b, "png">> \in objects
      /\ y.at = "clean" => b \in misreported \/ row[b] = "png"
  BY <1>1, <1>2 DEF TaskKnows, Target
<1>4. SUFFICES
        /\ y.at # "idle" => b \in Assets
        /\ y.at \in Creating => y.old \in {"png", "named", "jpg"} /\ row'[b] # "unused"
        /\ y.at \in {"create", "insert"} => row'[b] = "new"
        /\ y.at = "insert" => <<b, KeyOf(y.old)>> \in objects'
        /\ y.at = "undo" => b \in misreported' \/ row'[b] = "new"
        /\ y.at \in Working => row'[b] \notin {"unused", "new"}
        /\ y.at \in {"convert", "swap"} => row'[b] = y.old /\ y.old \in {"png", "named"}
        /\ y.at \in {"swap", "drop", "restore"} => b \in misreported' \/ <<b, "jpg">> \in objects'
        /\ y.at \in {"drop", "restore"} => row'[b] = "jpg"
        /\ y.at \in {"drop", "restore", "clean"} => y.old = "png"
        /\ y.at \in {"drop", "restore"} => b \in misreported' \/ <<b, "png">> \in objects'
        /\ y.at = "clean" => b \in misreported' \/ row'[b] = "png"
  BY <1>2 DEF TaskKnows, Target
<1>5. CASE b # a
  <2>1. "png" \in Extensions /\ "jpg" \in Extensions /\ KeyOf(y.old) \in Extensions
    BY KeyIs DEF Extensions
  <2>2. /\ y.at # "idle" => row'[b] = row[b]
        /\ y.at # "idle" /\ <<b, KeyOf(y.old)>> \in objects => <<b, KeyOf(y.old)>> \in objects'
        /\ y.at # "idle" /\ <<b, "png">> \in objects => <<b, "png">> \in objects'
        /\ y.at # "idle" /\ <<b, "jpg">> \in objects => <<b, "jpg">> \in objects'
        /\ b \in misreported => b \in misreported'
    BY <1>3, <1>5, <2>1 DEF OnlyTouches
  <2>3. "idle" \notin Creating \cup Working
    BY DEF Creating, Working, Locked
  <2> QED BY <1>3, <2>2, <2>3
<1>6. CASE b = a /\ row'[a] = row[a] /\ objects' = objects
  BY <1>3, <1>6 DEF OnlyTouches
<1>7. CASE b = a /\ assetTask[t].at \in Locked /\ row'[a] \notin {"unused", "new"}
  <2>1. y.at \notin Locked
    <3>1. assetLock[a] = t
      BY <1>7, AssetInvTypes DEF LockHeld
    <3>2. y.at \in Locked => assetLock[a] = s
      BY <1>2, <1>7, AssetInvTypes DEF LockHeld, Target
    <3> QED BY <3>1, <3>2
  <2>2. row[a] \notin {"unused", "new"}
    BY <1>1, <1>7 DEF TaskKnows, Working
  <2> QED BY <1>3, <1>7, <2>1, <2>2 DEF OnlyTouches, Locked, Working, Creating
<1>8. CASE /\ b = a /\ assetTask[t].at \in Creating /\ row'[a] # "unused"
           /\ row[a] # "new" => row'[a] = row[a] /\ a \in misreported
  <2>1. y.at \notin Creating
    BY <1>2, <1>8, AssetInvTypes DEF OneCreator, Target
  <2>2. y.at \in Working => row'[a] = row[a] /\ a \in misreported'
    BY <1>3, <1>8 DEF OnlyTouches
  <2> QED BY <1>3, <1>8, <2>1, <2>2 DEF Creating, Working, Locked
<1> QED BY <1>5, <1>6, <1>7, <1>8 DEF Polite

------------------------------------------------------------------------------
(* Steps *)

\* The pieces a step is put together from.
LEMMA StepKeeps ==
    ASSUME AssetInv, NEW t \in AssetTasks, NEW a \in Assets, NEW x \in AssetTask,
           Target(t) = a, assetTask' = [assetTask EXCEPT ![t] = x],
           OnlyTouches(a), Polite(t, a), LocksSettled, assetCrashes' = assetCrashes,
           x.at \in Creating => assetTask[t].at \in Creating /\ x.asset = a,
           TaskKnows(t)',
           a \in misreported' \/ (row'[a] \in {"png", "named", "jpg"} =>
             <<a, KeyOf(row'[a])>> \in objects')
    PROVE  AssetInv'
<1>1. /\ assetTask' \in [AssetTasks -> AssetTask] /\ assetTask'[t] = x
      /\ \A s \in AssetTasks : s # t => assetTask'[s] = assetTask[s]
  BY TaskMoves
<1>2. \A s \in AssetTasks : TaskKnows(s)'
  BY <1>1, OthersKnow
<1>3. OneCreator'
  BY <1>1, AssetInvTypes DEF OneCreator, Target
<1>4. AssetTypes'
  BY <1>1, AssetInvTypes DEF AssetTypes, OnlyTouches, LocksSettled
<1>5. RowsHaveObjects'
  <2> SUFFICES ASSUME NEW b \in Assets, b \notin misreported',
                      row'[b] \in {"png", "named", "jpg"}
               PROVE  <<b, KeyOf(row'[b])>> \in objects'
    BY DEF RowsHaveObjects, Live, KeyOf
  <2>1. CASE b = a
    BY <2>1
  <2>2. CASE b # a
    <3>1. row'[b] = row[b] /\ b \notin misreported /\ KeyOf(row[b]) \in Extensions
      BY <2>2, KeyIs DEF OnlyTouches
    <3>2. <<b, KeyOf(row[b])>> \in objects
      BY <3>1 DEF AssetInv, AssetSafety, RowsHaveObjects, Live
    <3> QED BY <2>2, <3>1, <3>2 DEF OnlyTouches, KeyOf
  <2> QED BY <2>1, <2>2
<1> QED BY <1>2, <1>3, <1>4, <1>5 DEF AssetInv, AssetSafety, LocksSettled

\* A task that ends, having changed no row and no object another task counts on.
LEMMA EndKeeps ==
    ASSUME AssetInv, NEW t \in AssetTasks, NEW a \in Assets, Target(t) = a,
           EndTask(t), OnlyTouches(a), Polite(t, a), assetCrashes' = assetCrashes,
           a \in misreported' \/ (row'[a] \in {"png", "named", "jpg"} =>
             <<a, KeyOf(row'[a])>> \in objects')
    PROVE  AssetInv'
<1>1. assetTask' = [assetTask EXCEPT ![t] = IdleTask]
  BY DEF EndTask
<1>2. assetTask'[t] = IdleTask
  BY <1>1, IdleTaskIs, TaskMoves
<1>3. "idle" \notin Creating \cup Working
  BY DEF Creating, Working, Locked
<1>4. TaskKnows(t)'
  BY <1>2, <1>3, IdleTaskIs DEF TaskKnows, Creating
<1>5. LocksSettled
  BY LockFreed
<1> QED BY <1>1, <1>3, <1>4, <1>5, IdleTaskIs, StepKeeps

\* What holds of the moving task's own asset.
LEMMA OwnAsset ==
    ASSUME AssetInv, NEW t \in AssetTasks, assetTask[t].at # "idle"
    PROVE  /\ Target(t) \in Assets /\ assetTask[t] \in AssetTask /\ TaskKnows(t)
           /\ row[Target(t)] \in RowStates
           /\ Target(t) \in misreported \/
                (row[Target(t)] \in {"png", "named", "jpg"} =>
                   <<Target(t), KeyOf(row[Target(t)])>> \in objects)
<1>1. Target(t) \in Assets /\ assetTask[t] \in AssetTask /\ TaskKnows(t)
  BY AssetInvTypes DEF TaskKnows
<1> QED BY <1>1, AssetInvTypes DEF AssetInv, AssetSafety, RowsHaveObjects, Live

\* Nothing but the task and the locks changes.
LEMMA QuietTouch ==
    ASSUME AssetInv, UNCHANGED <<row, objects, misreported>>, NEW a
    PROVE  OnlyTouches(a) /\ \A t : Polite(t, a)
BY AssetInvTypes DEF OnlyTouches, Polite

\* Writing one row.
LEMMA RowTouch ==
    ASSUME AssetInv, NEW a \in Assets, NEW v \in RowStates,
           row' = [row EXCEPT ![a] = v], objects' = objects,
           misreported' = misreported \/ misreported' = misreported \cup {a}
    PROVE  OnlyTouches(a) /\ row'[a] = v
BY AssetInvTypes DEF OnlyTouches

\* Writing or deleting one object.
LEMMA ObjectTouch ==
    ASSUME AssetInv, NEW a \in Assets, NEW e \in Extensions,
           \/ objects' = objects \cup {<<a, e>>}
           \/ objects' = objects \ {<<a, e>>}
           \/ objects' = objects,
           row' = row,
           misreported' = misreported \/ misreported' = misreported \cup {a}
    PROVE  OnlyTouches(a)
<1>1. objects' \subseteq Assets \X Extensions
  BY AssetInvTypes
<1> QED BY <1>1, AssetInvTypes DEF OnlyTouches

LEMMA StartCreateKeeps ==
    ASSUME AssetInv, NEW t \in AssetTasks, NEW a \in Assets, StartCreate(t, a)
    PROVE  AssetInv'
<1>1. PICK v \in {"png", "named", "jpg"} :
        /\ assetTask[t].at = "idle"
        /\ assetTask' = [assetTask EXCEPT ![t] = [at |-> "create", asset |-> a, old |-> v]]
  BY DEF StartCreate
<1>2. PICK x : x = [at |-> "create", asset |-> a, old |-> v]
  OBVIOUS
<1>3. x \in AssetTask /\ x.at = "create" /\ x.asset = a /\ x.old = v
  BY <1>2 DEF AssetTask, TaskStages, RowStates
<1>4. /\ row[a] = "unused" /\ row' = [row EXCEPT ![a] = "new"]
      /\ UNCHANGED <<objects, assetLock, misreported, assetCrashes>>
      /\ assetTask' = [assetTask EXCEPT ![t] = x] /\ assetTask[t].at = "idle"
  BY <1>1, <1>2 DEF StartCreate
<1>5. "idle" \notin Locked /\ "create" \notin Locked /\ "create" \in Creating /\ "create" \notin Working
  BY DEF Locked, Creating, Working
<1>6. /\ row' \in [Assets -> RowStates] /\ row'[a] = "new"
      /\ \A b \in Assets : b # a => row'[b] = row[b]
  BY <1>4, AssetInvTypes DEF RowStates
<1>7. /\ assetTask' \in [AssetTasks -> AssetTask] /\ assetTask'[t] = x
      /\ \A s \in AssetTasks : s # t => assetTask'[s] = assetTask[s]
  BY <1>3, <1>4, TaskMoves
<1>8. LocksSettled
  BY <1>3, <1>4, <1>5, LockStays
<1>9. TaskKnows(t)'
  BY <1>3, <1>5, <1>6, <1>7 DEF TaskKnows, Target
<1>10. ASSUME NEW s \in AssetTasks, s # t
       PROVE  /\ TaskKnows(s)'
              /\ assetTask[s].at \in Creating => Target(s) # a
  <2>1. TaskKnows(s)
    BY AssetInvTypes
  <2>2. assetTask[s].at # "idle" => Target(s) \in Assets /\ Target(s) # a
    <3>1. CASE assetTask[s].at \in Creating \cup Working
      BY <1>4, <2>1, <3>1 DEF TaskKnows, Creating, Working, Locked
    <3>2. CASE assetTask[s].at \notin Creating \cup Working
      <4>1. assetTask[s] \in AssetTask
        BY AssetInvTypes
      <4> QED BY <3>2, <4>1 DEF AssetTask, TaskStages, Creating, Working, Locked
    <3> QED BY <3>1, <3>2
  <2>3. "idle" \notin Creating \cup Working
    BY DEF Creating, Working, Locked
  <2> QED
    BY <1>4, <1>6, <1>7, <1>10, <2>1, <2>2, <2>3 DEF TaskKnows, Target, Creating, Working, Locked
<1>11. OneCreator'
  BY <1>3, <1>7, <1>10, AssetInvTypes DEF OneCreator, Target
<1>12. AssetTypes'
  BY <1>4, <1>6, <1>7, <1>8, AssetInvTypes DEF AssetTypes, LocksSettled
<1>13. RowsHaveObjects'
  BY <1>4, <1>6 DEF AssetInv, AssetSafety, RowsHaveObjects, Live, KeyOf
<1> QED
  BY <1>8, <1>9, <1>10, <1>11, <1>12, <1>13 DEF AssetInv, AssetSafety, LocksSettled

LEMMA UploadNewKeeps ==
    ASSUME AssetInv, NEW t \in AssetTasks, UploadNew(t)
    PROVE  AssetInv'
<1>1. PICK a, old, e : a = Target(t) /\ old = assetTask[t].old /\ e = KeyOf(old)
  OBVIOUS
<1>2. /\ a \in Assets /\ assetTask[t] \in AssetTask /\ row[a] = "new" /\ e \in Extensions
      /\ old \in {"png", "named", "jpg"} /\ assetTask[t].at = "create"
  BY <1>1, OwnAsset, KeyIs DEF UploadNew, TaskKnows, Creating
<1>3. /\ UNCHANGED <<row, misreported, assetCrashes>>
      /\ \/ objects' = objects \cup {<<a, e>>} \/ objects' = objects
  BY <1>1 DEF UploadNew, Upload
<1>4. OnlyTouches(a)
  BY <1>2, <1>3, ObjectTouch
<1>5. Polite(t, a)
  BY <1>2, <1>3 DEF Polite, Creating
<1>6. CASE EndTask(t)
  BY <1>1, <1>2, <1>3, <1>4, <1>5, <1>6, EndKeeps
<1>7. CASE objects' = objects \cup {<<a, e>>} /\ To(t, "insert") /\ UNCHANGED assetLock
  <2>1. PICK x : x = [assetTask[t] EXCEPT !.at = "insert"]
    OBVIOUS
  <2>2. x \in AssetTask /\ x.at = "insert" /\ x.asset = a /\ x.old = old
    BY <1>1, <1>2, <2>1 DEF AssetTask, TaskStages, Target
  <2>3. assetTask' = [assetTask EXCEPT ![t] = x]
    BY <1>7, <2>1 DEF To
  <2>4. assetTask'[t] = x
    BY <2>2, <2>3, TaskMoves
  <2>5. TaskKnows(t)'
    BY <1>1, <1>2, <1>3, <1>7, <2>2, <2>4 DEF TaskKnows, Target, Creating, Working, Locked
  <2>6. LocksSettled
    BY <1>2, <1>7, <2>2, <2>3, LockStays DEF Locked
  <2> QED
    BY <1>1, <1>2, <1>3, <1>4, <1>5, <2>2, <2>3, <2>5, <2>6, StepKeeps DEF Creating
<1> QED BY <1>1, <1>6, <1>7 DEF UploadNew, Upload

LEMMA ToIs ==
    ASSUME AssetInv, NEW t \in AssetTasks, NEW stage \in TaskStages, To(t, stage)
    PROVE  \E x \in AssetTask :
             /\ assetTask' = [assetTask EXCEPT ![t] = x] /\ assetTask'[t] = x
             /\ x.at = stage /\ x.asset = Target(t) /\ x.old = assetTask[t].old
<1>1. PICK x : x = [assetTask[t] EXCEPT !.at = stage]
  OBVIOUS
<1>2. /\ x \in AssetTask /\ x.at = stage /\ x.asset = Target(t)
      /\ x.old = assetTask[t].old
  BY <1>1, AssetInvTypes DEF AssetTask, Target
<1>3. assetTask' = [assetTask EXCEPT ![t] = x]
  BY <1>1 DEF To
<1> QED BY <1>2, <1>3, TaskMoves

\* A task goes on to another stage of the same kind: it holds a lock before and
\* after, or neither, and starts creating nothing.
LEMMA ToKeeps ==
    ASSUME AssetInv, NEW t \in AssetTasks, NEW a \in Assets, Target(t) = a,
           NEW stage \in TaskStages, To(t, stage), assetLock' = assetLock,
           stage \in Locked <=> assetTask[t].at \in Locked,
           stage \in Creating => assetTask[t].at \in Creating,
           OnlyTouches(a), Polite(t, a), assetCrashes' = assetCrashes,
           TaskKnows(t)',
           a \in misreported' \/ (row'[a] \in {"png", "named", "jpg"} =>
             <<a, KeyOf(row'[a])>> \in objects')
    PROVE  AssetInv'
<1>1. PICK x \in AssetTask :
        /\ assetTask' = [assetTask EXCEPT ![t] = x]
        /\ x.at = stage /\ x.asset = a
  BY ToIs
<1>2. LocksSettled
  BY <1>1, LockStays
<1> QED BY <1>1, <1>2, StepKeeps

LEMMA InsertRowKeeps ==
    ASSUME AssetInv, NEW t \in AssetTasks, InsertRow(t)
    PROVE  AssetInv'
<1>1. PICK a, old : a = Target(t) /\ old = assetTask[t].old
  OBVIOUS
<1>2. /\ a \in Assets /\ assetTask[t] \in AssetTask /\ row[a] = "new"
      /\ old \in {"png", "named", "jpg"} /\ assetTask[t].at = "insert"
      /\ <<a, KeyOf(old)>> \in objects /\ old \in RowStates
      /\ UNCHANGED <<objects, assetCrashes>>
  BY <1>1, OwnAsset DEF InsertRow, TaskKnows, Creating, RowStates
<1>3. CASE row' = [row EXCEPT ![a] = old] /\ EndTask(t) /\ UNCHANGED misreported
  <2>1. OnlyTouches(a) /\ row'[a] = old
    BY <1>2, <1>3, RowTouch
  <2>2. Polite(t, a)
    BY <1>2, <2>1 DEF Polite, Creating
  <2> QED BY <1>1, <1>2, <1>3, <2>1, <2>2, EndKeeps
<1>4. CASE /\ row' = [row EXCEPT ![a] = old] /\ To(t, "undo") /\ UNCHANGED assetLock
           /\ misreported' = misreported \cup {a}
  <2>1. OnlyTouches(a) /\ row'[a] = old
    BY <1>2, <1>4, RowTouch
  <2>2. Polite(t, a)
    BY <1>2, <2>1 DEF Polite, Creating
  <2>3. "undo" \in TaskStages /\ "undo" \in Creating /\ "undo" \notin Locked
    BY DEF TaskStages, Creating, Locked
  <2>4. PICK x \in AssetTask :
          assetTask'[t] = x /\ x.at = "undo" /\ x.asset = a /\ x.old = old
    BY <1>1, <1>4, <2>3, ToIs
  <2>5. TaskKnows(t)'
    BY <1>2, <1>4, <2>1, <2>4 DEF TaskKnows, Target, Creating, Working, Locked
  <2>6. assetTask[t].at \notin Locked /\ assetTask[t].at \in Creating
    BY <1>2 DEF Locked, Creating
  <2> QED BY <1>1, <1>2, <1>4, <2>1, <2>2, <2>3, <2>5, <2>6, ToKeeps
<1>5. CASE To(t, "undo") /\ UNCHANGED <<row, assetLock, misreported>>
  <2>1. OnlyTouches(a) /\ Polite(t, a)
    BY <1>2, <1>5, QuietTouch
  <2>3. "undo" \in TaskStages /\ "undo" \in Creating /\ "undo" \notin Locked
    BY DEF TaskStages, Creating, Locked
  <2>4. PICK x \in AssetTask :
          assetTask'[t] = x /\ x.at = "undo" /\ x.asset = a /\ x.old = old
    BY <1>1, <1>5, <2>3, ToIs
  <2>5. TaskKnows(t)'
    BY <1>2, <1>5, <2>4 DEF TaskKnows, Target, Creating, Working, Locked
  <2>6. assetTask[t].at \notin Locked /\ assetTask[t].at \in Creating
    BY <1>2 DEF Locked, Creating
  <2> QED BY <1>1, <1>2, <1>5, <2>1, <2>3, <2>5, <2>6, ToKeeps
<1> QED BY <1>1, <1>3, <1>4, <1>5 DEF InsertRow

LEMMA UndoUploadKeeps ==
    ASSUME AssetInv, NEW t \in AssetTasks, UndoUpload(t)
    PROVE  AssetInv'
<1>1. PICK a, e : a = Target(t) /\ e = KeyOf(assetTask[t].old)
  OBVIOUS
<1>2. /\ a \in Assets /\ row[a] # "unused" /\ (a \in misreported \/ row[a] = "new")
      /\ e \in Extensions /\ assetTask[t].at = "undo" /\ EndTask(t)
      /\ UNCHANGED <<row, misreported, assetCrashes>>
      /\ objects' = objects \ {<<a, e>>} \/ objects' = objects
  BY <1>1, OwnAsset, KeyIs DEF UndoUpload, DeleteObject, TaskKnows, Creating
<1>3. OnlyTouches(a)
  BY <1>2, ObjectTouch
<1>4. Polite(t, a)
  BY <1>2 DEF Polite, Creating
<1> QED BY <1>1, <1>2, <1>3, <1>4, EndKeeps

\* A task takes an asset on, to wait for its lock.
LEMMA BeginKeeps ==
    ASSUME AssetInv, NEW t \in AssetTasks, NEW a \in Assets,
           NEW stage \in {"lock", "lockDelete"}, Live(a), Begin(t, a, stage), row' = row
    PROVE  AssetInv'
<1>1. PICK x : x = [at |-> stage, asset |-> a, old |-> row[a]]
  OBVIOUS
<1>2. x \in AssetTask /\ x.at = stage /\ x.asset = a
  BY <1>1, AssetInvTypes DEF AssetTask, TaskStages
<1>3. /\ assetTask' = [assetTask EXCEPT ![t] = x] /\ assetTask[t].at = "idle"
      /\ UNCHANGED <<row, objects, assetLock, misreported, assetCrashes>>
  BY <1>1 DEF Begin
<1>4. /\ assetTask' \in [AssetTasks -> AssetTask] /\ assetTask'[t] = x
      /\ \A s \in AssetTasks : s # t => assetTask'[s] = assetTask[s]
  BY <1>2, <1>3, TaskMoves
<1>5. LocksSettled
  BY <1>2, <1>3, LockStays DEF Locked
<1>6. row[a] \notin {"unused", "new"}
  BY DEF Live
<1>7. TaskKnows(t)'
  BY <1>2, <1>3, <1>4, <1>6 DEF TaskKnows, Target, Creating, Working, Locked
<1>8. \A s \in AssetTasks : s # t => TaskKnows(s)'
  BY <1>3, <1>4, AssetInvTypes DEF TaskKnows, Target
<1>9. OneCreator'
  BY <1>2, <1>3, <1>4, AssetInvTypes DEF OneCreator, Target, Creating
<1>10. AssetTypes'
  BY <1>3, <1>4, AssetInvTypes DEF AssetTypes
<1>11. RowsHaveObjects'
  BY <1>3 DEF AssetInv, AssetSafety, RowsHaveObjects, Live
<1> QED
  BY <1>5, <1>7, <1>8, <1>9, <1>10, <1>11 DEF AssetInv, AssetSafety, LocksSettled

LEMMA LockAndLoadKeeps ==
    ASSUME AssetInv, NEW t \in AssetTasks, LockAndLoad(t)
    PROVE  AssetInv'
<1>1. PICK a : a = Target(t)
  OBVIOUS
<1>2. /\ a \in Assets /\ assetTask[t] \in AssetTask /\ assetTask[t].at = "lock"
      /\ assetLock[a] = Nobody /\ row[a] \notin {"unused", "new"} /\ row[a] \in RowStates
      /\ UNCHANGED <<row, objects, misreported, assetCrashes>>
      /\ a \in misreported \/ (row[a] \in {"png", "named", "jpg"} =>
           <<a, KeyOf(row[a])>> \in objects)
  BY <1>1, OwnAsset DEF LockAndLoad, TaskKnows, Working
<1>3. OnlyTouches(a) /\ Polite(t, a)
  BY <1>2, QuietTouch
<1>4. a \in misreported' \/ (row'[a] \in {"png", "named", "jpg"} =>
        <<a, KeyOf(row'[a])>> \in objects')
  BY <1>2 DEF KeyOf
<1>5. CASE /\ row[a] \in {"png", "named"}
           /\ assetTask' = [assetTask EXCEPT ![t].at = "convert", ![t].old = row[a]]
           /\ assetLock' = [assetLock EXCEPT ![a] = t]
  <2>1. PICK x : x = [assetTask[t] EXCEPT !.at = "convert", !.old = row[a]]
    OBVIOUS
  <2>2. x \in AssetTask /\ x.at = "convert" /\ x.asset = a /\ x.old = row[a]
    BY <1>1, <1>2, <2>1 DEF AssetTask, TaskStages, Target
  <2>3. assetTask' = [assetTask EXCEPT ![t] = x]
    BY <1>5, <2>1
  <2>4. assetTask'[t] = x
    BY <2>2, <2>3, TaskMoves
  <2>5. TaskKnows(t)'
    BY <1>2, <1>5, <2>2, <2>4 DEF TaskKnows, Target, Creating, Working, Locked
  <2>6. LocksSettled
    BY <1>1, <1>2, <1>5, <2>2, <2>3, LockTaken DEF Locked
  <2> QED
    BY <1>1, <1>2, <1>3, <1>4, <2>2, <2>3, <2>5, <2>6, StepKeeps DEF Creating
<1>6. CASE assetTask' = [assetTask EXCEPT ![t] = IdleTask] /\ UNCHANGED assetLock
  <2>1. assetTask'[t] = IdleTask
    BY <1>6, IdleTaskIs, TaskMoves
  <2>2. "idle" \notin Creating \cup Working \cup Locked /\ "lock" \notin Locked
    BY DEF Creating, Working, Locked
  <2>3. TaskKnows(t)'
    BY <2>1, <2>2, IdleTaskIs DEF TaskKnows, Creating
  <2>4. LocksSettled
    BY <1>2, <1>6, <2>2, IdleTaskIs, LockStays
  <2> QED
    BY <1>1, <1>2, <1>3, <1>4, <1>6, <2>2, <2>3, <2>4, IdleTaskIs, StepKeeps
<1> QED BY <1>1, <1>5, <1>6 DEF LockAndLoad, Live, IsJPGAsset

LEMMA ConvertKeeps ==
    ASSUME AssetInv, NEW t \in AssetTasks, Convert(t)
    PROVE  AssetInv'
<1>1. PICK a, old : a = Target(t) /\ old = assetTask[t].old
  OBVIOUS
<1>2. /\ a \in Assets /\ assetTask[t].at = "convert"
      /\ row[a] = old /\ old \in {"png", "named"} /\ row[a] \notin {"unused", "new"}
      /\ a \in misreported \/ <<a, KeyOf(row[a])>> \in objects
      /\ UNCHANGED <<row, misreported, assetCrashes>>
      /\ objects' = objects \cup {<<a, "jpg">>} \/ objects' = objects
  BY <1>1, OwnAsset DEF Convert, Upload, ReplaceWithJPGExtension, TaskKnows, Working, Locked
<1>3. OnlyTouches(a)
  BY <1>2, ObjectTouch DEF Extensions
<1>4. Polite(t, a)
  BY <1>2 DEF Polite, Locked
<1>5. a \in misreported' \/ (row'[a] \in {"png", "named", "jpg"} =>
        <<a, KeyOf(row'[a])>> \in objects')
  BY <1>2 DEF KeyOf
<1>6. CASE EndTask(t)
  BY <1>1, <1>2, <1>3, <1>4, <1>5, <1>6, EndKeeps
<1>7. CASE objects' = objects \cup {<<a, "jpg">>} /\ To(t, "swap") /\ UNCHANGED assetLock
  <2>1. "swap" \in TaskStages /\ "swap" \in Locked /\ "swap" \notin Creating
    BY DEF TaskStages, Locked, Creating
  <2>2. PICK x \in AssetTask :
          assetTask'[t] = x /\ x.at = "swap" /\ x.asset = a /\ x.old = old
    BY <1>1, <1>7, <2>1, ToIs
  <2>3. TaskKnows(t)'
    BY <1>2, <1>7, <2>2 DEF TaskKnows, Target, Creating, Working, Locked
  <2>4. assetTask[t].at \in Locked
    BY <1>2 DEF Locked
  <2> QED BY <1>1, <1>2, <1>3, <1>4, <1>5, <1>7, <2>1, <2>3, <2>4, ToKeeps
<1> QED BY <1>1, <1>6, <1>7 DEF Convert, Upload, ReplaceWithJPGExtension

LEMMA SwapKeeps ==
    ASSUME AssetInv, NEW t \in AssetTasks, Swap(t)
    PROVE  AssetInv'
<1>1. PICK a, old : a = Target(t) /\ old = assetTask[t].old
  OBVIOUS
<1>2. /\ a \in Assets /\ assetTask[t].at = "swap"
      /\ row[a] = old /\ old \in {"png", "named"} /\ row[a] \notin {"unused", "new"}
      /\ a \in misreported \/ <<a, "jpg">> \in objects
      /\ a \in misreported \/ <<a, KeyOf(row[a])>> \in objects
      /\ UNCHANGED <<objects, assetCrashes>>
      /\ assetTask[t].at \in Locked
  BY <1>1, OwnAsset DEF Swap, TaskKnows, Working, Locked
<1>3. SameKey(t) <=> old = "named"
  BY <1>1, <1>2 DEF SameKey, KeyOf, ReplaceWithJPGExtension
<1>4. \/ row' = [row EXCEPT ![a] = "jpg"] /\ misreported' = misreported
      \/ row' = [row EXCEPT ![a] = "jpg"] /\ misreported' = misreported \cup {a}
      \/ row' = row /\ misreported' = misreported
  BY <1>1 DEF Swap
<1>5. /\ OnlyTouches(a) /\ row'[a] \in {old, "jpg"} /\ misreported \subseteq misreported'
      /\ row'[a] = old \/ row'[a] = "jpg"
      /\ row'[a] = "jpg" /\ misreported' = misreported => a \in misreported \/ <<a, "jpg">> \in objects'
  <2>1. "jpg" \in RowStates
    BY DEF RowStates
  <2>2. CASE row' = row
    BY <1>2, <1>4, <2>2, QuietTouch, AssetInvTypes DEF OnlyTouches
  <2>3. CASE row' = [row EXCEPT ![a] = "jpg"]
    BY <1>2, <1>4, <2>1, <2>3, RowTouch
  <2> QED BY <1>4, <2>2, <2>3
<1>6. Polite(t, a)
  BY <1>2, <1>5 DEF Polite
<1>7. a \in misreported' \/ (row'[a] \in {"png", "named", "jpg"} =>
        <<a, KeyOf(row'[a])>> \in objects')
  BY <1>2, <1>4, <1>5 DEF KeyOf
<1>8. CASE EndTask(t)
  BY <1>1, <1>2, <1>5, <1>6, <1>7, <1>8, EndKeeps
<1>9. CASE old = "png" /\ To(t, "drop") /\ UNCHANGED <<assetLock, misreported>>
           /\ row' = [row EXCEPT ![a] = "jpg"]
  <2>1. "drop" \in TaskStages /\ "drop" \in Locked /\ "drop" \notin Creating
    BY DEF TaskStages, Locked, Creating
  <2>2. PICK x \in AssetTask :
          assetTask'[t] = x /\ x.at = "drop" /\ x.asset = a /\ x.old = old
    <3>1. To(t, "drop")
      BY <1>9
    <3> QED BY <1>1, <2>1, <3>1, ToIs
  <2>3. row'[a] = "jpg" /\ (a \in misreported \/ <<a, "png">> \in objects)
    BY <1>2, <1>9, AssetInvTypes DEF KeyOf
  <2>4. TaskKnows(t)'
    BY <1>2, <1>9, <2>2, <2>3 DEF TaskKnows, Target, Creating, Working, Locked
  <2> QED BY <1>1, <1>2, <1>5, <1>6, <1>7, <1>9, <2>1, <2>4, ToKeeps
<1>10. CASE /\ old = "png" /\ To(t, "clean") /\ UNCHANGED assetLock
            /\ \/ misreported' = misreported \cup {a}
               \/ UNCHANGED <<row, misreported>>
  <2>1. "clean" \in TaskStages /\ "clean" \in Locked /\ "clean" \notin Creating
    BY DEF TaskStages, Locked, Creating
  <2>2. PICK x \in AssetTask :
          assetTask'[t] = x /\ x.at = "clean" /\ x.asset = a /\ x.old = old
    <3>1. To(t, "clean")
      BY <1>10
    <3> QED BY <1>1, <2>1, <3>1, ToIs
  <2>4. TaskKnows(t)'
    BY <1>2, <1>5, <1>10, <2>2 DEF TaskKnows, Target, Creating, Working, Locked
  <2> QED BY <1>1, <1>2, <1>5, <1>6, <1>7, <1>10, <2>1, <2>4, ToKeeps
<1> QED BY <1>1, <1>2, <1>3, <1>8, <1>9, <1>10 DEF Swap

LEMMA DropOldKeeps ==
    ASSUME AssetInv, NEW t \in AssetTasks, DropOld(t)
    PROVE  AssetInv'
<1>1. PICK a, old : a = Target(t) /\ old = assetTask[t].old
  OBVIOUS
<1>2. /\ a \in Assets /\ assetTask[t].at = "drop"
      /\ row[a] = "jpg" /\ old = "png" /\ row' = row
      /\ a \in misreported \/ <<a, "jpg">> \in objects
      /\ a \in misreported \/ <<a, "png">> \in objects
      /\ UNCHANGED assetCrashes
      /\ assetTask[t].at \in Locked
  BY <1>1, OwnAsset DEF DropOld, TaskKnows, Locked
<1>3. /\ objects' = objects \ {<<a, "png">>} \/ objects' = objects
      /\ misreported' = misreported \/ misreported' = misreported \cup {a}
  BY <1>1, <1>2 DEF DropOld, DeleteObject, KeyOf
<1>4. OnlyTouches(a)
  BY <1>2, <1>3, ObjectTouch DEF Extensions
<1>5. Polite(t, a)
  BY <1>2 DEF Polite
<1>6. a \in misreported' \/ <<a, "jpg">> \in objects'
  BY <1>2, <1>3
<1>7. a \in misreported' \/ (row'[a] \in {"png", "named", "jpg"} =>
        <<a, KeyOf(row'[a])>> \in objects')
  BY <1>2, <1>6 DEF KeyOf
<1>8. CASE EndTask(t)
  BY <1>1, <1>2, <1>4, <1>5, <1>7, <1>8, EndKeeps
<1>9. CASE /\ To(t, "restore") /\ UNCHANGED assetLock
           /\ \/ misreported' = misreported \cup {a}
              \/ UNCHANGED <<objects, misreported>>
  <2>1. "restore" \in TaskStages /\ "restore" \in Locked /\ "restore" \notin Creating
    BY DEF TaskStages, Locked, Creating
  <2>2. PICK x \in AssetTask :
          assetTask'[t] = x /\ x.at = "restore" /\ x.asset = a /\ x.old = old
    BY <1>1, <1>9, <2>1, ToIs
  <2>3. a \in misreported' \/ <<a, "png">> \in objects'
    BY <1>2, <1>3, <1>9
  <2>4. TaskKnows(t)'
    BY <1>2, <1>6, <2>2, <2>3 DEF TaskKnows, Target, Creating, Working, Locked
  <2> QED BY <1>1, <1>2, <1>4, <1>5, <1>7, <1>9, <2>1, <2>4, ToKeeps
<1> QED BY <1>1, <1>8, <1>9 DEF DropOld

LEMMA RestoreRowKeeps ==
    ASSUME AssetInv, NEW t \in AssetTasks, RestoreRow(t)
    PROVE  AssetInv'
<1>1. PICK a, old : a = Target(t) /\ old = assetTask[t].old
  OBVIOUS
<1>2. /\ a \in Assets /\ assetTask[t].at = "restore"
      /\ row[a] = "jpg" /\ old = "png"
      /\ a \in misreported \/ <<a, "jpg">> \in objects
      /\ a \in misreported \/ <<a, "png">> \in objects
      /\ UNCHANGED <<objects, misreported, assetCrashes>>
      /\ assetTask[t].at \in Locked
  BY <1>1, OwnAsset DEF RestoreRow, TaskKnows, Locked
<1>3. row' = [row EXCEPT ![a] = "png"] \/ row' = row
  BY <1>1, <1>2 DEF RestoreRow
<1>4. /\ OnlyTouches(a)
      /\ row'[a] = "png" \/ row'[a] = "jpg"
      /\ row' # row => row'[a] = "png"
      /\ row' = [row EXCEPT ![a] = "png"] => row'[a] = "png"
  <2>1. "png" \in RowStates
    BY DEF RowStates
  <2> QED BY <1>2, <1>3, <2>1, RowTouch, QuietTouch
<1>5. Polite(t, a)
  BY <1>2, <1>4 DEF Polite
<1>6. a \in misreported' \/ (row'[a] \in {"png", "named", "jpg"} =>
        <<a, KeyOf(row'[a])>> \in objects')
  BY <1>2, <1>4 DEF KeyOf
<1>7. CASE EndTask(t)
  BY <1>1, <1>2, <1>4, <1>5, <1>6, <1>7, EndKeeps
<1>8. CASE /\ row' = [row EXCEPT ![a] = "png"]
           /\ To(t, "clean") /\ UNCHANGED assetLock
  <2>1. "clean" \in TaskStages /\ "clean" \in Locked /\ "clean" \notin Creating
    BY DEF TaskStages, Locked, Creating
  <2>2. To(t, "clean") /\ row'[a] = "png"
    BY <1>4, <1>8
  <2>3. PICK x \in AssetTask :
          assetTask'[t] = x /\ x.at = "clean" /\ x.asset = a /\ x.old = old
    BY <1>1, <2>1, <2>2, ToIs
  <2>4. TaskKnows(t)'
    BY <1>2, <2>2, <2>3 DEF TaskKnows, Target, Creating, Working, Locked
  <2> QED BY <1>1, <1>2, <1>4, <1>5, <1>6, <1>8, <2>1, <2>2, <2>4, ToKeeps
<1> QED BY <1>1, <1>2, <1>7, <1>8 DEF RestoreRow

LEMMA CleanNewKeeps ==
    ASSUME AssetInv, NEW t \in AssetTasks, CleanNew(t)
    PROVE  AssetInv'
<1>1. PICK a : a = Target(t)
  OBVIOUS
<1>2. /\ a \in Assets /\ row[a] \notin {"unused", "new"} /\ (a \in misreported \/ row[a] = "png")
      /\ a \in misreported \/ (row[a] \in {"png", "named", "jpg"} =>
           <<a, KeyOf(row[a])>> \in objects)
      /\ assetTask[t].at \in Locked /\ EndTask(t)
      /\ UNCHANGED <<row, misreported, assetCrashes>>
      /\ objects' = objects \ {<<a, "jpg">>} \/ objects' = objects
  BY <1>1, OwnAsset DEF CleanNew, DeleteObject, ReplaceWithJPGExtension, TaskKnows, Working, Locked
<1>3. OnlyTouches(a)
  BY <1>2, ObjectTouch DEF Extensions
<1>4. Polite(t, a)
  BY <1>2 DEF Polite
<1>5. a \in misreported' \/ (row'[a] \in {"png", "named", "jpg"} =>
        <<a, KeyOf(row'[a])>> \in objects')
  BY <1>2 DEF KeyOf
<1> QED BY <1>1, <1>2, <1>3, <1>4, <1>5, EndKeeps

LEMMA LockForDeleteKeeps ==
    ASSUME AssetInv, NEW t \in AssetTasks, LockForDelete(t)
    PROVE  AssetInv'
<1>1. PICK a : a = Target(t)
  OBVIOUS
<1>2. /\ a \in Assets /\ assetTask[t].at = "lockDelete" /\ To(t, "delete")
      /\ assetLock[a] = Nobody /\ assetLock' = [assetLock EXCEPT ![a] = t]
      /\ row[a] \notin {"unused", "new"}
      /\ a \in misreported \/ (row[a] \in {"png", "named", "jpg"} =>
           <<a, KeyOf(row[a])>> \in objects)
      /\ UNCHANGED <<row, objects, misreported, assetCrashes>>
  BY <1>1, OwnAsset DEF LockForDelete, TaskKnows, Working
<1>3. OnlyTouches(a) /\ Polite(t, a)
  BY <1>2, QuietTouch
<1>4. "delete" \in TaskStages /\ "delete" \in Locked /\ "delete" \notin Creating
  BY DEF TaskStages, Locked, Creating
<1>5. PICK x \in AssetTask :
        /\ assetTask' = [assetTask EXCEPT ![t] = x] /\ assetTask'[t] = x
        /\ x.at = "delete" /\ x.asset = a
  BY <1>1, <1>2, <1>4, ToIs
<1>6. TaskKnows(t)'
  BY <1>2, <1>5 DEF TaskKnows, Target, Creating, Working, Locked
<1>7. "lockDelete" \notin Locked
  BY DEF Locked
<1>8. LocksSettled
  BY <1>1, <1>2, <1>4, <1>5, <1>7, LockTaken
<1>9. a \in misreported' \/ (row'[a] \in {"png", "named", "jpg"} =>
        <<a, KeyOf(row'[a])>> \in objects')
  BY <1>2 DEF KeyOf
<1> QED BY <1>1, <1>2, <1>3, <1>4, <1>5, <1>6, <1>8, <1>9, StepKeeps

LEMMA SoftDeleteKeeps ==
    ASSUME AssetInv, NEW t \in AssetTasks, SoftDelete(t)
    PROVE  AssetInv'
<1>1. PICK a : a = Target(t)
  OBVIOUS
<1>2. /\ a \in Assets /\ assetTask[t].at \in Locked /\ EndTask(t)
      /\ row[a] \notin {"unused", "new"}
      /\ a \in misreported \/ (row[a] \in {"png", "named", "jpg"} =>
           <<a, KeyOf(row[a])>> \in objects)
      /\ UNCHANGED <<objects, misreported, assetCrashes>>
      /\ row' = [row EXCEPT ![a] = "deleted"] \/ row' = row
  BY <1>1, OwnAsset DEF SoftDelete, TaskKnows, Working, Locked
<1>3. /\ OnlyTouches(a)
      /\ row'[a] = "deleted" \/ (row' = row /\ row'[a] = row[a])
  <2>1. "deleted" \in RowStates
    BY DEF RowStates
  <2> QED BY <1>2, <2>1, RowTouch, QuietTouch
<1>4. Polite(t, a)
  BY <1>2, <1>3 DEF Polite
<1>5. a \in misreported' \/ (row'[a] \in {"png", "named", "jpg"} =>
        <<a, KeyOf(row'[a])>> \in objects')
  BY <1>2, <1>3 DEF KeyOf
<1> QED BY <1>1, <1>2, <1>3, <1>4, <1>5, EndKeeps

LEMMA CrashAssetsKeeps ==
    ASSUME AssetInv, CrashAssets
    PROVE  AssetInv'
<1>1. /\ assetTask' = [t \in AssetTasks |-> IdleTask]
      /\ assetLock' = [a \in Assets |-> Nobody]
      /\ UNCHANGED <<row, objects, misreported>>
      /\ assetCrashes' \in 0..MaxAssetCrashes
  BY AssetInvTypes, AssetAssumption DEF CrashAssets
<1>2. "idle" \notin Creating \cup Working \cup Locked
  BY DEF Creating, Working, Locked
<1>3. \A t \in AssetTasks : assetTask'[t].at = "idle"
  BY <1>1, IdleTaskIs
<1>4. AssetTypes'
  BY <1>1, IdleTaskIs, AssetInvTypes DEF AssetTypes
<1>5. LockHeld'
  BY <1>1, <1>2, <1>3, AssetAssumption DEF LockHeld
<1>6. \A t \in AssetTasks : TaskKnows(t)'
  BY <1>2, <1>3 DEF TaskKnows, Creating
<1>7. OneCreator'
  BY <1>2, <1>3 DEF OneCreator
<1>8. RowsHaveObjects'
  BY <1>1 DEF AssetInv, AssetSafety, RowsHaveObjects, Live
<1> QED BY <1>4, <1>5, <1>6, <1>7, <1>8 DEF AssetInv, AssetSafety

------------------------------------------------------------------------------

\* At the start there is no row, no object, and every task is idle.
THEOREM AssetsInitially == AssetInit => AssetInv
<1> SUFFICES ASSUME AssetInit PROVE AssetInv
  OBVIOUS
<1>1. /\ row = [a \in Assets |-> "unused"] /\ objects = {}
      /\ assetTask = [t \in AssetTasks |-> IdleTask]
      /\ assetLock = [a \in Assets |-> Nobody]
      /\ misreported = {} /\ assetCrashes = 0
  BY DEF AssetInit
<1>2. "idle" \notin Creating \cup Working \cup Locked /\ "unused" \in RowStates
  BY DEF Creating, Working, Locked, RowStates
<1>3. \A t \in AssetTasks : assetTask[t].at = "idle"
  BY <1>1, IdleTaskIs
<1>4. AssetTypes
  <2>1. row \in [Assets -> RowStates] /\ assetTask \in [AssetTasks -> AssetTask]
    BY <1>1, <1>2, IdleTaskIs
  <2>2. assetLock \in [Assets -> AssetTasks \cup {Nobody}] /\ misreported \subseteq Assets
    BY <1>1
  <2>3. objects \subseteq Assets \X Extensions
    BY <1>1, Zenon
  <2>4. assetCrashes \in 0..MaxAssetCrashes
    BY <1>1, AssetAssumption
  <2> QED BY <2>1, <2>2, <2>3, <2>4 DEF AssetTypes
<1>5. LockHeld
  <2> SUFFICES ASSUME NEW t \in AssetTasks, NEW a \in Assets
               PROVE  assetLock[a] = t <=> assetTask[t].at \in Locked /\ Target(t) = a
    BY DEF LockHeld
  <2>1. assetLock[a] # t
    BY <1>1, AssetAssumption
  <2>2. assetTask[t].at \notin Locked
    BY <1>2, <1>3
  <2> QED BY <2>1, <2>2, Zenon
<1>6. \A t \in AssetTasks : TaskKnows(t)
  BY <1>2, <1>3 DEF TaskKnows, Creating
<1>7. OneCreator
  BY <1>2, <1>3 DEF OneCreator
<1>8. RowsHaveObjects
  BY <1>1 DEF RowsHaveObjects, Live
<1> QED BY <1>4, <1>5, <1>6, <1>7, <1>8 DEF AssetInv, AssetSafety

\* Every step of a request or a worker run, and every crash between two of
\* them, keeps the invariant.
THEOREM AssetsStepKeeps == AssetInv /\ [AssetNext]_assetVars => AssetInv'
<1> SUFFICES ASSUME AssetInv, [AssetNext]_assetVars PROVE AssetInv'
  OBVIOUS
<1>1. CASE UNCHANGED assetVars
  <2>1. UNCHANGED <<row, objects, assetLock, assetTask, misreported, assetCrashes>>
    BY <1>1 DEF assetVars
  <2>2. \A t \in AssetTasks : TaskKnows(t)'
    BY <2>1, AssetInvTypes DEF TaskKnows, Target
  <2>3. AssetTypes' /\ LockHeld' /\ OneCreator' /\ RowsHaveObjects'
    BY <2>1 DEF AssetInv, AssetSafety, AssetTypes, LockHeld, OneCreator, RowsHaveObjects,
                Target, Live
  <2> QED BY <2>2, <2>3 DEF AssetInv, AssetSafety
<1>2. ASSUME NEW t \in AssetTasks, NEW a \in Assets,
             StartCreate(t, a) \/ StartConvert(t, a) \/ StartDelete(t, a)
      PROVE  AssetInv'
  BY <1>2, StartCreateKeeps, BeginKeeps DEF StartConvert, StartDelete
<1>3. ASSUME NEW t \in AssetTasks,
             \/ UploadNew(t) \/ InsertRow(t) \/ UndoUpload(t)
             \/ LockAndLoad(t) \/ Convert(t) \/ Swap(t) \/ DropOld(t)
             \/ RestoreRow(t) \/ CleanNew(t)
             \/ LockForDelete(t) \/ SoftDelete(t)
      PROVE  AssetInv'
  BY <1>3, UploadNewKeeps, InsertRowKeeps, UndoUploadKeeps, LockAndLoadKeeps, ConvertKeeps,
     SwapKeeps, DropOldKeeps, RestoreRowKeeps, CleanNewKeeps, LockForDeleteKeeps,
     SoftDeleteKeeps
<1>4. CASE CrashAssets
  BY <1>4, CrashAssetsKeeps
<1> QED BY <1>1, <1>2, <1>3, <1>4 DEF AssetNext

\* A live row names an object that exists, whatever fails half way, overlaps or
\* crashes, for any number of assets, requests and worker runs
\* (assets/application/service_jpg_worker.go, service_asset.go).
THEOREM AssetsAreSafe == AssetSpec => []AssetSafety
<1>1. AssetInv => AssetSafety
  BY DEF AssetInv
<1> QED BY <1>1, AssetsInitially, AssetsStepKeeps, PTL DEF AssetSpec

------------------------------------------------------------------------------
(* Coupons: the limits hold and a code names one coupon. The invariant      *)
(* carries the answers a redemption was given from the question to the      *)
(* insert: while nobody wrote meanwhile, they are still true.               *)

\* The unique index, which deleted rows are part of; an unused row is empty.
IndexHolds ==
    /\ \A c \in Coupons :
         /\ coupon[c].state = "unused" <=> coupon[c].code = NoUsage
         /\ coupon[c].state = "unused" => \A o \in Purchases : usage[c][o] = NoUsage
    /\ \A c, d \in Coupons :
         coupon[c].code = coupon[d].code /\ coupon[c].code # NoUsage => c = d

\* What a request holds at each stage.
RequestHolds(t) ==
    LET k == couponTask[t]
    IN  /\ k.at = "idle" => k.on = NoUsage
        /\ k.at # "idle" => k.on \in Coupons
        /\ k.at = "insert" =>
             /\ k.code \in Codes /\ coupon[k.on].state = "unused"
             /\ \A u \in CouponTasks : u # t => couponTask[u].on # k.on
        /\ k.at = "save" => k.code \in Codes /\ coupon[k.on].code = k.code
        /\ k.at \in {"remove"} \cup Redeeming => coupon[k.on].state # "unused"
        /\ k.at \in Redeeming => k.order \in Purchases

\* The answers a redemption has been given hold still, if nobody overtook it.
AnswersHold(t) ==
    LET k == couponTask[t]
    IN  k.at \in Redeeming /\ t \notin late =>
          /\ k.global = coupon[k.on].global /\ k.perEmail = coupon[k.on].perEmail
          /\ k.at \in {"countEmail", "record"} => Below(k.global, CountGlobalUsage(k.on))
          /\ k.at = "record" /\ k.email # NoEmail =>
               Below(k.perEmail, CountUsageByEmail(k.on, k.email))

CouponInv ==
    /\ CouponSafety
    /\ IndexHolds
    /\ \A t \in CouponTasks : RequestHolds(t) /\ AnswersHold(t)

------------------------------------------------------------------------------
(* Shorthands: the invariant in the parts the lemmas need *)

LEMMA InvTypes ==
    ASSUME CouponInv
    PROVE  /\ coupon \in [Coupons -> Coupon]
           /\ usage \in [Coupons -> [Purchases -> Redeemers \cup {NoEmail, NoUsage}]]
           /\ couponTask \in [CouponTasks -> CouponTask]
           /\ late \subseteq CouponTasks /\ contested \subseteq Coupons
BY DEF CouponInv, CouponSafety, CouponTypes

LEMMA IdleRequestHolds ==
    /\ IdleRequest \in CouponTask /\ IdleRequest.at = "idle" /\ IdleRequest.on = NoUsage
    /\ "idle" \notin Redeeming
BY DEF IdleRequest, CouponTask, CouponStages, AnyLimit, Redeeming

LEMMA CodeOfRow ==
    /\ NewCoupon \in Coupon /\ NewCoupon.state = "unused" /\ NewCoupon.code = NoUsage
    /\ \A k \in Codes : \A r \in Given(k) :
         r \in Coupon /\ r.state = "live" /\ r.code = k
BY DEF NewCoupon, Coupon, AnyLimit, Given

\* A code names one coupon, by the index, and the invariant is made of its parts.
LEMMA Reassemble ==
    ASSUME CouponTypes', LimitsKept', IndexHolds',
           \A u \in CouponTasks : RequestHolds(u)' /\ AnswersHold(u)'
    PROVE  CouponInv'
<1>1. CodeNamesOne'
  BY DEF IndexHolds, CodeNamesOne, OnSale
<1> QED BY <1>1 DEF CouponInv, CouponSafety

\* The counts depend on the usages alone.
LEMMA SameCounts ==
    ASSUME usage' = usage
    PROVE  /\ \A c \in Coupons : CountGlobalUsage(c)' = CountGlobalUsage(c)
           /\ \A c \in Coupons, e \in Redeemers \cup {NoEmail} :
                CountUsageByEmail(c, e)' = CountUsageByEmail(c, e)
           /\ \A c \in Coupons, r \in Coupon : WithinLimits(r, c)' = WithinLimits(r, c)
BY DEF CountGlobalUsage, CountUsageByEmail, Used, UsedBy, WithinLimits

\* Requests move on while the tables stay as they are.
LEMMA RequestMoves ==
    ASSUME CouponInv, NEW t \in CouponTasks, NEW s \in CouponTask,
           couponTask' = [couponTask EXCEPT ![t] = s],
           coupon' = coupon, usage' = usage, contested' = contested,
           late' = late \/ late' = late \ {t},
           \A u \in CouponTasks :
             u # t /\ couponTask[u].at = "insert" => couponTask[u].on # s.on,
           RequestHolds(t)', AnswersHold(t)'
    PROVE  CouponInv'
<1>1. /\ couponTask' \in [CouponTasks -> CouponTask] /\ couponTask'[t] = s
      /\ \A u \in CouponTasks : u # t => couponTask'[u] = couponTask[u]
  BY InvTypes
<1>2. CouponTypes'
  BY <1>1, InvTypes DEF CouponTypes
<1>3. IndexHolds'
  BY DEF CouponInv, IndexHolds
<1>4. LimitsKept'
  <2>1. LimitsKept
    BY DEF CouponInv, CouponSafety
  <2>2. \A c \in Coupons : OnSale(c)' = OnSale(c) /\ coupon'[c] \in Coupon
    BY InvTypes DEF OnSale
  <2> QED BY <2>1, <2>2, SameCounts DEF LimitsKept
<1>5. ASSUME NEW u \in CouponTasks, u # t PROVE RequestHolds(u)'
  BY <1>1, <1>5 DEF CouponInv, RequestHolds
<1>6. ASSUME NEW u \in CouponTasks, u # t PROVE AnswersHold(u)'
  <2>1. AnswersHold(u) /\ RequestHolds(u) /\ couponTask'[u] = couponTask[u]
        /\ couponTask[u] \in CouponTask
    BY <1>1, <1>6, InvTypes DEF CouponInv
  <2>2. u \notin late' => u \notin late
    BY <1>6
  <2>3. couponTask[u].email \in Redeemers \cup {NoEmail}
    BY <2>1 DEF CouponTask
  <2>4. couponTask[u].at \in Redeeming => couponTask[u].on \in Coupons
    BY <2>1 DEF RequestHolds, Redeeming
  <2>5. CASE couponTask[u].at \in Redeeming /\ u \notin late
    <3>1. CountGlobalUsage(couponTask[u].on)' = CountGlobalUsage(couponTask[u].on)
          /\ CountUsageByEmail(couponTask[u].on, couponTask[u].email)'
               = CountUsageByEmail(couponTask[u].on, couponTask[u].email)
      <4>1. PICK c, e : c = couponTask[u].on /\ e = couponTask[u].email
        OBVIOUS
      <4>2. c = couponTask'[u].on /\ e = couponTask'[u].email
        BY <4>1, <2>1
      <4>3. CountGlobalUsage(c)' = CountGlobalUsage(c)
            /\ CountUsageByEmail(c, e)' = CountUsageByEmail(c, e)
        BY DEF CountGlobalUsage, CountUsageByEmail, Used, UsedBy
      <4> QED BY <4>1, <4>2, <4>3 DEF CountGlobalUsage, CountUsageByEmail, Used, UsedBy
    <3> QED BY <3>1, <2>1, <2>5 DEF AnswersHold, Below
  <2> QED BY <2>1, <2>2, <2>5 DEF AnswersHold
<1> QED
  BY <1>2, <1>3, <1>4, <1>5, <1>6, Reassemble

\* A row is written by a request that ends, or expires: nobody who inserts has
\* that row, and whoever redeems the coupon is overtaken unless its limits stay.
RowStep(c, r) ==
    /\ coupon' = [coupon EXCEPT ![c] = r]
    /\ r.state # "unused" /\ r.code # NoUsage
    /\ \A d \in Coupons : d # c => coupon[d].code # r.code
    /\ coupon[c].state = "unused" \/ r.code = coupon[c].code
    /\ couponTask' \in [CouponTasks -> CouponTask]
    /\ \A u \in CouponTasks :
         \/ couponTask'[u] = IdleRequest
         \/ /\ couponTask'[u] = couponTask[u]
            /\ couponTask[u].at = "insert" => couponTask[u].on # c
    /\ usage' = usage
    /\ late' \subseteq CouponTasks /\ late \subseteq late'
    /\ \A u \in CouponTasks :
         couponTask'[u].at \in Redeeming /\ couponTask'[u].on = c /\ u \notin late' =>
           r.global = coupon[c].global /\ r.perEmail = coupon[c].perEmail
    /\ contested' \subseteq Coupons /\ contested \subseteq contested'
    /\ c \notin contested' /\ r.state = "live" => WithinLimits(r, c)

LEMMA RowWritten ==
    ASSUME CouponInv, NEW c \in Coupons, NEW r \in Coupon, RowStep(c, r)
    PROVE  CouponInv'
<1> USE DEF RowStep
<1>1. /\ coupon' \in [Coupons -> Coupon] /\ coupon'[c] = r
      /\ \A d \in Coupons : d # c => coupon'[d] = coupon[d]
  BY InvTypes
<1>2. CouponTypes'
  BY <1>1, InvTypes DEF CouponTypes
<1>3. IndexHolds'
  BY <1>1 DEF CouponInv, IndexHolds
<1>4. LimitsKept'
  <2> SUFFICES ASSUME NEW d \in Coupons, d \notin contested', coupon'[d].state = "live"
               PROVE  /\ coupon'[d].global # NoLimit =>
                           CountGlobalUsage(d)' <= coupon'[d].global
                      /\ coupon'[d].perEmail # NoLimit =>
                           \A e \in Redeemers :
                             CountUsageByEmail(d, e)' <= coupon'[d].perEmail
    BY DEF LimitsKept, OnSale, WithinLimits
  <2>1. WithinLimits(coupon'[d], d)
    BY <1>1 DEF CouponInv, CouponSafety, LimitsKept, OnSale
  <2>2. CountGlobalUsage(d)' = CountGlobalUsage(d)
        /\ \A e \in Redeemers : CountUsageByEmail(d, e)' = CountUsageByEmail(d, e)
    BY SameCounts
  <2> QED BY <2>1, <2>2 DEF WithinLimits
<1>5. ASSUME NEW u \in CouponTasks PROVE RequestHolds(u)'
  <2>1. CASE couponTask'[u] = IdleRequest
    BY <2>1, IdleRequestHolds DEF RequestHolds
  <2>2. CASE couponTask'[u] = couponTask[u] /\ (couponTask[u].at = "insert" => couponTask[u].on # c)
    <3>1. RequestHolds(u)
      BY DEF CouponInv
    <3>2. \A v \in CouponTasks : couponTask'[v].on = NoUsage \/ couponTask'[v].on = couponTask[v].on
      BY IdleRequestHolds
    <3>3. NoUsage \notin Coupons
      BY CouponAssumption
    <3>4. couponTask[u].at = "save" => coupon'[couponTask[u].on].code = couponTask[u].code
      <4>1. couponTask[u].at = "save" => couponTask[u].on \in Coupons
        BY <3>1 DEF RequestHolds
      <4>2. couponTask[u].at = "save" /\ couponTask[u].on = c => coupon[c].state # "unused"
        BY <3>1, CouponAssumption DEF RequestHolds, CouponInv, IndexHolds
      <4> QED BY <1>1, <3>1, <4>1, <4>2 DEF RequestHolds
    <3>5. couponTask[u].at \in {"remove"} \cup Redeeming =>
            couponTask[u].on \in Coupons /\ coupon'[couponTask[u].on].state # "unused"
      BY <1>1, <3>1 DEF RequestHolds, Redeeming
    <3>6. couponTask[u].at = "insert" =>
            couponTask[u].on \in Coupons /\ coupon'[couponTask[u].on].state = "unused"
      BY <1>1, <2>2, <3>1 DEF RequestHolds
    <3> QED BY <2>2, <3>1, <3>2, <3>3, <3>4, <3>5, <3>6 DEF RequestHolds
  <2> QED BY <2>1, <2>2
<1>6. ASSUME NEW u \in CouponTasks PROVE AnswersHold(u)'
  <2>1. CASE couponTask'[u] = IdleRequest
    BY <2>1, IdleRequestHolds DEF AnswersHold
  <2>2. CASE couponTask'[u] = couponTask[u]
    <3>1. AnswersHold(u) /\ RequestHolds(u) /\ couponTask[u] \in CouponTask
      BY InvTypes DEF CouponInv
    <3> SUFFICES ASSUME couponTask[u].at \in Redeeming, u \notin late' PROVE AnswersHold(u)'
      BY <2>2 DEF AnswersHold
    <3>2. couponTask[u].on \in Coupons /\ couponTask[u].email \in Redeemers \cup {NoEmail}
      BY <3>1 DEF RequestHolds, Redeeming, CouponTask
    <3>3. /\ coupon'[couponTask[u].on].global = coupon[couponTask[u].on].global
          /\ coupon'[couponTask[u].on].perEmail = coupon[couponTask[u].on].perEmail
      BY <1>1, <2>2, <3>2
    <3>4. PICK d, e : d = couponTask[u].on /\ e = couponTask[u].email
      OBVIOUS
    <3>5. d = couponTask'[u].on /\ e = couponTask'[u].email
      BY <3>4, <2>2
    <3>6. CountGlobalUsage(d)' = CountGlobalUsage(d) /\ CountUsageByEmail(d, e)' = CountUsageByEmail(d, e)
      BY <3>2, <3>4, SameCounts
    <3>7. CountGlobalUsage(couponTask[u].on)' = CountGlobalUsage(couponTask[u].on)
          /\ CountUsageByEmail(couponTask[u].on, couponTask[u].email)'
               = CountUsageByEmail(couponTask[u].on, couponTask[u].email)
      BY <3>4, <3>5, <3>6 DEF CountGlobalUsage, CountUsageByEmail, Used, UsedBy
    <3> QED BY <2>2, <3>1, <3>3, <3>7 DEF AnswersHold, Below
  <2> QED BY <2>1, <2>2
<1> QED
  BY <1>2, <1>3, <1>4, <1>5, <1>6, Reassemble

LEMMA EndedRequest ==
    ASSUME CouponInv, NEW t \in CouponTasks, CouponEnd(t)
    PROVE  /\ couponTask' \in [CouponTasks -> CouponTask] /\ couponTask'[t] = IdleRequest
           /\ \A u \in CouponTasks : u # t => couponTask'[u] = couponTask[u]
           /\ RequestHolds(t)' /\ AnswersHold(t)'
<1>1. couponTask \in [CouponTasks -> CouponTask] /\ IdleRequest \in CouponTask
  BY InvTypes, IdleRequestHolds
<1>2. couponTask'[t] = IdleRequest
  BY <1>1 DEF CouponEnd
<1> QED
  BY <1>1, <1>2, IdleRequestHolds DEF CouponEnd, RequestHolds, AnswersHold

\* A request that ends without a write.
LEMMA EndsQuietly ==
    ASSUME CouponInv, NEW t \in CouponTasks, CouponEnd(t),
           coupon' = coupon, usage' = usage, contested' = contested,
           late' = late \/ late' = late \ {t}
    PROVE  CouponInv'
<1>1. /\ IdleRequest \in CouponTask
      /\ couponTask' = [couponTask EXCEPT ![t] = IdleRequest]
  BY IdleRequestHolds DEF CouponEnd
<1>2. \A u \in CouponTasks : couponTask[u].at = "insert" => couponTask[u].on # IdleRequest.on
  BY IdleRequestHolds, CouponAssumption DEF CouponInv, RequestHolds
<1> QED BY <1>1, <1>2, EndedRequest, RequestMoves

------------------------------------------------------------------------------
(* Administration *)

LEMMA CreateKeeps ==
    ASSUME CouponInv, NEW t \in CouponTasks, CreateCoupon(t)
    PROVE  CouponInv'
<1>1. PICK c \in Coupons, k \in Codes :
        /\ coupon[c].state = "unused"
        /\ \A u \in CouponTasks : couponTask[u].on # c
        /\ couponTask' = [couponTask EXCEPT ![t] =
                            [IdleRequest EXCEPT !.at = "insert", !.on = c, !.code = k]]
  BY Zenon DEF CreateCoupon
<1>2. PICK s : s = [IdleRequest EXCEPT !.at = "insert", !.on = c, !.code = k]
  OBVIOUS
<1>3. s \in CouponTask /\ s.at = "insert" /\ s.on = c /\ s.code = k
  <2>1. s = [at |-> "insert", on |-> c, code |-> k, global |-> NoLimit,
             perEmail |-> NoLimit, order |-> NoUsage, email |-> NoEmail]
    BY <1>2, Zenon DEF IdleRequest
  <2> QED BY <2>1 DEF CouponTask, CouponStages, AnyLimit
<1>4. /\ couponTask' = [couponTask EXCEPT ![t] = s] /\ couponTask'[t] = s
      /\ \A u \in CouponTasks : u # t => couponTask'[u] = couponTask[u]
  BY <1>1, <1>2, InvTypes
<1>5. RequestHolds(t)' /\ AnswersHold(t)'
  BY <1>1, <1>3, <1>4 DEF RequestHolds, AnswersHold, Redeeming, CreateCoupon
<1> QED BY <1>1, <1>3, <1>4, <1>5, RequestMoves DEF CreateCoupon

\* A request that picks a coupon on sale; nobody inserts that row.
LEMMA PicksLive ==
    ASSUME CouponInv, NEW t \in CouponTasks, NEW c \in Coupons, OnSale(c),
           NEW s \in CouponTask, s.on = c,
           couponTask' = [couponTask EXCEPT ![t] = s],
           coupon' = coupon, usage' = usage, contested' = contested, late' = late,
           \/ s.at = "save" /\ s.code = coupon[c].code
           \/ s.at = "remove"
           \/ /\ s.at = "checkOrder" /\ s.order \in Purchases
              /\ s.global = coupon[c].global /\ s.perEmail = coupon[c].perEmail
    PROVE  CouponInv'
<1>1. couponTask'[t] = s
  BY InvTypes
<1>2. \A u \in CouponTasks : couponTask[u].at = "insert" => couponTask[u].on # s.on
  BY DEF CouponInv, RequestHolds, OnSale
<1>3. coupon[c].code \in Codes
  <2>1. coupon[c] \in Coupon /\ coupon[c].code # NoUsage
    BY InvTypes DEF CouponInv, IndexHolds, OnSale
  <2> QED BY <2>1 DEF Coupon
<1>4. RequestHolds(t)'
  BY <1>1, <1>3 DEF RequestHolds, Redeeming, OnSale
<1>5. AnswersHold(t)'
  BY <1>1 DEF AnswersHold, Redeeming
<1> QED BY <1>2, <1>4, <1>5, RequestMoves

LEMMA UpdateKeeps ==
    ASSUME CouponInv, NEW t \in CouponTasks, NEW c \in Coupons, UpdateCoupon(t, c)
    PROVE  CouponInv'
<1>1. PICK s : s = [IdleRequest EXCEPT !.at = "save", !.on = c, !.code = coupon[c].code]
  OBVIOUS
<1>2. coupon[c].code \in Codes \cup {NoUsage}
  BY InvTypes DEF Coupon
<1>3. s \in CouponTask /\ s.at = "save" /\ s.on = c /\ s.code = coupon[c].code
  BY <1>1, <1>2 DEF IdleRequest, CouponTask, CouponStages, AnyLimit
<1>4. couponTask' = [couponTask EXCEPT ![t] = s]
  BY <1>1 DEF UpdateCoupon
<1>5. OnSale(c) /\ coupon' = coupon /\ usage' = usage /\ contested' = contested /\ late' = late
  BY DEF UpdateCoupon
<1> QED BY <1>3, <1>4, <1>5, PicksLive

LEMMA DeleteKeeps ==
    ASSUME CouponInv, NEW t \in CouponTasks, NEW c \in Coupons, DeleteCoupon(t, c)
    PROVE  CouponInv'
<1>1. PICK s : s = [IdleRequest EXCEPT !.at = "remove", !.on = c]
  OBVIOUS
<1>2. s \in CouponTask /\ s.at = "remove" /\ s.on = c
  BY <1>1 DEF IdleRequest, CouponTask, CouponStages, AnyLimit
<1>3. couponTask' = [couponTask EXCEPT ![t] = s]
  BY <1>1 DEF DeleteCoupon
<1> QED BY <1>2, <1>3, PicksLive DEF DeleteCoupon

LEMMA RedeemKeeps ==
    ASSUME CouponInv, NEW t \in CouponTasks, NEW c \in Coupons, Redeem(t, c)
    PROVE  CouponInv'
<1>1. PICK o \in Purchases, e \in Redeemers \cup {NoEmail} :
        couponTask' = [couponTask EXCEPT ![t] =
                         [at |-> "checkOrder", on |-> c, code |-> NoUsage,
                          global |-> coupon[c].global, perEmail |-> coupon[c].perEmail,
                          order |-> o, email |-> e]]
  BY DEF Redeem
<1>2. PICK s : s = [at |-> "checkOrder", on |-> c, code |-> NoUsage,
                    global |-> coupon[c].global, perEmail |-> coupon[c].perEmail,
                    order |-> o, email |-> e]
  OBVIOUS
<1>3. coupon[c].global \in AnyLimit /\ coupon[c].perEmail \in AnyLimit
  BY InvTypes DEF Coupon
<1>4. /\ s \in CouponTask /\ s.at = "checkOrder" /\ s.on = c /\ s.order \in Purchases
      /\ s.global = coupon[c].global /\ s.perEmail = coupon[c].perEmail
  BY <1>2, <1>3 DEF CouponTask, CouponStages
<1>5. couponTask' = [couponTask EXCEPT ![t] = s]
  BY <1>1, <1>2
<1> QED BY <1>4, <1>5, PicksLive DEF Redeem

\* Requests other than one that ends do not insert the row it writes.
LEMMA WriterEnds ==
    ASSUME CouponInv, NEW t \in CouponTasks, CouponEnd(t), couponTask[t].at # "idle",
           couponTask[t].at = "insert" \/ coupon[couponTask[t].on].state # "unused"
    PROVE  /\ couponTask' \in [CouponTasks -> CouponTask]
           /\ \A u \in CouponTasks :
                \/ couponTask'[u] = IdleRequest
                \/ /\ couponTask'[u] = couponTask[u]
                   /\ couponTask[u].at = "insert" => couponTask[u].on # couponTask[t].on
           /\ \A u \in CouponTasks :
                couponTask'[u].at \in Redeeming =>
                  u # t /\ couponTask'[u] = couponTask[u]
<1>1. RequestHolds(t) /\ \A u \in CouponTasks : RequestHolds(u)
  BY DEF CouponInv
<1> QED
  BY <1>1, EndedRequest, IdleRequestHolds DEF RequestHolds

LEMMA InsertKeeps ==
    ASSUME CouponInv, NEW t \in CouponTasks, InsertCoupon(t)
    PROVE  CouponInv'
<1>1. CASE UNCHANGED coupon
  BY <1>1, EndsQuietly DEF InsertCoupon
<1>2. CASE ~CodeTaken(couponTask[t].code)
           /\ \E r \in Given(couponTask[t].code) :
                coupon' = [coupon EXCEPT ![couponTask[t].on] = r]
  <2>1. PICK c \in Coupons, k \in Codes :
          /\ c = couponTask[t].on /\ k = couponTask[t].code /\ coupon[c].state = "unused"
    BY DEF InsertCoupon, CouponInv, RequestHolds
  <2>2. PICK r \in Given(k) : coupon' = [coupon EXCEPT ![c] = r]
    BY <1>2, <2>1
  <2>3. r \in Coupon /\ r.state = "live" /\ r.code = k /\ r.code # NoUsage
    BY CodeOfRow, CouponAssumption
  <2>4. \A d \in Coupons : coupon[d].code # r.code
    BY <1>2, <2>1, <2>3 DEF CodeTaken
  <2>5. WithinLimits(r, c)
    <3>1. \A o \in Purchases : usage[c][o] = NoUsage
      BY <2>1 DEF CouponInv, IndexHolds
    <3>2. Used(c) = {} /\ \A e \in Redeemers : UsedBy(c, e) = {}
      BY <3>1, CouponAssumption DEF Used, UsedBy
    <3>3. CountGlobalUsage(c) = 0 /\ \A e \in Redeemers : CountUsageByEmail(c, e) = 0
      BY <3>2, FS_EmptySet DEF CountGlobalUsage, CountUsageByEmail
    <3>4. r.global \in Limits \cup {NoLimit} /\ r.perEmail \in Limits \cup {NoLimit}
      BY <2>3 DEF Coupon, AnyLimit
    <3>5. \A n \in Limits \cup {NoLimit} : n # NoLimit => 0 <= n
      BY CouponAssumption
    <3>6. r.global # NoLimit => CountGlobalUsage(c) <= r.global
      BY <3>3, <3>4, <3>5
    <3>7. r.perEmail # NoLimit =>
            \A e \in Redeemers : CountUsageByEmail(c, e) <= r.perEmail
      BY <3>3, <3>4, <3>5
    <3> QED BY <3>6, <3>7 DEF WithinLimits
  <2>6. \A u \in CouponTasks : couponTask'[u].at \in Redeeming => couponTask'[u].on # c
    BY <2>1, WriterEnds DEF InsertCoupon, CouponInv, RequestHolds
  <2>7. late' = late /\ contested' = contested /\ usage' = usage
    BY DEF InsertCoupon
  <2>8. CouponEnd(t) /\ couponTask[t].at = "insert"
    BY DEF InsertCoupon
  <2>9. /\ couponTask' \in [CouponTasks -> CouponTask]
        /\ \A u \in CouponTasks :
             \/ couponTask'[u] = IdleRequest
             \/ /\ couponTask'[u] = couponTask[u]
                /\ couponTask[u].at = "insert" => couponTask[u].on # c
    BY <2>1, <2>8, WriterEnds
  <2>10. /\ late' \subseteq CouponTasks /\ late \subseteq late'
         /\ contested' \subseteq Coupons /\ contested \subseteq contested'
    BY <2>7, InvTypes
  <2>11. r.state # "unused" /\ \A d \in Coupons : d # c => coupon[d].code # r.code
    BY <2>3, <2>4
  <2>12. \A u \in CouponTasks :
           couponTask'[u].at \in Redeeming /\ couponTask'[u].on = c /\ u \notin late' =>
             r.global = coupon[c].global /\ r.perEmail = coupon[c].perEmail
    BY <2>6
  <2>13. RowStep(c, r)
    BY <2>1, <2>2, <2>3, <2>5, <2>7, <2>9, <2>10, <2>11, <2>12 DEF RowStep
  <2> QED BY <2>3, <2>13, RowWritten
<1> QED BY <1>1, <1>2 DEF InsertCoupon

LEMMA SaveKeeps ==
    ASSUME CouponInv, NEW t \in CouponTasks, SaveCoupon(t)
    PROVE  CouponInv'
<1> DEFINE c == couponTask[t].on
<1>1. CASE UNCHANGED <<coupon, late, contested>>
  BY <1>1, EndsQuietly DEF SaveCoupon
<1>2. CASE \E r \in Given(couponTask[t].code) :
             /\ coupon' = [coupon EXCEPT ![c] = r]
             /\ late' = late \cup OtherRedemptions(t, c)
             /\ contested' = contested \cup (IF WithinLimits(r, c) THEN {} ELSE {c})
  <2>1. c \in Coupons /\ couponTask[t].code \in Codes /\ coupon[c].code = couponTask[t].code
    BY DEF SaveCoupon, CouponInv, RequestHolds
  <2>2. PICK r \in Given(couponTask[t].code) :
             /\ coupon' = [coupon EXCEPT ![c] = r]
             /\ late' = late \cup OtherRedemptions(t, c)
             /\ contested' = contested \cup (IF WithinLimits(r, c) THEN {} ELSE {c})
    BY <1>2
  <2>3. r \in Coupon /\ r.state = "live" /\ r.code = coupon[c].code /\ r.code # NoUsage
    BY <2>1, CodeOfRow, CouponAssumption
  <2>4. \A d \in Coupons : d # c => coupon[d].code # r.code
    BY <2>1, <2>3 DEF CouponInv, IndexHolds
  <2>5. coupon[c].state # "unused"
    BY <2>1, <2>3 DEF CouponInv, IndexHolds
  <2>6. CouponEnd(t) /\ couponTask[t].at # "idle" /\ usage' = usage
    BY DEF SaveCoupon
  <2>7. /\ couponTask' \in [CouponTasks -> CouponTask]
        /\ \A u \in CouponTasks :
             \/ couponTask'[u] = IdleRequest
             \/ /\ couponTask'[u] = couponTask[u]
                /\ couponTask[u].at = "insert" => couponTask[u].on # c
        /\ \A u \in CouponTasks :
             couponTask'[u].at \in Redeeming => u # t /\ couponTask'[u] = couponTask[u]
    BY <2>5, <2>6, WriterEnds
  <2>8. \A u \in CouponTasks :
          couponTask'[u].at \in Redeeming /\ couponTask'[u].on = c => u \in late'
    BY <2>2, <2>7 DEF OtherRedemptions
  <2>9. late' \subseteq CouponTasks /\ late \subseteq late'
    BY <2>2, InvTypes DEF OtherRedemptions
  <2>10. contested' \subseteq Coupons /\ contested \subseteq contested'
         /\ (c \notin contested' => WithinLimits(r, c))
    BY <2>1, <2>2, InvTypes
  <2>11. RowStep(c, r)
    BY <2>2, <2>3, <2>4, <2>6, <2>7, <2>8, <2>9, <2>10 DEF RowStep
  <2> QED BY <2>1, <2>3, <2>11, RowWritten
<1> QED BY <1>1, <1>2 DEF SaveCoupon

\* A row of which only the state or the sale changes, and which is not on sale
\* unless it was.
LEMMA CouponDeleteKeeps ==
    ASSUME CouponInv, NEW t \in CouponTasks, SoftDeleteCoupon(t)
    PROVE  CouponInv'
<1> DEFINE c == couponTask[t].on
<1>1. CASE UNCHANGED coupon
  BY <1>1, EndsQuietly DEF SoftDeleteCoupon
<1>2. CASE coupon' = [coupon EXCEPT ![c].state = "deleted"]
  <2>1. c \in Coupons /\ coupon[c].state # "unused" /\ coupon[c] \in Coupon
    BY InvTypes DEF SoftDeleteCoupon, CouponInv, RequestHolds
  <2>2. PICK r : r = [coupon[c] EXCEPT !.state = "deleted"]
    OBVIOUS
  <2>3. /\ r \in Coupon /\ r.state = "deleted" /\ r.code = coupon[c].code
        /\ r.global = coupon[c].global /\ r.perEmail = coupon[c].perEmail
    BY <2>1, <2>2 DEF Coupon
  <2>4. coupon' = [coupon EXCEPT ![c] = r]
    BY <1>2, <2>2
  <2>5. r.code # NoUsage /\ \A d \in Coupons : d # c => coupon[d].code # r.code
    BY <2>1, <2>3 DEF CouponInv, IndexHolds
  <2>6. /\ CouponEnd(t) /\ couponTask[t].at # "idle"
        /\ usage' = usage /\ late' = late /\ contested' = contested
    BY DEF SoftDeleteCoupon
  <2>7. /\ couponTask' \in [CouponTasks -> CouponTask]
        /\ \A u \in CouponTasks :
             \/ couponTask'[u] = IdleRequest
             \/ /\ couponTask'[u] = couponTask[u]
                /\ couponTask[u].at = "insert" => couponTask[u].on # c
    BY <2>1, <2>6, WriterEnds
  <2>8. RowStep(c, r)
    BY <2>3, <2>4, <2>5, <2>6, <2>7, InvTypes DEF RowStep
  <2> QED BY <2>1, <2>3, <2>8, RowWritten
<1> QED BY <1>1, <1>2 DEF SoftDeleteCoupon

LEMMA ExpireKeeps ==
    ASSUME CouponInv, NEW c \in Coupons, Expire(c)
    PROVE  CouponInv'
<1>1. coupon[c] \in Coupon /\ coupon[c].state = "live" /\ couponTask' = couponTask
      /\ usage' = usage /\ late' = late /\ contested' = contested
  BY InvTypes DEF Expire, OnSale
<1>2. PICK r : r = [coupon[c] EXCEPT !.sale = "shut"]
  OBVIOUS
<1>3. /\ r \in Coupon /\ r.state = "live" /\ r.code = coupon[c].code
      /\ r.global = coupon[c].global /\ r.perEmail = coupon[c].perEmail
  BY <1>1, <1>2 DEF Coupon
<1>4. coupon' = [coupon EXCEPT ![c] = r]
  BY <1>2 DEF Expire
<1>5. r.code # NoUsage /\ \A d \in Coupons : d # c => coupon[d].code # r.code
  BY <1>1, <1>3 DEF CouponInv, IndexHolds
<1>6. \A u \in CouponTasks : couponTask[u].at = "insert" => couponTask[u].on # c
  BY <1>1 DEF CouponInv, RequestHolds
<1>7. c \notin contested => WithinLimits(r, c)
  <2>1. c \notin contested => WithinLimits(coupon[c], c)
    BY <1>1 DEF CouponInv, CouponSafety, LimitsKept, OnSale
  <2> QED BY <1>3, <2>1 DEF WithinLimits
<1>8. RowStep(c, r)
  BY <1>1, <1>3, <1>4, <1>5, <1>6, <1>7, InvTypes DEF RowStep
<1> QED BY <1>3, <1>8, RowWritten

------------------------------------------------------------------------------
(* Redemption *)

LEMMA AskKeeps ==
    ASSUME CouponInv, NEW t \in CouponTasks, NEW stage \in Redeeming, NEW next \in Redeeming,
           NEW ok, Ask(t, stage, next, ok),
           ok /\ t \notin late =>
             /\ next \in {"countEmail", "record"} =>
                  Below(couponTask[t].global, CountGlobalUsage(couponTask[t].on))
             /\ next = "record" /\ couponTask[t].email # NoEmail =>
                  Below(couponTask[t].perEmail,
                        CountUsageByEmail(couponTask[t].on, couponTask[t].email))
    PROVE  CouponInv'
<1>0. coupon' = coupon /\ usage' = usage /\ contested' = contested /\ couponTask[t].at = stage
  BY DEF Ask
<1>1. CASE CouponEnd(t) /\ late' = late \ {t}
  BY <1>0, <1>1, EndsQuietly
<1>2. CASE ok /\ CouponStep(t, next) /\ late' = late
  <2>1. PICK s : s = [couponTask[t] EXCEPT !.at = next]
    OBVIOUS
  <2>2. couponTask[t] \in CouponTask /\ next \in CouponStages
    BY InvTypes DEF Redeeming, CouponStages
  <2>3. /\ s \in CouponTask /\ s.at = next /\ s.on = couponTask[t].on
        /\ s.order = couponTask[t].order /\ s.email = couponTask[t].email
        /\ s.global = couponTask[t].global /\ s.perEmail = couponTask[t].perEmail
    BY <2>1, <2>2 DEF CouponTask
  <2>4. couponTask' = [couponTask EXCEPT ![t] = s]
    BY <1>2, <2>1 DEF CouponStep
  <2>5. couponTask'[t] = s
    BY <2>4, <2>3, InvTypes
  <2>6. RequestHolds(t) /\ AnswersHold(t)
    BY DEF CouponInv
  <2>7. RequestHolds(t)'
    BY <1>0, <2>3, <2>5, <2>6 DEF RequestHolds, Redeeming
  <2>8. AnswersHold(t)'
    <3>1. PICK d, e : d = s.on /\ e = s.email
      OBVIOUS
    <3>2. d = couponTask'[t].on /\ e = couponTask'[t].email
      BY <2>5, <3>1
    <3>3. CountGlobalUsage(d)' = CountGlobalUsage(d)
          /\ CountUsageByEmail(d, e)' = CountUsageByEmail(d, e)
      BY <1>0 DEF CountGlobalUsage, CountUsageByEmail, Used, UsedBy
    <3>4. CountGlobalUsage(couponTask[t].on)' = CountGlobalUsage(couponTask[t].on)
          /\ CountUsageByEmail(couponTask[t].on, couponTask[t].email)'
               = CountUsageByEmail(couponTask[t].on, couponTask[t].email)
      BY <2>3, <3>1, <3>2, <3>3 DEF CountGlobalUsage, CountUsageByEmail, Used, UsedBy
    <3> QED BY <1>0, <1>2, <2>3, <2>5, <2>6, <3>4 DEF AnswersHold, Below
  <2>9. \A u \in CouponTasks :
          u # t /\ couponTask[u].at = "insert" => couponTask[u].on # s.on
    BY <1>0, <2>3, <2>6 DEF CouponInv, RequestHolds
  <2> QED BY <1>0, <1>2, <2>3, <2>4, <2>7, <2>8, <2>9, RequestMoves
<1> QED BY <1>1, <1>2 DEF Ask

\* The usage is one more for the coupon and for the address, and the answers the
\* request was given leave room for one.
LEMMA OneMoreUsage ==
    ASSUME CouponInv, NEW c \in Coupons, NEW o \in Purchases,
           NEW e \in Redeemers \cup {NoEmail},
           usage[c][o] = NoUsage, usage' = [usage EXCEPT ![c][o] = e]
    PROVE  /\ usage' \in [Coupons -> [Purchases -> Redeemers \cup {NoEmail, NoUsage}]]
           /\ \A d \in Coupons : d # c => usage'[d] = usage[d]
           /\ CountGlobalUsage(c)' = CountGlobalUsage(c) + 1
           /\ CountGlobalUsage(c) \in Nat
           /\ \A f \in Redeemers : f # e => CountUsageByEmail(c, f)' = CountUsageByEmail(c, f)
           /\ e # NoEmail => /\ CountUsageByEmail(c, e)' = CountUsageByEmail(c, e) + 1
                             /\ CountUsageByEmail(c, e) \in Nat
<1>1. /\ usage \in [Coupons -> [Purchases -> Redeemers \cup {NoEmail, NoUsage}]]
      /\ usage[c] \in [Purchases -> Redeemers \cup {NoEmail, NoUsage}]
      /\ e # NoUsage /\ \A f \in Redeemers : f # NoUsage
  BY InvTypes, CouponAssumption
<1>2. PICK r : r = [usage[c] EXCEPT ![o] = e]
  OBVIOUS
<1>3. /\ r \in [Purchases -> Redeemers \cup {NoEmail, NoUsage}]
      /\ r[o] = e /\ \A p \in Purchases : p # o => r[p] = usage[c][p]
  BY <1>1, <1>2
<1>4. /\ usage' = [usage EXCEPT ![c] = r]
      /\ usage'[c] = r
      /\ \A d \in Coupons : d # c => usage'[d] = usage[d]
  BY <1>1, <1>2
<1>5. usage' \in [Coupons -> [Purchases -> Redeemers \cup {NoEmail, NoUsage}]]
  BY <1>1, <1>3, <1>4
<1>6. \A S \in SUBSET Purchases : o \notin S =>
        Cardinality(S \cup {o}) = Cardinality(S) + 1 /\ Cardinality(S) \in Nat
  BY CouponAssumption, FS_Subset, FS_AddElement, FS_CardinalityType
<1>7. Used(c)' = Used(c) \cup {o} /\ o \notin Used(c) /\ Used(c) \in SUBSET Purchases
  BY <1>1, <1>3, <1>4 DEF Used
<1>8. \A f \in Redeemers : f # e => UsedBy(c, f)' = UsedBy(c, f)
  BY <1>1, <1>3, <1>4 DEF UsedBy
<1>9. UsedBy(c, e)' = UsedBy(c, e) \cup {o} /\ o \notin UsedBy(c, e)
      /\ UsedBy(c, e) \in SUBSET Purchases
  BY <1>1, <1>3, <1>4 DEF UsedBy
<1> QED
  BY <1>4, <1>5, <1>6, <1>7, <1>8, <1>9 DEF CountGlobalUsage, CountUsageByEmail

LEMMA RecordKeeps ==
    ASSUME CouponInv, NEW t \in CouponTasks, RecordUsage(t)
    PROVE  CouponInv'
<1>0. CouponEnd(t) /\ coupon' = coupon /\ couponTask[t].at = "record"
  BY DEF RecordUsage
<1>1. CASE UNCHANGED <<usage, contested>> /\ late' = late \ {t}
  BY <1>0, <1>1, EndsQuietly
<1>2. CASE /\ usage[couponTask[t].on][couponTask[t].order] = NoUsage
           /\ usage' = [usage EXCEPT ![couponTask[t].on][couponTask[t].order]
                                       = couponTask[t].email]
           /\ late' = (late \cup OtherRedemptions(t, couponTask[t].on)) \ {t}
           /\ contested' = contested \cup (IF t \in late THEN {couponTask[t].on} ELSE {})
  <2>1. PICK c \in Coupons, o \in Purchases, e \in Redeemers \cup {NoEmail} :
          c = couponTask[t].on /\ o = couponTask[t].order /\ e = couponTask[t].email
    BY <1>0, InvTypes DEF CouponInv, RequestHolds, Redeeming, CouponTask
  <2>2. /\ usage[c][o] = NoUsage /\ usage' = [usage EXCEPT ![c][o] = e]
        /\ late' = (late \cup OtherRedemptions(t, c)) \ {t}
        /\ contested' = contested \cup (IF t \in late THEN {c} ELSE {})
    BY <1>2, <2>1
  <2>3. /\ usage' \in [Coupons -> [Purchases -> Redeemers \cup {NoEmail, NoUsage}]]
        /\ \A d \in Coupons : d # c => usage'[d] = usage[d]
        /\ CountGlobalUsage(c)' = CountGlobalUsage(c) + 1
        /\ CountGlobalUsage(c) \in Nat
        /\ \A f \in Redeemers : f # e => CountUsageByEmail(c, f)' = CountUsageByEmail(c, f)
        /\ e # NoEmail => /\ CountUsageByEmail(c, e)' = CountUsageByEmail(c, e) + 1
                          /\ CountUsageByEmail(c, e) \in Nat
    BY <2>2, OneMoreUsage
  <2>4. /\ couponTask' \in [CouponTasks -> CouponTask] /\ couponTask'[t] = IdleRequest
        /\ \A u \in CouponTasks : u # t => couponTask'[u] = couponTask[u]
        /\ RequestHolds(t)' /\ AnswersHold(t)'
    BY <1>0, EndedRequest
  <2>5. CouponTypes'
    BY <1>0, <2>2, <2>3, <2>4, InvTypes DEF CouponTypes, OtherRedemptions
  <2>6. coupon[c].state # "unused"
    BY <1>0, <2>1 DEF CouponInv, RequestHolds, Redeeming
  <2>7. IndexHolds'
    BY <1>0, <2>3, <2>6 DEF CouponInv, IndexHolds
  <2>8. \A d \in Coupons : d # c =>
          /\ CountGlobalUsage(d)' = CountGlobalUsage(d)
          /\ \A f \in Redeemers \cup {NoEmail} : CountUsageByEmail(d, f)' = CountUsageByEmail(d, f)
    BY <2>3 DEF CountGlobalUsage, CountUsageByEmail, Used, UsedBy
  <2>9. LimitsKept'
    <3> SUFFICES ASSUME NEW d \in Coupons, d \notin contested', coupon[d].state = "live"
                 PROVE  /\ coupon[d].global # NoLimit =>
                             CountGlobalUsage(d)' <= coupon[d].global
                        /\ coupon[d].perEmail # NoLimit =>
                             \A f \in Redeemers :
                               CountUsageByEmail(d, f)' <= coupon[d].perEmail
      BY <1>0 DEF LimitsKept, OnSale, WithinLimits
    <3>1. d \notin contested /\ WithinLimits(coupon[d], d)
      BY <2>2 DEF CouponInv, CouponSafety, LimitsKept, OnSale
    <3>2. CASE d # c
      BY <2>8, <3>1, <3>2 DEF WithinLimits
    <3>3. CASE d = c
      <4>1. t \notin late
        BY <2>2, <3>3
      <4>2. /\ couponTask[t].global = coupon[c].global /\ couponTask[t].perEmail = coupon[c].perEmail
            /\ Below(couponTask[t].global, CountGlobalUsage(couponTask[t].on))
            /\ couponTask[t].email # NoEmail =>
                 Below(couponTask[t].perEmail,
                       CountUsageByEmail(couponTask[t].on, couponTask[t].email))
        BY <1>0, <2>1, <4>1 DEF CouponInv, AnswersHold, Redeeming
      <4>3. /\ coupon[c].global # NoLimit => CountGlobalUsage(c) < coupon[c].global
            /\ coupon[c].perEmail # NoLimit /\ e # NoEmail =>
                 CountUsageByEmail(c, e) < coupon[c].perEmail
        BY <2>1, <4>2 DEF Below
      <4>4. \A n \in AnyLimit : n # NoLimit => n \in Nat
        BY CouponAssumption DEF AnyLimit
      <4>5. coupon[c].global \in AnyLimit /\ coupon[c].perEmail \in AnyLimit
        BY InvTypes DEF Coupon
      <4>6. coupon[c].global # NoLimit => CountGlobalUsage(c)' <= coupon[c].global
        BY <2>3, <4>3, <4>4, <4>5
      <4>7. ASSUME coupon[c].perEmail # NoLimit, NEW f \in Redeemers
            PROVE  CountUsageByEmail(c, f)' <= coupon[c].perEmail
        <5>1. CASE f = e
          BY <2>3, <4>3, <4>4, <4>5, <4>7, <5>1, CouponAssumption
        <5>2. CASE f # e
          BY <2>3, <3>1, <3>3, <4>7, <5>2 DEF WithinLimits
        <5> QED BY <5>1, <5>2
      <4> QED BY <3>3, <4>6, <4>7
    <3> QED BY <3>2, <3>3
  <2>10. ASSUME NEW u \in CouponTasks, u # t PROVE RequestHolds(u)'
    <3>1. RequestHolds(u) /\ couponTask'[u] = couponTask[u]
      BY <2>4, <2>10 DEF CouponInv
    <3>2. \A v \in CouponTasks : couponTask'[v].on = NoUsage \/ couponTask'[v].on = couponTask[v].on
      BY <2>4, IdleRequestHolds
    <3> QED BY <1>0, <3>1, <3>2, CouponAssumption DEF RequestHolds
  <2>11. ASSUME NEW u \in CouponTasks, u # t PROVE AnswersHold(u)'
    <3>1. AnswersHold(u) /\ RequestHolds(u) /\ couponTask'[u] = couponTask[u]
          /\ couponTask[u] \in CouponTask
      BY <2>4, <2>11, InvTypes DEF CouponInv
    <3> SUFFICES ASSUME couponTask[u].at \in Redeeming, u \notin late' PROVE AnswersHold(u)'
      BY <3>1 DEF AnswersHold
    <3>2. couponTask[u].on \in Coupons /\ couponTask[u].email \in Redeemers \cup {NoEmail}
      BY <3>1 DEF RequestHolds, Redeeming, CouponTask
    <3>3. couponTask[u].on # c /\ u \notin late
      BY <2>2, <2>11 DEF OtherRedemptions
    <3>4. PICK d, f : d = couponTask[u].on /\ f = couponTask[u].email
      OBVIOUS
    <3>5. d = couponTask'[u].on /\ f = couponTask'[u].email
      BY <3>1, <3>4
    <3>6. CountGlobalUsage(d)' = CountGlobalUsage(d) /\ CountUsageByEmail(d, f)' = CountUsageByEmail(d, f)
      BY <2>8, <3>2, <3>3, <3>4
    <3>7. CountGlobalUsage(couponTask[u].on)' = CountGlobalUsage(couponTask[u].on)
          /\ CountUsageByEmail(couponTask[u].on, couponTask[u].email)'
               = CountUsageByEmail(couponTask[u].on, couponTask[u].email)
      BY <3>4, <3>5, <3>6 DEF CountGlobalUsage, CountUsageByEmail, Used, UsedBy
    <3> QED BY <1>0, <3>1, <3>3, <3>7 DEF AnswersHold, Below
  <2> QED BY <2>4, <2>5, <2>7, <2>9, <2>10, <2>11, Reassemble
<1> QED BY <1>1, <1>2 DEF RecordUsage

------------------------------------------------------------------------------

\* At the start no coupon has been created.
THEOREM CouponInitially == CouponInit => CouponInv
<1> SUFFICES ASSUME CouponInit PROVE CouponInv
  OBVIOUS
<1>1. /\ \A c \in Coupons : coupon[c] = NewCoupon
      /\ \A t \in CouponTasks : couponTask[t] = IdleRequest
      /\ \A c \in Coupons, o \in Purchases : usage[c][o] = NoUsage
  BY DEF CouponInit
<1>2. CouponTypes
  BY IdleRequestHolds, CodeOfRow DEF CouponInit, CouponTypes
<1>3. IndexHolds
  BY <1>1, CodeOfRow DEF IndexHolds
<1>4. LimitsKept /\ CodeNamesOne
  BY <1>1, CodeOfRow DEF LimitsKept, CodeNamesOne, OnSale
<1>5. \A t \in CouponTasks : RequestHolds(t) /\ AnswersHold(t)
  BY <1>1, IdleRequestHolds DEF RequestHolds, AnswersHold
<1> QED BY <1>2, <1>3, <1>4, <1>5 DEF CouponInv, CouponSafety

\* Every statement of every request keeps the invariant.
THEOREM CouponStepKeeps == CouponInv /\ [CouponNext]_couponVars => CouponInv'
<1> SUFFICES ASSUME CouponInv, [CouponNext]_couponVars PROVE CouponInv'
  OBVIOUS
<1>1. ASSUME NEW t \in CouponTasks, CreateCoupon(t) PROVE CouponInv'
  BY <1>1, CreateKeeps
<1>2. ASSUME NEW t \in CouponTasks, InsertCoupon(t) PROVE CouponInv'
  BY <1>2, InsertKeeps
<1>3. ASSUME NEW t \in CouponTasks, SaveCoupon(t) PROVE CouponInv'
  BY <1>3, SaveKeeps
<1>4. ASSUME NEW t \in CouponTasks, SoftDeleteCoupon(t) PROVE CouponInv'
  BY <1>4, CouponDeleteKeeps
<1>5. ASSUME NEW t \in CouponTasks, NEW c \in Coupons,
             UpdateCoupon(t, c) \/ DeleteCoupon(t, c) \/ Redeem(t, c)
      PROVE  CouponInv'
  BY <1>5, UpdateKeeps, DeleteKeeps, RedeemKeeps
<1>6. ASSUME NEW t \in CouponTasks, CheckOrder(t) PROVE CouponInv'
  BY <1>6, AskKeeps DEF CheckOrder, Redeeming
<1>7. ASSUME NEW t \in CouponTasks, CountGlobal(t) PROVE CouponInv'
  <2>1. couponTask[t].at = "countGlobal" /\ AnswersHold(t)
    BY <1>7 DEF CountGlobal, Ask, CouponInv
  <2>2. "countGlobal" \in Redeeming /\ "countEmail" \in Redeeming
    BY DEF Redeeming
  <2> QED BY <1>7, <2>2, AskKeeps DEF CountGlobal
<1>8. ASSUME NEW t \in CouponTasks, CountEmail(t) PROVE CouponInv'
  <2>1. couponTask[t].at = "countEmail" /\ AnswersHold(t)
    BY <1>8 DEF CountEmail, Ask, CouponInv
  <2>2. "record" \in Redeeming /\ "countEmail" \in Redeeming
    BY DEF Redeeming
  <2>3. t \notin late => Below(couponTask[t].global, CountGlobalUsage(couponTask[t].on))
    BY <2>1, <2>2 DEF AnswersHold
  <2> QED BY <1>8, <2>2, <2>3, AskKeeps DEF CountEmail
<1>9. ASSUME NEW t \in CouponTasks, RecordUsage(t) PROVE CouponInv'
  BY <1>9, RecordKeeps
<1>10. ASSUME NEW c \in Coupons, Expire(c) PROVE CouponInv'
  BY <1>10, ExpireKeeps
<1>11. CASE UNCHANGED couponVars
  <2>1. UNCHANGED <<coupon, usage, couponTask, late, contested>>
    BY <1>11 DEF couponVars
  <2>2. CouponSafety'
    BY <2>1 DEF CouponInv, CouponSafety, CouponTypes, LimitsKept, CodeNamesOne, OnSale,
                WithinLimits, CountGlobalUsage, CountUsageByEmail, Used, UsedBy, Below
  <2>3. IndexHolds'
    BY <2>1 DEF CouponInv, IndexHolds
  <2>4. \A t \in CouponTasks : RequestHolds(t)'
    BY <2>1 DEF CouponInv, RequestHolds
  <2>5. \A t \in CouponTasks : AnswersHold(t)'
    BY <2>1 DEF CouponInv, AnswersHold, CountGlobalUsage, CountUsageByEmail, Used, UsedBy,
                Below
  <2> QED BY <2>2, <2>3, <2>4, <2>5 DEF CouponInv
<1> QED
  BY <1>1, <1>2, <1>3, <1>4, <1>5, <1>6, <1>7, <1>8, <1>9, <1>10, <1>11 DEF CouponNext

\* No coupon outlives its limits unless requests overlapped, and no code names
\* two coupons, whatever statements interleave or fail
\* (coupons/application/coupon/service/service.go).
THEOREM CouponsAreSafe == CouponSpec => []CouponSafety
<1>1. CouponInv => CouponSafety
  BY DEF CouponInv
<1> QED BY CouponInitially, CouponStepKeeps, <1>1, PTL DEF CouponSpec

------------------------------------------------------------------------------
(* Consent stamps: the status of a channel is what was asked for last. The  *)
(* invariant says of each contact's sequence of stamps what one more stamp  *)
(* needs, and of the requests under way that each has a time of its own;    *)
(* that a set of stamps has a newest one is carried along, stamp by stamp.  *)

------------------------------------------------------------------------------
(* What a sequence of stamps says, and what one more stamp adds to it. *)

Asked(A, channel) == {A[i] : i \in {j \in DOMAIN A : SpeaksFor(A[j], channel)}}
Stamped(A, channel) == {s \in {A[i] : i \in {j \in DOMAIN A : A[j].kept = "yes"}} :
                       SpeaksFor(s, channel)}
OrderlySeq(A) ==
    \A i \in DOMAIN A : A[i].kept = "no" =>
        /\ A[i].channel # "all"
        /\ \A j \in DOMAIN A : i < j => A[i].time < A[j].time
Sound(A) ==
    /\ \A i, j \in DOMAIN A : A[i].time = A[j].time => i = j
    /\ A # <<>> => A[1].kept = "yes"
    /\ \A ch \in AllChannels : HasNewest(Asked(A, ch)) /\ HasNewest(Stamped(A, ch))
    /\ OrderlySeq(A) => \A ch \in AllChannels : Asked(A, ch) # {} =>
         /\ Stamped(A, ch) # {}
         /\ Newest(Stamped(A, ch)).action = Newest(Asked(A, ch)).action

LEMMA Appended ==
  ASSUME NEW A \in Seq(Stamp), NEW x \in Stamp, NEW B, B = Append(A, x)
  PROVE  /\ B \in Seq(Stamp) /\ B # <<>>
         /\ Len(A) \in Nat /\ DOMAIN A = 1..Len(A) /\ DOMAIN B = 1..(Len(A) + 1)
         /\ \A i \in DOMAIN A : i \in DOMAIN B /\ B[i] = A[i]
         /\ B[Len(A) + 1] = x
  OBVIOUS

\* Every set of stamps with a newest stamp has it as Newest.
LEMMA NewestIs ==
  ASSUME NEW S, HasNewest(S), S # {}
  PROVE  Newest(S) \in S /\ \A r \in S : r.time <= Newest(S).time
<1> DEFINE P(s) == s \in S /\ \A r \in S : r.time <= s.time
<1>1. \E s : P(s)
  BY DEF HasNewest
<1>2. P(CHOOSE s : P(s))
  BY <1>1, Zenon
<1>3. Newest(S) = CHOOSE s \in S : \A r \in S : r.time <= s.time
  BY DEF Newest
<1>4. \E s \in S : \A r \in S : r.time <= s.time
  BY DEF HasNewest
<1> HIDE DEF P
<1> QED BY <1>3, <1>4, Zenon

Adds(A, x, B, ch) ==
    /\ Asked(B, ch) = Asked(A, ch) \cup (IF SpeaksFor(x, ch) THEN {x} ELSE {})
    /\ Stamped(B, ch) = Stamped(A, ch)
                       \cup (IF x.kept = "yes" /\ SpeaksFor(x, ch) THEN {x} ELSE {})
    /\ Asked(A, ch) \subseteq Stamp /\ Stamped(A, ch) \subseteq Asked(A, ch)

LEMMA StampsAdded ==
  ASSUME NEW A \in Seq(Stamp), NEW x \in Stamp, NEW B, B = Append(A, x)
  PROVE  \A ch \in AllChannels : Adds(A, x, B, ch)
<1> SUFFICES ASSUME NEW ch \in AllChannels PROVE Adds(A, x, B, ch)
  OBVIOUS
<1>1. /\ Len(A) \in Nat /\ DOMAIN A = 1..Len(A) /\ DOMAIN B = 1..(Len(A) + 1)
      /\ \A i \in DOMAIN A : i \in DOMAIN B /\ B[i] = A[i]
      /\ B[Len(A) + 1] = x
  BY Appended
<1>2. \A i \in DOMAIN B : i \in DOMAIN A \/ i = Len(A) + 1
  BY <1>1
<1>3. Len(A) + 1 \in DOMAIN B /\ Len(A) + 1 \notin DOMAIN A
  BY <1>1
<1>4. \A i \in DOMAIN A : A[i] \in Stamp
  BY <1>1
<1>5. Asked(B, ch) = Asked(A, ch) \cup (IF SpeaksFor(x, ch) THEN {x} ELSE {})
  BY <1>1, <1>2, <1>3 DEF Asked
<1>6. Stamped(B, ch) = Stamped(A, ch) \cup (IF x.kept = "yes" /\ SpeaksFor(x, ch) THEN {x} ELSE {})
  BY <1>1, <1>2, <1>3 DEF Stamped
<1>7. Asked(A, ch) \subseteq Stamp /\ Stamped(A, ch) \subseteq Asked(A, ch)
  BY <1>4 DEF Asked, Stamped
<1> QED BY <1>5, <1>6, <1>7 DEF Adds

LEMMA NewestAdded ==
  ASSUME NEW S \in SUBSET Stamp, NEW x \in Stamp, HasNewest(S)
  PROVE  HasNewest(S \cup {x})
<1>1. \A r \in Stamp : r.time \in Int
  BY DEF Stamp
<1>2. CASE S = {}
  BY <1>1, <1>2 DEF HasNewest
<1>3. CASE S # {}
  <2>1. PICK n \in S : \A r \in S : r.time <= n.time
    BY <1>3 DEF HasNewest
  <2>2. CASE x.time <= n.time
    <3>1. \A r \in S \cup {x} : r.time <= n.time
      BY <2>1, <2>2
    <3> QED BY <2>1, <3>1 DEF HasNewest
  <2>3. CASE ~(x.time <= n.time)
    <3>1. \A r \in S \cup {x} : r.time <= x.time
      BY <1>1, <2>1, <2>3
    <3> QED BY <3>1 DEF HasNewest
  <2> QED BY <2>2, <2>3
<1> QED BY <1>2, <1>3

\* One more stamp, stored or known already: the status goes on to be what was
\* asked for last.
LEMMA SoundAppend ==
  ASSUME NEW A \in Seq(Stamp), Sound(A), NEW x \in Stamp, NEW B, B = Append(A, x),
         \A i \in DOMAIN A : A[i].time # x.time,
         \/ x.kept = "yes"
         \/ /\ Stamped(A, x.channel) # {}
            /\ Newest(Stamped(A, x.channel)).action = x.action
  PROVE  Sound(B)
<1>0. \A ch \in AllChannels : Adds(A, x, B, ch)
  BY StampsAdded
<1>1. /\ Len(A) \in Nat /\ DOMAIN A = 1..Len(A) /\ DOMAIN B = 1..(Len(A) + 1)
      /\ \A i \in DOMAIN A : i \in DOMAIN B /\ B[i] = A[i]
      /\ B[Len(A) + 1] = x /\ B # <<>>
  BY Appended
<1>2. /\ \A i \in DOMAIN B : i \in DOMAIN A \/ i = Len(A) + 1
      /\ Len(A) + 1 \in DOMAIN B /\ Len(A) + 1 \notin DOMAIN A
      /\ \A i \in DOMAIN A : A[i] \in Stamp /\ i < Len(A) + 1
  BY <1>1
<1>3. \A r \in Stamp : r.time \in Int /\ r.channel \in AllChannels
  BY DEF Stamp
<1>4. \A i, j \in DOMAIN B : B[i].time = B[j].time => i = j
  BY <1>1, <1>2 DEF Sound
<1>5. B[1].kept = "yes"
  <2>1. CASE A = <<>>
    <3>1. Len(A) = 0
      BY <2>1
    <3>2. \A ch : Stamped(A, ch) = {}
      BY <1>1, <3>1 DEF Stamped
    <3> QED BY <1>1, <3>1, <3>2
  <2>2. CASE A # <<>>
    <3>1. 1 \in DOMAIN A
      BY <1>1, <2>2
    <3> QED BY <1>1, <2>2, <3>1 DEF Sound
  <2> QED BY <2>1, <2>2
<1>6. ASSUME NEW ch \in AllChannels
      PROVE  HasNewest(Asked(B, ch)) /\ HasNewest(Stamped(B, ch))
  <2>1. HasNewest(Asked(A, ch)) /\ HasNewest(Stamped(A, ch))
    BY DEF Sound
  <2>2. /\ Asked(A, ch) \in SUBSET Stamp /\ Stamped(A, ch) \in SUBSET Stamp
        /\ Asked(B, ch) = Asked(A, ch) \/ Asked(B, ch) = Asked(A, ch) \cup {x}
        /\ Stamped(B, ch) = Stamped(A, ch) \/ Stamped(B, ch) = Stamped(A, ch) \cup {x}
    BY <1>0 DEF Adds
  <2> QED BY <2>1, <2>2, NewestAdded
<1>7. ASSUME OrderlySeq(B), NEW ch \in AllChannels, Asked(B, ch) # {}
      PROVE  /\ Stamped(B, ch) # {}
             /\ Newest(Stamped(B, ch)).action = Newest(Asked(B, ch)).action
  <2>1. OrderlySeq(A)
    BY <1>1, <1>7 DEF OrderlySeq
  <2>2. \A i \in DOMAIN A : A[i].kept = "no" => A[i].time < x.time
    BY <1>1, <1>2, <1>7 DEF OrderlySeq
  <2>3. x.kept = "no" => x.channel # "all"
    BY <1>1, <1>2, <1>7 DEF OrderlySeq
  <2>4. /\ Asked(B, ch) = Asked(A, ch) \cup (IF SpeaksFor(x, ch) THEN {x} ELSE {})
        /\ Stamped(B, ch) = Stamped(A, ch)
             \cup (IF x.kept = "yes" /\ SpeaksFor(x, ch) THEN {x} ELSE {})
        /\ Asked(A, ch) \subseteq Stamp /\ Stamped(A, ch) \subseteq Asked(A, ch)
    BY <1>0 DEF Adds
  <2>5. Asked(A, ch) # {} =>
          /\ Stamped(A, ch) # {}
          /\ Newest(Stamped(A, ch)).action = Newest(Asked(A, ch)).action
    BY <2>1 DEF Sound
  <2>6. CASE ~SpeaksFor(x, ch)
    <3>1. Asked(B, ch) = Asked(A, ch) /\ Stamped(B, ch) = Stamped(A, ch)
      BY <2>4, <2>6
    <3> QED BY <1>7, <2>5, <3>1
  <2>7. CASE SpeaksFor(x, ch) /\ x.kept = "no"
    <3>1. ch = x.channel
      BY <2>3, <2>7 DEF SpeaksFor
    <3>2. /\ Stamped(A, ch) # {} /\ Newest(Stamped(A, ch)).action = x.action
          /\ Stamped(B, ch) = Stamped(A, ch) /\ Asked(B, ch) = Asked(A, ch) \cup {x}
      BY <2>4, <2>7, <3>1
    <3>3. Asked(A, ch) # {} /\ Newest(Asked(A, ch)).action = x.action
      BY <2>4, <2>5, <3>2
    <3>4. /\ Newest(Asked(A, ch)) \in Asked(A, ch)
          /\ \A r \in Asked(A, ch) : r.time <= Newest(Asked(A, ch)).time
      BY <3>3, NewestIs DEF Sound
    <3>5. /\ Newest(Asked(B, ch)) \in Asked(B, ch)
          /\ \A r \in Asked(B, ch) : r.time <= Newest(Asked(B, ch)).time
      BY <1>6, <1>7, NewestIs
    <3>6. Newest(Asked(B, ch)) = x \/ Newest(Asked(B, ch)) = Newest(Asked(A, ch))
      <4>1. ASSUME Newest(Asked(B, ch)) \in Asked(A, ch)
            PROVE  Newest(Asked(B, ch)) = Newest(Asked(A, ch))
        <5>1. PICK n, m : n = Newest(Asked(A, ch)) /\ m = Newest(Asked(B, ch))
          OBVIOUS
        <5>2. n \in Asked(A, ch) /\ m \in Asked(A, ch) /\ n.time \in Int /\ m.time \in Int
          BY <1>3, <2>4, <3>4, <4>1, <5>1
        <5>3. m.time <= n.time /\ n.time <= m.time
          BY <3>2, <3>4, <3>5, <5>1, <5>2
        <5>4. m.time = n.time
          BY <5>2, <5>3
        <5> QED BY <5>1, <5>2, <5>4 DEF Asked, Sound
      <4> QED BY <3>2, <3>5, <4>1
    <3> QED BY <3>2, <3>3, <3>6
  <2>8. CASE SpeaksFor(x, ch) /\ x.kept = "yes"
    <3>1. Stamped(B, ch) = Stamped(A, ch) \cup {x} /\ Asked(B, ch) = Asked(A, ch) \cup {x}
      BY <2>4, <2>8
    <3>2. /\ Newest(Asked(B, ch)) \in Asked(B, ch)
          /\ \A r \in Asked(B, ch) : r.time <= Newest(Asked(B, ch)).time
          /\ Newest(Stamped(B, ch)) \in Stamped(B, ch)
          /\ \A r \in Stamped(B, ch) : r.time <= Newest(Stamped(B, ch)).time
      BY <1>6, <1>7, <3>1, NewestIs
    <3>3. CASE Newest(Asked(B, ch)) = x
      <4>1. Newest(Stamped(B, ch)) = x
        <5>1. PICK m : m = Newest(Stamped(B, ch))
          OBVIOUS
        <5>2. x.time <= m.time /\ m.time <= x.time /\ m \in Stamped(A, ch) \cup {x}
          BY <2>4, <3>1, <3>2, <3>3, <5>1
        <5>3. m \in Stamped(A, ch) => m.time # x.time /\ m.time \in Int /\ x.time \in Int
          BY <1>3, <2>4 DEF Asked
        <5>4. m \notin Stamped(A, ch)
          BY <5>2, <5>3
        <5> QED BY <5>1, <5>2, <5>4
      <4> QED BY <3>1, <3>3, <4>1
    <3>4. CASE Newest(Asked(B, ch)) # x
      <4>1. PICK n : n = Newest(Asked(B, ch))
        OBVIOUS
      <4>2. n \in Asked(A, ch) /\ n.time > x.time
        <5>1. n \in Asked(A, ch) /\ x.time <= n.time
          BY <3>1, <3>2, <3>4, <4>1
        <5>2. n.time # x.time
          BY <5>1 DEF Asked
        <5> QED BY <1>3, <2>4, <5>1, <5>2
      <4>3. n \in Stamped(A, ch)
        <5>1. PICK i \in DOMAIN A : SpeaksFor(A[i], ch) /\ n = A[i]
          BY <4>2 DEF Asked
        <5>2. A[i].kept = "yes"
          BY <1>2, <1>3, <2>2, <4>2, <5>1 DEF Stamp
        <5> QED BY <5>1, <5>2 DEF Stamped
      <4>4. Newest(Stamped(B, ch)) = n
        <5>1. PICK m : m = Newest(Stamped(B, ch))
          OBVIOUS
        <5>2. n.time <= m.time /\ m \in Stamped(A, ch) \cup {x}
          BY <3>1, <3>2, <4>3, <5>1
        <5>3. /\ x.time \in Int /\ n.time \in Int
              /\ m \in Asked(A, ch) \cup {x}
              /\ m.time \in Int
          BY <1>3, <2>4, <4>2, <5>2
        <5>4. m # x
          BY <4>2, <5>2, <5>3
        <5>5. m.time <= n.time
          BY <3>1, <3>2, <4>1, <5>3
        <5>6. m \in Asked(A, ch) /\ m.time = n.time
          BY <5>2, <5>3, <5>4, <5>5
        <5> QED BY <4>2, <5>1, <5>6 DEF Asked, Sound
      <4> QED BY <3>1, <4>1, <4>4
    <3> QED BY <3>3, <3>4
  <2>9. x.kept \in {"no", "yes"}
    BY DEF Stamp
  <2> QED BY <2>6, <2>7, <2>8, <2>9
<1> QED BY <1>4, <1>5, <1>6, <1>7 DEF Sound


------------------------------------------------------------------------------
(* The steps. *)

LEMMA ContactSound ==
  \A c \in Members :
    /\ \A ch : AskedFor(c, ch) = Asked(asked[c], ch) /\ StampsFor(c, ch) = Stamped(asked[c], ch)
    /\ Orderly(c) <=> OrderlySeq(asked[c])
  BY DEF AskedFor, Asked, StampsFor, Stamps, Stamped, Orderly, OrderlySeq

\* The invariant, contact by contact.
ByContact == StampTypes /\ OwnTimes /\ \A c \in Members : Sound(asked[c])

LEMMA StampInvSplits == StampInv <=> ByContact
<1>1. StampInv <=>
        /\ StampTypes /\ OwnTimes /\ StatusIsNewest /\ FirstIsKept
        /\ \A c \in Members, ch \in AllChannels :
             HasNewest(Asked(asked[c], ch)) /\ HasNewest(Stamped(asked[c], ch))
  BY ContactSound DEF StampInv, StampSafety
<1>2. StatusIsNewest <=>
        \A c \in Members : OrderlySeq(asked[c]) =>
          \A ch \in AllChannels : Asked(asked[c], ch) # {} =>
            /\ Stamped(asked[c], ch) # {}
            /\ Newest(Stamped(asked[c], ch)).action = Newest(Asked(asked[c], ch)).action
  BY ContactSound DEF StatusIsNewest, LatestStatus
<1>3. FirstIsKept <=> \A c \in Members : asked[c] # <<>> => asked[c][1].kept = "yes"
  BY DEF FirstIsKept
<1>4. OwnTimes => \A c \in Members : \A i, j \in DOMAIN asked[c] :
                    asked[c][i].time = asked[c][j].time => i = j
  BY DEF OwnTimes
<1>5. \A c \in Members : Sound(asked[c]) <=>
        /\ \A i, j \in DOMAIN asked[c] : asked[c][i].time = asked[c][j].time => i = j
        /\ asked[c] # <<>> => asked[c][1].kept = "yes"
        /\ \A ch \in AllChannels : HasNewest(Asked(asked[c], ch)) /\ HasNewest(Stamped(asked[c], ch))
        /\ OrderlySeq(asked[c]) => \A ch \in AllChannels : Asked(asked[c], ch) # {} =>
             /\ Stamped(asked[c], ch) # {}
             /\ Newest(Stamped(asked[c], ch)).action = Newest(Asked(asked[c], ch)).action
  BY DEF Sound
<1> QED BY <1>1, <1>2, <1>3, <1>4, <1>5, Zenon DEF ByContact

LEMMA IdleStampType == IdleStampTask \in StampTask /\ IdleStampTask.at = "idle"
  BY MembershipAssumption DEF IdleStampTask, StampTask, AllChannels, Actions

LEMMA RequestKeepsStamps ==
  ASSUME ByContact, NEW t \in StampTasks, RequestStamp(t)
  PROVE  ByContact'
<1>1. StampTypes /\ OwnTimes
  BY DEF ByContact
<1>2. PICK c \in Members, w \in (1..MaxTime) \ TimesTaken, k \in StampTask :
        /\ k.at = "save" /\ k.contact = c /\ k.time = w
        /\ stampTask' = [stampTask EXCEPT ![t] = k]
  <2>1. PICK c \in Members, ch \in AllChannels, a \in Actions, w \in (1..MaxTime) \ TimesTaken :
          stampTask' = [stampTask EXCEPT ![t] =
            [at |-> "save", contact |-> c, channel |-> ch, action |-> a, time |-> w]]
    BY DEF RequestStamp
  <2>2. PICK k : k = [at |-> "save", contact |-> c, channel |-> ch, action |-> a, time |-> w]
    OBVIOUS
  <2>3. k \in StampTask /\ k.at = "save" /\ k.contact = c /\ k.time = w
    BY <2>2, MembershipAssumption DEF StampTask
  <2> QED BY <2>1, <2>2, <2>3
<1>3. k \in StampTask /\ k.at = "save" /\ k.contact = c /\ k.time = w
  BY <1>2
<1>4. /\ stampTask' \in [StampTasks -> StampTask] /\ stampTask'[t] = k
      /\ \A u \in StampTasks \ {t} : stampTask'[u] = stampTask[u]
      /\ asked' = asked
  BY <1>1, <1>2, <1>3 DEF StampTypes, RequestStamp
<1>5. /\ \A u \in StampTasks : stampTask[u].time # w
      /\ \A d \in Members : \A i \in DOMAIN asked[d] : asked[d][i].time # w
  BY <1>2 DEF TimesTaken
<1>6. OwnTimes'
  BY <1>1, <1>2, <1>3, <1>4, <1>5 DEF OwnTimes
<1>7. StampTypes'
  BY <1>1, <1>4 DEF StampTypes
<1>8. \A d \in Members : Sound(asked'[d])
  BY <1>4 DEF ByContact
<1> QED BY <1>6, <1>7, <1>8 DEF ByContact

LEMMA FindKeepsStamps ==
  ASSUME ByContact, NEW t \in StampTasks, FindNoStamp(t)
  PROVE  ByContact'
<1>1. StampTypes /\ OwnTimes
  BY DEF ByContact
<1>2. PICK k : k = [stampTask[t] EXCEPT !.at = "insert"]
  OBVIOUS
<1>3. stampTask[t] \in StampTask /\ stampTask[t].at = "save"
  BY <1>1 DEF StampTypes, FindNoStamp
<1>4. /\ k \in StampTask /\ k.at = "insert"
      /\ k.contact = stampTask[t].contact /\ k.time = stampTask[t].time
  BY <1>2, <1>3 DEF StampTask
<1>5. /\ stampTask' = [stampTask EXCEPT ![t] = k] /\ asked' = asked
  BY <1>2 DEF FindNoStamp
<1>6. /\ stampTask' \in [StampTasks -> StampTask] /\ stampTask'[t] = k
      /\ \A u \in StampTasks \ {t} : stampTask'[u] = stampTask[u]
  BY <1>1, <1>4, <1>5 DEF StampTypes
<1>7. OwnTimes'
  BY <1>1, <1>3, <1>4, <1>5, <1>6 DEF OwnTimes
<1>8. StampTypes'
  BY <1>1, <1>5, <1>6 DEF StampTypes
<1> QED BY <1>5, <1>7, <1>8 DEF ByContact

LEMMA FailKeepsStamps ==
  ASSUME ByContact, NEW t \in StampTasks, FailStamp(t)
  PROVE  ByContact'
<1>1. StampTypes /\ OwnTimes
  BY DEF ByContact
<1>2. IdleStampTask \in StampTask /\ IdleStampTask.at = "idle"
  BY IdleStampType
<1>3. /\ stampTask' = [stampTask EXCEPT ![t] = IdleStampTask] /\ asked' = asked
  BY DEF FailStamp
<1>4. /\ stampTask' \in [StampTasks -> StampTask] /\ stampTask'[t].at = "idle"
      /\ \A u \in StampTasks \ {t} : stampTask'[u] = stampTask[u]
  BY <1>1, <1>2, <1>3 DEF StampTypes
<1>5. OwnTimes'
  BY <1>1, <1>3, <1>4 DEF OwnTimes
<1>6. StampTypes'
  BY <1>1, <1>3, <1>4 DEF StampTypes
<1> QED BY <1>3, <1>5, <1>6 DEF ByContact

\* A confirmed stamp, stored, or known to change nothing.
LEMMA ConfirmKeepsStamps ==
  ASSUME ByContact, NEW t \in StampTasks, stampTask[t].at # "idle",
         NEW kept \in {"no", "yes"}, Confirm(t, kept),
         \/ kept = "yes"
         \/ /\ StampsFor(stampTask[t].contact, stampTask[t].channel) # {}
            /\ ChangesNothing(stampTask[t])
  PROVE  ByContact'
<1>1. StampTypes /\ OwnTimes /\ \A c \in Members : Sound(asked[c])
  BY DEF ByContact
<1>2. PICK k, c, A : k = stampTask[t] /\ c = k.contact /\ A = asked[c]
  OBVIOUS
<1>3. /\ k \in StampTask /\ c \in Members /\ k.time \in 1..MaxTime
      /\ A \in Seq(Stamp) /\ Sound(A)
      /\ \A i \in DOMAIN A : A[i].time # k.time
  BY <1>1, <1>2 DEF StampTypes, OwnTimes
<1>4. PICK x : x = [channel |-> k.channel, action |-> k.action, time |-> k.time, kept |-> kept]
  OBVIOUS
<1>5. /\ x \in Stamp /\ x.time = k.time /\ x.kept = kept
      /\ x.channel = k.channel /\ x.action = k.action
  BY <1>3, <1>4 DEF Stamp, StampTask
<1>6. PICK B : B = Append(A, x)
  OBVIOUS
<1>7. /\ asked' = [asked EXCEPT ![c] = B]
      /\ stampTask' = [stampTask EXCEPT ![t] = IdleStampTask]
  BY <1>2, <1>4, <1>6 DEF Confirm
<1>8. B \in Seq(Stamp)
  BY <1>3, <1>5, <1>6, Appended
<1>9. IdleStampTask \in StampTask /\ IdleStampTask.at = "idle"
  BY IdleStampType
<1>10. /\ stampTask' \in [StampTasks -> StampTask] /\ stampTask'[t].at = "idle"
       /\ \A u \in StampTasks \ {t} : stampTask'[u] = stampTask[u]
  BY <1>1, <1>7, <1>9 DEF StampTypes
<1>11. /\ asked' \in [Members -> Seq(Stamp)] /\ asked'[c] = B
       /\ \A d \in Members \ {c} : asked'[d] = asked[d]
  BY <1>1, <1>3, <1>7, <1>8 DEF StampTypes
<1>12. kept = "yes" \/ (Stamped(A, x.channel) # {} /\ Newest(Stamped(A, x.channel)).action = x.action)
  <2>1. StampsFor(c, k.channel) = Stamped(A, k.channel)
    BY <1>2, <1>3, ContactSound
  <2> QED BY <1>2, <1>5, <2>1 DEF ChangesNothing, LatestStatus
<1>13. Sound(B)
  BY <1>3, <1>5, <1>6, <1>12, SoundAppend
<1>14. \A d \in Members : Sound(asked'[d])
  BY <1>1, <1>11, <1>13
<1>15. \A i \in DOMAIN B : (i \in DOMAIN A /\ B[i] = A[i]) \/ B[i].time = k.time
  <2>1. /\ Len(A) \in Nat /\ DOMAIN A = 1..Len(A) /\ DOMAIN B = 1..(Len(A) + 1)
        /\ \A i \in DOMAIN A : i \in DOMAIN B /\ B[i] = A[i]
        /\ B[Len(A) + 1] = x
    BY <1>3, <1>5, <1>6, Appended
  <2>2. \A i \in DOMAIN B : i \in DOMAIN A \/ i = Len(A) + 1
    BY <2>1
  <2> QED BY <1>5, <2>1, <2>2
<1>16. \A d \in Members : \A i, j \in DOMAIN asked'[d] :
         asked'[d][i].time = asked'[d][j].time => i = j
  BY <1>14 DEF Sound
<1>17. ASSUME NEW u \in StampTasks, stampTask'[u].at # "idle"
       PROVE  /\ stampTask'[u].contact \in Members /\ stampTask'[u].time \in 1..MaxTime
              /\ \A d \in Members : \A i \in DOMAIN asked'[d] :
                   asked'[d][i].time # stampTask'[u].time
              /\ \A v \in StampTasks :
                   stampTask'[v].at # "idle" /\ stampTask'[v].time = stampTask'[u].time => v = u
  <2>1. u # t /\ stampTask'[u] = stampTask[u]
    BY <1>10, <1>17
  <2>2. /\ stampTask[u].contact \in Members /\ stampTask[u].time \in 1..MaxTime
        /\ \A d \in Members : \A i \in DOMAIN asked[d] : asked[d][i].time # stampTask[u].time
        /\ stampTask[u].time # k.time
        /\ \A v \in StampTasks :
             stampTask[v].at # "idle" /\ stampTask[v].time = stampTask[u].time => v = u
    BY <1>1, <1>2, <1>17, <2>1 DEF OwnTimes
  <2>3. \A d \in Members : \A i \in DOMAIN asked'[d] : asked'[d][i].time # stampTask[u].time
    <3>1. \A i \in DOMAIN A : A[i].time # stampTask[u].time
      BY <1>2, <1>3, <2>2
    <3>2. \A i \in DOMAIN B : B[i].time # stampTask[u].time
      BY <1>15, <2>2, <3>1
    <3>3. ASSUME NEW d \in Members, d # c
          PROVE  \A i \in DOMAIN asked'[d] : asked'[d][i].time # stampTask[u].time
      <4>1. asked'[d] = asked[d]
        BY <1>11, <3>3
      <4> QED BY <2>2, <4>1
    <3> QED BY <1>11, <3>2, <3>3
  <2>4. \A v \in StampTasks :
          stampTask'[v].at # "idle" /\ stampTask'[v].time = stampTask'[u].time => v = u
    BY <1>10, <2>1, <2>2
  <2> QED BY <2>1, <2>2, <2>3, <2>4
<1>18. OwnTimes'
  BY <1>16, <1>17 DEF OwnTimes
<1>19. StampTypes'
  BY <1>10, <1>11 DEF StampTypes
<1> QED BY <1>14, <1>18, <1>19 DEF ByContact

LEMMA SaveKeepsStamps ==
  ASSUME ByContact, NEW t \in StampTasks, SaveStamp(t)
  PROVE  ByContact'
<1>1. PICK kept : kept = IF ChangesNothing(stampTask[t]) THEN "no" ELSE "yes"
  OBVIOUS
<1>2. /\ stampTask[t].at # "idle" /\ Confirm(t, kept) /\ kept \in {"no", "yes"}
      /\ StampsFor(stampTask[t].contact, stampTask[t].channel) # {}
      /\ kept = "yes" \/ ChangesNothing(stampTask[t])
  BY <1>1 DEF SaveStamp
<1> QED BY <1>2, ConfirmKeepsStamps

LEMMA InsertKeepsStamps ==
  ASSUME ByContact, NEW t \in StampTasks, InsertFirstStamp(t)
  PROVE  ByContact'
<1>1. stampTask[t].at # "idle" /\ Confirm(t, "yes")
  BY DEF InsertFirstStamp
<1> QED BY <1>1, ConfirmKeepsStamps

LEMMA StampsBegin == StampInit => ByContact
<1> SUFFICES ASSUME StampInit PROVE ByContact
  OBVIOUS
<1>1. IdleStampTask \in StampTask /\ IdleStampTask.at = "idle"
  BY IdleStampType
<1>2. PICK A : A = <<>>
  OBVIOUS
<1>3. A \in Seq(Stamp) /\ DOMAIN A = {}
  BY <1>2
<1>4. asked = [c \in Members |-> A] /\ stampTask = [t \in StampTasks |-> IdleStampTask]
  BY <1>2 DEF StampInit
<1>5. \A ch : Asked(A, ch) = {} /\ Stamped(A, ch) = {}
  BY <1>3 DEF Asked, Stamped
<1>6. Sound(A)
  BY <1>2, <1>3, <1>5 DEF Sound, HasNewest
<1> QED BY <1>1, <1>3, <1>4, <1>6 DEF ByContact, StampTypes, OwnTimes

LEMMA StampsGoOn == ByContact /\ [StampNext]_stampVars => ByContact'
<1> SUFFICES ASSUME ByContact, [StampNext]_stampVars PROVE ByContact'
  OBVIOUS
<1>1. CASE UNCHANGED stampVars
  BY <1>1 DEF stampVars, ByContact, StampTypes, OwnTimes
<1>2. CASE StampNext
  <2>1. PICK t \in StampTasks :
          \/ RequestStamp(t) \/ SaveStamp(t) \/ FindNoStamp(t)
          \/ InsertFirstStamp(t) \/ FailStamp(t)
    BY <1>2 DEF StampNext
  <2> QED BY <2>1, RequestKeepsStamps, SaveKeepsStamps, FindKeepsStamps,
             InsertKeepsStamps, FailKeepsStamps
<1> QED BY <1>1, <1>2

\* The invariant: stamps have times of their own, and every contact's stamps,
\* stored and dropped, say what was asked for last (repository.go, SaveStamp).
THEOREM StampInvariant == StampSpec => []StampInv
<1>1. StampSpec => []ByContact
  BY StampsBegin, StampsGoOn, PTL DEF StampSpec
<1> QED BY <1>1, StampInvSplits, PTL

\* The status of a channel is the newest request's, and no first stamp is
\* dropped as known (repository.go, SaveStamp).
THEOREM StampsSafe == StampSpec => []StampSafety
<1>1. StampInv => StampSafety
  BY DEF StampInv
<1> QED BY <1>1, StampInvariant, PTL

------------------------------------------------------------------------------
(* The server's start-up: a replica serves on a schema that fits it. The    *)
(* invariant says who holds the migration lock and what a replica has seen  *)
(* of the version at each step of its start.                                *)

LEMMA DownReplicaType == DownReplica \in Replica
  BY ServerAssumption DEF DownReplica, Replica, ServerPhases

LEMMA DownReplicaFits == ASSUME NEW p PROVE VersionFits(p, DownReplica)
  BY DEF DownReplica, VersionFits

LEMMA ReplicaBecomes ==
  ASSUME ServerTypes, NEW p \in Replicas, NEW r \in Replica,
         replica' = [replica EXCEPT ![p] = r]
  PROVE  /\ replica' \in [Replicas -> Replica] /\ replica'[p] = r
         /\ \A q \in Replicas \ {p} : replica'[q] = replica[q]
  BY DEF ServerTypes

\* One replica moves and the schema stays; the lock is kept, or given up by its
\* holder.
LEMMA ReplicaKeeps ==
  ASSUME ServerInv, NEW p \in Replicas, NEW r \in Replica, VersionFits(p, r),
         replica' = [replica EXCEPT ![p] = r], SchemaUnchanged,
         starts' \in 0 .. MaxStarts, operations' = operations,
         \/ migrator' = migrator
         \/ migrator' = NoMigrator /\ migrator = p /\ r.at \notin Migrating,
         r.at \in Migrating => r.at = replica[p].at
  PROVE  ServerInv'
<1>1. /\ ServerTypes
      /\ replica' \in [Replicas -> Replica] /\ replica'[p] = r
      /\ \A q \in Replicas \ {p} : replica'[q] = replica[q]
  BY ReplicaBecomes DEF ServerInv
<1>2. ServerTypes'
  BY <1>1 DEF ServerTypes, SchemaUnchanged
<1>3. VersionTellsTruth'
  BY DEF ServerInv, VersionTellsTruth, SchemaUnchanged
<1>4. OperatorHolds'
  BY ServerAssumption DEF ServerInv, OperatorHolds, SchemaUnchanged
<1>5. ASSUME NEW q \in Replicas PROVE VersionFits(q, replica'[q]) /\ MigrationLocked(q)'
  <2>1. VersionFits(q, replica[q]) /\ MigrationLocked(q)
    BY DEF ServerInv
  <2>2. CASE q = p
    BY <1>1, <2>1, <2>2 DEF MigrationLocked, At, SchemaUnchanged, Migrating
  <2>3. CASE q # p
    BY <1>1, <2>1, <2>3 DEF MigrationLocked, At, SchemaUnchanged
  <2> QED BY <2>2, <2>3
<1> QED BY <1>2, <1>3, <1>4, <1>5 DEF ServerInv

\* What is known of a replica that moves.
LEMMA Known1 ==
  ASSUME ServerInv, NEW p \in Replicas
  PROVE  /\ replica[p] \in Replica /\ VersionFits(p, replica[p]) /\ MigrationLocked(p)
         /\ version \in 0 .. MaxVersion /\ dirty \in BOOLEAN /\ starts \in 0 .. MaxStarts
         /\ operations \in 0 .. MaxOperations /\ Latest[p] \in 1 .. MaxVersion
  BY ServerAssumption DEF ServerInv, ServerTypes

\* run returns with an error while the database is open.
LEMMA RunFailsFits ==
  ASSUME ServerInv, NEW p \in Replicas, RunFails(p), replica[p].at \notin {"down", "unwind"}
  PROVE  \E r \in Replica : /\ replica' = [replica EXCEPT ![p] = r] /\ VersionFits(p, r)
                            /\ r.at = "unwind"
<1>1. PICK r : r = [replica[p] EXCEPT !.at = "unwind", !.leaving = "error"]
  OBVIOUS
<1>2. /\ r \in Replica /\ r.at = "unwind" /\ r.leaving = "error"
      /\ r.db = replica[p].db /\ r.scheduler = replica[p].scheduler
      /\ r.job = replica[p].job
  BY <1>1, Known1, ZenonT(60) DEF Replica, ServerPhases
<1>3. replica' = [replica EXCEPT ![p] = r]
  BY <1>1 DEF RunFails
<1>4. VersionFits(p, r)
  BY <1>2, Known1 DEF VersionFits
<1> QED BY <1>2, <1>3, <1>4

LEMMA OpenKeeps ==
  ASSUME ServerInv, NEW p \in Replicas, OpenDatabase(p)
  PROVE  ServerInv'
<1>1. starts < MaxStarts
  BY DEF OpenDatabase, At
<1>2. PICK r : r = [DownReplica EXCEPT !.at = "open", !.db = "open"]
  OBVIOUS
<1>3. /\ r \in Replica /\ r.at = "open" /\ r.db = "open" /\ r.scheduler = "off"
      /\ r.job = "none"
  BY <1>1, <1>2, Known1, DownReplicaType, ZenonT(60) DEF Replica, ServerPhases, DownReplica
<1>4. replica' = [replica EXCEPT ![p] = r]
  BY <1>2 DEF OpenDatabase, EnterPhase
<1>5. VersionFits(p, r)
  BY <1>1, <1>3, Known1 DEF VersionFits
<1>6. SchemaUnchanged /\ migrator' = migrator /\ operations' = operations /\ starts' \in 0 .. MaxStarts
  BY Known1, ServerAssumption DEF OpenDatabase
<1> QED BY <1>1, <1>3, <1>4, <1>5, <1>6, ReplicaKeeps DEF Migrating

\* A replica that goes on past its migrations.
LEMMA GoesOnFits ==
  ASSUME ServerInv, NEW p \in Replicas, replica[p].at \in {"open"} \cup Migrating,
         NEW h \in {"no", "yes"}, h = "no" => version = Latest[p]
  PROVE  \E r \in Replica :
           /\ r = [replica[p] EXCEPT !.at = "load", !.seen = version, !.hurried = h]
           /\ r.at = "load" /\ VersionFits(p, r)
<1>1. PICK v \in 0 .. MaxVersion : v = version
  BY Known1
<1>2. PICK r : r = [replica[p] EXCEPT !.at = "load", !.seen = v, !.hurried = h]
  OBVIOUS
<1>3. /\ r \in Replica /\ r.at = "load" /\ r.seen = v /\ r.hurried = h
      /\ r.db = replica[p].db /\ r.scheduler = replica[p].scheduler
      /\ r.job = replica[p].job /\ r.leaving = replica[p].leaving
  BY <1>2, Known1 DEF Replica, ServerPhases
<1>4. VersionFits(p, r)
  BY <1>1, <1>3, Known1 DEF VersionFits, Migrating
<1> QED BY <1>1, <1>2, <1>3, <1>4

LEMMA SkipKeeps ==
  ASSUME ServerInv, NEW p \in Replicas, SkipMigrations(p)
  PROVE  ServerInv'
<1>1. PICK r \in Replica :
        /\ r = [replica[p] EXCEPT !.at = "load", !.seen = version, !.hurried = "yes"]
        /\ r.at = "load" /\ VersionFits(p, r)
  <2>1. replica[p].at \in {"open"} \cup Migrating
    BY DEF SkipMigrations, At
  <2> QED BY <2>1, GoesOnFits, Zenon
<1>2. replica' = [replica EXCEPT ![p] = r]
  BY <1>1 DEF SkipMigrations
<1> QED BY <1>1, <1>2, Known1, ReplicaKeeps DEF SkipMigrations, Migrating

LEMMA StartSchedulerKeeps ==
  ASSUME ServerInv, NEW p \in Replicas, StartScheduler(p)
  PROVE  ServerInv'
<1>1. replica[p].at = "load"
  BY DEF StartScheduler, At
<1>2. PICK r : r = [replica[p] EXCEPT !.scheduler = "on"]
  OBVIOUS
<1>3. /\ r \in Replica /\ r.scheduler = "on" /\ r.at = replica[p].at
      /\ r.db = replica[p].db /\ r.job = replica[p].job
      /\ r.leaving = replica[p].leaving /\ r.seen = replica[p].seen
      /\ r.hurried = replica[p].hurried
  BY <1>1, <1>2, Known1, DownReplicaType DEF Replica, ServerPhases, DownReplica
<1>4. replica' = [replica EXCEPT ![p] = r]
  BY <1>2 DEF StartScheduler, EnterPhase
<1>5. VersionFits(p, r)
  BY <1>1, <1>3, Known1 DEF VersionFits
<1>6. SchemaUnchanged /\ migrator' = migrator /\ operations' = operations /\ starts' \in 0 .. MaxStarts
  BY Known1, ServerAssumption DEF StartScheduler
<1> QED BY <1>1, <1>3, <1>4, <1>5, <1>6, ReplicaKeeps DEF Migrating

LEMMA ServeKeeps ==
  ASSUME ServerInv, NEW p \in Replicas, Serve(p)
  PROVE  ServerInv'
<1>1. replica[p].at = "load" /\ replica[p].scheduler = "on"
  BY DEF Serve, At
<1>2. PICK r : r = [replica[p] EXCEPT !.at = "serve"]
  OBVIOUS
<1>3. /\ r \in Replica /\ r.at = "serve" /\ r.db = replica[p].db
      /\ r.scheduler = replica[p].scheduler /\ r.job = replica[p].job
      /\ r.leaving = replica[p].leaving /\ r.seen = replica[p].seen
      /\ r.hurried = replica[p].hurried
  BY <1>1, <1>2, Known1, DownReplicaType DEF Replica, ServerPhases, DownReplica
<1>4. replica' = [replica EXCEPT ![p] = r]
  BY <1>2 DEF Serve, EnterPhase
<1>5. VersionFits(p, r)
  BY <1>1, <1>3, Known1 DEF VersionFits
<1>6. SchemaUnchanged /\ migrator' = migrator /\ operations' = operations /\ starts' \in 0 .. MaxStarts
  BY Known1, ServerAssumption DEF Serve
<1> QED BY <1>1, <1>3, <1>4, <1>5, <1>6, ReplicaKeeps DEF Migrating

LEMMA RunJobKeeps ==
  ASSUME ServerInv, NEW p \in Replicas, RunJob(p)
  PROVE  ServerInv'
<1>1. replica[p].scheduler = "on"
  BY DEF RunJob, At
<1>2. PICK r : r = [replica[p] EXCEPT !.job = "running"]
  OBVIOUS
<1>3. /\ r \in Replica /\ r.job = "running" /\ r.at = replica[p].at
      /\ r.db = replica[p].db /\ r.scheduler = replica[p].scheduler
      /\ r.leaving = replica[p].leaving /\ r.seen = replica[p].seen
      /\ r.hurried = replica[p].hurried
  BY <1>1, <1>2, Known1, DownReplicaType DEF Replica, ServerPhases, DownReplica
<1>4. replica' = [replica EXCEPT ![p] = r]
  BY <1>2 DEF RunJob, EnterPhase
<1>5. VersionFits(p, r)
  BY <1>1, <1>3, Known1 DEF VersionFits
<1>6. SchemaUnchanged /\ migrator' = migrator /\ operations' = operations /\ starts' \in 0 .. MaxStarts
  BY Known1, ServerAssumption DEF RunJob
<1> QED BY <1>1, <1>3, <1>4, <1>5, <1>6, ReplicaKeeps DEF Migrating

LEMMA EndJobKeeps ==
  ASSUME ServerInv, NEW p \in Replicas, EndJob(p)
  PROVE  ServerInv'
<1>1. PICK j \in {"none", "cut"} :
        /\ j = IF replica[p].db = "open" THEN "none" ELSE "cut"
        /\ replica' = [replica EXCEPT ![p].job = j]
  BY DEF EndJob
<1>2. PICK r : r = [replica[p] EXCEPT !.job = j]
  OBVIOUS
<1>3. /\ r \in Replica /\ r.job = j /\ r.at = replica[p].at /\ r.db = replica[p].db
      /\ r.scheduler = replica[p].scheduler /\ r.leaving = replica[p].leaving
      /\ r.seen = replica[p].seen /\ r.hurried = replica[p].hurried
  BY <1>2, Known1 DEF Replica
<1>4. replica' = [replica EXCEPT ![p] = r]
  BY <1>1, <1>2
<1>5. VersionFits(p, r)
  <2>1. j = "cut" => replica[p].db = "closed"
    BY <1>1, Known1 DEF Replica
  <2>2. replica[p].job = "running"
    BY DEF EndJob
  <2> QED BY <1>3, <2>1, <2>2, Known1 DEF VersionFits, Replica
<1>6. SchemaUnchanged /\ migrator' = migrator /\ operations' = operations
      /\ starts' \in 0 .. MaxStarts
  BY Known1 DEF EndJob
<1> QED BY <1>3, <1>4, <1>5, <1>6, ReplicaKeeps

LEMMA RequestKeeps ==
  ASSUME ServerInv, NEW p \in Replicas, Request(p)
  PROVE  ServerInv'
<1>1. replica[p].at = "serve"
  BY DEF Request, At
<1>2. PICK r : r = [replica[p] EXCEPT !.requests = IF replica[p].requests = "none" THEN "some" ELSE "none"]
  OBVIOUS
<1>3. /\ r \in Replica /\ r.at = replica[p].at /\ r.db = replica[p].db
      /\ r.scheduler = replica[p].scheduler /\ r.job = replica[p].job
      /\ r.leaving = replica[p].leaving /\ r.seen = replica[p].seen
      /\ r.hurried = replica[p].hurried
  BY <1>1, <1>2, Known1, DownReplicaType DEF Replica, ServerPhases, DownReplica
<1>4. replica' = [replica EXCEPT ![p] = r]
  BY <1>2 DEF Request, EnterPhase
<1>5. VersionFits(p, r)
  BY <1>1, <1>3, Known1 DEF VersionFits
<1>6. SchemaUnchanged /\ migrator' = migrator /\ operations' = operations /\ starts' \in 0 .. MaxStarts
  BY Known1, ServerAssumption DEF Request
<1> QED BY <1>1, <1>3, <1>4, <1>5, <1>6, ReplicaKeeps DEF Migrating

LEMMA StopSchedulerKeeps ==
  ASSUME ServerInv, NEW p \in Replicas, StopScheduler(p)
  PROVE  ServerInv'
<1>1. PICK l \in {"no", "signal", "error", "impatient"} :
        /\ l = IF replica[p].job = "running" THEN "impatient" ELSE replica[p].leaving
        /\ replica' = [replica EXCEPT ![p].scheduler = "off", ![p].leaving = l]
  BY Known1 DEF StopScheduler, Replica
<1>2. PICK r : r = [replica[p] EXCEPT !.scheduler = "off", !.leaving = l]
  OBVIOUS
<1>3. /\ r \in Replica /\ r.scheduler = "off" /\ r.leaving = l
      /\ r.at = replica[p].at /\ r.db = replica[p].db /\ r.job = replica[p].job
      /\ r.seen = replica[p].seen /\ r.hurried = replica[p].hurried
  BY <1>2, Known1 DEF Replica
<1>4. replica' = [replica EXCEPT ![p] = r]
  BY <1>1, <1>2
<1>5. VersionFits(p, r)
  <2>1. replica[p].at = "unwind"
    BY DEF StopScheduler, At
  <2>2. l = replica[p].leaving \/ l = "impatient"
    BY <1>1
  <2>3. replica[p].job = "running" => l = "impatient"
    BY <1>1
  <2> QED BY <1>3, <2>1, <2>2, <2>3, Known1 DEF VersionFits
<1>6. SchemaUnchanged /\ migrator' = migrator /\ operations' = operations
      /\ starts' \in 0 .. MaxStarts
  BY Known1 DEF StopScheduler
<1> QED BY <1>3, <1>4, <1>5, <1>6, ReplicaKeeps

LEMMA CloseKeeps ==
  ASSUME ServerInv, NEW p \in Replicas, CloseDatabase(p)
  PROVE  ServerInv'
<1>1. replica[p].at = "unwind" /\ replica[p].scheduler = "off" /\ replica[p].db = "open"
  BY DEF CloseDatabase, At
<1>2. PICK r : r = [replica[p] EXCEPT !.db = "closed"]
  OBVIOUS
<1>3. /\ r \in Replica /\ r.db = "closed" /\ r.at = replica[p].at
      /\ r.scheduler = replica[p].scheduler /\ r.job = replica[p].job
      /\ r.leaving = replica[p].leaving /\ r.seen = replica[p].seen
      /\ r.hurried = replica[p].hurried
  BY <1>1, <1>2, Known1, DownReplicaType DEF Replica, ServerPhases, DownReplica
<1>4. replica' = [replica EXCEPT ![p] = r]
  BY <1>2 DEF CloseDatabase, EnterPhase
<1>5. VersionFits(p, r)
  BY <1>1, <1>3, Known1 DEF VersionFits
<1>6. SchemaUnchanged /\ migrator' = migrator /\ operations' = operations /\ starts' \in 0 .. MaxStarts
  BY Known1, ServerAssumption DEF CloseDatabase
<1> QED BY <1>1, <1>3, <1>4, <1>5, <1>6, ReplicaKeeps DEF Migrating

\* Both ways down: the process exits, or dies and loses the lock.
LEMMA DownKeeps ==
  ASSUME ServerInv, NEW p \in Replicas, Exit(p) \/ Die(p)
  PROVE  ServerInv'
<1>1. replica' = [replica EXCEPT ![p] = DownReplica]
  BY DEF Exit, Die
<1>2. /\ SchemaUnchanged /\ operations' = operations /\ starts' = starts
      /\ \/ migrator' = migrator
         \/ migrator' = NoMigrator /\ migrator = p
  BY DEF Exit, Die
<1>3. DownReplica.at = "down"
  BY DEF DownReplica
<1> QED BY <1>1, <1>2, <1>3, Known1, DownReplicaType, DownReplicaFits, ReplicaKeeps
        DEF Migrating

LEMMA FailStartKeeps ==
  ASSUME ServerInv, NEW p \in Replicas, FailStart(p)
  PROVE  ServerInv'
<1>1. PICK r \in Replica : /\ replica' = [replica EXCEPT ![p] = r] /\ VersionFits(p, r)
                           /\ r.at = "unwind"
  BY RunFailsFits DEF FailStart
<1> QED BY <1>1, Known1, ReplicaKeeps DEF FailStart, Migrating

LEMMA LeaveKeeps ==
  ASSUME ServerInv, NEW p \in Replicas, Leave(p)
  PROVE  ServerInv'
<1>1. At(p, "serve") /\ SchemaUnchanged /\ UNCHANGED <<migrator, starts, operations>>
  BY DEF Leave
<1>2. CASE replica' = [replica EXCEPT ![p].at = "drain", ![p].leaving = "signal"]
  <2>1. PICK r : r = [replica[p] EXCEPT !.at = "drain", !.leaving = "signal"]
    OBVIOUS
  <2>2. /\ r \in Replica /\ r.at = "drain" /\ r.leaving = "signal"
        /\ r.db = replica[p].db /\ r.scheduler = replica[p].scheduler
        /\ r.job = replica[p].job /\ r.seen = replica[p].seen
        /\ r.hurried = replica[p].hurried
    BY <2>1, Known1 DEF Replica, ServerPhases
  <2>3. VersionFits(p, r)
    BY <1>1, <2>2, Known1 DEF VersionFits, At
  <2> QED BY <1>1, <1>2, <2>1, <2>2, <2>3, Known1, ReplicaKeeps DEF Migrating
<1>3. CASE RunFails(p)
  <2>1. PICK r \in Replica : /\ replica' = [replica EXCEPT ![p] = r] /\ VersionFits(p, r)
                             /\ r.at = "unwind"
    BY <1>1, <1>3, RunFailsFits DEF At
  <2> QED BY <1>1, <2>1, Known1, ReplicaKeeps DEF Migrating
<1> QED BY <1>2, <1>3 DEF Leave

LEMMA DrainKeeps ==
  ASSUME ServerInv, NEW p \in Replicas, Drain(p)
  PROVE  ServerInv'
<1>1. At(p, "drain") /\ SchemaUnchanged /\ UNCHANGED <<migrator, starts, operations>>
  BY DEF Drain
<1>2. CASE replica' = [replica EXCEPT ![p].at = "release", ![p].requests = "none"]
  <2>1. PICK r : r = [replica[p] EXCEPT !.at = "release", !.requests = "none"]
    OBVIOUS
  <2>2. /\ r \in Replica /\ r.at = "release" /\ r.leaving = replica[p].leaving
        /\ r.db = replica[p].db /\ r.scheduler = replica[p].scheduler
        /\ r.job = replica[p].job /\ r.seen = replica[p].seen
        /\ r.hurried = replica[p].hurried
    BY <2>1, Known1 DEF Replica, ServerPhases
  <2>3. VersionFits(p, r)
    BY <1>1, <2>2, Known1 DEF VersionFits, At
  <2> QED BY <1>1, <1>2, <2>1, <2>2, <2>3, Known1, ReplicaKeeps DEF Migrating
<1>3. CASE RunFails(p)
  <2>1. PICK r \in Replica : /\ replica' = [replica EXCEPT ![p] = r] /\ VersionFits(p, r)
                             /\ r.at = "unwind"
    BY <1>1, <1>3, RunFailsFits DEF At
  <2> QED BY <1>1, <2>1, Known1, ReplicaKeeps DEF Migrating
<1> QED BY <1>2, <1>3 DEF Drain

\* The database is closed on a signal while jobs may run.
LEMMA ReleaseKeeps ==
  ASSUME ServerInv, NEW p \in Replicas, ReleaseResources(p)
  PROVE  ServerInv'
<1>1. At(p, "release") /\ SchemaUnchanged /\ UNCHANGED <<migrator, starts, operations>>
  BY DEF ReleaseResources
<1>2. CASE replica' = [replica EXCEPT ![p].at = "unwind", ![p].db = "closed"]
  <2>1. PICK r : r = [replica[p] EXCEPT !.at = "unwind", !.db = "closed"]
    OBVIOUS
  <2>2. /\ r \in Replica /\ r.at = "unwind" /\ r.leaving = replica[p].leaving
        /\ r.db = "closed" /\ r.scheduler = replica[p].scheduler
        /\ r.job = replica[p].job /\ r.seen = replica[p].seen
        /\ r.hurried = replica[p].hurried
    BY <2>1, Known1 DEF Replica, ServerPhases
  <2>3. VersionFits(p, r)
    BY <1>1, <2>2, Known1 DEF VersionFits, At
  <2> QED BY <1>1, <1>2, <2>1, <2>2, <2>3, Known1, ReplicaKeeps DEF Migrating
<1>3. CASE RunFails(p)
  <2>1. PICK r \in Replica : /\ replica' = [replica EXCEPT ![p] = r] /\ VersionFits(p, r)
                             /\ r.at = "unwind"
    BY <1>1, <1>3, RunFailsFits DEF At
  <2> QED BY <1>1, <2>1, Known1, ReplicaKeeps DEF Migrating
<1> QED BY <1>2, <1>3 DEF ReleaseResources

------------------------------------------------------------------------------
(* Migrations. *)

\* A replica moves within its migrations, holding the lock.
LEMMA MigratorMoves ==
  ASSUME ServerInv, NEW p \in Replicas, NEW point \in Migrating,
         replica[p].at \in {"open"} \cup Migrating, EnterPhase(p, point)
  PROVE  /\ replica' \in [Replicas -> Replica] /\ replica'[p].at = point
         /\ VersionFits(p, replica'[p])
         /\ \A q \in Replicas \ {p} : replica'[q] = replica[q]
<1>1. PICK r : r = [replica[p] EXCEPT !.at = point]
  OBVIOUS
<1>2. /\ r \in Replica /\ r.at = point /\ r.leaving = replica[p].leaving
      /\ r.db = replica[p].db /\ r.scheduler = replica[p].scheduler
      /\ r.job = replica[p].job /\ r.seen = replica[p].seen
      /\ r.hurried = replica[p].hurried
  BY <1>1, Known1 DEF Replica, ServerPhases, Migrating
<1>3. VersionFits(p, r)
  BY <1>2, Known1 DEF VersionFits, Migrating
<1>4. replica' = [replica EXCEPT ![p] = r]
  BY <1>1 DEF EnterPhase
<1> QED BY <1>2, <1>3, <1>4, ReplicaBecomes DEF ServerInv

LEMMA LockKeeps ==
  ASSUME ServerInv, NEW p \in Replicas, LockMigrations(p)
  PROVE  ServerInv'
<1>1. /\ migrator = NoMigrator /\ migrator' = p /\ SchemaUnchanged
      /\ UNCHANGED <<starts, operations>>
  BY DEF LockMigrations
<1>2. /\ replica' \in [Replicas -> Replica] /\ replica'[p].at = "check"
      /\ VersionFits(p, replica'[p])
      /\ \A q \in Replicas \ {p} : replica'[q] = replica[q]
  BY MigratorMoves DEF LockMigrations, Migrating, At
<1>3. \A q \in Replicas : replica[q].at \notin Migrating
  BY <1>1, ServerAssumption DEF ServerInv, MigrationLocked
<1>4. \A q \in Replicas : VersionFits(q, replica'[q]) /\ MigrationLocked(q)'
  BY <1>1, <1>2, <1>3 DEF ServerInv, MigrationLocked, At, Migrating
<1>5. ServerTypes' /\ VersionTellsTruth' /\ OperatorHolds'
  BY <1>1, <1>2, ServerAssumption
     DEF ServerInv, ServerTypes, VersionTellsTruth, OperatorHolds, SchemaUnchanged
<1> QED BY <1>4, <1>5 DEF ServerInv

LEMMA CheckKeeps ==
  ASSUME ServerInv, NEW p \in Replicas, CheckVersion(p)
  PROVE  ServerInv'
<1>1. /\ At(p, "check") /\ migrator = p /\ SchemaUnchanged
      /\ UNCHANGED <<starts, operations>>
  BY Known1 DEF CheckVersion, MigrationLocked, At, Migrating
<1>2. CASE dirty = FALSE /\ EnterPhase(p, "apply") /\ UNCHANGED migrator
  <2>1. /\ replica' \in [Replicas -> Replica] /\ replica'[p].at = "apply"
        /\ VersionFits(p, replica'[p])
        /\ \A q \in Replicas \ {p} : replica'[q] = replica[q]
    BY <1>1, <1>2, MigratorMoves DEF Migrating, At
  <2>2. \A q \in Replicas : VersionFits(q, replica'[q]) /\ MigrationLocked(q)'
    BY <1>1, <1>2, <2>1 DEF ServerInv, MigrationLocked, At, Migrating, SchemaUnchanged
  <2>3. ServerTypes' /\ VersionTellsTruth' /\ OperatorHolds'
    BY <1>1, <1>2, <2>1
       DEF ServerInv, ServerTypes, VersionTellsTruth, OperatorHolds, SchemaUnchanged
  <2> QED BY <2>2, <2>3 DEF ServerInv
<1>3. CASE version = Latest[p] /\ GoesOn(p) /\ Released(p)
  <2>1. PICK v \in 0 .. MaxVersion : v = version
    BY Known1
  <2>2. PICK r : r = [replica[p] EXCEPT !.at = "load", !.seen = v]
    OBVIOUS
  <2>3. /\ r \in Replica /\ r.at = "load" /\ r.seen = v
        /\ r.db = replica[p].db /\ r.scheduler = replica[p].scheduler
        /\ r.job = replica[p].job /\ r.leaving = replica[p].leaving
    BY <2>2, Known1 DEF Replica, ServerPhases
  <2>4. VersionFits(p, r)
    BY <1>1, <1>3, <2>1, <2>3, Known1 DEF VersionFits, At
  <2>5. replica' = [replica EXCEPT ![p] = r]
    BY <1>3, <2>1, <2>2 DEF GoesOn
  <2> QED BY <1>1, <1>3, <2>3, <2>4, <2>5, Known1, ReplicaKeeps DEF Migrating, Released
<1>4. CASE RunFails(p) /\ Released(p)
  <2>1. PICK r \in Replica : /\ replica' = [replica EXCEPT ![p] = r] /\ VersionFits(p, r)
                             /\ r.at = "unwind"
    BY <1>1, <1>4, RunFailsFits DEF At
  <2> QED BY <1>1, <1>4, <2>1, Known1, ReplicaKeeps DEF Migrating, Released
<1> QED BY <1>2, <1>3, <1>4 DEF CheckVersion, Tolerated

LEMMA EndMigrationsKeeps ==
  ASSUME ServerInv, NEW p \in Replicas, EndMigrations(p)
  PROVE  ServerInv'
<1>1. /\ At(p, "apply") /\ migrator = p /\ SchemaUnchanged /\ version = Latest[p]
      /\ GoesOn(p) /\ Released(p) /\ UNCHANGED <<starts, operations>>
  BY Known1 DEF EndMigrations, MigrationLocked, At, Migrating
<1>2. PICK v \in 0 .. MaxVersion : v = version
  BY Known1
<1>3. PICK r : r = [replica[p] EXCEPT !.at = "load", !.seen = v]
  OBVIOUS
<1>4. /\ r \in Replica /\ r.at = "load" /\ r.seen = v
      /\ r.db = replica[p].db /\ r.scheduler = replica[p].scheduler
      /\ r.job = replica[p].job /\ r.leaving = replica[p].leaving
  BY <1>3, Known1 DEF Replica, ServerPhases
<1>5. VersionFits(p, r)
  BY <1>1, <1>2, <1>4, Known1 DEF VersionFits, At
<1>6. replica' = [replica EXCEPT ![p] = r]
  BY <1>1, <1>2, <1>3 DEF GoesOn
<1> QED BY <1>1, <1>4, <1>5, <1>6, Known1, ReplicaKeeps DEF Migrating, Released

LEMMA StopMigrationsKeeps ==
  ASSUME ServerInv, NEW p \in Replicas, StopMigrations(p)
  PROVE  ServerInv'
<1>1. /\ At(p, "apply") /\ migrator = p /\ SchemaUnchanged /\ Released(p)
      /\ UNCHANGED <<starts, operations>>
  BY Known1 DEF StopMigrations, MigrationLocked, At, Migrating
<1>2. PICK r \in Replica :
        /\ r = [replica[p] EXCEPT !.at = "load", !.seen = version, !.hurried = "yes"]
        /\ r.at = "load" /\ VersionFits(p, r)
  <2>1. replica[p].at \in {"open"} \cup Migrating
    BY <1>1 DEF At, Migrating
  <2> QED BY <2>1, GoesOnFits, Zenon
<1>3. replica' = [replica EXCEPT ![p] = r]
  BY <1>2 DEF StopMigrations
<1> QED BY <1>1, <1>2, <1>3, Known1, ReplicaKeeps DEF Migrating, Released

LEMMA FailMigrationKeeps ==
  ASSUME ServerInv, NEW p \in Replicas, FailMigration(p)
  PROVE  ServerInv'
<1>1. /\ At(p, "run") /\ migrator = p /\ SchemaUnchanged /\ RunFails(p) /\ Released(p)
      /\ UNCHANGED <<starts, operations>>
  BY Known1 DEF FailMigration, MigrationLocked, At, Migrating
<1>2. PICK r \in Replica : /\ replica' = [replica EXCEPT ![p] = r] /\ VersionFits(p, r)
                           /\ r.at = "unwind"
  BY <1>1, RunFailsFits DEF At
<1> QED BY <1>1, <1>2, Known1, ReplicaKeeps DEF Migrating, Released

\* Only the holder of the lock moves the version.
LEMMA HolderAlone ==
  ASSUME ServerInv, NEW p \in Replicas, migrator = p
  PROVE  migrator # Operator /\ \A q \in Replicas \ {p} : replica[q].at \notin Migrating
  BY ServerAssumption DEF ServerInv, MigrationLocked

LEMMA BeginMigrationKeeps ==
  ASSUME ServerInv, NEW p \in Replicas, BeginMigration(p)
  PROVE  ServerInv'
<1>1. /\ At(p, "apply") /\ migrator = p /\ dirty = FALSE
      /\ version < Latest[p] /\ version' = version + 1 /\ dirty' = TRUE
      /\ EnterPhase(p, "run")
      /\ UNCHANGED <<built, forced, migrator, starts, operations>>
  BY Known1 DEF BeginMigration, MigrationLocked, At, Migrating
<1>2. /\ replica' \in [Replicas -> Replica] /\ replica'[p].at = "run"
      /\ VersionFits(p, replica'[p])
      /\ \A q \in Replicas \ {p} : replica'[q] = replica[q]
  BY <1>1, MigratorMoves DEF Migrating, At
<1>3. version' \in Versions /\ version' \in 0 .. MaxVersion /\ version' - 1 = version
  BY <1>1, Known1, ServerAssumption DEF Versions
<1>4. ~forced => built = 1 .. version
  BY <1>1 DEF ServerInv, VersionTellsTruth
<1>5. \A q \in Replicas : VersionFits(q, replica'[q]) /\ MigrationLocked(q)'
  BY <1>1, <1>2, <1>3, <1>4, HolderAlone DEF ServerInv, MigrationLocked, At, Migrating
<1>6. ServerTypes' /\ VersionTellsTruth' /\ OperatorHolds'
  BY <1>1, <1>2, <1>3, HolderAlone
     DEF ServerInv, ServerTypes, VersionTellsTruth, OperatorHolds
<1> QED BY <1>5, <1>6 DEF ServerInv

LEMMA FinishMigrationKeeps ==
  ASSUME ServerInv, NEW p \in Replicas, FinishMigration(p)
  PROVE  ServerInv'
<1>1. /\ At(p, "run") /\ migrator = p /\ version \in Versions
      /\ ~forced => built = 1 .. version - 1
      /\ built' = built \cup {version} /\ dirty' = FALSE
      /\ EnterPhase(p, "apply")
      /\ UNCHANGED <<version, forced, migrator, starts, operations>>
  BY Known1 DEF FinishMigration, MigrationLocked, At, Migrating
<1>2. /\ replica' \in [Replicas -> Replica] /\ replica'[p].at = "apply"
      /\ VersionFits(p, replica'[p])
      /\ \A q \in Replicas \ {p} : replica'[q] = replica[q]
  BY <1>1, MigratorMoves DEF Migrating, At
<1>3. \A q \in Replicas : VersionFits(q, replica'[q]) /\ MigrationLocked(q)'
  BY <1>1, <1>2, HolderAlone DEF ServerInv, MigrationLocked, At, Migrating
<1>4. VersionTellsTruth'
  <2>1. ~forced => built' = 1 .. version
    BY <1>1, ServerAssumption DEF Versions
  <2> QED BY <1>1, <2>1 DEF VersionTellsTruth
<1>5. ServerTypes' /\ OperatorHolds'
  BY <1>1, <1>2, HolderAlone DEF ServerInv, ServerTypes, OperatorHolds
<1> QED BY <1>3, <1>4, <1>5 DEF ServerInv

------------------------------------------------------------------------------
(* The migrate command. *)

LEMMA BeginDownKeeps ==
  ASSUME ServerInv, BeginDown
  PROVE  ServerInv'
<1>1. /\ OperatorMay /\ migrator = NoMigrator /\ dirty = FALSE /\ version \in Versions
      /\ migrator' = Operator /\ version' = version - 1 /\ dirty' = TRUE
      /\ operations' = operations + 1
      /\ UNCHANGED <<built, forced, replica, starts>>
  BY DEF BeginDown
<1>2. \A q \in Replicas : replica[q].at \notin Migrating
  BY <1>1, ServerAssumption DEF ServerInv, MigrationLocked
<1>3. \A q \in Replicas : VersionFits(q, replica'[q]) /\ MigrationLocked(q)'
  BY <1>1, <1>2 DEF ServerInv, MigrationLocked, At, Migrating
<1>4. version' \in 0 .. MaxVersion /\ version' + 1 = version /\ operations' \in 0 .. MaxOperations
  BY <1>1, ServerAssumption DEF ServerInv, ServerTypes, Versions, OperatorMay
<1>5. ServerTypes' /\ VersionTellsTruth' /\ OperatorHolds'
  BY <1>1, <1>4 DEF ServerInv, ServerTypes, VersionTellsTruth, OperatorHolds
<1> QED BY <1>3, <1>5 DEF ServerInv

LEMMA EndDownKeeps ==
  ASSUME ServerInv, EndDown
  PROVE  ServerInv'
<1>1. /\ migrator = Operator /\ migrator' = NoMigrator
      /\ \/ built' = built \ {version + 1} /\ dirty' = FALSE
         \/ UNCHANGED <<built, dirty>>
      /\ UNCHANGED <<version, forced, replica, starts, operations>>
  BY DEF EndDown
<1>2. \A q \in Replicas : replica[q].at \notin Migrating
  BY <1>1, ServerAssumption DEF ServerInv, MigrationLocked
<1>3. \A q \in Replicas : VersionFits(q, replica'[q]) /\ MigrationLocked(q)'
  BY <1>1, <1>2 DEF ServerInv, MigrationLocked, At, Migrating
<1>4. /\ dirty = TRUE /\ version + 1 \in Versions /\ version \in Nat
      /\ ~forced => built = 1 .. version + 1
  BY <1>1 DEF ServerInv, ServerTypes, OperatorHolds
<1>5. VersionTellsTruth'
  <2>1. CASE built' = built \ {version + 1} /\ dirty' = FALSE
    <3>1. ~forced => built' = 1 .. version
      BY <1>4, <2>1
    <3> QED BY <1>1, <3>1 DEF VersionTellsTruth
  <2>2. CASE UNCHANGED <<built, dirty>>
    BY <1>4, <2>2 DEF VersionTellsTruth
  <2> QED BY <1>1, <2>1, <2>2
<1>6. ServerTypes' /\ OperatorHolds'
  BY <1>1, ServerAssumption DEF ServerInv, ServerTypes, OperatorHolds
<1> QED BY <1>3, <1>5, <1>6 DEF ServerInv

LEMMA ForceKeeps ==
  ASSUME ServerInv, NEW v \in 0 .. MaxVersion, ForceVersion(v)
  PROVE  ServerInv'
<1>1. /\ OperatorMay /\ migrator = NoMigrator /\ version' = v
      /\ dirty' = FALSE /\ forced' = TRUE /\ operations' = operations + 1
      /\ UNCHANGED <<built, migrator, replica, starts>>
  BY DEF ForceVersion
<1>2. \A q \in Replicas : replica[q].at \notin Migrating
  BY <1>1, ServerAssumption DEF ServerInv, MigrationLocked
<1>3. \A q \in Replicas : VersionFits(q, replica'[q]) /\ MigrationLocked(q)'
  BY <1>1, <1>2 DEF ServerInv, MigrationLocked, At, Migrating
<1>4. operations' \in 0 .. MaxOperations
  BY <1>1, ServerAssumption DEF ServerInv, ServerTypes, OperatorMay
<1>5. ServerTypes' /\ VersionTellsTruth' /\ OperatorHolds'
  BY <1>1, <1>4, ServerAssumption
     DEF ServerInv, ServerTypes, VersionTellsTruth, OperatorHolds
<1> QED BY <1>3, <1>5 DEF ServerInv

------------------------------------------------------------------------------
(* The theorems. *)

LEMMA ServerInitHolds == ServerInit => ServerInv
<1> SUFFICES ASSUME ServerInit PROVE ServerInv
  OBVIOUS
<1>1. \A p \in Replicas : replica[p] = DownReplica /\ VersionFits(p, replica[p])
  BY DownReplicaFits DEF ServerInit
<1>2. DownReplica.at = "down"
  BY DEF DownReplica
<1>3. \A p \in Replicas : MigrationLocked(p)
  BY <1>1, <1>2 DEF MigrationLocked, At, Migrating
<1>4. ServerTypes
  <2>1. replica \in [Replicas -> Replica]
    BY DownReplicaType DEF ServerInit
  <2>2. /\ version \in 0 .. MaxVersion /\ starts \in 0 .. MaxStarts
        /\ operations \in 0 .. MaxOperations
    BY ServerAssumption DEF ServerInit
  <2>3. /\ dirty \in BOOLEAN /\ forced \in BOOLEAN /\ built \subseteq Versions
        /\ migrator \in Replicas \cup {NoMigrator, Operator}
    BY DEF ServerInit
  <2> QED BY <2>1, <2>2, <2>3 DEF ServerTypes
<1>5. VersionTellsTruth /\ OperatorHolds
  BY ServerAssumption DEF ServerInit, VersionTellsTruth, OperatorHolds
<1> QED BY <1>1, <1>3, <1>4, <1>5 DEF ServerInv

LEMMA ServerStep == ServerInv /\ [ServerNext]_serverVars => ServerInv'
<1> SUFFICES ASSUME ServerInv, [ServerNext]_serverVars PROVE ServerInv'
  OBVIOUS
<1>1. ASSUME NEW p \in Replicas,
             \/ OpenDatabase(p) \/ SkipMigrations(p) \/ LockMigrations(p) \/ CheckVersion(p)
             \/ BeginMigration(p) \/ FinishMigration(p) \/ FailMigration(p)
             \/ EndMigrations(p) \/ StopMigrations(p)
      PROVE  ServerInv'
  BY <1>1, OpenKeeps, SkipKeeps, LockKeeps, CheckKeeps, BeginMigrationKeeps,
     FinishMigrationKeeps, FailMigrationKeeps, EndMigrationsKeeps, StopMigrationsKeeps
<1>2. ASSUME NEW p \in Replicas,
             \/ StartScheduler(p) \/ FailStart(p) \/ Serve(p)
             \/ RunJob(p) \/ EndJob(p) \/ Request(p)
             \/ Leave(p) \/ Drain(p) \/ ReleaseResources(p)
             \/ StopScheduler(p) \/ CloseDatabase(p) \/ Exit(p) \/ Die(p)
      PROVE  ServerInv'
  BY <1>2, StartSchedulerKeeps, FailStartKeeps, ServeKeeps, RunJobKeeps, EndJobKeeps,
     RequestKeeps, LeaveKeeps, DrainKeeps, ReleaseKeeps, StopSchedulerKeeps, CloseKeeps,
     DownKeeps
<1>3. CASE BeginDown \/ EndDown \/ \E v \in 0 .. MaxVersion : ForceVersion(v)
  BY <1>3, BeginDownKeeps, EndDownKeeps, ForceKeeps
<1>4. CASE UNCHANGED serverVars
  BY <1>4 DEF serverVars, ServerInv, ServerTypes, VersionTellsTruth, OperatorHolds,
              MigrationLocked, At
<1> QED BY <1>1, <1>2, <1>3, <1>4 DEF ServerNext

THEOREM ServerInvariant == ServerSpec => []ServerInv
  BY ServerInitHolds, ServerStep, PTL DEF ServerSpec

\* For any number of replicas, built with any migrations, that start together, die
\* and are started again beside the migrate command: unless it was set by hand, a
\* clean version is what the schema is; a replica serves with the schema it was
\* built for; and a job loses its database only to a signal or to impatience.
THEOREM ServersSafe == ServerSpec => []ServerSafety
<1>1. ServerInv => ServerSafety
  <2> SUFFICES ASSUME ServerInv PROVE ServerSafety
    OBVIOUS
  <2>1. ServerTypes /\ VersionTellsTruth
    BY DEF ServerInv
  <2>2. ServesItsSchema
    BY DEF ServerInv, ServesItsSchema, VersionFits
  <2>3. JobsKeepDatabase
    <3> SUFFICES ASSUME NEW p \in Replicas, replica[p].job # "none",
                        replica[p].db = "closed"
                 PROVE  replica[p].leaving \in {"signal", "impatient"}
      BY DEF JobsKeepDatabase
    <3>1. VersionFits(p, replica[p]) /\ replica[p] \in Replica
      BY DEF ServerInv, ServerTypes
    <3> QED BY <3>1 DEF VersionFits, Replica
  <2> QED BY <2>1, <2>2, <2>3 DEF ServerSafety
<1> QED BY <1>1, ServerInvariant, PTL

------------------------------------------------------------------------------
(* Folders: the way up from a folder is the least set that is closed        *)
(* upwards, so that whatever is shown of one such set is shown of the way.  *)

Places == Folders \cup {Root}

LEMMA WayIsClosed ==
    ASSUME NEW up \in [Folders -> Places], NEW f \in Places
    PROVE  f \in Above(up, f) /\ Above(up, f) \subseteq Places /\ ClosedUpwards(up, Above(up, f))
<1>1. f \in Above(up, f) /\ Above(up, f) \subseteq Places
  BY DEF Above, Places
<1>2. ASSUME NEW g \in Above(up, f) \ {Root} PROVE up[g] \in Above(up, f)
  <2>1. g \in Folders /\ up[g] \in Places
    BY <1>1, <1>2 DEF Places
  <2>2. ASSUME NEW S \in SUBSET Places, f \in S, ClosedUpwards(up, S) PROVE up[g] \in S
    <3>1. g \in S
      BY <1>2, <2>2 DEF Above, Places
    <3> QED BY <1>2, <2>2, <3>1 DEF ClosedUpwards
  <2> QED BY <2>1, <2>2 DEF Above, Places
<1> QED BY <1>1, <1>2 DEF ClosedUpwards

LEMMA WayIsLeast ==
    ASSUME NEW up, NEW f, NEW S \in SUBSET Places, f \in S, ClosedUpwards(up, S)
    PROVE  Above(up, f) \subseteq S
BY DEF Above, Places

\* The way up from a parent is part of the way up.
LEMMA WayGoesOn ==
    ASSUME NEW up \in [Folders -> Places], NEW f \in Folders, Root \notin Folders
    PROVE  Above(up, up[f]) \subseteq Above(up, f)
<1>1. f \in Above(up, f) /\ Above(up, f) \subseteq Places /\ ClosedUpwards(up, Above(up, f))
  BY WayIsClosed DEF Places
<1>2. up[f] \in Above(up, f)
  BY <1>1 DEF ClosedUpwards
<1> QED BY <1>1, <1>2, WayIsLeast

\* Until requests overlap there is a way to the top from every folder that is there,
\* and every parent is there.
Forest(live, up) == \A f \in live : Root \in Above(up, f) /\ up[f] \in live \cup {Root}

LEMMA ForestShown ==
    ASSUME FolderTypes, Forest(alive, parent), Root \notin Folders
    PROVE  FolderTree = alive
<1> DEFINE roots == {f \in alive : parent[f] \notin alive}
<1>1. ASSUME NEW f \in alive PROVE Above(parent, f) \cap roots # {}
  <2>1. /\ f \in Above(parent, f) /\ Above(parent, f) \subseteq Places
        /\ ClosedUpwards(parent, Above(parent, f))
    BY WayIsClosed DEF FolderTypes, Places
  <2>2. alive \cup {Root} \in SUBSET Places /\ ClosedUpwards(parent, alive \cup {Root})
    BY DEF FolderTypes, Forest, ClosedUpwards, Places
  <2>3. Above(parent, f) \subseteq alive \cup {Root}
    BY <2>2, WayIsLeast
  <2>4. SUFFICES ASSUME Above(parent, f) \cap roots = {} PROVE FALSE
    OBVIOUS
  <2>5. PICK S : S = Above(parent, f) \ {Root}
    OBVIOUS
  <2>6. ClosedUpwards(parent, S)
    <3>1. SUFFICES ASSUME NEW g \in S PROVE parent[g] \in S
      BY DEF ClosedUpwards
    <3>2. parent[g] \in Above(parent, f)
      BY <2>1, <2>5 DEF ClosedUpwards
    <3>3. g \in alive /\ parent[g] \in alive
      BY <2>3, <2>4, <2>5
    <3> QED BY <2>5, <3>2, <3>3 DEF FolderTypes
  <2>7. f \in S /\ S \in SUBSET Places
    BY <2>1, <2>5 DEF FolderTypes
  <2>8. Above(parent, f) \subseteq S
    BY <2>6, <2>7, WayIsLeast
  <2>9. Root \in Above(parent, f)
    BY DEF Forest
  <2> QED BY <2>5, <2>8, <2>9
<1> QED BY <1>1 DEF FolderTree

\* A new folder under one that is there.
LEMMA ForestGrows ==
    ASSUME FolderTypes, Forest(alive, parent), Root \notin Folders, NEW f \in Folders \ alive,
           NEW p \in alive \cup {Root}, NEW up, up = [parent EXCEPT ![f] = p]
    PROVE  Forest(alive \cup {f}, up)
<1>1. /\ up \in [Folders -> Places] /\ up[f] = p /\ \A g \in Folders \ {f} : up[g] = parent[g]
      /\ alive \subseteq Folders
  BY DEF FolderTypes, Places
<1>2. ASSUME NEW g \in alive, NEW S \in SUBSET Places, g \in S, ClosedUpwards(up, S) PROVE Root \in S
  <2>1. PICK T : T = S \cap (alive \cup {Root})
    OBVIOUS
  <2>2. ClosedUpwards(parent, T)
    <3>1. SUFFICES ASSUME NEW h \in T \ {Root} PROVE parent[h] \in T
      BY DEF ClosedUpwards
    <3>2. h \in alive /\ h \in S /\ h # f /\ h \in Folders
      BY <1>1, <2>1
    <3>3. up[h] = parent[h] /\ up[h] \in S
      BY <1>1, <1>2, <3>1, <3>2 DEF ClosedUpwards
    <3> QED BY <2>1, <3>2, <3>3 DEF Forest
  <2>3. Above(parent, g) \subseteq T
    BY <1>2, <2>1, <2>2, WayIsLeast
  <2> QED BY <2>1, <2>3 DEF Forest
<1>3. ASSUME NEW S \in SUBSET Places, f \in S, ClosedUpwards(up, S) PROVE Root \in S
  <2>1. p \in S
    BY <1>1, <1>3 DEF ClosedUpwards, FolderTypes
  <2> QED BY <1>2, <1>3, <2>1
<1>4. \A g \in alive \cup {f} : Root \in Above(up, g)
  BY <1>2, <1>3 DEF Above, Places
<1>5. \A g \in alive \cup {f} : up[g] \in (alive \cup {f}) \cup {Root}
  BY <1>1 DEF Forest
<1> QED BY <1>4, <1>5 DEF Forest

\* A folder goes below another that is not below it.
LEMMA ForestMoves ==
    ASSUME FolderTypes, Forest(alive, parent), Root \notin Folders, NEW f \in alive,
           NEW p \in alive \cup {Root}, p # Root => f \notin Above(parent, p),
           NEW up, up = [parent EXCEPT ![f] = p]
    PROVE  Forest(alive, up)
<1>1. /\ up \in [Folders -> Places] /\ up[f] = p /\ \A g \in Folders \ {f} : up[g] = parent[g]
      /\ alive \subseteq Folders
  BY DEF FolderTypes, Places
<1>2. ASSUME NEW S \in SUBSET Places, f \in S, ClosedUpwards(up, S) PROVE Root \in S
  <2>1. p \in S
    BY <1>1, <1>2 DEF ClosedUpwards, FolderTypes
  <2>2. CASE p = Root
    BY <2>1, <2>2
  <2>3. CASE p # Root
    <3>1. /\ p \in Above(parent, p) /\ Above(parent, p) \subseteq Places
          /\ ClosedUpwards(parent, Above(parent, p))
      BY <1>1, WayIsClosed DEF FolderTypes, Places
    <3>2. PICK T : T = S \cap Above(parent, p)
      OBVIOUS
    <3>3. ClosedUpwards(parent, T)
      <4>1. SUFFICES ASSUME NEW h \in T \ {Root} PROVE parent[h] \in T
        BY DEF ClosedUpwards
      <4>2. h \in S /\ h \in Above(parent, p) /\ h # f /\ h \in Folders
        BY <2>3, <3>1, <3>2 DEF Places
      <4>3. up[h] = parent[h] /\ up[h] \in S /\ parent[h] \in Above(parent, p)
        BY <1>1, <1>2, <3>1, <4>1, <4>2 DEF ClosedUpwards
      <4> QED BY <3>2, <4>3
    <3>4. T \in SUBSET Places /\ p \in T
      BY <1>2, <2>1, <3>1, <3>2
    <3>5. Above(parent, p) \subseteq T
      BY <3>3, <3>4, WayIsLeast
    <3>6. Root \in Above(parent, p)
      BY <2>3 DEF Forest
    <3> QED BY <3>2, <3>5, <3>6
  <2> QED BY <2>2, <2>3
<1>3. ASSUME NEW g \in alive, NEW S \in SUBSET Places, g \in S, ClosedUpwards(up, S) PROVE Root \in S
  <2>1. CASE f \in S
    BY <1>2, <1>3, <2>1
  <2>2. CASE f \notin S
    <3>1. ClosedUpwards(parent, S)
      <4>1. SUFFICES ASSUME NEW h \in S \ {Root} PROVE parent[h] \in S
        BY DEF ClosedUpwards
      <4>2. h \in Folders \ {f} /\ up[h] \in S
        BY <1>3, <2>2, <4>1 DEF ClosedUpwards, Places
      <4> QED BY <1>1, <4>2
    <3>2. Above(parent, g) \subseteq S
      BY <1>3, <3>1, WayIsLeast
    <3> QED BY <3>2 DEF Forest
  <2> QED BY <2>1, <2>2
<1>4. \A g \in alive : Root \in Above(up, g)
  BY <1>3 DEF Above, Places
<1>5. \A g \in alive : up[g] \in alive \cup {Root}
  BY <1>1 DEF Forest
<1> QED BY <1>4, <1>5 DEF Forest

\* A folder goes with all that is below it.
LEMMA ForestShrinks ==
    ASSUME FolderTypes, Forest(alive, parent), Root \notin Folders, NEW f \in Folders
    PROVE  Forest(alive \ CollectFolderTree(parent, alive, f), parent)
<1>1. SUFFICES ASSUME NEW g \in alive \ CollectFolderTree(parent, alive, f)
               PROVE  parent[g] \in (alive \ CollectFolderTree(parent, alive, f)) \cup {Root}
  BY DEF Forest
<1>2. g \in Folders /\ f \notin Above(parent, g)
  BY DEF CollectFolderTree, FolderTypes
<1>3. Above(parent, parent[g]) \subseteq Above(parent, g)
  BY <1>2, WayGoesOn DEF FolderTypes, Places
<1> QED BY <1>2, <1>3 DEF Forest, CollectFolderTree

------------------------------------------------------------------------------

TaskShape(k) ==
    /\ k.op \in {"create", "move", "remove"} => k.of \in Folders
    /\ k.op = "file" => k.of \in Filed
    /\ k.op \in {"create", "move"} => k.into # k.of

\* What a request has read is so.
ReadSo(k) ==
    /\ k.op = "create" => /\ k.of \in Folders \ alive /\ k.into \in alive \cup {Root}
                          /\ \A g \in alive : parent[g] # k.of
    /\ k.op = "move" => /\ k.of \in alive /\ k.into \in alive \cup {Root}
                        /\ k.into # Root => k.of \notin Above(parent, k.into)
    /\ k.op = "remove" => k.tree = CollectFolderTree(parent, alive, k.of)
    /\ k.op = "file" => k.into \in alive \cup {Root}

OrderedFolders ==
    /\ Forest(alive, parent)
    /\ \A a \in Filed : filedIn[a] \in alive \cup {Root}
    /\ \A t \in FolderTasks : ReadSo(folderTask[t])

NoOwnParent == \A f \in Folders : parent[f] # f

OneWriter ==
    \A t, u \in FolderTasks :
      folderTask[t].op \in {"move", "remove"} /\ folderTask[u].op \in {"move", "remove"}
        /\ folderTask[t].of = folderTask[u].of => t = u

FoldersFine ==
    /\ FolderTypes /\ NoOwnParent /\ OneWriter
    /\ \A t \in FolderTasks : TaskShape(folderTask[t])
    /\ overlapped = FALSE => OrderedFolders

LEMMA FoldersFineMeans == FolderInv <=> FoldersFine
<1>1. ASSUME FolderInv PROVE FoldersFine
  <2>1. FolderTypes /\ NoOwnParent /\ OneWriter
    BY <1>1 DEF FolderInv, NoOwnParent, OneWriter, FolderLocksHold
  <2>2. \A t \in FolderTasks : TaskShape(folderTask[t])
    BY <1>1 DEF FolderInv, TaskShape
  <2>3. overlapped = FALSE => OrderedFolders
    BY <1>1 DEF FolderInv, OrderedFolders, Forest, ReadSo, StillSo
  <2> QED BY <2>1, <2>2, <2>3 DEF FoldersFine
<1>2. ASSUME FoldersFine PROVE FolderInv
  <2>1. overlapped \in BOOLEAN
    BY <1>2 DEF FoldersFine, FolderTypes
  <2>2. FolderLocksHold
    BY <1>2 DEF FoldersFine, FolderTypes, NoOwnParent, OneWriter, FolderLocksHold
  <2>3. ~overlapped =>
         /\ \A f \in alive : Root \in Above(parent, f) /\ parent[f] \in alive \cup {Root}
         /\ \A a \in Filed : filedIn[a] \in alive \cup {Root}
         /\ \A t \in FolderTasks : StillSo(t)
    BY <1>2, <2>1 DEF FoldersFine, OrderedFolders, Forest, ReadSo, StillSo
  <2> QED BY <1>2, <2>2, <2>3 DEF FoldersFine, FolderInv, NoOwnParent, TaskShape
<1> QED BY <1>1, <1>2

LEMMA FoldersSafe ==
    ASSUME FolderInv
    PROVE  FolderSafety
<1>1. FolderTypes /\ FolderLocksHold /\ Root \notin Folders
  BY FolderAssumption DEF FolderInv
<1>2. ASSUME ~overlapped
      PROVE  /\ \A f \in alive : Root \in Above(parent, f)
             /\ \A f \in alive : parent[f] \in alive \cup {Root}
             /\ \A a \in Filed : filedIn[a] \in alive \cup {Root}
  BY <1>2 DEF FolderInv
<1>3. ASSUME ~overlapped PROVE FolderTree = alive
  BY <1>1, <1>2, <1>3, ForestShown DEF Forest
<1> QED BY <1>1, <1>2, <1>3 DEF FolderSafety, ForestKept

LEMMA NoRequestFine == NoRequest \in FolderTask /\ NoRequest.op = "idle" /\ TaskShape(NoRequest) /\ ReadSo(NoRequest)
BY DEF NoRequest, FolderTask, FolderOps, TaskShape, ReadSo

LEMMA FoldersStart ==
    ASSUME FolderInit
    PROVE  FoldersFine
<1>1. FolderTypes /\ NoOwnParent
  BY NoRequestFine, FolderAssumption DEF FolderInit, FolderTypes, NoOwnParent
<1>2. \A t \in FolderTasks : folderTask[t] = NoRequest
  BY DEF FolderInit
<1>3. OneWriter
  BY <1>2, NoRequestFine DEF OneWriter
<1>4. OrderedFolders
  BY <1>2, NoRequestFine DEF FolderInit, OrderedFolders, Forest
<1> QED BY <1>1, <1>2, <1>3, <1>4, NoRequestFine DEF FoldersFine

LEMMA ReadStep ==
    ASSUME FoldersFine, NEW t \in FolderTasks, NEW k \in FolderTask, Read(t, k), TaskShape(k),
           OrderedFolders => ReadSo(k), k.op \in {"move", "remove"} => ~FolderLocked(k.of)
    PROVE  FoldersFine'
<1>1. folderTask' = [folderTask EXCEPT ![t] = k] /\ UNCHANGED <<alive, parent, filedIn, overlapped>>
  BY DEF Read
<1>2. /\ folderTask' \in [FolderTasks -> FolderTask] /\ folderTask'[t] = k
      /\ \A u \in FolderTasks \ {t} : folderTask'[u] = folderTask[u]
  BY <1>1 DEF FoldersFine, FolderTypes
<1>3. FolderTypes' /\ NoOwnParent'
  BY <1>1, <1>2 DEF FoldersFine, FolderTypes, NoOwnParent
<1>4. OneWriter'
  BY <1>2 DEF FoldersFine, OneWriter, FolderLocked
<1>5. \A u \in FolderTasks : TaskShape(folderTask'[u])
  BY <1>2 DEF FoldersFine
<1>6. ASSUME overlapped' = FALSE PROVE OrderedFolders'
  <2>1. OrderedFolders
    BY <1>1, <1>6 DEF FoldersFine
  <2>2. \A u \in FolderTasks : ReadSo(folderTask'[u])
    BY <1>2, <2>1 DEF OrderedFolders
  <2>3. \A u \in FolderTasks : ReadSo(folderTask[u])'
    BY <1>1, <2>2 DEF ReadSo
  <2> QED BY <1>1, <2>1, <2>3 DEF OrderedFolders, Forest
<1> QED BY <1>3, <1>4, <1>5, <1>6 DEF FoldersFine, TaskShape

\* Whoever writes while another has read overlaps with it.
LEMMA WriteStep ==
    ASSUME FoldersFine, NEW t \in FolderTasks, folderTask[t].op # "idle", Written(t),
           alive' \subseteq Folders, parent' \in [Folders -> Folders \cup {Root}],
           filedIn' \in [Filed -> Folders \cup {Root}], NoOwnParent',
           OrderedFolders => Forest(alive', parent') /\ \A a \in Filed : filedIn'[a] \in alive' \cup {Root}
    PROVE  FoldersFine'
<1>1. folderTask' = [folderTask EXCEPT ![t] = NoRequest]
  BY DEF Written
<1>2. /\ folderTask' \in [FolderTasks -> FolderTask] /\ folderTask'[t] = NoRequest
      /\ \A u \in FolderTasks \ {t} : folderTask'[u] = folderTask[u]
  BY <1>1, NoRequestFine DEF FoldersFine, FolderTypes
<1>3. overlapped' \in BOOLEAN
  BY Zenon DEF Written
<1>4. overlapped' = FALSE => overlapped = FALSE /\ Busy = {t}
  <2>1. overlapped \in BOOLEAN
    BY DEF FoldersFine, FolderTypes
  <2>2. overlapped' = (overlapped \/ Busy # {t})
    BY DEF Written
  <2> QED BY <2>1, <2>2
<1>5. FolderTypes'
  BY <1>2, <1>3 DEF FolderTypes
<1>6. OneWriter'
  BY <1>2, NoRequestFine DEF FoldersFine, OneWriter
<1>7. \A u \in FolderTasks : TaskShape(folderTask'[u])
  BY <1>2, NoRequestFine DEF FoldersFine
<1>8. ASSUME overlapped' = FALSE PROVE OrderedFolders'
  <2>1. OrderedFolders /\ Busy = {t}
    BY <1>4, <1>8 DEF FoldersFine
  <2>2. \A u \in FolderTasks : folderTask'[u].op = "idle"
    BY <1>2, <2>1, NoRequestFine DEF Busy
  <2>3. \A u \in FolderTasks : ReadSo(folderTask[u])'
    BY <2>2 DEF ReadSo
  <2> QED BY <2>1, <2>3 DEF OrderedFolders, Forest
<1> QED BY <1>5, <1>6, <1>7, <1>8 DEF FoldersFine, TaskShape

LEMMA FolderReads ==
    ASSUME FoldersFine, NEW t \in FolderTasks, NEW f \in Folders
    PROVE  /\ ReadForRemove(t, f) => FoldersFine'
           /\ \A p \in Folders \cup {Root} : ReadForCreate(t, f, p) \/ ReadForMove(t, f, p) => FoldersFine'
<1>0. Root \notin Folders /\ alive \subseteq Folders /\ parent \in [Folders -> Places]
  BY FolderAssumption DEF FoldersFine, FolderTypes, Places
<1>1. ASSUME ReadForRemove(t, f) PROVE FoldersFine'
  <2>1. PICK k : k = [op |-> "remove", of |-> f, into |-> Root, tree |-> CollectFolderTree(parent, alive, f)]
    OBVIOUS
  <2>2. k \in FolderTask
    BY <1>0, <2>1 DEF FolderTask, FolderOps, CollectFolderTree
  <2>3. Read(t, k) /\ ~FolderLocked(k.of)
    BY <1>1, <2>1 DEF ReadForRemove
  <2>4. TaskShape(k) /\ ReadSo(k)
    BY <2>1 DEF TaskShape, ReadSo
  <2> QED BY <2>2, <2>3, <2>4, ReadStep
<1>2. ASSUME NEW p \in Folders \cup {Root}, ReadForCreate(t, f, p) PROVE FoldersFine'
  <2>1. PICK k : k = [op |-> "create", of |-> f, into |-> p, tree |-> {}]
    OBVIOUS
  <2>2. k \in FolderTask
    BY <2>1 DEF FolderTask, FolderOps
  <2>3. Read(t, k)
    BY <1>2, <2>1 DEF ReadForCreate
  <2>4. TaskShape(k) /\ ReadSo(k)
    BY <1>0, <1>2, <2>1 DEF ReadForCreate, TaskShape, ReadSo
  <2>5. k.op \notin {"move", "remove"}
    BY <2>1
  <2> QED BY <2>2, <2>3, <2>4, <2>5, ReadStep
<1>3. ASSUME NEW p \in Folders \cup {Root}, ReadForMove(t, f, p) PROVE FoldersFine'
  <2>1. PICK k : k = [op |-> "move", of |-> f, into |-> p, tree |-> {}]
    OBVIOUS
  <2>2. k \in FolderTask
    BY <2>1 DEF FolderTask, FolderOps
  <2>3. Read(t, k) /\ ~FolderLocked(k.of) /\ f \in alive /\ p \in alive \cup {Root}
        /\ (p # Root => f \notin Above(parent, p))
    BY <1>3, <2>1 DEF ReadForMove, AssertNoParentCycle
  <2>4. p # f
    BY <1>0, <2>3, WayIsClosed DEF Places
  <2>5. TaskShape(k) /\ ReadSo(k)
    BY <2>1, <2>3, <2>4 DEF TaskShape, ReadSo
  <2> QED BY <2>2, <2>3, <2>5, ReadStep
<1> QED BY <1>1, <1>2, <1>3

LEMMA AssetRead ==
    ASSUME FoldersFine, NEW t \in FolderTasks, NEW a \in Filed, NEW f \in Folders \cup {Root},
           ReadForFile(t, a, f)
    PROVE  FoldersFine'
<1>1. PICK k : k = [op |-> "file", of |-> a, into |-> f, tree |-> {}]
  OBVIOUS
<1>2. k \in FolderTask
  BY <1>1 DEF FolderTask, FolderOps
<1>3. Read(t, k) /\ f \in alive \cup {Root} /\ k.op \notin {"move", "remove"}
  BY <1>1 DEF ReadForFile
<1>4. TaskShape(k) /\ ReadSo(k)
  BY <1>1, <1>3 DEF TaskShape, ReadSo
<1> QED BY <1>2, <1>3, <1>4, ReadStep

LEMMA FolderWrites ==
    ASSUME FoldersFine, NEW t \in FolderTasks, CreateFolder(t) \/ UpdateFolder(t)
    PROVE  FoldersFine'
<1>1. PICK k : k = folderTask[t]
  OBVIOUS
<1>2. /\ k.op \in {"create", "move"} /\ Written(t) /\ alive' = alive \cup {k.of}
      /\ parent' = [parent EXCEPT ![k.of] = k.into] /\ filedIn' = filedIn
  BY <1>1 DEF CreateFolder, UpdateFolder
<1>3. k.of \in Folders /\ k.into # k.of /\ k.into \in Folders \cup {Root} /\ Root \notin Folders
  BY <1>1, <1>2, FolderAssumption DEF FoldersFine, FolderTypes, FolderTask, TaskShape
<1>4. alive' \subseteq Folders /\ parent' \in [Folders -> Folders \cup {Root}]
      /\ filedIn' \in [Filed -> Folders \cup {Root}]
  BY <1>2, <1>3 DEF FoldersFine, FolderTypes
<1>5. NoOwnParent'
  BY <1>2, <1>3 DEF FoldersFine, FolderTypes, NoOwnParent
<1>6. ASSUME OrderedFolders
      PROVE  Forest(alive', parent') /\ \A a \in Filed : filedIn'[a] \in alive' \cup {Root}
  <2>1. FolderTypes /\ Forest(alive, parent) /\ ReadSo(k)
    BY <1>1, <1>6 DEF FoldersFine, OrderedFolders
  <2>2. CASE k.op = "create"
    <3>1. k.of \in Folders \ alive /\ k.into \in alive \cup {Root}
      BY <2>1, <2>2 DEF ReadSo
    <3>2. Forest(alive', parent')
      BY <1>2, <1>3, <2>1, <3>1, ForestGrows
    <3> QED BY <1>2, <1>6, <3>2 DEF OrderedFolders
  <2>3. CASE k.op = "move"
    <3>1. k.of \in alive /\ k.into \in alive \cup {Root} /\ (k.into # Root => k.of \notin Above(parent, k.into))
      BY <2>1, <2>3 DEF ReadSo
    <3>2. alive' = alive
      BY <1>2, <3>1
    <3>3. Forest(alive, parent')
      BY <1>2, <1>3, <2>1, <3>1, ForestMoves
    <3> QED BY <1>2, <1>6, <3>2, <3>3 DEF OrderedFolders
  <2> QED BY <1>2, <2>2, <2>3
<1> QED BY <1>1, <1>2, <1>4, <1>5, <1>6, WriteStep

LEMMA FolderRemoved ==
    ASSUME FoldersFine, NEW t \in FolderTasks, SoftDeleteFolder(t)
    PROVE  FoldersFine'
<1>1. PICK k : k = folderTask[t]
  OBVIOUS
<1>2. /\ k.op = "remove" /\ Written(t) /\ alive' = alive \ k.tree /\ parent' = parent
      /\ filedIn' = [a \in Filed |-> IF filedIn[a] \in k.tree THEN Root ELSE filedIn[a]]
  BY <1>1 DEF SoftDeleteFolder
<1>3. alive' \subseteq Folders /\ parent' \in [Folders -> Folders \cup {Root}]
      /\ filedIn' \in [Filed -> Folders \cup {Root}] /\ NoOwnParent'
  BY <1>2 DEF FoldersFine, FolderTypes, NoOwnParent
<1>4. ASSUME OrderedFolders
      PROVE  Forest(alive', parent') /\ \A a \in Filed : filedIn'[a] \in alive' \cup {Root}
  <2>1. FolderTypes /\ Forest(alive, parent) /\ ReadSo(k) /\ TaskShape(k) /\ Root \notin Folders
    BY <1>1, <1>4, FolderAssumption DEF FoldersFine, OrderedFolders
  <2>2. k.tree = CollectFolderTree(parent, alive, k.of) /\ k.of \in Folders
    BY <1>2, <2>1 DEF ReadSo, TaskShape
  <2>3. Forest(alive', parent')
    BY <1>2, <2>1, <2>2, ForestShrinks
  <2> QED BY <1>2, <1>4, <2>3 DEF OrderedFolders
<1> QED BY <1>1, <1>2, <1>3, <1>4, WriteStep

LEMMA AssetFiled ==
    ASSUME FoldersFine, NEW t \in FolderTasks, FileAsset(t)
    PROVE  FoldersFine'
<1>1. PICK k : k = folderTask[t]
  OBVIOUS
<1>2. /\ k.op = "file" /\ Written(t) /\ alive' = alive /\ parent' = parent
      /\ filedIn' = [filedIn EXCEPT ![k.of] = k.into]
  BY <1>1 DEF FileAsset
<1>3. k.into \in Folders \cup {Root} /\ k.of \in Filed
  BY <1>1, <1>2 DEF FoldersFine, FolderTypes, FolderTask, TaskShape
<1>4. alive' \subseteq Folders /\ parent' \in [Folders -> Folders \cup {Root}]
      /\ filedIn' \in [Filed -> Folders \cup {Root}] /\ NoOwnParent'
  BY <1>2, <1>3 DEF FoldersFine, FolderTypes, NoOwnParent
<1>5. ASSUME OrderedFolders
      PROVE  Forest(alive', parent') /\ \A a \in Filed : filedIn'[a] \in alive' \cup {Root}
  <2>1. FolderTypes /\ Forest(alive, parent) /\ ReadSo(k)
    BY <1>1, <1>5 DEF FoldersFine, OrderedFolders
  <2>2. k.into \in alive \cup {Root}
    BY <1>2, <2>1 DEF ReadSo
  <2> QED BY <1>2, <1>3, <1>5, <2>1, <2>2 DEF OrderedFolders, FolderTypes
<1> QED BY <1>1, <1>2, <1>4, <1>5, WriteStep

LEMMA FolderRollBack ==
    ASSUME FoldersFine, NEW t \in FolderTasks, RollBack(t)
    PROVE  FoldersFine'
<1>1. folderTask' = [folderTask EXCEPT ![t] = NoRequest] /\ UNCHANGED <<alive, parent, filedIn, overlapped>>
  BY DEF RollBack
<1>2. /\ folderTask' \in [FolderTasks -> FolderTask] /\ folderTask'[t] = NoRequest
      /\ \A u \in FolderTasks \ {t} : folderTask'[u] = folderTask[u]
  BY <1>1, NoRequestFine DEF FoldersFine, FolderTypes
<1>3. FolderTypes' /\ NoOwnParent'
  BY <1>1, <1>2 DEF FoldersFine, FolderTypes, NoOwnParent
<1>4. OneWriter'
  BY <1>2, NoRequestFine DEF FoldersFine, OneWriter
<1>5. \A u \in FolderTasks : TaskShape(folderTask'[u])
  BY <1>2, NoRequestFine DEF FoldersFine
<1>6. ASSUME overlapped' = FALSE PROVE OrderedFolders'
  <2>1. OrderedFolders
    BY <1>1, <1>6 DEF FoldersFine
  <2>2. \A u \in FolderTasks : ReadSo(folderTask'[u])
    BY <1>2, <2>1, NoRequestFine DEF OrderedFolders
  <2>3. \A u \in FolderTasks : ReadSo(folderTask[u])'
    BY <1>1, <2>2 DEF ReadSo
  <2> QED BY <1>1, <2>1, <2>3 DEF OrderedFolders, Forest
<1> QED BY <1>3, <1>4, <1>5, <1>6 DEF FoldersFine, TaskShape

LEMMA FoldersStep ==
    ASSUME FoldersFine, [FolderNext]_folderVars
    PROVE  FoldersFine'
<1>1. CASE FolderNext
  BY <1>1, FolderReads, AssetRead, FolderWrites, FolderRemoved, AssetFiled, FolderRollBack DEF FolderNext
<1>2. CASE UNCHANGED folderVars
  <2>1. UNCHANGED <<alive, parent, filedIn, folderTask, overlapped>>
    BY <1>2 DEF folderVars
  <2>2. FolderTypes' /\ NoOwnParent' /\ OneWriter'
    BY <2>1 DEF FoldersFine, FolderTypes, NoOwnParent, OneWriter
  <2>3. (overlapped = FALSE => OrderedFolders)'
    BY <2>1 DEF FoldersFine, OrderedFolders, Forest, ReadSo
  <2>4. (\A t \in FolderTasks : TaskShape(folderTask[t]))'
    BY <2>1 DEF FoldersFine, TaskShape
  <2> QED BY <2>2, <2>3, <2>4 DEF FoldersFine
<1> QED BY <1>1, <1>2

------------------------------------------------------------------------------

LEMMA FoldersKept == FolderSpec => []FoldersFine
<1>1. FolderInit => FoldersFine
  BY FoldersStart
<1>2. FoldersFine /\ [FolderNext]_folderVars => FoldersFine'
  BY FoldersStep
<1> QED BY <1>1, <1>2, PTL DEF FolderSpec

\* What a request has read of the folders is so until another writes, and nobody
\* makes a folder its own parent.
THEOREM FolderInvariant == FolderSpec => []FolderInv
BY FoldersKept, FoldersFineMeans, PTL

\* Until a request has written between another's reading and writing, every live
\* folder is in the tree, below folders that are there, and every asset in one of
\* them; whatever overlaps, no folder is its own parent.
THEOREM FoldersStaySafe == FolderSpec => []FolderSafety
<1>1. FolderInv => FolderSafety
  BY FoldersSafe
<1> QED BY <1>1, FolderInvariant, PTL

------------------------------------------------------------------------------
(* The storefront navigation: a regeneration that nobody has asked to be     *)
(* repeated has read the tree as it is.  What it has gathered is part of the  *)
(* navigation, and everything below what it has gathered is gathered or to    *)
(* be read, so that when nothing is left it has gathered all of it: the set   *)
(* of what was gathered is closed, and the navigation is the least such set.  *)

\* What a regeneration has read, if nothing has changed since it began: every
\* entry is one of the navigation, and what is below an entry is read, or still
\* to be.
ReadsTheTree ==
    /\ todo \subseteq Hanging
    /\ gathered \subseteq Navigation
    /\ ChildEntries(Top) \subseteq gathered
    /\ \A entry \in gathered : entry[1] \in todo \/ ChildEntries(entry[1]) \subseteq gathered

\* While no request has a refresh before it, the tree has not changed since the
\* regeneration that is under way began.
GatheringHolds ==
    (builder # NoCategory /\ \A t \in ShopTasks : shopTask[t].at # "refresh") => ReadsTheTree

NavigationInv == NavigationSafety /\ GatheringHolds

LEMMA NoShopTaskTyped == NoShopTask \in ShopTask /\ NoShopTask.at = "idle"
  BY DEF NoShopTask, ShopTask, ShopStages, Parents

\* A task moves on outside a regeneration; when the tree changes, it has a
\* refresh before it.
LEMMA ShopTaskMoves ==
  ASSUME NavigationInv, NEW t \in ShopTasks, NEW new \in ShopTask,
         shopTask' = [shopTask EXCEPT ![t] = new],
         shopTask[t].at # "regenerate", new.at # "regenerate",
         NavigationUnchanged, category' \in [Categories -> Category],
         \/ new.at = "refresh"
         \/ category' = category /\ shopTask[t].at # "refresh"
  PROVE  NavigationInv'
<1> USE DEF NavigationInv, NavigationSafety
<1>1. /\ shopTask \in [ShopTasks -> ShopTask] /\ shopTask'[t] = new
      /\ \A u \in ShopTasks \ {t} : shopTask'[u] = shopTask[u]
      /\ UNCHANGED <<builder, todo, gathered, cached, lapsed>>
  BY DEF NavigationTypes, NavigationUnchanged
<1>2. NavigationTypes'
  BY <1>1 DEF NavigationTypes
<1>3. OneBuilder'
  BY <1>1 DEF OneBuilder
<1>4. CASE new.at = "refresh"
  BY <1>1, <1>2, <1>3, <1>4 DEF NavigationCurrent, GatheringHolds
<1>5. CASE category' = category /\ shopTask[t].at # "refresh"
  <2>1. Navigation' = Navigation /\ (ReadsTheTree <=> ReadsTheTree')
    BY <1>1, <1>5 DEF Navigation, ReadsTheTree, Hanging, ChildEntries, Children, LiveCategory
  <2>2. NavigationCurrent' /\ GatheringHolds'
    BY <1>1, <1>5, <2>1 DEF NavigationCurrent, GatheringHolds
  <2> QED BY <1>2, <1>3, <2>2
<1> QED BY <1>4, <1>5

LEMMA NavigationStart == NavigationInit => NavigationInv
<1> SUFFICES ASSUME NavigationInit PROVE NavigationInv
  OBVIOUS
<1>1. NavigationTypes
  BY NoShopTaskTyped
     DEF NavigationInit, NavigationTypes, NewCategory, Category, Parents, Entries
<1>2. OneBuilder
  BY NoShopTaskTyped, NavigationAssumption DEF NavigationInit, OneBuilder
<1>3. NavigationCurrent /\ GatheringHolds
  BY DEF NavigationInit, NavigationCurrent, GatheringHolds
<1> QED BY <1>1, <1>2, <1>3 DEF NavigationInv, NavigationSafety

LEMMA CreateCategoryStep ==
  ASSUME NavigationInv, NEW t \in ShopTasks, NEW c \in Categories, CreateCategory(t, c)
  PROVE  NavigationInv'
<1>1. /\ shopTask[t] \in ShopTask /\ shopTask[t].at = "idle" /\ NavigationUnchanged
      /\ shopTask \in [ShopTasks -> ShopTask] /\ category \in [Categories -> Category]
  BY DEF CreateCategory, NavigationInv, NavigationSafety, NavigationTypes
<1>2. PICK p \in Parents : category' = [category EXCEPT ![c] = [state |-> "live", parent |-> p]]
  BY DEF CreateCategory
<1>3. category' \in [Categories -> Category]
  BY <1>1, <1>2 DEF Category
<1> DEFINE new == [shopTask[t] EXCEPT !.at = "refresh"]
<1>4. new \in ShopTask /\ new.at = "refresh"
  BY <1>1 DEF ShopTask, ShopStages
<1>5. shopTask' = [shopTask EXCEPT ![t] = new]
  BY <1>1 DEF CreateCategory, ShopGoto
<1> HIDE DEF new
<1> QED BY <1>1, <1>3, <1>4, <1>5, ShopTaskMoves

LEMMA UpdateCategoryStep ==
  ASSUME NavigationInv, NEW t \in ShopTasks, NEW c \in Categories, UpdateCategory(t, c)
  PROVE  NavigationInv'
<1>1. /\ shopTask[t].at = "idle" /\ NavigationUnchanged /\ category' = category
      /\ category \in [Categories -> Category]
  BY DEF UpdateCategory, NavigationInv, NavigationSafety, NavigationTypes
<1>2. PICK p \in Parents :
        shopTask' = [shopTask EXCEPT ![t] = [at |-> "write", on |-> c, parent |-> p]]
  BY DEF UpdateCategory
<1> DEFINE new == [at |-> "write", on |-> c, parent |-> p]
<1>3. new \in ShopTask /\ new.at = "write"
  BY DEF ShopTask, ShopStages
<1>4. shopTask' = [shopTask EXCEPT ![t] = new]
  BY <1>2
<1> HIDE DEF new
<1> QED BY <1>1, <1>3, <1>4, ShopTaskMoves

LEMMA DeleteCategoryStep ==
  ASSUME NavigationInv, NEW t \in ShopTasks, NEW c \in Categories, DeleteCategory(t, c)
  PROVE  NavigationInv'
<1>1. /\ shopTask[t].at = "idle" /\ NavigationUnchanged /\ category' = category
      /\ category \in [Categories -> Category]
      /\ shopTask' = [shopTask EXCEPT ![t] = [NoShopTask EXCEPT !.at = "remove", !.on = c]]
  BY DEF DeleteCategory, NavigationInv, NavigationSafety, NavigationTypes
<1> DEFINE new == [NoShopTask EXCEPT !.at = "remove", !.on = c]
<1>2. new \in ShopTask /\ new.at = "remove"
  BY DEF NoShopTask, ShopTask, ShopStages, Parents
<1>3. shopTask' = [shopTask EXCEPT ![t] = new]
  BY <1>1
<1> HIDE DEF new
<1> QED BY <1>1, <1>2, <1>3, ShopTaskMoves

\* The second half of an update or a delete: the row is written if it is there.
LEMMA WriteRowStep ==
  ASSUME NavigationInv, NEW t \in ShopTasks, shopTask[t].at \in {"write", "remove"},
         NavigationUnchanged,
         \/ ShopGoto(t, "refresh") /\ category' \in [Categories -> Category]
         \/ ShopDone(t) /\ UNCHANGED category
  PROVE  NavigationInv'
<1>1. /\ shopTask[t] \in ShopTask /\ shopTask \in [ShopTasks -> ShopTask]
      /\ category \in [Categories -> Category]
  BY DEF NavigationInv, NavigationSafety, NavigationTypes
<1>2. CASE ShopGoto(t, "refresh") /\ category' \in [Categories -> Category]
  <2> DEFINE new == [shopTask[t] EXCEPT !.at = "refresh"]
  <2>1. new \in ShopTask /\ new.at = "refresh"
    BY <1>1 DEF ShopTask, ShopStages
  <2>2. shopTask' = [shopTask EXCEPT ![t] = new]
    BY <1>1, <1>2 DEF ShopGoto
  <2> HIDE DEF new
  <2> QED BY <1>2, <2>1, <2>2, ShopTaskMoves
<1>3. CASE ShopDone(t) /\ UNCHANGED category
  BY <1>1, <1>3, ShopTaskMoves, NoShopTaskTyped DEF ShopDone
<1> QED BY <1>2, <1>3

LEMMA WriteCategoryStep ==
  ASSUME NavigationInv, NEW t \in ShopTasks, WriteCategory(t)
  PROVE  NavigationInv'
<1>1. category \in [Categories -> Category] /\ shopTask[t].parent \in Parents
  BY DEF NavigationInv, NavigationSafety, NavigationTypes, ShopTask
<1>2. category' = [category EXCEPT ![shopTask[t].on].parent = shopTask[t].parent]
        => category' \in [Categories -> Category]
  BY <1>1 DEF Category
<1> QED BY <1>2, WriteRowStep DEF WriteCategory

LEMMA RemoveCategoryStep ==
  ASSUME NavigationInv, NEW t \in ShopTasks, RemoveCategory(t)
  PROVE  NavigationInv'
<1>1. category \in [Categories -> Category]
  BY DEF NavigationInv, NavigationSafety, NavigationTypes
<1>2. category' = [category EXCEPT ![shopTask[t].on].state = "deleted"]
        => category' \in [Categories -> Category]
  BY <1>1 DEF Category
<1> QED BY <1>2, WriteRowStep DEF RemoveCategory

LEMMA ReloadStep ==
  ASSUME NavigationInv, NEW t \in ShopTasks, Reload(t)
  PROVE  NavigationInv'
<1>1. /\ shopTask[t] \in ShopTask /\ shopTask[t].at = "idle" /\ NavigationUnchanged
      /\ shopTask \in [ShopTasks -> ShopTask] /\ category \in [Categories -> Category]
      /\ category' = category
  BY DEF Reload, NavigationInv, NavigationSafety, NavigationTypes
<1> DEFINE new == [shopTask[t] EXCEPT !.at = "refresh"]
<1>2. new \in ShopTask /\ new.at = "refresh"
  BY <1>1 DEF ShopTask, ShopStages
<1>3. shopTask' = [shopTask EXCEPT ![t] = new]
  BY <1>1 DEF Reload, ShopGoto
<1> HIDE DEF new
<1> QED BY <1>1, <1>2, <1>3, ShopTaskMoves

LEMMA HangingGrows ==
  /\ Children(Top) \subseteq Hanging
  /\ \A c \in Hanging : Children(c) \subseteq Hanging
  /\ \A p \in Hanging \cup {Top} : ChildEntries(p) \subseteq Navigation
  /\ Hanging \subseteq Categories
<1>1. \A p : Children(p) \subseteq Categories
  BY DEF Children
<1>2. Children(Top) \subseteq Hanging
  BY <1>1 DEF Hanging
<1>3. \A c \in Hanging : Children(c) \subseteq Hanging
  BY <1>1 DEF Hanging
<1> QED BY <1>2, <1>3 DEF Navigation, Hanging

LEMMA BeginRegenerationStep ==
  ASSUME NavigationInv, NEW t \in ShopTasks, BeginRegeneration(t)
  PROVE  NavigationInv'
<1> USE DEF NavigationInv, NavigationSafety
<1>1. /\ shopTask \in [ShopTasks -> ShopTask] /\ shopTask[t] \in ShopTask
      /\ builder = NoCategory /\ builder' = t /\ gathered' = ChildEntries(Top)
      /\ todo' = Children(Top) /\ UNCHANGED <<category, cached, lapsed>>
      /\ shopTask' = [shopTask EXCEPT ![t].at = "regenerate"]
  BY DEF BeginRegeneration, NavigationTypes, ShopGoto
<1>2. /\ shopTask' \in [ShopTasks -> ShopTask] /\ shopTask'[t].at = "regenerate"
      /\ \A u \in ShopTasks \ {t} : shopTask'[u] = shopTask[u]
  BY <1>1 DEF ShopTask, ShopStages
<1>3. Children(Top) \subseteq Categories /\ ChildEntries(Top) \subseteq Entries
  BY DEF Children, ChildEntries, Entries, Parents
<1>4. NavigationTypes'
  BY <1>1, <1>2, <1>3 DEF NavigationTypes
<1>5. OneBuilder'
  BY <1>1, <1>2, NavigationAssumption DEF OneBuilder
<1>6. NavigationCurrent'
  BY <1>2 DEF NavigationCurrent
<1>7. /\ Navigation' = Navigation /\ Hanging' = Hanging
      /\ \A p : ChildEntries(p)' = ChildEntries(p)
  BY <1>1 DEF Navigation, Hanging, ChildEntries, Children, LiveCategory
<1>8. \A entry \in ChildEntries(Top) : entry[1] \in Children(Top)
  BY DEF ChildEntries
<1>9. ReadsTheTree'
  BY <1>1, <1>7, <1>8, HangingGrows DEF ReadsTheTree
<1> QED BY <1>4, <1>5, <1>6, <1>9 DEF GatheringHolds

LEMMA ReadChildrenStep ==
  ASSUME NavigationInv, NEW t \in ShopTasks, NEW c \in Categories, ReadChildren(t, c)
  PROVE  NavigationInv'
<1> USE DEF NavigationInv, NavigationSafety
<1>1. /\ builder = t /\ c \in todo /\ gathered' = gathered \cup ChildEntries(c)
      /\ todo' = (todo \ {c}) \cup Children(c)
      /\ UNCHANGED <<category, shopTask, builder, cached, lapsed>>
  BY DEF ReadChildren
<1>2. Children(c) \subseteq Categories /\ ChildEntries(c) \subseteq Entries
  BY DEF Children, ChildEntries, Entries, Parents
<1>3. NavigationTypes' /\ OneBuilder'
  BY <1>1, <1>2 DEF NavigationTypes, OneBuilder
<1>4. /\ Navigation' = Navigation /\ Hanging' = Hanging
      /\ \A p : ChildEntries(p)' = ChildEntries(p)
  BY <1>1 DEF Navigation, Hanging, ChildEntries, Children, LiveCategory
<1>5. NavigationCurrent'
  BY <1>1, <1>4 DEF NavigationCurrent
<1>6. ASSUME ReadsTheTree PROVE ReadsTheTree'
  <2>1. todo' \subseteq Hanging /\ gathered' \subseteq Navigation
    BY <1>1, <1>6, HangingGrows DEF ReadsTheTree
  <2>2. ASSUME NEW entry \in gathered'
        PROVE  entry[1] \in todo' \/ ChildEntries(entry[1]) \subseteq gathered'
    <3>1. CASE entry \in ChildEntries(c)
      BY <1>1, <3>1 DEF ChildEntries
    <3>2. CASE entry \in gathered
      <4>1. entry[1] \in todo \/ ChildEntries(entry[1]) \subseteq gathered
        BY <1>6, <3>2 DEF ReadsTheTree
      <4> QED BY <1>1, <4>1
    <3> QED BY <1>1, <2>2, <3>1, <3>2
  <2> QED BY <1>1, <1>4, <1>6, <2>1, <2>2 DEF ReadsTheTree
<1>7. GatheringHolds'
  BY <1>1, <1>6 DEF GatheringHolds
<1> QED BY <1>3, <1>5, <1>7

\* A regeneration that has read everything has read the navigation.
LEMMA ReadAll ==
  ASSUME ReadsTheTree, todo = {}, gathered \subseteq Entries
  PROVE  gathered = Navigation
<1> DEFINE S == {entry[1] : entry \in gathered}
<1>1. S \in SUBSET Categories
  BY DEF Entries
<1>2. \A x \in S : ChildEntries(x) \subseteq gathered
  BY DEF ReadsTheTree
<1>3. ASSUME NEW p, ChildEntries(p) \subseteq gathered PROVE Children(p) \subseteq S
  <2> SUFFICES ASSUME NEW x \in Children(p) PROVE x \in S
    OBVIOUS
  <2>1. <<x, p>> \in gathered
    BY <1>3 DEF ChildEntries
  <2>2. <<x, p>>[1] = x
    OBVIOUS
  <2> QED BY <2>1, <2>2
<1>4. Children(Top) \subseteq S /\ \A x \in S : Children(x) \subseteq S
  BY <1>2, <1>3 DEF ReadsTheTree
<1> HIDE DEF S
<1>5. Hanging \subseteq S
  BY <1>1, <1>4 DEF Hanging
<1>6. \A p \in Hanging \cup {Top} : ChildEntries(p) \subseteq gathered
  BY <1>2, <1>5 DEF ReadsTheTree
<1>7. Navigation \subseteq gathered
  BY <1>6 DEF Navigation
<1> QED BY <1>7 DEF ReadsTheTree

\* The mutex is released: what was gathered is stored, or thrown away.
LEMMA UnlockStep ==
  ASSUME NavigationInv, NEW t \in ShopTasks, builder = t, Unlocked(t), UNCHANGED category,
         cached' = Empty \/ cached' \subseteq Entries, lapsed' \in BOOLEAN,
         lapsed' \/ (cached' = gathered /\ todo = {})
  PROVE  NavigationInv'
<1> USE DEF NavigationInv, NavigationSafety
<1>1. /\ builder' = NoCategory /\ gathered' = {} /\ todo' = {}
      /\ shopTask' = [shopTask EXCEPT ![t] = NoShopTask]
      /\ shopTask \in [ShopTasks -> ShopTask]
  BY DEF Unlocked, ShopDone, NavigationTypes
<1>2. NavigationTypes'
  BY <1>1, NoShopTaskTyped DEF NavigationTypes
<1>3. shopTask'[t].at = "idle" /\ \A u \in ShopTasks \ {t} : shopTask'[u] = shopTask[u]
  BY <1>1, NoShopTaskTyped
<1>4. OneBuilder'
  BY <1>1, <1>3, NavigationAssumption DEF OneBuilder
<1>5. GatheringHolds'
  BY <1>1 DEF GatheringHolds
<1>6. Navigation' = Navigation
  BY DEF Navigation, Hanging, ChildEntries, Children, LiveCategory
<1>7. ASSUME ~lapsed', \A u \in ShopTasks : shopTask'[u].at \notin {"refresh", "regenerate"}
      PROVE  cached' = Navigation
  <2>1. shopTask[t].at = "regenerate" /\ builder # NoCategory
    BY NavigationAssumption DEF OneBuilder
  <2>2. ReadsTheTree
    BY <1>3, <1>7, <2>1 DEF GatheringHolds
  <2> QED BY <1>7, <2>2, ReadAll DEF NavigationTypes
<1>8. NavigationCurrent'
  BY <1>6, <1>7 DEF NavigationCurrent
<1> QED BY <1>2, <1>4, <1>5, <1>8

LEMMA ExpireNavigationStep ==
  ASSUME NavigationInv, ExpireNavigation
  PROVE  NavigationInv'
<1> USE DEF NavigationInv, NavigationSafety
<1>1. cached' = Empty /\ UNCHANGED <<category, shopTask, builder, todo, gathered, lapsed>>
  BY DEF ExpireNavigation
<1>2. ReadsTheTree <=> ReadsTheTree'
  BY <1>1 DEF ReadsTheTree, Navigation, Hanging, ChildEntries, Children, LiveCategory
<1> QED BY <1>1, <1>2 DEF NavigationTypes, OneBuilder, NavigationCurrent, GatheringHolds

LEMMA ShopRestartStep ==
  ASSUME NavigationInv, ShopRestart
  PROVE  NavigationInv'
<1> USE DEF NavigationInv, NavigationSafety
<1>1. /\ builder' = NoCategory /\ gathered' = {} /\ todo' = {}
      /\ shopTask' = [t \in ShopTasks |-> NoShopTask]
      /\ UNCHANGED <<category, cached>>
      /\ lapsed' = (lapsed \/ \E t \in ShopTasks : shopTask[t].at \in {"refresh", "regenerate"})
  BY DEF ShopRestart
<1>2. \A t \in ShopTasks : shopTask'[t].at = "idle"
  BY <1>1, NoShopTaskTyped
<1>3. lapsed' \in BOOLEAN
  BY <1>1 DEF NavigationTypes
<1>4. NavigationTypes'
  BY <1>1, <1>3, NoShopTaskTyped DEF NavigationTypes
<1>5. OneBuilder'
  BY <1>1, <1>2, NavigationAssumption DEF OneBuilder
<1>6. Navigation' = Navigation
  BY <1>1 DEF Navigation, Hanging, ChildEntries, Children, LiveCategory
<1>7. NavigationCurrent' /\ GatheringHolds'
  BY <1>1, <1>6 DEF NavigationCurrent, GatheringHolds
<1> QED BY <1>4, <1>5, <1>7

LEMMA NavigationNextKeeps == NavigationInv /\ [NavigationNext]_navigationVars => NavigationInv'
<1> SUFFICES ASSUME NavigationInv, [NavigationNext]_navigationVars PROVE NavigationInv'
  OBVIOUS
<1>1. CASE UNCHANGED navigationVars
  <2>1. UNCHANGED <<category, shopTask, builder, todo, gathered, cached, lapsed>>
    BY <1>1 DEF navigationVars
  <2>2. Navigation' = Navigation /\ (ReadsTheTree <=> ReadsTheTree')
    BY <2>1 DEF ReadsTheTree, Navigation, Hanging, ChildEntries, Children, LiveCategory
  <2> QED BY <2>1, <2>2 DEF NavigationInv, NavigationSafety, NavigationTypes, OneBuilder,
                            NavigationCurrent, GatheringHolds
<1>2. ASSUME NEW t \in ShopTasks, StoreNavigation(t) PROVE NavigationInv'
  <2>1. cached' \subseteq Entries /\ cached' = gathered /\ lapsed' = FALSE
    BY <1>2 DEF StoreNavigation, NavigationInv, NavigationSafety, NavigationTypes
  <2> QED BY <1>2, <2>1, UnlockStep DEF StoreNavigation
<1>3. ASSUME NEW t \in ShopTasks, FailRegeneration(t) PROVE NavigationInv'
  <2>1. cached' = Empty \/ cached' \subseteq Entries
    BY <1>3 DEF FailRegeneration, NavigationInv, NavigationSafety, NavigationTypes
  <2> QED BY <1>3, <2>1, UnlockStep DEF FailRegeneration
<1> QED BY <1>1, <1>2, <1>3, CreateCategoryStep, UpdateCategoryStep, DeleteCategoryStep,
           WriteCategoryStep, RemoveCategoryStep, ReloadStep, BeginRegenerationStep,
           ReadChildrenStep, ExpireNavigationStep, ShopRestartStep
        DEF NavigationNext

------------------------------------------------------------------------------
(* Products, tags and correlations: what a request has loaded of a product   *)
(* and will write back is what the product has, unless somebody wrote the    *)
(* product since.                                                            *)

\* What a request read of its product still holds unless somebody wrote it since.
TaskFits(t) ==
    LET task == catalogTask[t]
    IN  /\ task.at # "idle" \/ task.about # "all" => task.on \in Products
        /\ task.about = "tags" /\ t \notin superseded => product[task.on].sheets = task.sheets
        /\ task.about = "sheets" /\ t \notin superseded =>
             product[task.on].tags \cap LiveTags \subseteq task.tags

CatalogInv ==
    /\ CatalogSafety
    /\ \A pair \in correlation : pair[1] < pair[2]
    /\ \A t \in CatalogTasks : TaskFits(t)

LEMMA NoCatalogTaskTyped ==
  /\ NoCatalogTask \in CatalogTask
  /\ NoCatalogTask.at = "idle" /\ NoCatalogTask.about = "all" /\ NoCatalogTask.on = NoProduct
BY DEF NoCatalogTask, CatalogTask, CatalogStages, Sheets

LEMMA CatalogStart == CatalogInit => CatalogInv
<1> SUFFICES ASSUME CatalogInit PROVE CatalogInv
  OBVIOUS
<1>1. NewProduct \in Product /\ NewProduct.tags = {}
  BY DEF NewProduct, Product, Sheets
<1>2. CatalogTypes
  BY <1>1, NoCatalogTaskTyped DEF CatalogInit, CatalogTypes
<1>3. TagsAreLive /\ UpdatesKeepTheRest /\ CorrelatedOnce
  BY <1>1 DEF CatalogInit, TagsAreLive, UpdatesKeepTheRest, CorrelatedOnce
<1>4. \A t \in CatalogTasks : TaskFits(t)
  BY NoCatalogTaskTyped DEF CatalogInit, TaskFits
<1>5. \A pair \in correlation : pair[1] < pair[2]
  BY DEF CatalogInit
<1> QED BY <1>2, <1>3, <1>4, <1>5 DEF CatalogInv, CatalogSafety

\* A step of one request that writes nothing.
LEMMA CatalogRequestMoves ==
  ASSUME CatalogInv, RowsUnchanged, NEW t \in CatalogTasks, NEW new \in CatalogTask,
         catalogTask' = [catalogTask EXCEPT ![t] = new],
         superseded' \in SUBSET CatalogTasks, superseded \subseteq superseded' \cup {t},
         new.at # "idle" \/ new.about # "all" => new.on \in Products,
         new.about = "tags" /\ t \notin superseded' => product[new.on].sheets = new.sheets,
         new.about = "sheets" /\ t \notin superseded' =>
           product[new.on].tags \cap LiveTags \subseteq new.tags
  PROVE  CatalogInv'
<1>1. UNCHANGED <<product, tag, correlation, clobbered, dangling>>
  BY DEF RowsUnchanged
<1>2. CatalogTypes
  BY DEF CatalogInv, CatalogSafety
<1>3. /\ catalogTask' \in [CatalogTasks -> CatalogTask] /\ catalogTask'[t] = new
      /\ \A u \in CatalogTasks \ {t} : catalogTask'[u] = catalogTask[u]
  BY <1>2 DEF CatalogTypes
<1>4. CatalogTypes'
  BY <1>1, <1>2, <1>3 DEF CatalogTypes
<1>5. LiveTags' = LiveTags
  BY <1>1 DEF LiveTags
<1>6. TagsAreLive' /\ UpdatesKeepTheRest' /\ CorrelatedOnce'
  BY <1>1, <1>5 DEF CatalogInv, CatalogSafety, TagsAreLive, UpdatesKeepTheRest, CorrelatedOnce
<1>7. ASSUME NEW u \in CatalogTasks PROVE TaskFits(u)'
  <2>1. CASE u = t
    BY <1>1, <1>3, <1>5, <2>1 DEF TaskFits
  <2>2. CASE u # t
    <3>1. /\ TaskFits(u) /\ catalogTask'[u] = catalogTask[u]
          /\ u \notin superseded' => u \notin superseded
      BY <1>3, <2>2 DEF CatalogInv
    <3> QED BY <1>1, <1>5, <3>1 DEF TaskFits
  <2> QED BY <2>1, <2>2
<1>8. \A pair \in correlation' : pair[1] < pair[2]
  BY <1>1 DEF CatalogInv
<1> QED BY <1>4, <1>6, <1>7, <1>8 DEF CatalogInv, CatalogSafety

\* A request that only moves on keeps what it read.
LEMMA CatalogRequestGoesOn ==
  ASSUME CatalogInv, RowsUnchanged, NEW t \in CatalogTasks, NEW stage \in CatalogStages,
         NEW rest \in SUBSET Tags, catalogTask[t].at # "idle", UNCHANGED superseded,
         catalogTask' = [catalogTask EXCEPT ![t].at = stage, ![t].todo = rest]
  PROVE  CatalogInv'
<1>1. CatalogTypes /\ TaskFits(t)
  BY DEF CatalogInv, CatalogSafety
<1> DEFINE task == catalogTask[t]
           new == [task EXCEPT !.at = stage, !.todo = rest]
<1>2. task \in CatalogTask /\ superseded \subseteq CatalogTasks
  BY <1>1 DEF CatalogTypes
<1>3. new \in CatalogTask
  BY <1>2 DEF CatalogTask
<1>4. /\ new.on = task.on /\ new.about = task.about /\ new.tags = task.tags
      /\ new.sheets = task.sheets
  BY <1>2 DEF CatalogTask
<1>5. catalogTask' = [catalogTask EXCEPT ![t] = new]
  BY <1>1 DEF CatalogTypes
<1>6. /\ new.on \in Products
      /\ new.about = "tags" /\ t \notin superseded' => product[new.on].sheets = new.sheets
      /\ new.about = "sheets" /\ t \notin superseded' =>
           product[new.on].tags \cap LiveTags \subseteq new.tags
  BY <1>1, <1>4 DEF TaskFits
<1> HIDE DEF new
<1> QED BY <1>2, <1>3, <1>5, <1>6, CatalogRequestMoves

LEMMA CatalogRequestEnds ==
  ASSUME CatalogInv, RowsUnchanged, NEW t \in CatalogTasks, CatalogDone(t),
         superseded' = superseded \ {t}
  PROVE  CatalogInv'
<1>1. superseded' \in SUBSET CatalogTasks
  BY DEF CatalogInv, CatalogSafety, CatalogTypes
<1> QED BY <1>1, NoCatalogTaskTyped, CatalogRequestMoves DEF CatalogDone

LEMMA CreateProductStep ==
  ASSUME CatalogInv, NEW t \in CatalogTasks, NEW p \in Products, CreateProduct(t, p)
  PROVE  CatalogInv'
<1>1. PICK g \in SUBSET Tags, s \in Sheets :
        catalogTask' = [catalogTask EXCEPT ![t] =
          [at |-> "ensure", on |-> p, about |-> "all", tags |-> g, sheets |-> s, todo |-> g]]
  BY DEF CreateProduct
<1> DEFINE new == [at |-> "ensure", on |-> p, about |-> "all", tags |-> g, sheets |-> s,
                   todo |-> g]
<1>2. new \in CatalogTask /\ new.on = p /\ new.about = "all"
  BY DEF CatalogTask, CatalogStages
<1>3. catalogTask' = [catalogTask EXCEPT ![t] = new]
  BY <1>1
<1>4. RowsUnchanged /\ superseded' = superseded /\ superseded \subseteq CatalogTasks
  BY DEF CreateProduct, CatalogInv, CatalogSafety, CatalogTypes
<1> HIDE DEF new
<1> QED BY <1>2, <1>3, <1>4, CatalogRequestMoves

LEMMA UpdateProductStep ==
  ASSUME CatalogInv, NEW t \in CatalogTasks, NEW p \in Products, UpdateProduct(t, p)
  PROVE  CatalogInv'
<1>1. /\ RowsUnchanged /\ superseded' = superseded /\ superseded \subseteq CatalogTasks
      /\ product[p] \in Product
  BY DEF UpdateProduct, CatalogInv, CatalogSafety, CatalogTypes
<1>2. ASSUME NEW g \in SUBSET Tags,
             catalogTask' = [catalogTask EXCEPT ![t] =
               [at |-> "ensure", on |-> p, about |-> "tags", tags |-> g,
                sheets |-> product[p].sheets, todo |-> g]]
      PROVE  CatalogInv'
  <2> DEFINE new == [at |-> "ensure", on |-> p, about |-> "tags", tags |-> g,
                     sheets |-> product[p].sheets, todo |-> g]
  <2>1. new \in CatalogTask /\ new.on = p /\ new.about = "tags" /\ new.sheets = product[p].sheets
    BY <1>1 DEF CatalogTask, CatalogStages, Product
  <2>2. catalogTask' = [catalogTask EXCEPT ![t] = new]
    BY <1>2
  <2> HIDE DEF new
  <2> QED BY <1>1, <2>1, <2>2, CatalogRequestMoves
<1>3. ASSUME NEW s \in Sheets, NEW loaded, loaded = product[p].tags \cap LiveTags,
             catalogTask' = [catalogTask EXCEPT ![t] =
               [at |-> "ensure", on |-> p, about |-> "sheets", tags |-> loaded,
                sheets |-> s, todo |-> loaded]]
      PROVE  CatalogInv'
  <2> DEFINE new == [at |-> "ensure", on |-> p, about |-> "sheets", tags |-> loaded,
                     sheets |-> s, todo |-> loaded]
  <2>1. loaded \subseteq Tags
    BY <1>3 DEF LiveTags
  <2>2. new \in CatalogTask /\ new.on = p /\ new.about = "sheets" /\ new.tags = loaded
    BY <2>1 DEF CatalogTask, CatalogStages
  <2>3. catalogTask' = [catalogTask EXCEPT ![t] = new]
    BY <1>3
  <2> HIDE DEF new
  <2> QED BY <1>1, <1>3, <2>2, <2>3, CatalogRequestMoves
<1> QED BY <1>2, <1>3 DEF UpdateProduct

LEMMA EnsureTagStep ==
  ASSUME CatalogInv, NEW t \in CatalogTasks, EnsureTag(t)
  PROVE  CatalogInv'
<1>1. /\ RowsUnchanged /\ UNCHANGED superseded /\ catalogTask[t].at = "ensure"
      /\ catalogTask \in [CatalogTasks -> CatalogTask] /\ catalogTask[t] \in CatalogTask
      /\ catalogTask[t].todo \subseteq Tags
  BY DEF EnsureTag, CatalogInv, CatalogSafety, CatalogTypes, CatalogTask
<1>2. CASE CatalogGoto(t, "resolve")
  <2>1. catalogTask' = [catalogTask EXCEPT ![t].at = "resolve", ![t].todo = catalogTask[t].todo]
    BY <1>1, <1>2 DEF CatalogGoto, CatalogTask
  <2>2. "resolve" \in CatalogStages /\ catalogTask[t].at # "idle"
    BY <1>1 DEF CatalogStages
  <2> QED BY <1>1, <2>1, <2>2, CatalogRequestGoesOn
<1>3. ASSUME NEW g \in catalogTask[t].todo,
             catalogTask' = [catalogTask EXCEPT
                   ![t].at = CASE tag[g] = "unused" -> "createTag"
                               [] tag[g] = "deleted" -> "restoreTag"
                               [] OTHER -> "ensure",
                   ![t].todo = IF tag[g] = "live" THEN @ \ {g} ELSE @]
      PROVE  CatalogInv'
  <2>1. PICK stage \in CatalogStages, rest \in SUBSET Tags :
          /\ stage = CASE tag[g] = "unused" -> "createTag"
                       [] tag[g] = "deleted" -> "restoreTag"
                       [] OTHER -> "ensure"
          /\ rest = IF tag[g] = "live" THEN catalogTask[t].todo \ {g} ELSE catalogTask[t].todo
    BY <1>1 DEF CatalogStages
  <2>2. catalogTask' = [catalogTask EXCEPT ![t].at = stage, ![t].todo = rest]
    BY <1>1, <1>3, <2>1 DEF CatalogTask
  <2> QED BY <1>1, <2>2, CatalogRequestGoesOn
<1> QED BY <1>2, <1>3 DEF EnsureTag

LEMMA ResolveTagsStep ==
  ASSUME CatalogInv, NEW t \in CatalogTasks, ResolveTags(t)
  PROVE  CatalogInv'
<1>1. /\ RowsUnchanged /\ catalogTask[t].at = "resolve"
      /\ catalogTask \in [CatalogTasks -> CatalogTask] /\ catalogTask[t] \in CatalogTask
      /\ catalogTask[t].todo \subseteq Tags
  BY DEF ResolveTags, CatalogInv, CatalogSafety, CatalogTypes, CatalogTask
<1>2. CASE CatalogGoto(t, "commit") /\ UNCHANGED superseded
  <2>1. catalogTask' = [catalogTask EXCEPT ![t].at = "commit", ![t].todo = catalogTask[t].todo]
    BY <1>1, <1>2 DEF CatalogGoto, CatalogTask
  <2>2. "commit" \in CatalogStages /\ catalogTask[t].at # "idle"
    BY <1>1 DEF CatalogStages
  <2> QED BY <1>1, <1>2, <2>1, <2>2, CatalogRequestGoesOn
<1>3. CASE CatalogDone(t) /\ superseded' = superseded \ {t}
  BY <1>1, <1>3, CatalogRequestEnds
<1> QED BY <1>2, <1>3 DEF ResolveTags

\* A step that writes rows: whoever holds a changed product is superseded.
LEMMA RowsMove ==
  ASSUME CatalogInv, CatalogTypes', TagsAreLive', UpdatesKeepTheRest',
         UNCHANGED correlation,
         \A u \in CatalogTasks :
           \/ catalogTask'[u] = NoCatalogTask
           \/ /\ catalogTask'[u].on = catalogTask[u].on
              /\ catalogTask'[u].about = catalogTask[u].about
              /\ catalogTask'[u].tags = catalogTask[u].tags
              /\ catalogTask'[u].sheets = catalogTask[u].sheets
              /\ catalogTask'[u].at # "idle" => catalogTask[u].at # "idle"
              /\ u \in superseded => u \in superseded'
              /\ u \in superseded' \/
                 \A p \in Products : catalogTask[u].on = p =>
                   /\ product'[p].sheets = product[p].sheets
                   /\ (product'[p].tags \cap LiveTags') \subseteq (product[p].tags \cap LiveTags)
  PROVE  CatalogInv'
<1>1. ASSUME NEW u \in CatalogTasks PROVE TaskFits(u)'
  <2>1. CASE catalogTask'[u] = NoCatalogTask
    BY <2>1, NoCatalogTaskTyped DEF TaskFits
  <2>2. CASE catalogTask'[u] # NoCatalogTask
    <3>1. TaskFits(u)
      BY DEF CatalogInv
    <3>2. catalogTask'[u].at # "idle" \/ catalogTask'[u].about # "all" =>
            catalogTask'[u].on \in Products
      BY <2>2, <3>1 DEF TaskFits
    <3>3. catalogTask'[u].about = "tags" /\ u \notin superseded' =>
            product'[catalogTask'[u].on].sheets = catalogTask'[u].sheets
      BY <2>2, <3>1 DEF TaskFits
    <3>4. catalogTask'[u].about = "sheets" /\ u \notin superseded' =>
            product'[catalogTask'[u].on].tags \cap LiveTags' \subseteq catalogTask'[u].tags
      BY <2>2, <3>1 DEF TaskFits
    <3> QED BY <3>2, <3>3, <3>4 DEF TaskFits
  <2> QED BY <2>1, <2>2
<1>2. CorrelatedOnce' /\ \A pair \in correlation' : pair[1] < pair[2]
  BY DEF CatalogInv, CatalogSafety, CorrelatedOnce
<1> QED BY <1>1, <1>2 DEF CatalogInv, CatalogSafety

LEMMA RegisterTagStep ==
  ASSUME CatalogInv, NEW t \in CatalogTasks, RegisterTag(t)
  PROVE  CatalogInv'
<1>1. /\ CatalogTypes /\ TagsAreLive /\ UpdatesKeepTheRest /\ catalogTask[t] \in CatalogTask
      /\ catalogTask \in [CatalogTasks -> CatalogTask] /\ catalogTask[t].todo \subseteq Tags
      /\ catalogTask[t].at # "idle" /\ UNCHANGED <<product, correlation, clobbered>>
  BY DEF RegisterTag, CatalogInv, CatalogSafety, CatalogTypes, CatalogTask
<1>2. CASE /\ CatalogDone(t) /\ superseded' = superseded \ {t} /\ UNCHANGED <<tag, dangling>>
  BY <1>1, <1>2, CatalogRequestEnds DEF RowsUnchanged
<1>3. ASSUME NEW g \in catalogTask[t].todo,
             catalogTask' = [catalogTask EXCEPT ![t].at = "ensure", ![t].todo = @ \ {g}],
             tag' = [tag EXCEPT ![g] = "live"],
             dangling' = dangling \ {g},
             superseded' = superseded \cup Carrying(g)
      PROVE  CatalogInv'
  <2>1. g \in Tags /\ tag \in [Tags -> {"unused", "live", "deleted"}]
    BY <1>1, <1>3 DEF CatalogTypes
  <2>2. LiveTags' = LiveTags \cup {g}
    BY <1>3, <2>1 DEF LiveTags
  <2>3. TagsAreLive' /\ UpdatesKeepTheRest'
    BY <1>1, <1>3, <2>2 DEF TagsAreLive, UpdatesKeepTheRest
  <2> DEFINE new == [catalogTask[t] EXCEPT !.at = "ensure", !.todo = @ \ {g}]
  <2>4. /\ new \in CatalogTask /\ new.on = catalogTask[t].on /\ new.about = catalogTask[t].about
        /\ new.tags = catalogTask[t].tags /\ new.sheets = catalogTask[t].sheets
    BY <1>1 DEF CatalogTask, CatalogStages
  <2>5. catalogTask' = [catalogTask EXCEPT ![t] = new]
    BY <1>1, <1>3
  <2> HIDE DEF new
  <2>6. tag' \in [Tags -> {"unused", "live", "deleted"}]
    BY <1>3, <2>1
  <2>7. Carrying(g) \subseteq CatalogTasks
    BY DEF Carrying
  <2>8. catalogTask' \in [CatalogTasks -> CatalogTask]
    BY <1>1, <2>4, <2>5
  <2>9. CatalogTypes'
    BY <1>1, <1>3, <2>6, <2>7, <2>8 DEF CatalogTypes
  <2>10. ASSUME NEW u \in CatalogTasks
         PROVE  /\ catalogTask'[u].on = catalogTask[u].on
                /\ catalogTask'[u].about = catalogTask[u].about
                /\ catalogTask'[u].tags = catalogTask[u].tags
                /\ catalogTask'[u].sheets = catalogTask[u].sheets
                /\ catalogTask'[u].at # "idle" => catalogTask[u].at # "idle"
    BY <1>1, <2>4, <2>5
  <2>11. ASSUME NEW u \in CatalogTasks, u \notin superseded', NEW p \in Products,
                catalogTask[u].on = p
         PROVE  product'[p].tags \cap LiveTags' \subseteq product[p].tags \cap LiveTags
    <3>1. g \notin product[p].tags
      BY <1>3, <2>11 DEF Carrying
    <3> QED BY <1>1, <2>2, <3>1
  <2> QED BY <1>1, <1>3, <2>3, <2>9, <2>10, <2>11, RowsMove
<1> QED BY <1>2, <1>3 DEF RegisterTag

LEMMA CommitProductStep ==
  ASSUME CatalogInv, NEW t \in CatalogTasks, CommitProduct(t)
  PROVE  CatalogInv'
<1> DEFINE task == catalogTask[t]
           p == task.on
           written == [state |-> "live", tags |-> task.tags, sheets |-> task.sheets]
<1>1. /\ CatalogTypes /\ TagsAreLive /\ UpdatesKeepTheRest /\ TaskFits(t)
      /\ catalogTask \in [CatalogTasks -> CatalogTask] /\ task \in CatalogTask
      /\ product \in [Products -> Product]
      /\ task.at = "commit" /\ UNCHANGED <<tag, correlation>>
      /\ product' = [product EXCEPT ![p] = written]
      /\ dangling' = dangling \cup (task.tags \ LiveTags)
      /\ superseded' = Supersedes(t, p) /\ CatalogDone(t)
  BY DEF CommitProduct, CatalogInv, CatalogSafety, CatalogTypes
<1>2. p \in Products
  BY <1>1 DEF TaskFits
<1>3. written \in Product /\ written.tags = task.tags
  BY <1>1 DEF CatalogTask, Product
<1> HIDE DEF written
<1>4. clobbered' = clobbered
  BY <1>1 DEF CommitProduct, TaskFits, CatalogTask
<1>5. LiveTags' = LiveTags
  BY <1>1 DEF LiveTags
<1>6. TagsAreLive'
  <2> SUFFICES ASSUME NEW q \in Products
               PROVE  product'[q].tags \subseteq LiveTags' \cup dangling'
    BY DEF TagsAreLive
  <2>1. CASE q = p
    BY <1>1, <1>2, <1>3, <1>5, <2>1
  <2>2. CASE q # p
    BY <1>1, <1>2, <1>5, <2>2 DEF TagsAreLive
  <2> QED BY <2>1, <2>2
<1>7. /\ catalogTask' \in [CatalogTasks -> CatalogTask] /\ catalogTask'[t] = NoCatalogTask
      /\ \A u \in CatalogTasks \ {t} : catalogTask'[u] = catalogTask[u]
  BY <1>1, NoCatalogTaskTyped DEF CatalogDone
<1>8. /\ product' \in [Products -> Product] /\ dangling' \subseteq Tags
      /\ superseded' \subseteq CatalogTasks
  BY <1>1, <1>2, <1>3 DEF CatalogTypes, Supersedes, CatalogTask
<1>9. CatalogTypes'
  BY <1>1, <1>4, <1>7, <1>8 DEF CatalogTypes
<1>10. ASSUME NEW u \in CatalogTasks \ {t}
       PROVE  /\ u \in superseded => u \in superseded'
              /\ u \in superseded' \/
                 \A q \in Products : catalogTask[u].on = q => product'[q] = product[q]
  BY <1>1, <1>2 DEF Supersedes
<1> QED BY <1>1, <1>4, <1>5, <1>6, <1>7, <1>9, <1>10, RowsMove DEF UpdatesKeepTheRest

LEMMA DeleteProductStep ==
  ASSUME CatalogInv, NEW p \in Products, DeleteProduct(p)
  PROVE  CatalogInv'
<1>1. /\ CatalogTypes /\ TagsAreLive /\ UpdatesKeepTheRest /\ product[p] \in Product
      /\ product \in [Products -> Product]
      /\ UNCHANGED <<tag, correlation, catalogTask, clobbered, dangling>>
      /\ superseded' = superseded \cup {u \in CatalogTasks : catalogTask[u].on = p}
      /\ product' = [product EXCEPT ![p].state = "deleted", ![p].sheets = "plain"]
  BY DEF DeleteProduct, CatalogInv, CatalogSafety, CatalogTypes
<1> DEFINE written == [product[p] EXCEPT !.state = "deleted", !.sheets = "plain"]
<1>2. written \in Product /\ written.tags = product[p].tags
  BY <1>1 DEF Product, Sheets
<1>3. product' = [product EXCEPT ![p] = written]
  BY <1>1
<1> HIDE DEF written
<1>4. /\ product' \in [Products -> Product] /\ LiveTags' = LiveTags
      /\ \A q \in Products : product'[q].tags = product[q].tags
      /\ \A q \in Products \ {p} : product'[q] = product[q]
  BY <1>1, <1>2, <1>3 DEF LiveTags
<1>5. CatalogTypes' /\ TagsAreLive' /\ UpdatesKeepTheRest'
  BY <1>1, <1>4 DEF CatalogTypes, TagsAreLive, UpdatesKeepTheRest
<1> QED BY <1>1, <1>4, <1>5, RowsMove

LEMMA SoftDeleteTagStep ==
  ASSUME CatalogInv, NEW g \in Tags, SoftDeleteTag(g)
  PROVE  CatalogInv'
<1>1. /\ CatalogTypes /\ TagsAreLive /\ UpdatesKeepTheRest
      /\ product \in [Products -> Product] /\ tag \in [Tags -> {"unused", "live", "deleted"}]
      /\ tag' = [tag EXCEPT ![g] = "deleted"] /\ dangling' = dangling \ {g}
      /\ product' = [p \in Products |-> [product[p] EXCEPT !.tags = @ \ {g}]]
      /\ superseded' = superseded \cup {u \in CatalogTasks : catalogTask[u].on # NoProduct}
      /\ UNCHANGED <<correlation, catalogTask, clobbered>>
  BY DEF SoftDeleteTag, Untagged, CatalogInv, CatalogSafety, CatalogTypes
<1>2. LiveTags' = LiveTags \ {g}
  BY <1>1 DEF LiveTags
<1>3. \A p \in Products : product'[p] \in Product /\ product'[p].tags = product[p].tags \ {g}
  BY <1>1 DEF Product
<1>4. tag' \in [Tags -> {"unused", "live", "deleted"}] /\ product' \in [Products -> Product]
  BY <1>1, <1>3
<1>5. CatalogTypes'
  BY <1>1, <1>4 DEF CatalogTypes
<1>6. TagsAreLive' /\ UpdatesKeepTheRest'
  BY <1>1, <1>2, <1>3 DEF TagsAreLive, UpdatesKeepTheRest
<1>7. \A u \in CatalogTasks : u \in superseded' \/ catalogTask[u].on \notin Products
  BY <1>1, CatalogAssumption
<1> QED BY <1>1, <1>5, <1>6, <1>7, RowsMove

\* Ordered pairs are correlated once.
LEMMA CorrelationsMove ==
  ASSUME CatalogInv, UNCHANGED <<product, tag, catalogTask, superseded, clobbered, dangling>>,
         correlation' \subseteq Tags \X Tags,
         \A pair \in correlation' : pair[1] < pair[2]
  PROVE  CatalogInv'
<1>1. CatalogTypes'
  BY DEF CatalogInv, CatalogSafety, CatalogTypes
<1>2. LiveTags' = LiveTags
  BY DEF LiveTags
<1>3. TagsAreLive' /\ UpdatesKeepTheRest'
  BY <1>2 DEF CatalogInv, CatalogSafety, TagsAreLive, UpdatesKeepTheRest
<1>4. CorrelatedOnce'
  <2> SUFFICES ASSUME NEW pair \in correlation', <<pair[2], pair[1]>> \in correlation'
               PROVE  FALSE
    BY DEF CorrelatedOnce
  <2>1. pair[1] < pair[2] /\ pair[2] < pair[1] /\ pair[1] \in Nat /\ pair[2] \in Nat
    BY CatalogAssumption
  <2> QED BY <2>1
<1>5. ASSUME NEW u \in CatalogTasks PROVE TaskFits(u)'
  BY <1>2 DEF CatalogInv, TaskFits
<1> QED BY <1>1, <1>3, <1>4, <1>5 DEF CatalogInv, CatalogSafety

LEMMA CreateCorrelationStep ==
  ASSUME CatalogInv, NEW g \in Tags, NEW h \in Tags, CreateCorrelation(g, h)
  PROVE  CatalogInv'
<1>1. g \in Nat /\ h \in Nat /\ g # h
  BY CatalogAssumption DEF CreateCorrelation
<1>2. PICK a \in Tags, b \in Tags : a < b /\ correlation' = correlation \cup {<<a, b>>}
  <2>1. CASE g > h
    BY <1>1, <2>1 DEF CreateCorrelation
  <2>2. CASE ~(g > h)
    BY <1>1, <2>2 DEF CreateCorrelation
  <2> QED BY <2>1, <2>2
<1>3. UNCHANGED <<product, tag, catalogTask, superseded, clobbered, dangling>>
  BY DEF CreateCorrelation
<1>4. correlation \subseteq Tags \X Tags /\ \A pair \in correlation : pair[1] < pair[2]
  BY DEF CatalogInv, CatalogSafety, CatalogTypes
<1>5. correlation' \subseteq Tags \X Tags /\ \A pair \in correlation' : pair[1] < pair[2]
  BY <1>2, <1>4
<1> QED BY <1>3, <1>5, CorrelationsMove

LEMMA CatalogNextKeeps == CatalogInv /\ [CatalogNext]_catalogVars => CatalogInv'
<1> SUFFICES ASSUME CatalogInv, [CatalogNext]_catalogVars PROVE CatalogInv'
  OBVIOUS
<1>1. correlation \subseteq Tags \X Tags /\ \A pair \in correlation : pair[1] < pair[2]
  BY DEF CatalogInv, CatalogSafety, CatalogTypes
<1>2. CASE UNCHANGED catalogVars
  BY <1>1, <1>2, CorrelationsMove DEF catalogVars
<1>3. ASSUME NEW pair \in correlation, DeleteCorrelation(pair) PROVE CatalogInv'
  BY <1>1, <1>3, CorrelationsMove DEF DeleteCorrelation
<1>4. ASSUME NEW t \in CatalogTasks, AbandonCatalog(t) PROVE CatalogInv'
  BY <1>4, CatalogRequestEnds DEF AbandonCatalog
<1> QED BY <1>2, <1>3, <1>4, CreateProductStep, UpdateProductStep, EnsureTagStep, RegisterTagStep,
           ResolveTagsStep, CommitProductStep, DeleteProductStep, SoftDeleteTagStep,
           CreateCorrelationStep
        DEF CatalogNext

------------------------------------------------------------------------------
(* What is listed of a product.  A SKU is taken once, by the first variant that    *)
(* has it, so that whatever is posted under it was mapped from that variant and    *)
(* its images are that variant's.                                                  *)

Variants == DOMAIN sheet.variants
SkuOf(i) == sheet.variants[i].sku
First(i) == \A j \in 1..(i - 1) : sheet.variants[j].sku # sheet.variants[i].sku

\* A request carries what may be listed of a variant and nothing else.
RequestFits(request, i) ==
    /\ \A n \in DOMAIN request.attributes :
         request.attributes[n].scope \in {"base", "variation", SkuOf(i)}
    /\ \A a \in request.kept : a.scope \notin KnownSkus
    /\ \A n \in {"Color", "Talla"} :
         Sources(sheet.variants[i], n) # {} =>
           /\ n \in DOMAIN request.attributes
           /\ request.attributes[n] \in Sources(sheet.variants[i], n)

ImagesOfVariant(i) == ImagesFor(ColorsOf(sheet.variants[i]))

\* What Seller Center shows of variant i when it is synced.
ShownSynced(i) ==
    /\ Posted(SkuOf(i))
    /\ {k \in ImageIds : Fits(sheet.images[k], ColorsOf(sheet.variants[i]))} # {} =>
         center[SkuOf(i)].images = ImagesOfVariant(i)

LEMMA SameSheet ==
  ASSUME sheet' = sheet
  PROVE  /\ Variants' = Variants /\ Size' = Size /\ KnownSkus' = KnownSkus /\ Bases' = Bases
         /\ \A i : SkuOf(i)' = SkuOf(i) /\ (First(i)' <=> First(i))
         /\ \A r, i : RequestFits(r, i)' <=> RequestFits(r, i)
         /\ \A i : ImagesOfVariant(i)' = ImagesOfVariant(i)
<1>1. Variants' = Variants /\ Size' = Size /\ KnownSkus' = KnownSkus
  BY DEF Variants, Size, KnownSkus
<1>2. Bases' = Bases
  BY DEF Bases, BaseWinners, NamesOf, Scoped
<1>3. \A i : SkuOf(i)' = SkuOf(i) /\ (First(i)' <=> First(i))
  BY DEF SkuOf, First
<1>4. \A r, i : RequestFits(r, i)' <=> RequestFits(r, i)
  BY <1>1, <1>3 DEF RequestFits, Sources, Scoped
<1>5. \A i : ImagesOfVariant(i)' = ImagesOfVariant(i)
  BY DEF ImagesOfVariant, ImagesFor, Before, Fits, ColorsOf
<1> QED BY <1>1, <1>2, <1>3, <1>4, <1>5

LEMMA ImagePositions ==
  sheet \in Listables => \A k \in ImageIds : sheet.images[k].position \in Nat
<1> SUFFICES ASSUME sheet \in Listables PROVE \A k \in ImageIds : sheet.images[k].position \in Nat
  OBVIOUS
<1>1. PICK s \in Listables : s = sheet
  OBVIOUS
<1> QED BY <1>1, FalabellaListingAssumption

\* Images are put in a strict order, each at a place of its own.
LEMMA ImagesAreSorted ==
  ASSUME sheet \in Listables, NEW colors, NEW fitting,
         fitting = {i \in ImageIds : Fits(sheet.images[i], colors)}
  PROVE  /\ DOMAIN ImagesFor(colors) = 1..Cardinality(fitting)
         /\ \A p \in DOMAIN ImagesFor(colors) : ImagesFor(colors)[p] \in fitting
         /\ \A p, q \in DOMAIN ImagesFor(colors) : p < q =>
              Before(ImagesFor(colors)[p], ImagesFor(colors)[q], colors)
<1> DEFINE place(i) == 1 + Cardinality({j \in fitting : Before(j, i, colors)})
           n == Cardinality(fitting)
<1>1. /\ ImageIds \subseteq Nat /\ fitting \subseteq ImageIds /\ IsFiniteSet(fitting)
      /\ \A i \in fitting : sheet.images[i].position \in Nat /\ i \in Nat
  <2>1. ImageIds \subseteq Nat /\ IsFiniteSet(ImageIds) /\ fitting \in SUBSET ImageIds
    BY FalabellaListingAssumption
  <2>2. IsFiniteSet(fitting)
    BY <2>1, FS_Subset
  <2> QED BY <2>1, <2>2, ImagePositions
<1>2. n \in Nat
  BY <1>1, FS_CardinalityType
<1>3. \A i, j, k \in fitting :
        /\ ~Before(i, i, colors)
        /\ Before(i, j, colors) /\ Before(j, k, colors) => Before(i, k, colors)
        /\ i # j => Before(i, j, colors) \/ Before(j, i, colors)
  BY <1>1 DEF Before
<1>4. \A i \in fitting : IsFiniteSet({j \in fitting : Before(j, i, colors)})
  BY <1>1, FS_Subset
<1>5. ASSUME NEW i \in fitting PROVE place(i) \in 1..n
  <2> DEFINE S == {j \in fitting : Before(j, i, colors)}
  <2>1. S \in SUBSET fitting /\ i \notin S
    BY <1>3
  <2>2. Cardinality(S) <= n /\ (Cardinality(S) = n => S = fitting) /\ Cardinality(S) \in Nat
    BY <1>1, <2>1, FS_Subset, FS_CardinalityType
  <2>3. Cardinality(S) # n
    BY <2>1, <2>2
  <2> QED BY <1>2, <2>2, <2>3
<1>6. ASSUME NEW i \in fitting, NEW k \in fitting, Before(i, k, colors)
      PROVE  place(i) < place(k)
  <2> DEFINE S == {j \in fitting : Before(j, i, colors)}
             T == {j \in fitting : Before(j, k, colors)}
  <2>1. S \in SUBSET T /\ i \in T /\ i \notin S
    BY <1>3, <1>6
  <2>2. /\ Cardinality(S) <= Cardinality(T) /\ (Cardinality(S) = Cardinality(T) => S = T)
        /\ Cardinality(S) \in Nat /\ Cardinality(T) \in Nat
    BY <1>4, <2>1, FS_Subset, FS_CardinalityType
  <2>3. Cardinality(S) < Cardinality(T)
    BY <2>1, <2>2
  <2> QED BY <2>2, <2>3
<1>7. \A i, k \in fitting : i # k => place(i) # place(k)
  <2> SUFFICES ASSUME NEW i \in fitting, NEW k \in fitting, i # k PROVE place(i) # place(k)
    OBVIOUS
  <2>1. place(i) \in 1..n /\ place(k) \in 1..n
    BY <1>5
  <2>2. place(i) < place(k) \/ place(k) < place(i)
    BY <1>3, <1>6
  <2> HIDE DEF place
  <2> QED BY <1>2, <2>1, <2>2
<1> DEFINE f == [i \in fitting |-> place(i)]
<1>8. \A p \in 1..n : \E i \in fitting : place(i) = p
  <2>1. \A i \in fitting : f[i] = place(i)
    OBVIOUS
  <2>2. f \in [fitting -> 1..n]
    BY <1>5
  <2> HIDE DEF f, place
  <2>3. f \in Injection(fitting, 1..n)
    BY <1>7, <2>1, <2>2 DEF Injection, IsInjective
  <2>4. IsFiniteSet(1..n) /\ Cardinality(1..n) = n
    BY <1>2, FS_Interval
  <2>5. f \in Surjection(fitting, 1..n)
    BY <2>3, <2>4, FS_Injection
  <2> QED BY <2>1, <2>5 DEF Surjection
<1>9. ImagesFor(colors) = [p \in 1..n |-> CHOOSE i \in fitting : place(i) = p]
  BY DEF ImagesFor
<1> HIDE DEF place, f
<1>10. \A p \in 1..n : ImagesFor(colors)[p] \in fitting /\ place(ImagesFor(colors)[p]) = p
  BY <1>8, <1>9
<1>11. ASSUME NEW p \in 1..n, NEW q \in 1..n, p < q
       PROVE  Before(ImagesFor(colors)[p], ImagesFor(colors)[q], colors)
  <2> DEFINE i == ImagesFor(colors)[p]
             k == ImagesFor(colors)[q]
  <2>1. i \in fitting /\ k \in fitting /\ place(i) = p /\ place(k) = q
    BY <1>10
  <2> HIDE DEF i, k
  <2>2. i # k /\ ~Before(k, i, colors)
    BY <1>2, <1>6, <1>11, <2>1
  <2>3. Before(i, k, colors)
    BY <1>3, <2>1, <2>2
  <2> QED BY <2>3 DEF i, k
<1> HIDE DEF n
<1>12. DOMAIN ImagesFor(colors) = 1..n
  BY <1>9
<1> QED BY <1>10, <1>11, <1>12 DEF n

\* The images of a variant are those for all and those of its color, in order.
LEMMA VariantImages ==
  ASSUME sheet \in Listables, NEW i \in Variants
  PROVE  /\ \A p \in DOMAIN ImagesOfVariant(i) :
              sheet.images[ImagesOfVariant(i)[p]].colors \in {{}, {sheet.variants[i].color}}
         /\ \A p, q \in DOMAIN ImagesOfVariant(i) : p < q =>
              /\ ImagesOfVariant(i)[p] # ImagesOfVariant(i)[q]
              /\ sheet.images[ImagesOfVariant(i)[p]].colors = {} =>
                   sheet.images[ImagesOfVariant(i)[q]].colors = {}
         /\ ImagesOfVariant(i) = <<>> =>
              {k \in ImageIds : Fits(sheet.images[k], ColorsOf(sheet.variants[i]))} = {}
<1> DEFINE colors == ColorsOf(sheet.variants[i])
           fitting == {k \in ImageIds : Fits(sheet.images[k], colors)}
           images == ImagesFor(colors)
<1>1. /\ DOMAIN images = 1..Cardinality(fitting) /\ \A p \in DOMAIN images : images[p] \in fitting
      /\ \A p, q \in DOMAIN images : p < q => Before(images[p], images[q], colors)
  BY ImagesAreSorted
<1>2. images = ImagesOfVariant(i)
  BY DEF ImagesOfVariant
<1>3. IsFiniteSet(fitting)
  BY FalabellaListingAssumption, FS_Subset
<1>4. \A k \in fitting : sheet.images[k].colors \subseteq colors
  BY DEF Fits
<1>5. \A k \in fitting : sheet.images[k].position \in Nat /\ k \in Nat
  BY ImagePositions, FalabellaListingAssumption
<1>6. \A j, k \in fitting : Before(j, k, colors) =>
        j # k /\ (sheet.images[j].colors = {} => sheet.images[k].colors = {})
  BY <1>4, <1>5 DEF Before
<1>7. images = <<>> => fitting = {}
  <2>1. images = <<>> => DOMAIN images = {}
    OBVIOUS
  <2>2. PICK n \in Nat : n = Cardinality(fitting)
    BY <1>3, FS_CardinalityType
  <2> HIDE DEF images
  <2>3. images = <<>> => 1..n = {}
    BY <1>1, <2>1, <2>2
  <2>4. images = <<>> => n = 0
    BY <2>3
  <2> QED BY <1>3, <2>2, <2>4, FS_EmptySet
<1> HIDE DEF images, fitting
<1>8. \A p \in DOMAIN images : sheet.images[images[p]].colors \in {{}, {sheet.variants[i].color}}
  BY <1>1, <1>4 DEF ColorsOf
<1>9. \A p, q \in DOMAIN images : p < q =>
        /\ images[p] # images[q]
        /\ sheet.images[images[p]].colors = {} => sheet.images[images[q]].colors = {}
  BY <1>1, <1>6
<1> QED BY <1>2, <1>7, <1>8, <1>9 DEF fitting

\* Color and basic color add to the attributes, and nothing of another origin.
LEMMA ColoredKeeps ==
  ASSUME NEW given
  PROVE  /\ DOMAIN given \subseteq DOMAIN Colored(given)
         /\ \A n \in DOMAIN given : Colored(given)[n] = given[n]
         /\ \A n \in DOMAIN Colored(given) : \E m \in DOMAIN given : Colored(given)[n] = given[m]
<1> DEFINE color == {"Color", "ColorBasico"} \cap DOMAIN given
           one == CHOOSE c \in color : TRUE
           both == [n \in {"Color", "ColorBasico"} |-> given[one]]
<1>1. CASE Cardinality(color) # 1
  BY <1>1 DEF Colored
<1>2. CASE Cardinality(color) = 1
  <2>1. color # {}
    BY <1>2, FS_EmptySet
  <2>2. one \in color
    BY <2>1
  <2>3. Colored(given) = Filled(given, both)
    BY <1>2 DEF Colored
  <2>4. DOMAIN both = {"Color", "ColorBasico"} /\ \A n \in DOMAIN both : both[n] = given[one]
    OBVIOUS
  <2>5. one \in DOMAIN given
    BY <2>2
  <2> HIDE DEF one, both, color
  <2>6. /\ DOMAIN Colored(given) = DOMAIN given \cup DOMAIN both
        /\ \A n \in DOMAIN Colored(given) :
             Colored(given)[n] = IF n \in DOMAIN given THEN given[n] ELSE both[n]
    BY <2>3 DEF Filled
  <2> QED BY <2>4, <2>5, <2>6
<1> QED BY <1>1, <1>2

\* What a variant is mapped to: its own attributes, its variation, the product's.
LEMMA MappedFits ==
  ASSUME sheet \in Listables, NEW i \in Variants, NEW base \in Bases,
         NEW attributes \in VariantAttributes(base, sheet.variants[i])
  PROVE  RequestFits(RequestOf(SkuOf(i), base, attributes, KnownSkus), i)
<1> DEFINE variant == sheet.variants[i]
           request == RequestOf(SkuOf(i), base, attributes, KnownSkus)
           color == [scope |-> "variation", key |-> variant.color]
<1>1. /\ DOMAIN base = NamesOf("base")
      /\ \A n \in NamesOf("base") : base[n] \in Scoped("base", n) /\ base[n].scope = "base"
  BY DEF Bases, BaseWinners, Scoped
<1>2. PICK own \in [NamesOf(variant.sku) -> sheet.attributes] :
        /\ \A n \in NamesOf(variant.sku) : own[n] \in Scoped(variant.sku, n)
        /\ attributes = Filled(own, Varied(base, variant))
  BY DEF VariantAttributes
<1>3. \A s, n : Scoped(s, n) # {} <=> n \in NamesOf(s)
  BY DEF Scoped, NamesOf
<1>4. /\ \A n \in DOMAIN Varied(base, variant) :
           Varied(base, variant)[n].scope \in {"base", "variation"}
      /\ \A n \in {"Color", "Talla"} :
           LET from == IF variant.color # None /\ n = "Color" THEN {color} ELSE Scoped("base", n)
           IN  from # {} => n \in DOMAIN Varied(base, variant) /\ Varied(base, variant)[n] \in from
  <2>1. CASE variant.color = None
    <3>1. Varied(base, variant) = base
      BY <2>1 DEF Varied
    <3> QED BY <1>1, <1>3, <2>1, <3>1
  <2>2. CASE variant.color # None
    <3> DEFINE basic == [n \in {"ColorBasico"} |-> color]
               named == [n \in {"Color"} |-> color]
               rest == Filled(base, basic)
    <3>1. Varied(base, variant) = Filled(named, rest)
      BY <2>2 DEF Varied
    <3>2. color.scope = "variation" /\ DOMAIN basic = {"ColorBasico"} /\ DOMAIN named = {"Color"}
          /\ basic["ColorBasico"] = color /\ named["Color"] = color
      OBVIOUS
    <3> HIDE DEF basic, named, color
    <3>3. /\ DOMAIN rest = NamesOf("base") \cup {"ColorBasico"}
          /\ \A n \in DOMAIN rest : rest[n] = IF n \in NamesOf("base") THEN base[n] ELSE basic[n]
      BY <1>1, <3>2 DEF Filled
    <3> HIDE DEF rest
    <3>4. /\ DOMAIN Varied(base, variant) = {"Color"} \cup DOMAIN rest
          /\ \A n \in DOMAIN Varied(base, variant) :
               Varied(base, variant)[n] = IF n = "Color" THEN color ELSE rest[n]
      BY <3>1, <3>2 DEF Filled
    <3>5. \A n \in DOMAIN Varied(base, variant) :
            Varied(base, variant)[n].scope \in {"base", "variation"}
      BY <1>1, <3>2, <3>3, <3>4
    <3>6. "Color" \in DOMAIN Varied(base, variant) /\ Varied(base, variant)["Color"] = color
      BY <3>4
    <3>7. Scoped("base", "Talla") # {} =>
            /\ "Talla" \in DOMAIN Varied(base, variant)
            /\ Varied(base, variant)["Talla"] \in Scoped("base", "Talla")
      BY <1>1, <1>3, <3>3, <3>4
    <3> QED BY <2>2, <3>5, <3>6, <3>7
  <2> QED BY <2>1, <2>2
<1> HIDE DEF color
<1>5. /\ DOMAIN attributes = NamesOf(variant.sku) \cup DOMAIN Varied(base, variant)
      /\ \A n \in DOMAIN attributes :
           attributes[n] = IF n \in NamesOf(variant.sku) THEN own[n] ELSE Varied(base, variant)[n]
  BY <1>2 DEF Filled
<1>6. \A n \in NamesOf(variant.sku) : own[n].scope = variant.sku
  BY <1>2 DEF Scoped
<1>7. \A n \in DOMAIN attributes : attributes[n].scope \in {"base", "variation", variant.sku}
  BY <1>4, <1>5, <1>6
<1>8. request.attributes = Colored(attributes) /\ request.kept = Kept(KnownSkus)
  BY DEF RequestOf
<1> HIDE DEF request
<1>9. \A n \in DOMAIN request.attributes :
        request.attributes[n].scope \in {"base", "variation", SkuOf(i)}
  BY <1>7, <1>8, ColoredKeeps DEF SkuOf
<1>10. \A a \in request.kept : a.scope \notin KnownSkus
  BY <1>8 DEF Kept
<1>11. ASSUME NEW n \in {"Color", "Talla"}, Sources(variant, n) # {}
       PROVE  n \in DOMAIN request.attributes /\ request.attributes[n] \in Sources(variant, n)
  <2>1. n \in DOMAIN attributes /\ attributes[n] \in Sources(variant, n)
    <3>1. CASE n \in NamesOf(variant.sku)
      BY <1>2, <1>3, <1>5, <3>1 DEF Sources
    <3>2. CASE n \notin NamesOf(variant.sku)
      BY <1>3, <1>4, <1>5, <1>11, <3>2 DEF Sources, color
    <3> QED BY <3>1, <3>2
  <2> QED BY <1>8, <2>1, ColoredKeeps
<1> QED BY <1>9, <1>10, <1>11 DEF RequestFits, request

ListStages == {"idle", "item", "ask", "askParent", "build", "post", "images", "over"}
ListResults == {"failed", "skipped", "synced"}
Underway == list.at \in {"ask", "askParent", "build", "post", "images"}

ListTypes ==
    /\ sheet \in Listables
    /\ list = [at |-> list.at, item |-> list.item, base |-> list.base, request |-> list.request,
               update |-> list.update, profile |-> list.profile, seen |-> list.seen,
               results |-> list.results]
    /\ list.at \in ListStages /\ list.item \in Nat /\ list.results \in Seq(ListResults)
    /\ center = [s \in DOMAIN center |->
                   [request |-> center[s].request, images |-> center[s].images]]

\* One result for every item gone through.
ListInOrder ==
    /\ list.at = "idle" => list.item = 0 /\ list.results = <<>> /\ list.seen = {}
    /\ list.at \notin {"idle", "over"} =>
         list.item \in 1..Size /\ Len(list.results) = list.item - 1 /\ list.base \in Bases
    /\ list.at = "over" /\ list.item > 0 => Len(list.results) = Size

\* The item under way is the first of its SKU, and its request is that variant's.
ItemIsFirst ==
    /\ list.at \notin {"idle", "over"} =>
         \A j \in Variants : j < list.item \/ (j = list.item /\ Underway) => SkuOf(j) \in list.seen
    /\ Underway =>
         /\ list.request # <<>>
         /\ Variants # {} =>
              /\ list.request.sku = SkuOf(list.item) /\ First(list.item)
              /\ RequestFits(list.request, list.item)

\* Nothing is posted under a SKU before it is taken and its payload looked at.
PostedInOrder ==
    /\ \A s \in DOMAIN center : Posted(s) =>
         IF Variants = {} THEN list.at \in {"post", "images", "over"} ELSE s \in list.seen
    /\ list.at \in {"ask", "askParent", "build"} => ~Posted(list.request.sku)
    /\ list.at \in {"post", "images"} =>
         /\ IsPayload(list.request, list.update)
         /\ Posted(list.request.sku) => center[list.request.sku].request = list.request
    /\ list.at = "images" => Posted(list.request.sku)

CenterFits ==
    \A i \in Variants : First(i) /\ SkuOf(i) \in DOMAIN center =>
      /\ Posted(SkuOf(i)) => RequestFits(center[SkuOf(i)].request, i)
      /\ center[SkuOf(i)].images \in {<<>>, ImagesOfVariant(i)}

SyncedAreListed ==
    list.item > 0 => \A i \in Variants \cap DOMAIN list.results :
                       list.results[i] = "synced" => ShownSynced(i)

ListingInv ==
    /\ ListTypes /\ ListInOrder /\ ItemIsFirst /\ PostedInOrder /\ CenterFits
    /\ SyncedAreListed

\* What a step leaves of Seller Center, for the item under way and those before it.
CenterGoesOn ==
    /\ center' = [s \in DOMAIN center' |->
                    [request |-> center'[s].request, images |-> center'[s].images]]
    /\ CenterFits'
    /\ \A s \in DOMAIN center' :
         Posted(s)' => Posted(s) \/ (list.at \in {"post", "images"} /\ s = list.request.sku)
    /\ list.at \in {"post", "images"} =>
         \A s : s = list.request.sku /\ Posted(s)' => center'[s].request = list.request
    /\ list.at = "images" => \A s : s = list.request.sku => Posted(s)'
    /\ \A i \in Variants \cap DOMAIN list.results :
         list.results[i] = "synced" => ShownSynced(i)'

LEMMA FitsStay ==
  ASSUME CenterFits, sheet' = sheet, center' = center
  PROVE  CenterFits' /\ \A i : ShownSynced(i)' <=> ShownSynced(i)
<1>1. /\ Variants' = Variants /\ \A i : SkuOf(i)' = SkuOf(i) /\ (First(i)' <=> First(i))
      /\ \A r, i : RequestFits(r, i)' <=> RequestFits(r, i)
      /\ \A i : ImagesOfVariant(i)' = ImagesOfVariant(i)
  BY SameSheet
<1>2. CenterFits'
  <2> SUFFICES ASSUME NEW i \in Variants', First(i)', SkuOf(i)' \in DOMAIN center'
               PROVE  /\ Posted(SkuOf(i))' => RequestFits(center[SkuOf(i)].request, i)'
                      /\ center'[SkuOf(i)'].images \in {<<>>, ImagesOfVariant(i)'}
    BY DEF CenterFits
  <2>1. i \in Variants /\ First(i) /\ SkuOf(i) \in DOMAIN center
    BY <1>1
  <2>2. Posted(SkuOf(i))' <=> Posted(SkuOf(i))
    BY <1>1 DEF Posted
  <2>3. center'[SkuOf(i)'] = center[SkuOf(i)]
    BY <1>1
  <2>4. RequestFits(center[SkuOf(i)].request, i)' <=> RequestFits(center[SkuOf(i)].request, i)
    <3>1. PICK s : s = SkuOf(i)
      OBVIOUS
    <3> QED BY <1>1, <2>3 DEF RequestFits, KnownSkus, Sources, Scoped
  <2> QED BY <1>1, <2>1, <2>2, <2>3, <2>4 DEF CenterFits
<1>3. \A i : ShownSynced(i)' <=> ShownSynced(i)
  BY <1>1 DEF ShownSynced, Posted, Fits, ColorsOf
<1> QED BY <1>2, <1>3

LEMMA CenterStays ==
  ASSUME ListingInv, list.at # "over", sheet' = sheet, center' = center
  PROVE  CenterGoesOn
<1>1. CenterFits' /\ \A i : ShownSynced(i)' <=> ShownSynced(i)
  BY FitsStay DEF ListingInv
<1>2. \A s : Posted(s)' <=> Posted(s)
  BY DEF Posted
<1>3. list.item > 0 \/ DOMAIN list.results = {}
  BY DEF ListingInv, ListInOrder, ListTypes
<1> QED BY <1>1, <1>2, <1>3
        DEF CenterGoesOn, ListingInv, ListTypes, PostedInOrder, SyncedAreListed

LEMMA VariantsInARow ==
  ASSUME sheet \in Listables
  PROVE  /\ Size \in Nat \ {0}
         /\ Variants = {} <=> sheet.variants = <<>>
         /\ Variants # {} => Variants = 1..Size
         /\ Variants = {} => Size = 1
<1>1. PICK s \in Listables : s = sheet
  OBVIOUS
<1>2. s.variants \in Seq({s.variants[i] : i \in DOMAIN s.variants})
  BY FalabellaListingAssumption
<1>3. PICK v : v = sheet.variants
  OBVIOUS
<1>4. Len(v) \in Nat /\ DOMAIN v = 1..Len(v) /\ (v = <<>> <=> Len(v) = 0)
  <2>1. PICK S : v \in Seq(S)
    BY <1>1, <1>2, <1>3, SMTT(30)
  <2> QED BY <2>1, LenProperties, EmptySeq
<1>5. PICK n \in Nat : n = Len(v)
  BY <1>4
<1>6. Variants = 1..n /\ (sheet.variants = <<>> <=> n = 0) /\ Len(sheet.variants) = n
  BY <1>3, <1>4, <1>5 DEF Variants
<1>7. Size = (IF n = 0 THEN 1 ELSE n)
  BY <1>6 DEF Size
<1>8. 1..n = {} <=> n = 0
  OBVIOUS
<1> QED BY <1>6, <1>7, <1>8

\* Two variants that are first of their SKU are one.
LEMMA FirstIsOne ==
  ASSUME sheet \in Listables, NEW i \in Variants, NEW j \in Variants, First(i), First(j),
         SkuOf(i) = SkuOf(j)
  PROVE  i = j
<1>1. i \in Nat \ {0} /\ j \in Nat \ {0}
  BY VariantsInARow
<1>2. CASE i < j
  BY <1>1, <1>2 DEF First, SkuOf
<1>3. CASE j < i
  BY <1>1, <1>3 DEF First, SkuOf
<1> QED BY <1>1, <1>2, <1>3

LEMMA CenterWrites ==
  ASSUME ListingInv, list.at \in {"post", "images"}, sheet' = sheet,
         NEW sku, sku = list.request.sku,
         NEW entry, entry.request = list.request,
         entry = [request |-> entry.request, images |-> entry.images],
         Variants # {} => entry.images \in {<<>>, ImagesOfVariant(list.item)},
         center' = [s \in DOMAIN center \cup {sku} |-> IF s = sku THEN entry ELSE center[s]]
  PROVE  CenterGoesOn
<1>1. /\ Variants' = Variants /\ \A i : SkuOf(i)' = SkuOf(i) /\ (First(i)' <=> First(i))
      /\ \A r, i : RequestFits(r, i)' <=> RequestFits(r, i)
      /\ \A i : ImagesOfVariant(i)' = ImagesOfVariant(i)
  BY SameSheet
<1>2. /\ DOMAIN center' = DOMAIN center \cup {sku} /\ center'[sku] = entry
      /\ \A s \in DOMAIN center \ {sku} : center'[s] = center[s]
  OBVIOUS
<1>3. /\ Underway /\ list.request # <<>> /\ sheet \in Listables
      /\ list.item \in Nat \ {0} /\ Len(list.results) = list.item - 1
      /\ list.results \in Seq(ListResults)
  <2>1. Underway /\ sheet \in Listables /\ list.at \notin {"idle", "over"}
    BY DEF Underway, ListingInv, ListTypes
  <2> QED BY <2>1, VariantsInARow DEF ListingInv, ListTypes, ListInOrder, ItemIsFirst
<1>4. Variants # {} => /\ list.item \in Variants /\ sku = SkuOf(list.item) /\ First(list.item)
                       /\ RequestFits(list.request, list.item)
  BY <1>3, VariantsInARow DEF ListingInv, ListInOrder, ItemIsFirst
<1>5. \A s : Posted(s)' <=> (IF s = sku THEN TRUE ELSE Posted(s))
  BY <1>2, <1>3 DEF Posted
<1>6. CenterFits'
  <2> SUFFICES ASSUME NEW i \in Variants', First(i)', SkuOf(i)' \in DOMAIN center'
               PROVE  /\ Posted(SkuOf(i))' => RequestFits(center[SkuOf(i)].request, i)'
                      /\ center'[SkuOf(i)'].images \in {<<>>, ImagesOfVariant(i)'}
    BY DEF CenterFits
  <2>1. i \in Variants /\ First(i)
    BY <1>1
  <2>2. CASE SkuOf(i) = sku
    <3>1. i = list.item
      BY <1>3, <1>4, <2>1, <2>2, FirstIsOne
    <3>2. center'[SkuOf(i)'] = entry
      BY <1>1, <1>2, <2>2
    <3>3. RequestFits(list.request, i)
      BY <1>4, <2>1, <3>1
    <3>4. RequestFits(center[SkuOf(i)].request, i)' <=> RequestFits(list.request, i)
      <4>1. PICK r : r = center'[SkuOf(i)'].request
        OBVIOUS
      <4>2. RequestFits(center[SkuOf(i)].request, i)' <=> RequestFits(r, i)'
        BY <4>1 DEF RequestFits
      <4> QED BY <1>1, <3>2, <4>1, <4>2
    <3> QED BY <1>1, <2>1, <3>1, <3>2, <3>3, <3>4
  <2>3. CASE SkuOf(i) # sku
    <3>1. center'[SkuOf(i)'] = center[SkuOf(i)] /\ SkuOf(i) \in DOMAIN center
      BY <1>1, <1>2, <2>3
    <3>2. Posted(SkuOf(i))' <=> Posted(SkuOf(i))
      BY <1>1, <3>1 DEF Posted
    <3>3. RequestFits(center[SkuOf(i)].request, i)' <=> RequestFits(center[SkuOf(i)].request, i)
      <4>1. PICK r : r = center'[SkuOf(i)'].request
        OBVIOUS
      <4>2. RequestFits(center[SkuOf(i)].request, i)' <=> RequestFits(r, i)'
        BY <4>1 DEF RequestFits
      <4> QED BY <1>1, <3>1, <4>1, <4>2
    <3> QED BY <1>1, <2>1, <3>1, <3>2, <3>3 DEF ListingInv, CenterFits
  <2> QED BY <2>2, <2>3
<1>7. ASSUME NEW i \in Variants \cap DOMAIN list.results, list.results[i] = "synced"
      PROVE  ShownSynced(i)'
  <2>1. PICK m \in Nat : m = list.item
    BY <1>3
  <2>2. i \in 1..(m - 1) /\ First(m) /\ sku = SkuOf(m)
    BY <1>3, <1>4, <2>1, LenProperties
  <2>3. SkuOf(i) # sku
    BY <2>2 DEF First, SkuOf
  <2>4. ShownSynced(i)
    BY <1>3, <1>7 DEF ListingInv, SyncedAreListed
  <2>5. SkuOf(i) \in DOMAIN center /\ center'[SkuOf(i)'] = center[SkuOf(i)]
    BY <1>1, <1>2, <2>3, <2>4 DEF ShownSynced, Posted
  <2> QED BY <1>1, <1>2, <2>4, <2>5 DEF ShownSynced, Posted, Fits, ColorsOf
<1>8. center' = [s \in DOMAIN center' |->
                   [request |-> center'[s].request, images |-> center'[s].images]]
  <2>1. \A s \in DOMAIN center :
          center[s] = [request |-> center[s].request, images |-> center[s].images]
    BY DEF ListingInv, ListTypes
  <2>2. \A s \in DOMAIN center' :
          center'[s] = [request |-> center'[s].request, images |-> center'[s].images]
    BY <1>2, <2>1
  <2>3. center' = [s \in DOMAIN center' |-> center'[s]]
    OBVIOUS
  <2> QED BY <2>2, <2>3, ZenonT(60)
<1> QED BY <1>2, <1>5, <1>6, <1>7, <1>8 DEF CenterGoesOn

\* Of an answer: the request was carried out and the item goes on, or whatever became
\* of it the next profile is tried or the item fails.
LEMMA CallOutcomes ==
  ASSUME NEW done, NEW next, Call(done, next)
  PROVE  \/ center' = done /\ list' = [next EXCEPT !.profile = 1]
         \/ /\ center' = center \/ center' = done
            /\ \/ list' = [list EXCEPT !.profile = @ + 1]
               \/ list' = Ended("failed")
<1>1. ASSUME NEW answer \in Answer, Verdict(answer) = "good",
             center' \in IF Verdict(answer) = "good" THEN {done}
                         ELSE IF Done(answer) THEN {center, done} ELSE {center},
             list' = CASE Verdict(answer) = "good" -> [next EXCEPT !.profile = 1]
                       [] Verdict(answer) = "next" /\ list.profile < MaxProfiles ->
                            [list EXCEPT !.profile = @ + 1]
                       [] OTHER -> Ended("failed")
      PROVE  center' = done /\ list' = [next EXCEPT !.profile = 1]
  BY <1>1
<1>2. ASSUME NEW answer \in Answer, Verdict(answer) # "good",
             center' \in IF Verdict(answer) = "good" THEN {done}
                         ELSE IF Done(answer) THEN {center, done} ELSE {center},
             list' = CASE Verdict(answer) = "good" -> [next EXCEPT !.profile = 1]
                       [] Verdict(answer) = "next" /\ list.profile < MaxProfiles ->
                            [list EXCEPT !.profile = @ + 1]
                       [] OTHER -> Ended("failed")
      PROVE  /\ center' = center \/ center' = done
             /\ \/ list' = [list EXCEPT !.profile = @ + 1]
                \/ list' = Ended("failed")
  BY <1>2
<1> QED BY <1>1, <1>2 DEF Call

LEMMA ItemEnds ==
  ASSUME ListingInv, list.at \notin {"idle", "over"}, sheet' = sheet, CenterGoesOn,
         NEW result \in ListResults,
         list' = Ended(result) \/ list' = [Ended(result) EXCEPT !.profile = 1],
         list.at = "item" => Variants # {} /\ SkuOf(list.item) \in list.seen,
         result = "synced" => \A i \in Variants : i = list.item => ShownSynced(i)'
  PROVE  ListingInv'
<1>1. /\ Variants' = Variants /\ Size' = Size /\ Bases' = Bases
      /\ \A i : SkuOf(i)' = SkuOf(i)
  BY SameSheet
<1>2. /\ sheet \in Listables /\ list.item \in 1..Size /\ Len(list.results) = list.item - 1
      /\ list.base \in Bases /\ list.results \in Seq(ListResults)
  BY DEF ListingInv, ListTypes, ListInOrder
<1>3. PICK m \in Nat, n \in Nat : m = list.item /\ n = Size /\ m \in 1..n
  BY <1>2, VariantsInARow
<1>4. PICK q : q = Append(list.results, result)
  OBVIOUS
<1>5. /\ q \in Seq(ListResults) /\ Len(q) = m /\ DOMAIN q = 1..m
      /\ q[m] = result /\ \A i \in 1..(m - 1) : q[i] = list.results[i]
      /\ DOMAIN list.results = 1..(m - 1)
  <2>1. Len(list.results) = m - 1
    BY <1>2, <1>3
  <2> QED BY <1>2, <1>3, <1>4, <2>1, AppendProperties, LenProperties
<1>6. CASE m < n
  <2>1. Ended(result) = [list EXCEPT !.at = "item", !.item = m + 1, !.request = <<>>,
                                     !.update = FALSE, !.profile = 1, !.results = q]
    BY <1>3, <1>4, <1>6 DEF Ended
  <2>2. list' = [at |-> "item", item |-> m + 1, base |-> list.base, request |-> <<>>,
                 update |-> FALSE, profile |-> 1, seen |-> list.seen, results |-> q]
    BY <2>1, ZenonT(60) DEF ListingInv, ListTypes
  <2>3. /\ list'.at = "item" /\ list'.item = m + 1 /\ list'.base = list.base
        /\ list'.seen = list.seen /\ list'.results = q
        /\ list' = [at |-> list'.at, item |-> list'.item, base |-> list'.base,
                    request |-> list'.request, update |-> list'.update,
                    profile |-> list'.profile, seen |-> list'.seen, results |-> list'.results]
    BY <2>2
  <2>4. ListTypes'
    BY <1>2, <1>5, <2>3 DEF ListTypes, ListStages, CenterGoesOn
  <2>5. ListInOrder'
    BY <1>1, <1>2, <1>3, <1>5, <1>6, <2>3 DEF ListInOrder
  <2>6. Variants = 1..n
    BY <1>2, <1>3, <1>6, VariantsInARow
  <2>7. \A j \in 1..m : SkuOf(j) \in list.seen
    <3>1. \A j \in 1..m : j < m \/ (j = m /\ (Underway \/ list.at = "item"))
      BY DEF ListingInv, ListTypes, ListStages, Underway
    <3> QED BY <1>3, <2>6, <3>1 DEF ListingInv, ItemIsFirst
  <2>8. ItemIsFirst'
    <3>1. ~Underway'
      BY <2>3 DEF Underway
    <3>2. \A j \in 1..n : j < m + 1 => SkuOf(j) \in list.seen
      BY <1>3, <2>7
    <3> QED BY <1>1, <1>3, <2>3, <2>6, <3>1, <3>2 DEF ItemIsFirst
  <2>9. PostedInOrder'
    <3>1. ASSUME NEW s \in DOMAIN center', Posted(s)' PROVE s \in list.seen
      <4>1. CASE Posted(s)
        BY <2>6, <1>3, <4>1 DEF ListingInv, PostedInOrder, Posted
      <4>2. CASE list.at \in {"post", "images"} /\ s = list.request.sku
        <5>1. s = SkuOf(m)
          BY <1>3, <2>6, <4>2 DEF ListingInv, ItemIsFirst, Underway
        <5> QED BY <1>3, <2>7, <5>1
      <4> QED BY <3>1, <4>1, <4>2 DEF CenterGoesOn
    <3> QED BY <1>1, <1>3, <2>3, <2>6, <3>1 DEF PostedInOrder
  <2>10. SyncedAreListed'
    <3> SUFFICES ASSUME NEW i \in Variants, i \in DOMAIN q, q[i] = "synced"
                 PROVE  ShownSynced(i)'
      BY <1>1, <2>3 DEF SyncedAreListed
    <3>1. CASE i = m
      BY <1>3, <1>5, <3>1
    <3>2. CASE i # m
      <4>1. i \in 1..(m - 1)
        BY <1>3, <1>5, <3>2
      <4> QED BY <1>5, <4>1 DEF CenterGoesOn
    <3> QED BY <3>1, <3>2
  <2> QED BY <2>4, <2>5, <2>8, <2>9, <2>10 DEF ListingInv, CenterGoesOn
<1>7. CASE ~(m < n)
  <2>1. Ended(result) = [list EXCEPT !.at = "over", !.results = q]
    BY <1>3, <1>4, <1>7 DEF Ended
  <2>2. \E profile \in {1, list.profile} :
          list' = [at |-> "over", item |-> m, base |-> list.base, request |-> list.request,
                   update |-> list.update, profile |-> profile, seen |-> list.seen,
                   results |-> q]
    BY <1>3, <2>1, ZenonT(60) DEF ListingInv, ListTypes
  <2>3. /\ list'.at = "over" /\ list'.item = m /\ list'.seen = list.seen /\ list'.results = q
        /\ list' = [at |-> list'.at, item |-> list'.item, base |-> list'.base,
                    request |-> list'.request, update |-> list'.update,
                    profile |-> list'.profile, seen |-> list'.seen, results |-> list'.results]
    BY <2>2
  <2>4. ListTypes'
    BY <1>2, <1>5, <2>3 DEF ListTypes, ListStages, CenterGoesOn
  <2>5. ListInOrder'
    BY <1>1, <1>2, <1>3, <1>5, <1>7, <2>3 DEF ListInOrder
  <2>6. ItemIsFirst'
    BY <2>3 DEF ItemIsFirst, Underway
  <2>7. PostedInOrder'
    <3>1. ASSUME NEW s \in DOMAIN center', Posted(s)', Variants # {} PROVE s \in list.seen
      <4>1. CASE Posted(s)
        BY <3>1, <4>1 DEF ListingInv, PostedInOrder, Posted
      <4>2. CASE list.at \in {"post", "images"} /\ s = list.request.sku
        <5>1. s = SkuOf(m) /\ Underway /\ m \in Variants
          BY <1>2, <1>3, <3>1, <4>2, VariantsInARow DEF ListingInv, ItemIsFirst, Underway
        <5> QED BY <1>3, <5>1 DEF ListingInv, ItemIsFirst
      <4> QED BY <3>1, <4>1, <4>2 DEF CenterGoesOn
    <3> QED BY <1>1, <2>3, <3>1 DEF PostedInOrder
  <2>8. SyncedAreListed'
    <3> SUFFICES ASSUME NEW i \in Variants, i \in DOMAIN q, q[i] = "synced"
                 PROVE  ShownSynced(i)'
      BY <1>1, <2>3 DEF SyncedAreListed
    <3>1. CASE i = m
      BY <1>3, <1>5, <3>1
    <3>2. CASE i # m
      <4>1. i \in 1..(m - 1)
        BY <1>3, <1>5, <3>2
      <4> QED BY <1>5, <4>1 DEF CenterGoesOn
    <3> QED BY <3>1, <3>2
  <2> QED BY <2>4, <2>5, <2>6, <2>7, <2>8 DEF ListingInv, CenterGoesOn
<1> QED BY <1>6, <1>7

LEMMA ItemGoesOn ==
  ASSUME ListingInv, Underway, sheet' = sheet, CenterGoesOn,
         NEW stage \in {"ask", "askParent", "build", "post", "images"}, NEW update, NEW profile,
         list' = [list EXCEPT !.at = stage, !.update = update, !.profile = profile],
         list.at \in {"ask", "askParent", "build"} /\ stage \notin {"ask", "askParent", "build"} =>
           stage = "post" /\ IsPayload(list.request, update),
         list.at \in {"post", "images"} => update = list.update /\ stage \in {"post", "images"},
         stage = "images" => \A s : s = list.request.sku => Posted(s)'
  PROVE  ListingInv'
<1>1. /\ Variants' = Variants /\ Size' = Size /\ Bases' = Bases
      /\ \A i : SkuOf(i)' = SkuOf(i) /\ (First(i)' <=> First(i))
      /\ \A r, i : RequestFits(r, i)' <=> RequestFits(r, i)
  BY SameSheet
<1>2. list' = [at |-> stage, item |-> list.item, base |-> list.base, request |-> list.request,
               update |-> update, profile |-> profile, seen |-> list.seen,
               results |-> list.results]
  BY DEF ListingInv, ListTypes
<1>3. /\ list'.at = stage /\ list'.item = list.item /\ list'.base = list.base
      /\ list'.request = list.request /\ list'.update = update
      /\ list'.seen = list.seen /\ list'.results = list.results
      /\ list' = [at |-> list'.at, item |-> list'.item, base |-> list'.base,
                  request |-> list'.request, update |-> list'.update,
                  profile |-> list'.profile, seen |-> list'.seen, results |-> list'.results]
  BY <1>2
<1>4. list.at \notin {"idle", "over"} /\ list'.at \notin {"idle", "over"} /\ Underway'
  BY <1>3 DEF Underway
<1>5. ListTypes'
  BY <1>3 DEF ListingInv, ListTypes, ListStages, CenterGoesOn
<1>6. ListInOrder'
  BY <1>1, <1>3, <1>4 DEF ListingInv, ListInOrder
<1>7. ItemIsFirst'
  <2>1. \A j \in Variants : j < list.item \/ j = list.item => SkuOf(j) \in list.seen
    BY <1>4 DEF ListingInv, ItemIsFirst
  <2>2. Variants # {} =>
          /\ list.request.sku = SkuOf(list.item) /\ First(list.item)
          /\ RequestFits(list.request, list.item)
    BY DEF ListingInv, ItemIsFirst
  <2>3. Variants # {} => list'.request.sku = SkuOf(list.item)' /\ First(list.item)'
    <3>1. PICK m : m = list.item
      OBVIOUS
    <3>2. SkuOf(list.item)' = SkuOf(m)' /\ (First(list.item)' <=> First(m)')
      BY <1>3, <3>1 DEF SkuOf, First
    <3> QED BY <1>1, <1>3, <2>2, <3>1, <3>2
  <2>4. Variants # {} => RequestFits(list.request, list.item)'
    <3>1. PICK m, r : m = list.item /\ r = list.request
      OBVIOUS
    <3>2. RequestFits(list.request, list.item)' <=> RequestFits(r, m)'
      BY <1>3, <3>1 DEF RequestFits, SkuOf
    <3> QED BY <1>1, <2>2, <3>1, <3>2
  <2>5. list'.request # <<>>
    BY <1>3 DEF ListingInv, ItemIsFirst
  <2> QED BY <1>1, <1>3, <2>1, <2>3, <2>4, <2>5 DEF ItemIsFirst
<1>8. PICK sku : sku = list.request.sku
  OBVIOUS
<1>9. Posted(list.request.sku)' <=> Posted(sku)'
  BY <1>3, <1>8 DEF Posted
<1>10. \A s \in DOMAIN center' : Posted(s)' =>
         IF Variants = {} THEN list'.at \in {"post", "images", "over"} ELSE s \in list.seen
  <2> SUFFICES ASSUME NEW s \in DOMAIN center', Posted(s)'
               PROVE  IF Variants = {} THEN stage \in {"post", "images"} ELSE s \in list.seen
    BY <1>3
  <2>1. CASE Variants = {}
    BY <1>4, <2>1 DEF ListingInv, PostedInOrder, Posted, CenterGoesOn, Underway
  <2>2. CASE Variants # {}
    <3>1. sheet \in Listables /\ list.item \in Variants /\ sku = SkuOf(list.item)
      BY <1>4, <1>8, <2>2, VariantsInARow DEF ListingInv, ListTypes, ListInOrder, ItemIsFirst
    <3>2. sku \in list.seen
      BY <1>4, <3>1 DEF ListingInv, ItemIsFirst
    <3> QED BY <1>8, <2>2, <3>2 DEF ListingInv, PostedInOrder, Posted, CenterGoesOn
  <2> QED BY <2>1, <2>2
<1>11. list.at \in {"ask", "askParent", "build"} => ~Posted(sku)'
  BY <1>8 DEF ListingInv, PostedInOrder, CenterGoesOn, Posted
<1>12. stage \in {"ask", "askParent", "build"} => ~Posted(sku)'
  BY <1>11 DEF Underway
<1>13. stage \in {"post", "images"} =>
         /\ IsPayload(list.request, update)
         /\ Posted(sku)' => center'[sku].request = list.request
  <2>1. CASE list.at \in {"ask", "askParent", "build"}
    BY <1>11, <2>1
  <2>2. CASE list.at \in {"post", "images"}
    BY <1>8, <2>2 DEF ListingInv, PostedInOrder, CenterGoesOn
  <2> QED BY <2>1, <2>2 DEF Underway
<1>14. PostedInOrder'
  <2>1. IsPayload(list.request, list.update)' <=> IsPayload(list.request, update)
    BY <1>3 DEF IsPayload
  <2> QED BY <1>1, <1>3, <1>8, <1>9, <1>10, <1>12, <1>13, <2>1 DEF PostedInOrder
<1>15. SyncedAreListed'
  BY <1>1, <1>3 DEF SyncedAreListed, CenterGoesOn
<1> QED BY <1>5, <1>6, <1>7, <1>14, <1>15 DEF ListingInv, CenterGoesOn

\* The next profile is tried.
LEMMA ProfileTried ==
  ASSUME ListingInv, Underway, sheet' = sheet, CenterGoesOn,
         list' = [list EXCEPT !.profile = @ + 1]
  PROVE  ListingInv'
<1>1. PICK stage \in {"ask", "askParent", "build", "post", "images"} : stage = list.at
  BY DEF Underway
<1>2. PICK profile : profile = list.profile + 1
  OBVIOUS
<1>3. list' = [list EXCEPT !.at = stage, !.update = list.update, !.profile = profile]
  BY <1>1, <1>2 DEF ListingInv, ListTypes
<1>4. stage = "images" => \A s : s = list.request.sku => Posted(s)'
  BY <1>1 DEF CenterGoesOn
<1> QED BY <1>1, <1>3, <1>4, ItemGoesOn

LEMMA ListingStart == ListingInit => ListingInv
<1> SUFFICES ASSUME ListingInit PROVE ListingInv
  OBVIOUS
<1>1. PICK skus : center = [s \in skus |-> [request |-> <<>>, images |-> <<>>]]
  BY DEF ListingInit
<1>2. /\ list = [at |-> "idle", item |-> 0, base |-> <<>>, request |-> <<>>, update |-> FALSE,
                 profile |-> 1, seen |-> {}, results |-> <<>>]
      /\ sheet \in Listables
  BY DEF ListingInit, NoList
<1>3. list.at = "idle" /\ list.item = 0 /\ list.results = <<>> /\ list.seen = {} /\ ~Underway
  BY <1>2 DEF Underway
<1>4. \A s \in DOMAIN center : center[s] = [request |-> <<>>, images |-> <<>>]
  BY <1>1
<1>5. \A s : ~Posted(s)
  BY <1>4 DEF Posted
<1>6. list.results \in Seq(ListResults)
  BY <1>3
<1>7. ListTypes
  <2>1. list = [at |-> list.at, item |-> list.item, base |-> list.base, request |-> list.request,
                update |-> list.update, profile |-> list.profile, seen |-> list.seen,
                results |-> list.results]
    BY <1>2
  <2>2. center = [s \in DOMAIN center |->
                    [request |-> center[s].request, images |-> center[s].images]]
    BY <1>1
  <2> QED BY <1>2, <1>3, <1>6, <2>1, <2>2 DEF ListTypes, ListStages
<1>8. ListInOrder /\ ItemIsFirst /\ SyncedAreListed
  BY <1>3 DEF ListInOrder, ItemIsFirst, SyncedAreListed
<1>9. PostedInOrder
  BY <1>3, <1>5 DEF PostedInOrder
<1>10. CenterFits
  BY <1>4, <1>5 DEF CenterFits
<1> QED BY <1>7, <1>8, <1>9, <1>10 DEF ListingInv

\* The datasheet is resolved, or nothing is done for the product.
LEMMA StartListingStep ==
  ASSUME ListingInv, StartListing
  PROVE  ListingInv'
<1>1. /\ sheet' = sheet /\ center' = center /\ list.at = "idle" /\ sheet \in Listables
      /\ list.seen = {}
  BY DEF StartListing, ListingInv, ListTypes, ListInOrder
<1>2. /\ Variants' = Variants /\ Size' = Size /\ Bases' = Bases
      /\ \A i : SkuOf(i)' = SkuOf(i)
  BY <1>1, SameSheet
<1>3. \A s : ~Posted(s)'
  BY <1>1 DEF ListingInv, PostedInOrder, Posted
<1>4. CenterGoesOn
  BY <1>1, CenterStays
<1>5. ASSUME NEW base \in Bases, list' = [NoList EXCEPT !.at = "item", !.item = 1, !.base = base]
      PROVE  ListingInv'
  <2>1. list' = [at |-> "item", item |-> 1, base |-> base, request |-> <<>>, update |-> FALSE,
                 profile |-> 1, seen |-> {}, results |-> <<>>]
    BY <1>5 DEF NoList
  <2>2. /\ list'.at = "item" /\ list'.item = 1 /\ list'.base = base /\ list'.results = <<>>
        /\ list' = [at |-> list'.at, item |-> list'.item, base |-> list'.base,
                    request |-> list'.request, update |-> list'.update,
                    profile |-> list'.profile, seen |-> list'.seen, results |-> list'.results]
    BY <2>1
  <2>3. list'.results \in Seq(ListResults) /\ Len(list'.results) = 0
    BY <2>2
  <2>4. ListTypes'
    BY <1>1, <1>4, <2>2, <2>3 DEF ListTypes, ListStages, CenterGoesOn
  <2>5. ListInOrder'
    BY <1>1, <1>2, <2>2, <2>3, VariantsInARow DEF ListInOrder
  <2>6. \A j \in Variants : ~(j < 1)
    BY <1>1, VariantsInARow
  <2>7. ItemIsFirst'
    BY <1>2, <2>2, <2>6 DEF ItemIsFirst, Underway
  <2>8. PostedInOrder' /\ SyncedAreListed'
    BY <1>3, <2>2 DEF PostedInOrder, SyncedAreListed
  <2> QED BY <1>4, <2>4, <2>5, <2>7, <2>8 DEF ListingInv, CenterGoesOn
<1>6. ASSUME NEW result \in {"failed", "skipped"},
             list' = [NoList EXCEPT !.at = "over", !.results = <<result>>]
      PROVE  ListingInv'
  <2>1. list' = [at |-> "over", item |-> 0, base |-> <<>>, request |-> <<>>, update |-> FALSE,
                 profile |-> 1, seen |-> {}, results |-> <<result>>]
    BY <1>6 DEF NoList
  <2>2. /\ list'.at = "over" /\ list'.item = 0 /\ list'.results = <<result>>
        /\ list' = [at |-> list'.at, item |-> list'.item, base |-> list'.base,
                    request |-> list'.request, update |-> list'.update,
                    profile |-> list'.profile, seen |-> list'.seen, results |-> list'.results]
    BY <2>1
  <2>3. list'.results \in Seq(ListResults)
    BY <2>2 DEF ListResults
  <2>4. ListTypes'
    BY <1>1, <1>4, <2>2, <2>3 DEF ListTypes, ListStages, CenterGoesOn
  <2>5. ListInOrder' /\ ItemIsFirst' /\ PostedInOrder' /\ SyncedAreListed'
    BY <1>3, <2>2 DEF ListInOrder, ItemIsFirst, Underway, PostedInOrder, SyncedAreListed
  <2> QED BY <1>4, <2>4, <2>5 DEF ListingInv, CenterGoesOn
<1> QED BY <1>5, <1>6 DEF StartListing

\* An item is taken: its request is not posted yet.
LEMMA ItemTaken ==
  ASSUME ListingInv, list.at = "item", sheet' = sheet, center' = center,
         NEW request, request # <<>>, NEW seen,
         list' = [list EXCEPT !.at = "ask", !.seen = seen, !.request = request],
         IF Variants = {} THEN TRUE
         ELSE /\ SkuOf(list.item) \notin list.seen /\ seen = list.seen \cup {SkuOf(list.item)}
              /\ request.sku = SkuOf(list.item) /\ RequestFits(request, list.item)
  PROVE  ListingInv'
<1>1. /\ Variants' = Variants /\ Size' = Size /\ Bases' = Bases
      /\ \A i : SkuOf(i)' = SkuOf(i) /\ (First(i)' <=> First(i))
      /\ \A r, i : RequestFits(r, i)' <=> RequestFits(r, i)
  BY SameSheet
<1>2. list' = [at |-> "ask", item |-> list.item, base |-> list.base, request |-> request,
               update |-> list.update, profile |-> list.profile, seen |-> seen,
               results |-> list.results]
  BY DEF ListingInv, ListTypes
<1>3. /\ list'.at = "ask" /\ list'.item = list.item /\ list'.base = list.base
      /\ list'.request = request /\ list'.seen = seen /\ list'.results = list.results
      /\ list' = [at |-> list'.at, item |-> list'.item, base |-> list'.base,
                  request |-> list'.request, update |-> list'.update,
                  profile |-> list'.profile, seen |-> list'.seen, results |-> list'.results]
  BY <1>2
<1>4. CenterGoesOn
  BY CenterStays
<1>5. ListTypes'
  BY <1>3, <1>4 DEF ListingInv, ListTypes, ListStages, CenterGoesOn
<1>6. ListInOrder'
  BY <1>1, <1>3 DEF ListingInv, ListInOrder
<1>7. /\ sheet \in Listables /\ list.item \in Nat
      /\ Variants # {} => list.item \in Variants
  BY VariantsInARow DEF ListingInv, ListTypes, ListInOrder
<1>8. Variants # {} => First(list.item)
  <2>1. \A j \in Variants : j < list.item => SkuOf(j) \in list.seen
    BY DEF ListingInv, ItemIsFirst
  <2>2. PICK m \in Nat, n \in Nat : m = list.item /\ n = Size
    BY <1>7, VariantsInARow
  <2>3. Variants # {} => \A j \in 1..(m - 1) : j \in Variants /\ j < m
    BY <1>7, <2>2, VariantsInARow
  <2> QED BY <2>1, <2>2, <2>3 DEF First, SkuOf
<1>9. ItemIsFirst'
  <2>1. \A j \in Variants : j < list.item \/ j = list.item => SkuOf(j) \in seen
    BY DEF ListingInv, ItemIsFirst
  <2>2. PICK m : m = list.item
    OBVIOUS
  <2>3. Variants # {} =>
          /\ list'.request.sku = SkuOf(list.item)' /\ First(list.item)'
          /\ RequestFits(list.request, list.item)'
    <3>1. /\ SkuOf(list.item)' = SkuOf(m)' /\ (First(list.item)' <=> First(m)')
          /\ RequestFits(list.request, list.item)' <=> RequestFits(request, m)'
      BY <1>3, <2>2 DEF SkuOf, First, RequestFits
    <3> QED BY <1>1, <1>3, <1>8, <2>2, <3>1
  <2> QED BY <1>1, <1>3, <2>1, <2>3 DEF ItemIsFirst
<1>10. \A s : Posted(s)' => Variants # {} /\ s \in list.seen
  BY DEF ListingInv, PostedInOrder, Posted
<1>11. ~Posted(list.request.sku)'
  <2>1. Posted(list.request.sku)' => request.sku \in list.seen
    <3>1. PICK s : s = request.sku
      OBVIOUS
    <3>2. Posted(list.request.sku)' <=> Posted(s)'
      BY <1>3, <3>1 DEF Posted
    <3> QED BY <1>10, <3>1, <3>2
  <2>2. Posted(list.request.sku)' => Variants # {}
    BY <1>3, <1>10 DEF Posted
  <2> QED BY <2>1, <2>2
<1>12. PostedInOrder'
  BY <1>1, <1>3, <1>10, <1>11 DEF PostedInOrder
<1>13. SyncedAreListed'
  BY <1>1, <1>3, <1>4 DEF SyncedAreListed, CenterGoesOn
<1> QED BY <1>4, <1>5, <1>6, <1>9, <1>12, <1>13 DEF ListingInv, CenterGoesOn

\* A request is not the empty one.
LEMMA RequestIsOne ==
  ASSUME NEW sku, NEW base, NEW attributes, NEW known
  PROVE  RequestOf(sku, base, attributes, known) # <<>>
         /\ RequestOf(sku, base, attributes, known).sku = sku
<1>1. PICK price, colored, kept :
        RequestOf(sku, base, attributes, known) =
          [sku |-> sku, price |-> price, attributes |-> colored, kept |-> kept]
  BY DEF RequestOf
<1>2. "sku" \in DOMAIN RequestOf(sku, base, attributes, known)
  BY <1>1
<1> QED BY <1>1, <1>2

LEMMA TakeVariantStep ==
  ASSUME ListingInv, TakeVariant
  PROVE  ListingInv'
<1>1. /\ list.at = "item" /\ sheet' = sheet /\ center' = center /\ sheet \in Listables
      /\ list.base \in Bases /\ Variants # {} /\ list.item \in Variants
  BY VariantsInARow DEF TakeVariant, ListingInv, ListTypes, ListInOrder
<1>2. CASE SkuOf(list.item) \in list.seen
  <2>1. list' = Ended("skipped")
    BY <1>2 DEF TakeVariant, SkuOf
  <2>2. CenterGoesOn
    BY <1>1, CenterStays
  <2>3. "skipped" \in ListResults
    BY DEF ListResults
  <2> QED BY <1>1, <1>2, <2>1, <2>2, <2>3, ItemEnds
<1>3. CASE SkuOf(list.item) \notin list.seen
  <2>1. PICK attributes \in VariantAttributes(list.base, sheet.variants[list.item]) :
          list' = [list EXCEPT !.at = "ask", !.seen = @ \cup {SkuOf(list.item)},
                               !.request = RequestOf(SkuOf(list.item), list.base, attributes,
                                                     KnownSkus)]
    BY <1>3 DEF TakeVariant, SkuOf
  <2>2. PICK request : request = RequestOf(SkuOf(list.item), list.base, attributes, KnownSkus)
    OBVIOUS
  <2>3. PICK seen : seen = list.seen \cup {SkuOf(list.item)}
    OBVIOUS
  <2>4. RequestFits(request, list.item)
    BY <1>1, <2>1, <2>2, MappedFits
  <2>5. request # <<>> /\ request.sku = SkuOf(list.item)
    BY <2>2, RequestIsOne
  <2>6. list' = [list EXCEPT !.at = "ask", !.seen = seen, !.request = request]
    BY <2>1, <2>2, <2>3
  <2> QED BY <1>1, <1>3, <2>3, <2>4, <2>5, <2>6, ItemTaken
<1> QED BY <1>2, <1>3

LEMMA TakeProductStep ==
  ASSUME ListingInv, TakeProduct
  PROVE  ListingInv'
<1>1. /\ list.at = "item" /\ sheet' = sheet /\ center' = center /\ Variants = {}
  BY VariantsInARow DEF TakeProduct, ListingInv, ListTypes
<1>2. PICK request : request = RequestOf(Parent, list.base, list.base, {})
  OBVIOUS
<1>3. request # <<>>
  BY <1>2, RequestIsOne
<1>4. list' = [list EXCEPT !.at = "ask", !.seen = list.seen, !.request = request]
  BY <1>2 DEF TakeProduct, ListingInv, ListTypes
<1> QED BY <1>1, <1>3, <1>4, ItemTaken

\* A call that asks: Seller Center stays as it is.
LEMMA AskedStep ==
  ASSUME ListingInv, list.at \in {"ask", "askParent"}, sheet' = sheet,
         NEW stage \in {"askParent", "build"}, NEW update, NEW next,
         next = [list EXCEPT !.at = stage, !.update = update],
         Call(center, next)
  PROVE  ListingInv'
<1>1. Underway /\ list.at \notin {"idle", "over"} /\ center' = center
  BY CallOutcomes DEF Underway
<1>2. CenterGoesOn
  BY <1>1, CenterStays
<1>3. CASE list' = [next EXCEPT !.profile = 1]
  <2>1. list' = [list EXCEPT !.at = stage, !.update = update, !.profile = 1]
    BY <1>3 DEF ListingInv, ListTypes
  <2> QED BY <1>1, <1>2, <2>1, ItemGoesOn
<1>4. CASE list' = [list EXCEPT !.profile = @ + 1]
  BY <1>1, <1>2, <1>4, ProfileTried
<1>5. CASE list' = Ended("failed")
  BY <1>1, <1>2, <1>5, ItemEnds DEF ListResults
<1> QED BY <1>3, <1>4, <1>5, CallOutcomes

LEMMA AskStep ==
  ASSUME ListingInv, AskSku \/ AskParent
  PROVE  ListingInv'
<1>1. CASE AskSku /\ list.request.sku \in DOMAIN center
  <2>1. PICK next : next = [list EXCEPT !.at = "build", !.update = TRUE]
    OBVIOUS
  <2>2. Call(center, next) /\ list.at = "ask" /\ sheet' = sheet
    BY <1>1, <2>1 DEF AskSku
  <2> QED BY <2>1, <2>2, AskedStep
<1>2. CASE AskSku /\ list.request.sku \notin DOMAIN center
  <2>1. PICK stage \in {"askParent", "build"} :
          stage = IF list.request.sku = Parent THEN "build" ELSE "askParent"
    OBVIOUS
  <2>2. PICK next : next = [list EXCEPT !.at = stage]
    OBVIOUS
  <2>3. next = [list EXCEPT !.at = stage, !.update = list.update]
    BY <2>2 DEF ListingInv, ListTypes
  <2>4. Call(center, next) /\ list.at = "ask" /\ sheet' = sheet
    BY <1>2, <2>1, <2>2 DEF AskSku
  <2> QED BY <2>3, <2>4, AskedStep
<1>3. CASE AskParent
  <2>1. PICK update : update = (Parent \in DOMAIN center)
    OBVIOUS
  <2>2. PICK next : next = [list EXCEPT !.at = "build", !.update = update]
    OBVIOUS
  <2>3. Call(center, next) /\ list.at = "askParent" /\ sheet' = sheet
    BY <1>3, <2>1, <2>2 DEF AskParent
  <2> QED BY <2>2, <2>3, AskedStep
<1> QED BY <1>1, <1>2, <1>3

LEMMA BuildStep ==
  ASSUME ListingInv, Build
  PROVE  ListingInv'
<1>1. /\ Underway /\ list.at = "build" /\ list.at \notin {"idle", "over"} /\ sheet' = sheet
      /\ center' = center
  BY DEF Build, Underway
<1>2. CenterGoesOn
  BY <1>1, CenterStays
<1>3. CASE IsPayload(list.request, list.update)
  <2>1. list' = [list EXCEPT !.at = "post", !.update = list.update, !.profile = list.profile]
    BY <1>3 DEF Build, ListingInv, ListTypes
  <2> QED BY <1>1, <1>2, <1>3, <2>1, ItemGoesOn
<1>4. CASE ~IsPayload(list.request, list.update)
  <2>1. list' = Ended("failed")
    BY <1>4 DEF Build
  <2> QED BY <1>1, <1>2, <2>1, ItemEnds DEF ListResults
<1> QED BY <1>3, <1>4

\* The image list of the item under way.
LEMMA ItemImages ==
  ASSUME ListingInv, Underway
  PROVE  /\ Variants # {} => ImagesOfItem = ImagesOfVariant(list.item)
         /\ sheet \in Listables /\ list.at \notin {"idle", "over"}
BY VariantsInARow DEF ImagesOfItem, ImagesOfVariant, Underway, ListingInv, ListTypes

LEMMA PostListingStep ==
  ASSUME ListingInv, PostListing
  PROVE  ListingInv'
<1>1. PICK sku : sku = list.request.sku
  OBVIOUS
<1>2. PICK entry : entry = [request |-> list.request, images |-> ImagesOf(sku)]
  OBVIOUS
<1>3. PICK done : done = [s \in DOMAIN center \cup {sku} |-> IF s = sku THEN entry ELSE center[s]]
  OBVIOUS
<1>4. PICK next : next = [list EXCEPT !.at = "images"]
  OBVIOUS
<1>5. Filled([s \in {sku} |-> entry], center) = done
  BY <1>3 DEF Filled
<1>6. /\ Underway /\ list.at = "post" /\ sheet' = sheet /\ Call(done, next)
  BY <1>1, <1>2, <1>4, <1>5 DEF PostListing, Underway
<1>7. sheet \in Listables /\ list.at \notin {"idle", "over"}
  BY <1>6, ItemImages
<1>8. Variants # {} => ImagesOf(sku) \in {<<>>, ImagesOfVariant(list.item)}
  <2> SUFFICES ASSUME Variants # {}, sku \in DOMAIN center
               PROVE  center[sku].images \in {<<>>, ImagesOfVariant(list.item)}
    BY DEF ImagesOf
  <2>1. list.item \in Variants /\ sku = SkuOf(list.item) /\ First(list.item)
    BY <1>1, <1>6, <1>7, VariantsInARow DEF ListingInv, ListInOrder, ItemIsFirst
  <2> QED BY <2>1 DEF ListingInv, CenterFits
<1>9. center' = done => CenterGoesOn
  <2>1. /\ entry.request = list.request /\ entry.images = ImagesOf(sku)
        /\ entry = [request |-> entry.request, images |-> entry.images]
    BY <1>2
  <2> QED BY <1>1, <1>3, <1>6, <1>8, <2>1, CenterWrites
<1>10. center' = center => CenterGoesOn
  BY <1>6, <1>7, CenterStays
<1>11. center' = done => \A s : s = list.request.sku => Posted(s)'
  <2>1. list.request # <<>>
    BY <1>6 DEF ListingInv, ItemIsFirst
  <2> QED BY <1>1, <1>2, <1>3, <2>1 DEF Posted
<1>12. CASE center' = done /\ list' = [next EXCEPT !.profile = 1]
  <2>1. list' = [list EXCEPT !.at = "images", !.update = list.update, !.profile = 1]
    BY <1>4, <1>12 DEF ListingInv, ListTypes
  <2> QED BY <1>6, <1>9, <1>11, <1>12, <2>1, ItemGoesOn
<1>13. CASE list' = [list EXCEPT !.profile = @ + 1] /\ (center' = center \/ center' = done)
  BY <1>6, <1>9, <1>10, <1>13, ProfileTried
<1>14. CASE list' = Ended("failed") /\ (center' = center \/ center' = done)
  BY <1>6, <1>7, <1>9, <1>10, <1>14, ItemEnds DEF ListResults
<1> QED BY <1>6, <1>12, <1>13, <1>14, CallOutcomes

LEMMA WarnListingStep ==
  ASSUME ListingInv, WarnListing
  PROVE  ListingInv'
<1>1. /\ list.at = "images" /\ list.at \notin {"idle", "over"} /\ sheet' = sheet
      /\ center' = center /\ list' = Ended("failed")
  BY DEF WarnListing
<1>2. CenterGoesOn
  BY <1>1, CenterStays
<1> QED BY <1>1, <1>2, ItemEnds DEF ListResults

LEMMA PostListingImagesStep ==
  ASSUME ListingInv, PostListingImages
  PROVE  ListingInv'
<1>1. PICK sku : sku = list.request.sku
  OBVIOUS
<1>2. PICK images : images = ImagesOfItem
  OBVIOUS
<1>3. /\ Underway /\ list.at = "images" /\ sheet' = sheet /\ Posted(sku)
      /\ center[sku].request = list.request
  BY <1>1 DEF PostListingImages, Underway, ListingInv, PostedInOrder
<1>4. /\ sheet \in Listables /\ list.at \notin {"idle", "over"}
      /\ Variants # {} => images = ImagesOfVariant(list.item) /\ sku = SkuOf(list.item)
  BY <1>1, <1>2, <1>3, ItemImages DEF ListingInv, ItemIsFirst
<1>5. PICK entry : entry = [request |-> list.request, images |-> images]
  OBVIOUS
<1>6. PICK done : done = [center EXCEPT ![sku].images = images]
  OBVIOUS
<1>7. done = [s \in DOMAIN center \cup {sku} |-> IF s = sku THEN entry ELSE center[s]]
  <2>1. sku \in DOMAIN center
    BY <1>3 DEF Posted
  <2>2. center[sku] = [request |-> center[sku].request, images |-> center[sku].images]
    BY <2>1 DEF ListingInv, ListTypes
  <2>3. [center[sku] EXCEPT !.images = images] = entry
    BY <1>3, <1>5, <2>2
  <2>4. done = [center EXCEPT ![sku] = entry]
    BY <1>6, <2>3
  <2>5. center = [s \in DOMAIN center |-> center[s]]
    BY DEF ListingInv, ListTypes
  <2> QED BY <2>1, <2>4, <2>5
<1>8. center' = done => CenterGoesOn
  <2>1. /\ entry.request = list.request /\ entry.images = images
        /\ entry = [request |-> entry.request, images |-> entry.images]
    BY <1>5
  <2> QED BY <1>1, <1>3, <1>4, <1>7, <2>1, CenterWrites
<1>9. center' = center => CenterGoesOn
  BY <1>3, <1>4, CenterStays
<1>10. \A i \in Variants : i = list.item /\ center' = done => ShownSynced(i)'
  <2> SUFFICES ASSUME NEW i \in Variants, i = list.item, center' = done PROVE ShownSynced(i)'
    OBVIOUS
  <2>1. center'[sku] = entry /\ sku \in DOMAIN center' /\ entry.images = ImagesOfVariant(i)
        /\ entry.request # <<>>
    BY <1>3, <1>4, <1>5, <1>7 DEF ListingInv, ItemIsFirst
  <2>2. SkuOf(i)' = sku /\ ImagesOfVariant(i)' = ImagesOfVariant(i)
    BY <1>3, <1>4, SameSheet
  <2> QED BY <2>1, <2>2 DEF ShownSynced, Posted
<1>11. images = <<>> => \A i \in Variants : i = list.item /\ center' = center => ShownSynced(i)'
  <2> SUFFICES ASSUME images = <<>>, NEW i \in Variants, i = list.item, center' = center
               PROVE  ShownSynced(i)'
    OBVIOUS
  <2>1. {k \in ImageIds : Fits(sheet.images[k], ColorsOf(sheet.variants[i]))} = {}
    BY <1>4, VariantImages
  <2>2. SkuOf(i)' = sku /\ Posted(sku)
    BY <1>3, <1>4, SameSheet
  <2>3. {k \in ImageIds : Fits(sheet'.images[k], ColorsOf(sheet'.variants[i]))} = {}
    BY <1>3, <2>1
  <2>4. Posted(SkuOf(i))'
    BY <2>2 DEF Posted
  <2> QED BY <2>3, <2>4 DEF ShownSynced, Fits, ColorsOf
<1>12. CASE images = <<>>
  <2>1. list' = Ended("synced") /\ center' = center
    BY <1>2, <1>12 DEF PostListingImages
  <2> QED BY <1>3, <1>4, <1>9, <1>11, <1>12, <2>1, ItemEnds DEF ListResults
<1>13. CASE images # <<>>
  <2>1. PICK next : next = Ended("synced")
    OBVIOUS
  <2>2. Call(done, next)
    BY <1>1, <1>2, <1>6, <1>13, <2>1 DEF PostListingImages
  <2>3. CASE center' = done /\ list' = [next EXCEPT !.profile = 1]
    BY <1>3, <1>4, <1>8, <1>10, <2>1, <2>3, ItemEnds DEF ListResults
  <2>4. CASE list' = [list EXCEPT !.profile = @ + 1] /\ (center' = center \/ center' = done)
    BY <1>3, <1>8, <1>9, <2>4, ProfileTried
  <2>5. CASE list' = Ended("failed") /\ (center' = center \/ center' = done)
    BY <1>3, <1>4, <1>8, <1>9, <2>5, ItemEnds DEF ListResults
  <2> QED BY <2>2, <2>3, <2>4, <2>5, CallOutcomes
<1> QED BY <1>12, <1>13

LEMMA ListingStutters ==
  ASSUME ListingInv, UNCHANGED <<sheet, center, list, failures>>
  PROVE  ListingInv'
<1>1. /\ Variants' = Variants /\ Size' = Size /\ Bases' = Bases
      /\ \A i : SkuOf(i)' = SkuOf(i) /\ (First(i)' <=> First(i))
      /\ \A r, i : RequestFits(r, i)' <=> RequestFits(r, i)
      /\ \A i : ImagesOfVariant(i)' = ImagesOfVariant(i)
  BY SameSheet
<1>2. ListTypes' /\ ListInOrder'
  BY <1>1 DEF ListingInv, ListTypes, ListInOrder
<1>3. PICK m, r : m = list.item /\ r = list.request
  OBVIOUS
<1>4. /\ SkuOf(list.item)' = SkuOf(m)' /\ (First(list.item)' <=> First(m)')
      /\ RequestFits(list.request, list.item)' <=> RequestFits(r, m)'
  BY <1>3 DEF SkuOf, First, RequestFits
<1>5. ItemIsFirst'
  BY <1>1, <1>3, <1>4 DEF ListingInv, ItemIsFirst, Underway
<1>6. PostedInOrder'
  BY <1>1 DEF ListingInv, PostedInOrder, Posted, IsPayload
<1>7. CenterFits' /\ SyncedAreListed'
  <2>1. CenterFits' /\ \A i : ShownSynced(i)' <=> ShownSynced(i)
    BY FitsStay DEF ListingInv
  <2> QED BY <1>1, <2>1 DEF ListingInv, SyncedAreListed
<1> QED BY <1>2, <1>5, <1>6, <1>7 DEF ListingInv

LEMMA ListingNextKeeps == ListingInv /\ [ListingNext]_listingVars => ListingInv'
<1> SUFFICES ASSUME ListingInv, [ListingNext]_listingVars PROVE ListingInv'
  OBVIOUS
<1>1. CASE UNCHANGED listingVars
  BY <1>1, ListingStutters DEF listingVars
<1> QED BY <1>1, StartListingStep, TakeVariantStep, TakeProductStep, AskStep, BuildStep,
           PostListingStep, WarnListingStep, PostListingImagesStep
        DEF ListingNext

LEMMA ListingIsSafe == ListingInv => ListingSafety
<1> SUFFICES ASSUME ListingInv PROVE ListingSafety
  OBVIOUS
<1>1. sheet \in Listables
  BY DEF ListingInv, ListTypes
<1>2. VariantsKeepApart
  <2> SUFFICES ASSUME NEW i \in Variants, First(i), Posted(SkuOf(i))
               PROVE  RequestFits(center[SkuOf(i)].request, i)
    BY DEF VariantsKeepApart, Variants, First, SkuOf, RequestFits
  <2> QED BY SMTT(30) DEF ListingInv, CenterFits, Posted
<1>3. CreatedComplete
  BY DEF CreatedComplete, ListingInv, PostedInOrder, IsPayload
<1>4. ImagesFit
  <2> SUFFICES ASSUME NEW i \in Variants, First(i), Posted(SkuOf(i))
               PROVE  LET images == center[SkuOf(i)].images
                      IN  /\ \A p \in DOMAIN images :
                               sheet.images[images[p]].colors \in {{}, {sheet.variants[i].color}}
                          /\ \A p, q \in DOMAIN images : p < q =>
                               /\ images[p] # images[q]
                               /\ sheet.images[images[p]].colors = {} =>
                                    sheet.images[images[q]].colors = {}
    BY ZenonT(60) DEF ImagesFit, Variants, First, SkuOf
  <2>1. center[SkuOf(i)].images = <<>> \/ center[SkuOf(i)].images = ImagesOfVariant(i)
    BY DEF ListingInv, CenterFits, Posted
  <2>2. DOMAIN <<>> = {}
    OBVIOUS
  <2> QED BY <1>1, <2>1, <2>2, VariantImages, SMTT(40)
<1>5. ResultsTell
  <2> SUFFICES ASSUME list.at = "over", list.item > 0
               PROVE  /\ Len(list.results) = Size
                      /\ \A i \in Variants : list.results[i] = "synced" => ShownSynced(i)
    BY DEF ResultsTell, Variants, SkuOf, ShownSynced, ImagesOfVariant
  <2>1. Len(list.results) = Size /\ list.results \in Seq(ListResults)
    BY DEF ListingInv, ListInOrder, ListTypes
  <2>2. DOMAIN list.results = 1..Size
    BY <2>1, LenProperties
  <2>3. \A i \in Variants : i \in DOMAIN list.results
    BY <1>1, <2>2, VariantsInARow
  <2> QED BY <2>1, <2>3 DEF ListingInv, SyncedAreListed
<1> QED BY <1>2, <1>3, <1>4, <1>5 DEF ListingSafety

------------------------------------------------------------------------------
(* Products as a whole: the catalogue, the navigation and the listing.       *)

ProductsInv ==
    /\ CatalogInv
    /\ NavigationInv
    /\ IF focus = "listing" THEN ListingInv ELSE sheet.variants = <<>> /\ list = NoList

\* Whatever is not in focus is left alone.
LEMMA ProductsSteps ==
  ASSUME [Next]_backOfficeVars
  PROVE  /\ [CatalogNext]_catalogVars /\ [NavigationNext]_navigationVars
         /\ focus' = focus
         /\ IF focus = "listing" THEN [ListingNext]_listingVars ELSE UNCHANGED listingVars
<1>1. CASE UNCHANGED backOfficeVars
  BY <1>1 DEF backOfficeVars
<1>2. CASE InFocus("products") /\ CatalogNext
  BY <1>2 DEF InFocus
<1>3. CASE InFocus("navigation") /\ NavigationNext
  BY <1>3 DEF InFocus
<1>4. CASE InFocus("listing") /\ ListingNext
  BY <1>4 DEF InFocus
<1>5. ASSUME NEW component \in {"assets", "folders", "coupons", "fulfilments", "webhooks",
                                "stamps", "server"},
             InFocus(component)
      PROVE  UNCHANGED <<catalogVars, navigationVars, listingVars, focus>> /\ focus # "listing"
  BY <1>5 DEF InFocus
<1> QED BY <1>1, <1>2, <1>3, <1>4, <1>5 DEF Next

\* Whatever a request has loaded, a regeneration gathered and a listing mapped is
\* what the rows say, or somebody has written since; for any products, tags,
\* categories, datasheets, requests, profiles and failing answers.
THEOREM ProductsInvariant == Spec => []ProductsInv
<1>1. Init => ProductsInv
  <2>1. NoList.at = "idle" /\ Sheet({}, <<>>, <<>>).variants = <<>>
    BY DEF NoList, Sheet
  <2> QED BY <2>1, CatalogStart, NavigationStart, ListingStart DEF Init, ProductsInv
<1>2. ProductsInv /\ [Next]_backOfficeVars => ProductsInv'
  <2> SUFFICES ASSUME ProductsInv, [Next]_backOfficeVars PROVE ProductsInv'
    OBVIOUS
  <2>1. /\ [CatalogNext]_catalogVars /\ [NavigationNext]_navigationVars /\ focus' = focus
        /\ IF focus = "listing" THEN [ListingNext]_listingVars ELSE UNCHANGED listingVars
    BY ProductsSteps
  <2>2. CatalogInv' /\ NavigationInv'
    BY <2>1, CatalogNextKeeps, NavigationNextKeeps DEF ProductsInv
  <2>3. CASE focus = "listing"
    BY <2>1, <2>2, <2>3, ListingNextKeeps DEF ProductsInv
  <2>4. CASE focus # "listing"
    BY <2>1, <2>2, <2>4 DEF ProductsInv, listingVars
  <2> QED BY <2>3, <2>4
<1> QED BY <1>1, <1>2, PTL DEF Spec

\* No product carries a deleted tag but one that was deleted under it, no update
\* undoes what it is not about, the navigation that is kept is that of the tree
\* unless a refresh is due, and what is listed of a product is that of its variant:
\* its attributes, a price and a stock, its images, as the results say.
THEOREM ProductsAreSafe == Spec => []ProductsSafety
<1>1. ProductsInv => ProductsSafety
  <2> SUFFICES ASSUME ProductsInv PROVE ProductsSafety
    OBVIOUS
  <2>1. CatalogSafety /\ NavigationSafety
    BY DEF ProductsInv, CatalogInv, NavigationInv
  <2>2. CASE focus = "listing"
    BY <2>1, <2>2, ListingIsSafe DEF ProductsInv, ProductsSafety
  <2>3. CASE focus # "listing"
    <3>1. Variants = {} /\ list.at = "idle"
      BY <2>3 DEF ProductsInv, Variants, NoList
    <3>2. ListingSafety
      BY <3>1 DEF Variants, ListingSafety, VariantsKeepApart, CreatedComplete, ImagesFit,
                  ResultsTell
    <3> QED BY <2>1, <3>2 DEF ProductsSafety
  <2> QED BY <2>2, <2>3
<1> QED BY <1>1, ProductsInvariant, PTL

==============================================================================
