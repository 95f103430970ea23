---------------------------- MODULE AssetBinaries ----------------------------
(***************************************************************************)
(* Assets: a row in the database that names an object in the object store. *)
(* Uploads write the object first and the row second; the JPG worker puts  *)
(* a converted object beside the old one, points the row at it and deletes *)
(* the old one, undoing what it can when a step fails.  Worker runs (cron  *)
(* and manual) and deletions of one asset exclude each other with a lock   *)
(* held in the process.                                                    *)
(***************************************************************************)
EXTENDS Integers

CONSTANTS
    Assets,          \* assets (ids are fresh UUIDs)
    AssetTasks,      \* requests and worker runs under way
    Nobody,          \* no task
    MaxAssetCrashes  \* bound on the crashes of the process

ASSUME AssetAssumption ==
    /\ Nobody \notin AssetTasks
    /\ MaxAssetCrashes \in Nat

VARIABLES
    row,          \* assets table: what each row says
    objects,      \* object store: the <<asset, extension>> keys it holds
    assetLock,    \* keyedLocker: the holder per asset
    assetTask,    \* the tasks
    misreported,  \* assets for which a step took effect and was reported failed
    assetCrashes  \* crashes so far

assetVars == <<row, objects, assetLock, assetTask, misreported, assetCrashes>>

------------------------------------------------------------------------------
(* Rows and keys *)

\* unused: no such asset; new: its id is drawn and no row is there; png: any
\* format but JPEG; named: named .jpg without being canonical JPEG; jpg: done.
RowStates == {"unused", "new", "png", "named", "jpg", "deleted"}
Live(a) == row[a] \in {"png", "named", "jpg"}

Extensions == {"png", "jpg"}
KeyOf(state) == IF state = "png" THEN "png" ELSE "jpg"
ReplaceWithJPGExtension == "jpg"
IsJPGAsset(a) == row[a] = "jpg"

Upload(a, ext) == objects' = objects \cup {<<a, ext>>}
DeleteObject(a, ext) == objects' = objects \ {<<a, ext>>}

------------------------------------------------------------------------------
(* Tasks *)

TaskStages == {"idle", "create", "insert", "undo", "lock", "convert", "swap",
               "drop", "restore", "clean", "lockDelete", "delete"}
AssetTask == [at : TaskStages, asset : Assets \cup {Nobody}, old : RowStates]
IdleTask == [at |-> "idle", asset |-> Nobody, old |-> "unused"]
Locked == {"convert", "swap", "drop", "restore", "clean", "delete"}

Target(t) == assetTask[t].asset
To(t, stage) == assetTask' = [assetTask EXCEPT ![t].at = stage]

\* The task is over and gives its lock back.
EndTask(t) ==
    /\ assetTask' = [assetTask EXCEPT ![t] = IdleTask]
    /\ assetLock' = [a \in Assets |-> IF assetLock[a] = t THEN Nobody ELSE assetLock[a]]

Begin(t, a, stage) ==
    /\ assetTask[t].at = "idle"
    /\ assetTask' = [assetTask EXCEPT ![t] =
                       [at |-> stage, asset |-> a, old |-> row[a]]]
    /\ UNCHANGED <<objects, assetLock, misreported, assetCrashes>>

\* Create: the object is uploaded first.
StartCreate(t, a) ==
    /\ row[a] = "unused"
    /\ \E s \in {"png", "named", "jpg"} :
         /\ assetTask[t].at = "idle"
         /\ assetTask' = [assetTask EXCEPT ![t] = [at |-> "create", asset |-> a, old |-> s]]
    /\ row' = [row EXCEPT ![a] = "new"]
    /\ UNCHANGED <<objects, assetLock, misreported, assetCrashes>>

UploadNew(t) ==
    /\ assetTask[t].at = "create"
    /\ \/ /\ Upload(Target(t), KeyOf(assetTask[t].old))
          /\ To(t, "insert") /\ UNCHANGED assetLock
       \/ /\ Upload(Target(t), KeyOf(assetTask[t].old)) \/ UNCHANGED objects
          /\ EndTask(t)
    /\ UNCHANGED <<row, misreported, assetCrashes>>

\* The row follows; if that fails the object is deleted again, also when the
\* transaction committed and only the read after it failed.
InsertRow(t) ==
    /\ assetTask[t].at = "insert"
    /\ \/ /\ row' = [row EXCEPT ![Target(t)] = assetTask[t].old]
          /\ \/ EndTask(t) /\ UNCHANGED misreported
             \/ /\ To(t, "undo") /\ UNCHANGED assetLock
                /\ misreported' = misreported \cup {Target(t)}
       \/ To(t, "undo") /\ UNCHANGED <<row, assetLock, misreported>>
    /\ UNCHANGED <<objects, assetCrashes>>

UndoUpload(t) ==
    /\ assetTask[t].at = "undo"
    /\ DeleteObject(Target(t), KeyOf(assetTask[t].old)) \/ UNCHANGED objects
    /\ EndTask(t)
    /\ UNCHANGED <<row, misreported, assetCrashes>>

------------------------------------------------------------------------------
(* The JPG worker *)

\* A run lists tagged assets and takes them one by one.
StartConvert(t, a) == Live(a) /\ ~IsJPGAsset(a) /\ Begin(t, a, "lock") /\ UNCHANGED row

\* The lock is taken, the row read again: one that is gone or converted by now
\* is left alone.
LockAndLoad(t) ==
    /\ assetTask[t].at = "lock"
    /\ assetLock[Target(t)] = Nobody
    /\ IF Live(Target(t)) /\ ~IsJPGAsset(Target(t))
       THEN /\ assetTask' = [assetTask EXCEPT ![t].at = "convert", ![t].old = row[Target(t)]]
            /\ assetLock' = [assetLock EXCEPT ![Target(t)] = t]
       ELSE assetTask' = [assetTask EXCEPT ![t] = IdleTask] /\ UNCHANGED assetLock
    /\ UNCHANGED <<row, objects, misreported, assetCrashes>>

\* The object is read, converted and put beside the old one (or over it, when
\* the key stays the same).
Convert(t) ==
    /\ assetTask[t].at = "convert"
    /\ \/ /\ <<Target(t), KeyOf(assetTask[t].old)>> \in objects
          /\ Upload(Target(t), ReplaceWithJPGExtension)
          /\ (To(t, "swap") /\ UNCHANGED assetLock) \/ EndTask(t)
       \/ EndTask(t) /\ UNCHANGED objects
    /\ UNCHANGED <<row, misreported, assetCrashes>>

SameKey(t) == KeyOf(assetTask[t].old) = ReplaceWithJPGExtension

\* UpdateBinary: the row is pointed at the new object, or that fails, or it
\* happens and is reported as failed.
Swap(t) ==
    /\ assetTask[t].at = "swap"
    /\ \/ /\ Live(Target(t))
          /\ row' = [row EXCEPT ![Target(t)] = "jpg"]
          /\ \/ /\ IF SameKey(t) THEN EndTask(t) ELSE To(t, "drop") /\ UNCHANGED assetLock
                /\ UNCHANGED misreported
             \/ /\ IF SameKey(t) THEN EndTask(t) ELSE To(t, "clean") /\ UNCHANGED assetLock
                /\ misreported' = misreported \cup {Target(t)}
       \/ /\ IF SameKey(t) THEN EndTask(t) ELSE To(t, "clean") /\ UNCHANGED assetLock
          /\ UNCHANGED <<row, misreported>>
    /\ UNCHANGED <<objects, assetCrashes>>

\* The old object is deleted; a deletion that is reported as failed leads to
\* the row being pointed back at it.
DropOld(t) ==
    /\ assetTask[t].at = "drop"
    /\ \/ /\ DeleteObject(Target(t), KeyOf(assetTask[t].old))
          /\ \/ EndTask(t) /\ UNCHANGED misreported
             \/ /\ To(t, "restore") /\ UNCHANGED assetLock
                /\ misreported' = misreported \cup {Target(t)}
       \/ To(t, "restore") /\ UNCHANGED <<objects, assetLock, misreported>>
    /\ UNCHANGED <<row, assetCrashes>>

\* Mutant: the new object is deleted although the row could not be restored.
RestoreOrNot(t) ==
    /\ assetTask[t].at = "restore"
    /\ To(t, "clean")
    /\ \/ row' = [row EXCEPT ![Target(t)] = assetTask[t].old]
       \/ UNCHANGED row
    /\ UNCHANGED <<objects, assetLock, misreported, assetCrashes>>

\* Only a row known to be back allows the new object to be deleted.
RestoreRow(t) ==
    /\ assetTask[t].at = "restore"
    /\ \/ /\ Live(Target(t))
          /\ row' = [row EXCEPT ![Target(t)] = assetTask[t].old]
          /\ \/ To(t, "clean") /\ UNCHANGED assetLock
             \/ EndTask(t)
       \/ EndTask(t) /\ UNCHANGED row
    /\ UNCHANGED <<objects, misreported, assetCrashes>>

CleanNew(t) ==
    /\ assetTask[t].at = "clean"
    /\ DeleteObject(Target(t), ReplaceWithJPGExtension) \/ UNCHANGED objects
    /\ EndTask(t)
    /\ UNCHANGED <<row, misreported, assetCrashes>>

------------------------------------------------------------------------------
(* Deletion *)

StartDelete(t, a) == Live(a) /\ Begin(t, a, "lockDelete") /\ UNCHANGED row

LockForDelete(t) ==
    /\ assetTask[t].at = "lockDelete"
    /\ assetLock[Target(t)] = Nobody
    /\ To(t, "delete")
    /\ assetLock' = [assetLock EXCEPT ![Target(t)] = t]
    /\ UNCHANGED <<row, objects, misreported, assetCrashes>>

\* The row is soft-deleted; the object stays.
SoftDelete(t) ==
    /\ assetTask[t].at = "delete"
    /\ \/ Live(Target(t)) /\ row' = [row EXCEPT ![Target(t)] = "deleted"]
       \/ UNCHANGED row
    /\ EndTask(t)
    /\ UNCHANGED <<objects, misreported, assetCrashes>>

CrashAssets ==
    /\ assetCrashes < MaxAssetCrashes
    /\ assetCrashes' = assetCrashes + 1
    /\ assetTask' = [t \in AssetTasks |-> IdleTask]
    /\ assetLock' = [a \in Assets |-> Nobody]
    /\ UNCHANGED <<row, objects, misreported>>

------------------------------------------------------------------------------

AssetInit ==
    /\ row = [a \in Assets |-> "unused"]
    /\ objects = {}
    /\ assetLock = [a \in Assets |-> Nobody]
    /\ assetTask = [t \in AssetTasks |-> IdleTask]
    /\ misreported = {}
    /\ assetCrashes = 0

AssetNext ==
    \/ \E t \in AssetTasks :
         \/ \E a \in Assets : StartCreate(t, a) \/ StartConvert(t, a) \/ StartDelete(t, a)
         \/ UploadNew(t) \/ InsertRow(t) \/ UndoUpload(t)
         \/ LockAndLoad(t) \/ Convert(t) \/ Swap(t) \/ DropOld(t)
         \/ RestoreRow(t) \/ CleanNew(t)
         \/ LockForDelete(t) \/ SoftDelete(t)
    \/ CrashAssets

AssetSpec == AssetInit /\ [][AssetNext]_assetVars

------------------------------------------------------------------------------
(* Properties *)

AssetTypes ==
    /\ row \in [Assets -> RowStates]
    /\ objects \subseteq Assets \X Extensions
    /\ assetLock \in [Assets -> AssetTasks \cup {Nobody}]
    /\ assetTask \in [AssetTasks -> AssetTask]
    /\ misreported \subseteq Assets
    /\ assetCrashes \in 0..MaxAssetCrashes

\* A live row names an object that exists, through conversions that fail or
\* are undone half way, worker runs that overlap, deletions and crashes; the
\* one exception is an asset for which a step took effect and was reported as
\* failed, because the code then undoes what the row relies on
\* (service_jpg_worker.go, service_asset.go).
RowsHaveObjects ==
    \A a \in Assets \ misreported :
        Live(a) => <<a, KeyOf(row[a])>> \in objects

\* A task works on an asset only while it holds its lock.
LockHeld ==
    \A t \in AssetTasks : \A a \in Assets :
        assetLock[a] = t <=> assetTask[t].at \in Locked /\ Target(t) = a

AssetSafety == AssetTypes /\ RowsHaveObjects /\ LockHeld
==============================================================================
