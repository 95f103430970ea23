----------------------------- MODULE AssetFolders -----------------------------
(***************************************************************************)
(* Folders of assets: a forest kept in parent_folder_id.  Every operation  *)
(* reads what it checks from the snapshot its transaction sees and writes  *)
(* at its end; a lock kept in the process excludes two operations on the   *)
(* same folder (or asset), not on different ones.                          *)
(***************************************************************************)
EXTENDS Integers, FiniteSets

CONSTANTS
    Folders,      \* folder ids
    Filed,        \* assets that can be put into folders
    FolderTasks,  \* requests under way
    Root          \* no parent, no folder

ASSUME FolderAssumption == Root \notin Folders /\ IsFiniteSet(Folders)

VARIABLES
    alive,        \* asset_folders: the folders that are not deleted
    parent,       \* asset_folders.parent_folder_id
    filedIn,      \* assets.folder_id
    folderTask,   \* the requests
    overlapped    \* a request has written while another had read

folderVars == <<alive, parent, filedIn, folderTask, overlapped>>

------------------------------------------------------------------------------
(* The forest *)

\* A folder and its parent, the parent of that one, and so on.
ClosedUpwards(up, S) == \A g \in S \ {Root} : up[g] \in S

\* What is met on the way up from f: all that is in every such set.
Above(up, f) ==
    {x \in Folders \cup {Root} :
        \A S \in SUBSET (Folders \cup {Root}) : f \in S /\ ClosedUpwards(up, S) => x \in S}

\* Mutant: the walk stops at the proposed parent.
ParentNotSelf(up, f, p) == p # f

\* assertNoParentCycle: f is not met on the way up from p.
AssertNoParentCycle(up, f, p) == f \notin Above(up, p)

\* collectFolderTreeIDs: f and everything below it.
CollectFolderTree(up, live, f) == {g \in live : f \in Above(up, g)}

\* buildFolderTree: the folders shown, those below a folder without parent, or
\* without one that is there.
FolderTree ==
    LET roots == {f \in alive : parent[f] \notin alive}
    IN  {f \in alive : Above(parent, f) \cap roots # {}}

------------------------------------------------------------------------------
(* Requests *)

FolderOps == {"idle", "create", "move", "remove", "file"}
FolderTask == [op : FolderOps, of : Folders \cup Filed \cup {Root},
               into : Folders \cup {Root}, tree : SUBSET Folders]
NoRequest == [op |-> "idle", of |-> Root, into |-> Root, tree |-> {}]

Busy == {t \in FolderTasks : folderTask[t].op # "idle"}
FolderLocked(x) ==
    \E t \in FolderTasks : folderTask[t].op \in {"move", "remove", "file"} /\ folderTask[t].of = x

Read(t, request) ==
    /\ folderTask[t].op = "idle"
    /\ folderTask' = [folderTask EXCEPT ![t] = request]
    /\ UNCHANGED <<alive, parent, filedIn, overlapped>>

\* A request writes; from here on another that has read already is late.
Written(t) ==
    /\ folderTask' = [folderTask EXCEPT ![t] = NoRequest]
    /\ overlapped' = (overlapped \/ Busy # {t})

\* CreateFolder: a fresh id under a parent that exists; nothing is locked.
ReadForCreate(t, f, p) ==
    /\ f \notin alive
    /\ \A g \in alive : parent[g] # f
    /\ \A u \in FolderTasks : folderTask[u].of # f
    /\ p \in alive \cup {Root}
    /\ Read(t, [op |-> "create", of |-> f, into |-> p, tree |-> {}])

CreateFolder(t) ==
    /\ folderTask[t].op = "create"
    /\ alive' = alive \cup {folderTask[t].of}
    /\ parent' = [parent EXCEPT ![folderTask[t].of] = folderTask[t].into]
    /\ Written(t)
    /\ UNCHANGED filedIn

\* UpdateFolder: the new parent exists and is not below the folder.
ReadForMove(t, f, p) ==
    /\ f \in alive
    /\ p \in alive \cup {Root}
    /\ ~FolderLocked(f)
    /\ p # Root => AssertNoParentCycle(parent, f, p)
    /\ Read(t, [op |-> "move", of |-> f, into |-> p, tree |-> {}])

\* Save writes the whole row as it was read: a folder deleted since with a
\* folder above it is back.
UpdateFolder(t) ==
    /\ folderTask[t].op = "move"
    /\ alive' = alive \cup {folderTask[t].of}
    /\ parent' = [parent EXCEPT ![folderTask[t].of] = folderTask[t].into]
    /\ Written(t)
    /\ UNCHANGED filedIn

\* DeleteFolder: the folder and all below it; their assets are detached.
ReadForRemove(t, f) ==
    /\ f \in alive
    /\ ~FolderLocked(f)
    /\ Read(t, [op |-> "remove", of |-> f, into |-> Root,
                tree |-> CollectFolderTree(parent, alive, f)])

SoftDeleteFolder(t) ==
    /\ folderTask[t].op = "remove"
    /\ alive' = alive \ folderTask[t].tree
    /\ filedIn' = [a \in Filed |-> IF filedIn[a] \in folderTask[t].tree THEN Root
                                   ELSE filedIn[a]]
    /\ Written(t)
    /\ UNCHANGED parent

\* An asset is put into a folder that exists, or out of any.
ReadForFile(t, a, f) ==
    /\ f \in alive \cup {Root}
    /\ ~FolderLocked(a)
    /\ Read(t, [op |-> "file", of |-> a, into |-> f, tree |-> {}])

FileAsset(t) ==
    /\ folderTask[t].op = "file"
    /\ filedIn' = [filedIn EXCEPT ![folderTask[t].of] = folderTask[t].into]
    /\ Written(t)
    /\ UNCHANGED <<alive, parent>>

\* A slug taken among the siblings, a folder that is gone or a failed
\* statement rolls the transaction back.
RollBack(t) ==
    /\ folderTask[t].op # "idle"
    /\ folderTask' = [folderTask EXCEPT ![t] = NoRequest]
    /\ UNCHANGED <<alive, parent, filedIn, overlapped>>

------------------------------------------------------------------------------

FolderInit ==
    /\ alive = {}
    /\ parent = [f \in Folders |-> Root]
    /\ filedIn = [a \in Filed |-> Root]
    /\ folderTask = [t \in FolderTasks |-> NoRequest]
    /\ overlapped = FALSE

FolderNext ==
    \E t \in FolderTasks :
       \/ \E f \in Folders :
            \/ ReadForRemove(t, f)
            \/ \E p \in Folders \cup {Root} : ReadForCreate(t, f, p) \/ ReadForMove(t, f, p)
       \/ \E a \in Filed, f \in Folders \cup {Root} : ReadForFile(t, a, f)
       \/ CreateFolder(t) \/ UpdateFolder(t) \/ SoftDeleteFolder(t) \/ FileAsset(t)
       \/ RollBack(t)

FolderSpec == FolderInit /\ [][FolderNext]_folderVars

------------------------------------------------------------------------------
(* Properties *)

FolderTypes ==
    /\ alive \subseteq Folders
    /\ parent \in [Folders -> Folders \cup {Root}]
    /\ filedIn \in [Filed -> Folders \cup {Root}]
    /\ folderTask \in [FolderTasks -> FolderTask]
    /\ overlapped \in BOOLEAN

\* As long as no request has written between another's reading and writing,
\* the folders form a forest: no folder is above itself, every folder's parent
\* is there (deleting a folder takes all below it along), every live folder is
\* shown in the tree, and no asset is left in a folder that is gone
\* (repository_folder.go, service_folder_tree.go).
ForestKept ==
    ~overlapped =>
        /\ \A f \in alive : Root \in Above(parent, f)
        /\ \A f \in alive : parent[f] \in alive \cup {Root}
        /\ FolderTree = alive
        /\ \A a \in Filed : filedIn[a] \in alive \cup {Root}

\* However requests overlap, no folder is its own parent and no two requests
\* write the same folder at the same time.
FolderLocksHold ==
    /\ \A f \in alive : parent[f] # f
    /\ \A t, u \in FolderTasks :
         /\ folderTask[t].op \in {"move", "remove"}
         /\ folderTask[u].op \in {"move", "remove"}
         /\ folderTask[t].of = folderTask[u].of
         => t = u

FolderSafety == FolderTypes /\ ForestKept /\ FolderLocksHold

------------------------------------------------------------------------------
(* What makes these inductive: nobody makes a folder its own parent, and until  *)
(* requests overlap what a request has read is so.                              *)

StillSo(t) ==
    LET k == folderTask[t]
    IN  /\ k.op = "create" => /\ k.of \in Folders \ alive /\ k.into \in alive \cup {Root}
                              /\ \A g \in alive : parent[g] # k.of
        /\ k.op = "move" => /\ k.of \in alive /\ k.into \in alive \cup {Root}
                            /\ k.into # Root => k.of \notin Above(parent, k.into)
        /\ k.op = "remove" => k.tree = CollectFolderTree(parent, alive, k.of)
        /\ k.op = "file" => k.into \in alive \cup {Root}

FolderInv ==
    /\ FolderTypes
    /\ \A f \in Folders : parent[f] # f
    /\ \A t \in FolderTasks :
         LET k == folderTask[t]
         IN  /\ k.op \in {"create", "move", "remove"} => k.of \in Folders
             /\ k.op = "file" => k.of \in Filed
             /\ k.op \in {"create", "move"} => k.into # k.of
    /\ FolderLocksHold
    /\ ~overlapped =>
         /\ \A f \in alive : Root \in Above(parent, f) /\ parent[f] \in alive \cup {Root}
         /\ \A a \in Filed : filedIn[a] \in alive \cup {Root}
         /\ \A t \in FolderTasks : StillSo(t)
==============================================================================
