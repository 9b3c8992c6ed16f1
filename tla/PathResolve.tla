---------------------------- MODULE PathResolve -----------------------------
(***************************************************************************)
(* read_by_path: from the root directory down a path to a file's bytes     *)
(* (src/core/src/dir.rs).                                                  *)
(***************************************************************************)
EXTENDS Volume

CONSTANTS
    Volumes,  \* the images paths are resolved on
    Paths     \* the paths, as sequences of their components

ASSUME PathsAssumption == (\A v \in Volumes : Image(v)) /\ \A p \in Paths : p \in Seq(STRING)

VARIABLES
    volume, path,
    pc,       \* "called", "walking", or "returned"
    idx,      \* the component that comes next
    current,  \* the inode it is looked for in
    result    \* what read_by_path returns
pathVars == <<volume, path, pc, idx, current, result>>

(* find: the first entry of this name. *)
Named(entries, name) == {k \in DOMAIN entries : entries[k].name = name}
First(entries, name) == entries[CHOOSE k \in Named(entries, name) : \A l \in Named(entries, name) : k <= l]

Return(outcome) ==
    /\ pc' = "returned" /\ result' = outcome
    /\ UNCHANGED <<volume, path, idx, current>>
-----------------------------------------------------------------------------
ReadRoot ==
    /\ pc = "called"
    /\ LET root == ReadInode(volume, volume.sb.rootino)
       IN  IF root.err # "none" THEN Return(root)
           ELSE /\ pc' = "walking" /\ current' = root.val
                /\ UNCHANGED <<volume, path, idx, result>>

InLoop == pc = "walking" /\ idx <= Len(path)
IsLast == idx = Len(path)

(* The outcome of the listing, and of reading the inode of the component   *)
(* that comes next, if it is listed: sets of one and of at most one.       *)
Listings == {ReadDir(volume, current)}
Children == {ReadInode(volume, First(listing.val, path[idx]).inode) :
                listing \in {ls \in Listings : ls.err = "none" /\ Named(ls.val, path[idx]) # {}}}

(* The directory cannot be read, or has no entry of this name. *)
NoEntry ==
    /\ InLoop /\ Children = {}
    /\ \E listing \in Listings :
        Return(IF listing.err # "none" THEN listing ELSE Fail("PathNotFound"))

NoChild ==
    /\ InLoop
    /\ \E child \in Children : child.err # "none" /\ Return(child)

ReadLast ==
    /\ InLoop /\ IsLast
    /\ \E child \in Children : child.err = "none" /\ Return(ReadFile(volume, child.val))

NotADirectory ==
    /\ InLoop /\ ~IsLast
    /\ \E child \in Children : child.err = "none" /\ ~IsDir(child.val)
    /\ Return(Fail("PathNotFound"))

DescendMut ==  \* mutant: a non-final component need not be a directory
    /\ InLoop /\ ~IsLast
    /\ \E child \in Children : child.err = "none" /\ current' = child.val
    /\ idx' = idx + 1
    /\ UNCHANGED <<volume, path, pc, result>>
Descend ==
    /\ InLoop /\ ~IsLast
    /\ \E child \in Children : child.err = "none" /\ IsDir(child.val) /\ current' = child.val
    /\ idx' = idx + 1
    /\ UNCHANGED <<volume, path, pc, result>>

EmptyPath ==
    /\ pc = "walking" /\ idx > Len(path)
    /\ Return(Fail("PathNotFound"))

PathInit ==
    /\ volume \in Volumes /\ path \in Paths
    /\ pc = "called" /\ idx = 1 /\ current = <<>> /\ result = <<>>
PathNext == ReadRoot \/ NoEntry \/ NoChild \/ ReadLast \/ NotADirectory \/ Descend \/ EmptyPath
-----------------------------------------------------------------------------
PathReturned == pc = "returned"

(* The inode a path leads to, in at most one way: the root, and from a     *)
(* directory the first entry of the next name.                             *)
Target ==
    LET Step(n, k) ==
            LET dir == ReadInode(volume, n)
            IN  IF /\ dir.err = "none" /\ (k > 1 => IsDir(dir.val))
                   /\ ReadDir(volume, dir.val).err = "none"
                   /\ \E m \in DOMAIN ReadDir(volume, dir.val).val :
                        ReadDir(volume, dir.val).val[m].name = path[k]
                THEN {First(ReadDir(volume, dir.val).val, path[k]).inode} ELSE {}
        Reached[k \in 0..Len(path)] ==
            IF k = 0 THEN {volume.sb.rootino} ELSE UNION {Step(n, k) : n \in Reached[k - 1]}
    IN  Reached[Len(path)]

(* A path is resolved exactly when every component is found in a directory *)
(* that can be read, and what is returned are the bytes of the inode it    *)
(* leads to; with a component missing or no directory in the middle the    *)
(* bytes of no other file are returned, and a path that leads to an inode  *)
(* is not reported as not found (dir.rs:499-505).                          *)
PathNamesTheFile ==
    PathReturned =>
        LET At(n) == ReadInode(volume, n)
        IN  /\ result.err = "none" <=>
                 /\ path # <<>>
                 /\ \E n \in Target : At(n).err = "none" /\ ReadFile(volume, At(n).val).err = "none"
            /\ result.err = "none" => \E n \in Target : result = ReadFile(volume, At(n).val)
            /\ result.err = "PathNotFound" => path = <<>> \/ Target = {}
=============================================================================
