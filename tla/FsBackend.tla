------------------------------ MODULE FsBackend ------------------------------
(***************************************************************************)
(* One open_read or write_all of the FS backend (backend/fs.rs) while      *)
(* other programs change the data directory: entries become files,         *)
(* directories or symbolic links between resolve's check, create_dir_all   *)
(* and the open.  A link leads to the directory "outside", where there are *)
(* no links, or to the file of its own name in there.                      *)
(***************************************************************************)
EXTENDS Paths

CONSTANTS Requests,     \* the paths that requests may carry
          Depth,        \* the most names below the root in any of them
          BucketPaths,  \* values of s3.bucket_path
          MaxChanges    \* changes by other programs: a bound for TLC

ASSUME FsAssumption ==
    /\ Requests \subseteq Seq(Segment) \ {<<>>}
    /\ Depth \in Nat
    /\ \A p \in Requests : Valid(p) /\ Inside(p) => Len(Below(p)) <= Depth
    /\ BucketPaths \subseteq Seq(Segment) \ {<<>>}
    /\ \A p \in BucketPaths : GoodPrefix(p)
    /\ MaxChanges \in Nat

\* A place is the names that lead to it from the root or from the outside.
Place == {"root", "outside"} \X UNION {[1..n -> Names] : n \in 1..Depth}
Entry == {"absent", "file", "dir", "link to dir", "link to file"}

VARIABLES
    entry,      \* what is at each place
    changes,    \* changes by other programs so far
    op, path,   \* the request
    bucketPath, \* s3.bucket_path, for the other side of the copy
    pc,         \* "received", "checked", "made", then the outcome
    made,       \* how deep the last directory lies that create_dir_all made
    at          \* the places the request has opened, created or truncated

vars == <<entry, changes, op, path, bucketPath, pc, made, at>>

Init ==
    /\ \E e \in {"file", "absent"} :
         entry = [p \in Place |-> IF Len(p[2]) > 1 THEN "absent"
                                  ELSE IF p[1] = "root" THEN "dir" ELSE e]
    /\ changes = 0
    /\ op \in {"read", "write"} /\ path \in Requests /\ bucketPath \in BucketPaths
    /\ pc = "received" /\ made = 0 /\ at = {}

-----------------------------------------------------------------------------
(***************************************************************************)
(* What the system calls find.  A walk follows every link but a last one.  *)
(***************************************************************************)
UpTo(names, n)  == SubSeq(names, 1, n)
After(names, n) == SubSeq(names, n + 1, Len(names))

\* How many names a walk takes: all, or up to the first that is no directory.
Taken(tree, names) ==
    LET stops == {n \in 1..Len(names) :
                    n = Len(names) \/ entry[<<tree, UpTo(names, n)>>] # "dir"}
    IN CHOOSE n \in stops : \A m \in stops : n <= m
Stop(tree, names) == <<tree, UpTo(names, Taken(tree, names))>>

\* The place that the path names, behind a linked directory if it meets one, and
\* the place where the walk to it ends.
Rest == Below(path)
Linked ==
    Taken("root", Rest) < Len(Rest) /\ entry[Stop("root", Rest)] = "link to dir"
Named ==
    IF Linked THEN <<"outside", After(Rest, Taken("root", Rest))>> ELSE <<"root", Rest>>
Stopped == Stop(Named[1], Named[2])
Whole   == IF Rest = <<>> THEN TRUE ELSE Stopped = Named
\* "d/": the kernel wants a directory, and follows a link to one.
Slash == Len(path) > 1 /\ EndsWithSlash(path)

Links == {"link to dir", "link to file"}
Found ==
    IF Rest = <<>> THEN "dir"
    ELSE IF ~Whole
         THEN IF entry[Stopped] = "absent" THEN "missing" ELSE "not a directory"
    ELSE IF Slash /\ entry[Named] = "link to dir" THEN "dir"
    ELSE IF Slash /\ entry[Named] \in {"file", "link to file"} THEN "not a directory"
    ELSE entry[Named]

\* Something else at a place; a directory is empty at first.
Put(p, e) ==
    [q \in Place |->
       IF q = p THEN e
       ELSE IF q[1] = p[1] /\ Len(q[2]) > Len(p[2]) /\ UpTo(q[2], Len(p[2])) = p[2]
            THEN "absent" ELSE entry[q]]

Ends(outcome) ==
    /\ pc' = outcome
    /\ UNCHANGED <<entry, changes, op, path, bucketPath, made, at>>
Opens(p) ==
    /\ at' = at \cup {p} /\ pc' = "opened"
    /\ UNCHANGED <<changes, op, path, bucketPath, made>>

\* validate_path in the handler, and FsBackend::resolve.
Resolve ==
    /\ pc = "received"
    /\ Ends(IF ~Valid(path) \/ ~Inside(path) THEN "invalid_path"
            ELSE IF Found \in Links THEN "invalid_path"
            ELSE IF Found = "not a directory" THEN "io_error" ELSE "checked")

\* open_read: O_NOFOLLOW; a directory can be opened, but not read.
OpenRead_LooksAfterwards ==
    /\ pc = "checked" /\ op = "read"
    /\ Found \in {"file"} \cup Links
    /\ at' = at \cup {Named}
    /\ pc' = IF Found \in Links THEN "invalid_path" ELSE "opened"
    /\ UNCHANGED <<entry, changes, op, path, bucketPath, made>>
OpenRead ==
    /\ pc = "checked" /\ op = "read"
    /\ \/ Found = "file" /\ Opens(Named) /\ UNCHANGED entry
       \/ Found \in Links /\ Ends("invalid_path")
       \/ Found \in {"absent", "missing"} /\ Ends("not_found")
       \/ Found \in {"dir", "not a directory"} /\ Ends("io_error")

\* write_all: create_dir_all of the parent, in the blocking pool, one mkdir in a
\* step.  A mkdir may fail, and does if a directory it made before is gone.
MakeDirs ==
    LET depth == Len(Rest) - Len(Named[2]) + Len(Stopped[2]) IN
    /\ pc = "checked" /\ op = "write"
    /\ \/ Whole /\ Ends("made")
       \/ ~Whole /\ Ends("io_error")
       \/ /\ ~Whole /\ entry[Stopped] = "absent" /\ depth > made
          /\ entry' = Put(Stopped, "dir") /\ made' = depth
          /\ UNCHANGED <<changes, op, path, bucketPath, pc, at>>

\* The open that creates or truncates.
OpenWrite_Follows ==
    /\ pc = "made"
    /\ ~Slash /\ Found \in {"file", "absent", "link to file"}
    /\ Opens(IF Found \in Links THEN <<"outside", After(Rest, Len(Rest) - 1)>> ELSE Named)
    /\ UNCHANGED entry
OpenWrite ==
    /\ pc = "made"
    /\ \/ /\ ~Slash /\ Found \in {"file", "absent"}
          /\ Opens(Named) /\ entry' = Put(Named, "file")
       \/ ~Slash /\ Found \in Links /\ Ends("invalid_path")
       \/ (Slash \/ Found \notin {"file", "absent"} \cup Links) /\ Ends("io_error")

\* Another program puts something else at a place below the root, before the
\* request has ended.
Change ==
    /\ changes < MaxChanges /\ pc \in {"received", "checked", "made"}
    /\ \E p \in Place, e \in Entry :
         /\ p[1] = "root"
         /\ \A n \in 1..(Len(p[2]) - 1) : entry[<<"root", UpTo(p[2], n)>>] = "dir"
         /\ entry' = Put(p, e)
    /\ changes' = changes + 1
    /\ UNCHANGED <<op, path, bucketPath, pc, made, at>>

Next == Resolve \/ OpenRead \/ MakeDirs \/ OpenWrite \/ Change

Spec == Init /\ [][Next]_vars

-----------------------------------------------------------------------------
(* Properties.                                                             *)

\* Types; a request has opened something exactly when its copy can go on.
TypeOK ==
    /\ entry \in [Place -> Entry] /\ changes \in 0..MaxChanges /\ made \in 0..Depth
    /\ op \in {"read", "write"} /\ path \in Requests /\ bucketPath \in BucketPaths
    /\ pc \in {"received", "checked", "made", "opened",
               "invalid_path", "not_found", "io_error"}
    /\ at \subseteq Place
    /\ at # {} <=> pc = "opened"

\* Whatever becomes a link between the check and the open: the path of what is
\* opened, created or truncated is valid and lies below the root, and it is the
\* entry that the path names, itself and not what a link there points to.  It may
\* lie outside of the data directory, but only behind a directory on the way that
\* is a link: resolve and O_NOFOLLOW look at the last component and at no other,
\* against SECURITY.md:95-98.  A path of one name never leaves the root.
WayIsDirs(names, n) == \A m \in 1..(n - 1) : entry[<<"root", UpTo(names, m)>>] = "dir"
OpensWhatItNames ==
    [][\A p \in at' \ at :
          /\ Valid(path) /\ Inside(path) /\ entry[p] \in {"file", "absent"}
          /\ \/ p = <<"root", Rest>> /\ WayIsDirs(Rest, Len(Rest))
             \/ \E n \in 1..(Len(Rest) - 1) :
                  /\ WayIsDirs(Rest, n) /\ entry[<<"root", UpTo(Rest, n)>>] = "link to dir"
                  /\ p = <<"outside", After(Rest, n)>>
      ]_vars

\* A copied object is listed under the path it was copied to, if that is one
\* name, and under none otherwise; two paths never share a key: strip_prefix
\* undoes key for every bucket_path that validate lets through (s3.rs).
KeyRoundTrip ==
    Valid(path) =>
        LET key == Key(bucketPath, path) IN
        /\ StripPrefix(bucketPath, key) = {path}
        /\ Listed(bucketPath, key) = IF Len(path) = 1 THEN {path} ELSE {}
        /\ bucketPath # <<Nil>> => key[1] = bucketPath[1] /\ Len(key) > 1
=============================================================================
