-------------------------------- MODULE Paths --------------------------------
(***************************************************************************)
(* What a path of a request names: validate_path (validate.rs), the file   *)
(* below the data directory (FsBackend::resolve) and the key below         *)
(* bucket_path (S3Backend::key, strip_prefix).  A string is the sequence   *)
(* of its segments between slashes: "a//b" is <<"a", "", "b">>, the empty  *)
(* string is <<"">>, and an absolute path begins with "".                  *)
(***************************************************************************)
EXTENDS Naturals, Sequences

CONSTANTS Names,        \* segments of allowed characters, longer than a dot
          Nil,          \* ""
          Dot, DotDot,  \* "." and ".."
          Odd,          \* a segment with NUL or another refused character
          RootPath      \* the segments of the data directory, an absolute path

Segment == Names \cup {Nil, Dot, DotDot, Odd}

ASSUME PathsAssumption ==
    /\ Names \cap {Nil, Dot, DotDot, Odd} = {}
    /\ RootPath \in Seq(Names)

Valid(path) ==
    /\ path # <<Nil>>
    /\ \A i \in 1..Len(path) : path[i] \notin {Odd, Dot, DotDot}

\* The components std::path sees: neither empty nor "." (".." stays).
Components(path) ==
    LET upTo[i \in 0..Len(path)] ==
          IF i = 0 THEN <<>>
          ELSE IF path[i] \in {Nil, Dot} THEN upTo[i - 1]
          ELSE Append(upTo[i - 1], path[i])
    IN upTo[Len(path)]

\* root.join(path): an absolute path replaces the root.
Absolute(path) == Len(path) > 1 /\ path[1] = Nil
Joined(path) ==
    IF Absolute(path) THEN Components(path) ELSE RootPath \o Components(path)

\* One of the ancestors of the joined path is the root; what comes below it.
Inside(path) ==
    /\ Len(Joined(path)) >= Len(RootPath)
    /\ SubSeq(Joined(path), 1, Len(RootPath)) = RootPath
Below(path) == SubSeq(Joined(path), Len(RootPath) + 1, Len(Joined(path)))

\* bucket_path with the slash that key and strip_prefix put in if it is missing:
\* its last segment is then "", and a path takes that segment's place.
EndsWithSlash(s) == s[Len(s)] = Nil
Key_SlashAlways(bucketPath, path) ==
    IF bucketPath = <<Nil>> THEN path ELSE bucketPath \o path
Key(bucketPath, path) ==
    IF bucketPath = <<Nil>> THEN path
    ELSE IF EndsWithSlash(bucketPath)
         THEN SubSeq(bucketPath, 1, Len(bucketPath) - 1) \o path
         ELSE bucketPath \o path

\* The path of a key below bucket_path, as a set of at most one.
StripPrefix(bucketPath, key) ==
    LET dirs == IF bucketPath = <<Nil>> THEN <<>>
                ELSE IF EndsWithSlash(bucketPath)
                     THEN SubSeq(bucketPath, 1, Len(bucketPath) - 1)
                     ELSE bucketPath
    IN IF Len(key) > Len(dirs) /\ SubSeq(key, 1, Len(dirs)) = dirs
       THEN {SubSeq(key, Len(dirs) + 1, Len(key))} ELSE {}

\* S3Config::validate, and the files that list reports.
GoodPrefix(bucketPath) ==
    /\ \A i \in 1..Len(bucketPath) : bucketPath[i] # DotDot
    /\ ~Absolute(bucketPath)
Listed(bucketPath, key) ==
    {p \in StripPrefix(bucketPath, key) : Len(p) = 1 /\ p # <<Nil>>}
=============================================================================
