------------------------------ MODULE Listing -------------------------------
(***************************************************************************)
(* A client that walks GET /v1/files page by page with startAfter, while   *)
(* files come and go: list_files (router.rs), list of the FS, S3 and       *)
(* offline backends, and the readdir and ListObjectsV2 they rest on.       *)
(*                                                                         *)
(* Requests share nothing but the store, so one walk is enough; what       *)
(* other requests (copies, say) do to the store is in Create and Delete.   *)
(***************************************************************************)
EXTENDS Naturals, FiniteSets, Sequences, SequencesExt

CONSTANTS
    Names,         \* the names a store may hold, as naturals in name order
    Exotic,        \* those among them that validate_path refuses
    Nested,        \* those that, as keys, hold a "/" behind the bucket's prefix
    DefaultLimit,  \* DEFAULT_LIST_LIMIT
    MaxLimit,      \* MAX_LIST_LIMIT
    PageSize,      \* keys in one answer to ListObjectsV2
    MaxChanges     \* bound: changes to the store during a behaviour

ASSUME ListingAssumption ==
    /\ Names \subseteq Nat \ {0} /\ IsFiniteSet(Names)
    /\ Exotic \subseteq Names /\ Nested \subseteq Names
    /\ MaxLimit \in Nat \ {0} /\ DefaultLimit \in 1..MaxLimit
    /\ PageSize \in Nat \ {0} /\ MaxChanges \in Nat

None == 0            \* no startAfter, no nextCursor, no continuation token
Asked == 0..(MaxLimit + 1)     \* the limit of a query; 0 also if it is absent

Ended == {"done",              \* a page came without nextCursor
          "invalid_path",      \* 400: validate_path refused startAfter
          "limit_too_large",   \* 413
          "no_backend",        \* 503: Backends::pick
          "offline"}           \* 502: OfflineBackend
Phase == {"client",            \* it is the client's turn
          "scanning",          \* FS: in the readdir loop
          "paging"} \cup Ended \* S3: awaiting an answer to ListObjectsV2

VARIABLES
    backend,    \* what the query's type names: "FS", "S3", "offline", "none"
    store,      \* each name: "file", "other" (FS: a directory or a link; S3:
                \* a nested key) or "absent"
    changes,    \* how often it has changed
    phase,
    cursor,     \* the startAfter of the current or next request
    limit,      \* its effective limit
    found,      \* FS: collected, kept in the order its sort gives; S3: out
    visited,    \* FS: entries readdir has delivered
    due,        \* FS: entries there since read_dir and not delivered yet
    token,      \* S3: the last key of the previous answer, or None
    returned,   \* history: all pages the client has got, joined
    stable,     \* history: files that were there since the walk began
    seen        \* history: files that were there at some time since the
                \* current request began

request == <<cursor, limit>>
scan    == <<visited, due>>
history == <<returned, stable, seen>>
vars == <<backend, store, changes, phase, request, found, scan, token, history>>

-----------------------------------------------------------------------------
Files   == {n \in Names : store[n] = "file"}
Present == {n \in Names : store[n] # "absent"}

(* What can be there under a name.                                         *)
KindsOf(n) == IF backend = "FS" THEN {"file", "other"}
              ELSE IF n \in Nested THEN {"other"} ELSE {"file"}

(* Where a sorted sequence has its first name after n: there n is inserted, *)
(* and from there on the names are after n.                                *)
FirstAfter(s, n) ==
    CHOOSE p \in 1..(Len(s) + 1) :
        (\A i \in 1..(p - 1) : s[i] <= n) /\ (p <= Len(s) => s[p] > n)
InsertSorted(s, n) == InsertAt(s, FirstAfter(s, n), n)
After(s, n) == SubSeq(s, FirstAfter(s, n), Len(s))

(* A set of names in the order of the names: there is one such sequence.   *)
InNameOrder(S) ==
    {s \in [1..Cardinality(S) -> S] :
        /\ \A i, j \in DOMAIN s : i < j => s[i] < s[j]
        /\ \A n \in S : \E i \in DOMAIN s : s[i] = n}
Take(s, n) == SubSeq(s, 1, IF n < Len(s) THEN n ELSE Len(s))

Init ==
    /\ backend \in {"FS", "S3", "offline", "none"}
    /\ store \in [Names -> {"file", "other", "absent"}]
    /\ \A n \in Names : store[n] \in KindsOf(n) \cup {"absent"}
    /\ changes = 0
    /\ phase = "client"
    /\ cursor = None /\ limit = DefaultLimit
    /\ found = <<>> /\ visited = {} /\ due = {} /\ token = None
    /\ returned = <<>>
    /\ stable = Files
    /\ seen = Files

-----------------------------------------------------------------------------
(* An operator X_Something is X with a plausible bug.  Nothing uses it:    *)
(* PROJECT.json pairs each with the property that finds it.                *)

(* list_files: the limit a query gets.                                     *)
EffectiveLimit_ZeroKept(asked) == asked

EffectiveLimit(asked) == IF asked = 0 THEN DefaultLimit ELSE asked

(* list_files up to its await: pick, the limit, the cursor.                *)
Verdict(asked) ==
    IF backend = "none" THEN "no_backend"
    ELSE IF asked > MaxLimit THEN "limit_too_large"
    ELSE IF cursor \in Exotic THEN "invalid_path"
    ELSE IF backend = "offline" THEN "offline"
    ELSE IF backend = "FS" THEN "scanning"
    ELSE "paging"

(* A request of the client; FS list opens the directory.                   *)
Request(asked) ==
    /\ phase = "client"
    /\ phase' = Verdict(asked)
    /\ limit' = IF Verdict(asked) \in Ended THEN limit ELSE EffectiveLimit(asked)
    /\ due' = IF Verdict(asked) = "scanning" THEN Present ELSE {}
    /\ seen' = Files
    /\ UNCHANGED <<backend, store, changes, cursor, found, visited, token,
                   returned, stable>>

(* The reply: the page, and a cursor if it is full.                        *)
Reply_CursorIfAny(page) ==
    /\ returned' = returned \o page
    /\ IF Len(page) > 0
       THEN cursor' = page[Len(page)] /\ phase' = "client"
       ELSE cursor' = None /\ phase' = "done"
    /\ found' = <<>> /\ visited' = {} /\ due' = {} /\ token' = None

Reply(page) ==
    /\ returned' = returned \o page
    /\ IF Len(page) = limit
       THEN cursor' = page[limit] /\ phase' = "client"
       ELSE cursor' = None /\ phase' = "done"
    /\ found' = <<>> /\ visited' = {} /\ due' = {} /\ token' = None

(* FS: readdir delivers an entry and symlink_metadata looks at it.  An     *)
(* entry that is gone by then changes nothing; one that was made again     *)
(* may be delivered again.                                                 *)
ScanEntry_NoSort(n) ==
    /\ phase = "scanning"
    /\ n \in Present \ visited
    /\ visited' = visited \cup {n}
    /\ due' = due \ {n}
    /\ found' = IF store[n] = "file" THEN Append(found, n) ELSE found
    /\ UNCHANGED <<backend, store, changes, phase, request, token, history>>

ScanEntry_FollowsLinks(n) ==
    /\ phase = "scanning"
    /\ n \in Present \ visited
    /\ visited' = visited \cup {n}
    /\ due' = due \ {n}
    /\ found' = InsertSorted(found, n)
    /\ UNCHANGED <<backend, store, changes, phase, request, token, history>>

ScanEntry(n) ==
    /\ phase = "scanning"
    /\ n \in Present \ visited
    /\ visited' = visited \cup {n}
    /\ due' = due \ {n}
    /\ found' = IF store[n] = "file" THEN InsertSorted(found, n) ELSE found
    /\ UNCHANGED <<backend, store, changes, phase, request, token, history>>

(* FS: readdir is at its end; skip up to the cursor, take the limit.       *)
ScanEnd_TakesFirst ==
    /\ phase = "scanning" /\ due = {}
    /\ Reply(After(Take(found, limit), cursor))
    /\ UNCHANGED <<backend, store, changes, limit, stable, seen>>

ScanEnd ==
    /\ phase = "scanning" /\ due = {}
    /\ Reply(Take(After(found, cursor), limit))
    /\ UNCHANGED <<backend, store, changes, limit, stable, seen>>

(* S3: one answer to ListObjectsV2, as the bucket is now: at most PageSize *)
(* keys after the token or start_after, at least one if there are any.     *)
Answers(after) ==
    LET keys == {n \in Present : n > after} IN
    IF keys = {} THEN {[keys |-> {}, truncated |-> FALSE]}
    ELSE {[keys |-> part, truncated |-> part # keys] :
            part \in {p \in {{n \in keys : n <= last} : last \in keys} :
                        Cardinality(p) <= PageSize}}

(* S3 list: keep the root-level keys of the answer up to the limit, then   *)
(* reply or ask for more.                                                  *)
S3Answer_StartsOver ==
    /\ phase = "paging"
    /\ \E answer \in Answers(cursor) :
         \E flat \in InNameOrder(answer.keys \cap Files) :
         LET out == found \o Take(flat, limit - Len(found))
         IN  IF Len(out) >= limit \/ ~answer.truncated
             THEN Reply(out)
             ELSE /\ found' = out
                  /\ token' = CHOOSE n \in answer.keys :
                                \A m \in answer.keys : m <= n
                  /\ UNCHANGED <<phase, cursor, scan, returned>>
    /\ UNCHANGED <<backend, store, changes, limit, stable, seen>>

S3Answer ==
    /\ phase = "paging"
    /\ \E answer \in Answers(IF token = None THEN cursor ELSE token) :
         \E flat \in InNameOrder(answer.keys \cap Files) :
         LET out == found \o Take(flat, limit - Len(found))
         IN  IF Len(out) >= limit \/ ~answer.truncated
             THEN Reply(out)
             ELSE /\ found' = out
                  /\ token' = CHOOSE n \in answer.keys :
                                \A m \in answer.keys : m <= n
                  /\ UNCHANGED <<phase, cursor, scan, returned>>
    /\ UNCHANGED <<backend, store, changes, limit, stable, seen>>

(* 500 io_error, 502 upstream_error, the request timeout or a client that  *)
(* hangs up: nothing is returned, and the client may ask again.            *)
Fails ==
    /\ phase \in {"scanning", "paging"}
    /\ phase' = "client"
    /\ found' = <<>> /\ visited' = {} /\ due' = {} /\ token' = None
    /\ UNCHANGED <<backend, store, changes, request, history>>

(* Somebody else changes the store.                                        *)
Change(n, kind) ==
    /\ changes < MaxChanges
    /\ changes' = changes + 1
    /\ store' = [store EXCEPT ![n] = kind]
    /\ UNCHANGED <<backend, phase, request, found, token, returned>>

Create(n) ==
    /\ phase \notin Ended /\ store[n] = "absent"
    /\ \E kind \in KindsOf(n) :
         /\ Change(n, kind)
         /\ seen' = IF kind = "file" THEN seen \cup {n} ELSE seen
    /\ UNCHANGED <<scan, stable>>

Delete(n) ==
    /\ phase \notin Ended /\ store[n] # "absent"
    /\ Change(n, "absent")
    /\ visited' = visited \ {n} /\ due' = due \ {n}
    /\ stable' = stable \ {n}
    /\ UNCHANGED seen

Next ==
    \/ \E asked \in Asked : Request(asked)
    \/ \E n \in Names : ScanEntry(n) \/ Create(n) \/ Delete(n)
    \/ ScanEnd \/ S3Answer \/ Fails

Spec == Init /\ [][Next]_vars

(* The client goes on with its walk, a directory scan runs on, S3 answers. *)
FairSpec ==
    /\ Spec
    /\ WF_vars(\E asked \in Asked : Request(asked))
    /\ WF_vars(\E n \in Names : ScanEntry(n)) /\ WF_vars(ScanEnd)
    /\ WF_vars(S3Answer)

-----------------------------------------------------------------------------
(* Properties.                                                             *)

TypeOK ==
    /\ backend \in {"FS", "S3", "offline", "none"}
    /\ store \in [Names -> {"file", "other", "absent"}]
    /\ changes \in 0..MaxChanges
    /\ phase \in Phase
    /\ cursor \in Names \cup {None}
    /\ limit \in 1..MaxLimit
    /\ found \in Seq(Names)
    /\ visited \subseteq Names /\ due \subseteq Names
    /\ token \in Names \cup {None}
    /\ returned \in Seq(Names)
    /\ stable \subseteq Names /\ seen \subseteq Names

(* A walk that reached a page without nextCursor has returned every file   *)
(* that was there all the time exactly once, whatever came and went next   *)
(* to it, between two pages or while one was made (list_files' cursor,     *)
(* the sort in FS list, start_after and the token in S3 list).             *)
StableListedOnce ==
    phase = "done" => \A n \in stable :
        Cardinality({i \in DOMAIN returned : returned[i] = n}) = 1

(* backend/mod.rs, ListOptions: entries come in name order, over all pages *)
(* of a walk; a name comes twice only if its file was made again.          *)
InOrder ==
    \A i, j \in DOMAIN returned : i < j =>
        /\ returned[i] <= returned[j]
        /\ returned[i] = returned[j] => returned[i] \notin stable

(* What a listing is about to return was a regular file in the root at     *)
(* some time since the request: no link, no directory, no nested key.      *)
NothingInvented == \A i \in DOMAIN found : found[i] \in seen

(* A page is what Walk promises of it, from a directory scan and from S3's *)
(* answers alike, while files come and go: ListFilesMeta's nextCursor, for *)
(* one, comes with a full page only.                                       *)
Status == CASE phase = "client"                 -> "idle"
            [] phase \in {"scanning", "paging"} -> "asked"
            [] phase = "done"                   -> "done"
            [] OTHER                            -> "refused"
Promise == INSTANCE Walk WITH
             files  <- Files,
             steady <- stable,
             recent <- seen,
             status <- Status,
             pages  <- returned
WalkRefinement == Promise!Spec

(* If requests stop failing the walk comes to its end: the loop over       *)
(* continuation tokens and the walk over cursors both make progress.       *)
WalkEnds == <>[][~Fails]_vars => <>(phase \in Ended)

(* model.rs:41: "when the page is full, the client should request          *)
(* ?startAfter={nextCursor} to fetch the next page": that request is not   *)
(* refused for its cursor.                                                 *)
CursorAccepted == phase # "invalid_path"
=============================================================================
