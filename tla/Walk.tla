-------------------------------- MODULE Walk --------------------------------
(***************************************************************************)
(* What GET /v1/files promises a client that walks it page by page,        *)
(* whichever backend answers and however it finds the names (ListOptions,  *)
(* backend/mod.rs; ListFilesMeta, model.rs): a page holds names after the  *)
(* cursor, in order, of files that were there while the request ran; a     *)
(* file that was there all along is missing from it only if it comes after *)
(* the last name of a full page; and only a full page has a next cursor.   *)
(***************************************************************************)
EXTENDS Naturals, Sequences

CONSTANTS
    Names,      \* the names a store may hold, as naturals in name order
    MaxLimit    \* the largest page a client may ask for

VARIABLES
    files,      \* the files that are there
    steady,     \* those that were there since the walk began
    recent,     \* those that were there since the current request began
    status,     \* "idle", "asked", "done" or "refused"
    limit,      \* how many names the current request may return
    cursor,     \* it returns names after this one; 0 comes before all names
    pages       \* what the client got, joined

vars == <<files, steady, recent, status, limit, cursor, pages>>

Init ==
    /\ files \in SUBSET Names
    /\ steady = files /\ recent = files
    /\ status = "idle"
    /\ limit \in 1..MaxLimit
    /\ cursor = 0
    /\ pages = <<>>

Ask ==
    /\ status = "idle"
    /\ status' \in {"asked", "refused"}
    /\ limit' \in 1..MaxLimit
    /\ recent' = files
    /\ UNCHANGED <<files, steady, cursor, pages>>

(* No other names, each in its place, and nothing skipped.                 *)
Sound(page) == \A i \in DOMAIN page : cursor < page[i] /\ page[i] \in recent
Sorted(page) ==
    \A i, j \in DOMAIN page : i < j =>
        page[i] <= page[j] /\ (page[i] = page[j] => page[i] \notin steady)
Complete(page) ==
    \A m \in steady :
        /\ cursor < m
        /\ Len(page) = limit => m <= page[limit]
        => \E i \in DOMAIN page : page[i] = m

Answer ==
    /\ status = "asked"
    /\ \E n \in 0..limit : \E page \in [1..n -> recent] :
         /\ Sound(page) /\ Sorted(page) /\ Complete(page)
         /\ pages' = pages \o page
         /\ \/ n = limit /\ status' = "idle" /\ cursor' = page[limit]
            \/ n < limit /\ status' = "done" /\ cursor' = 0
    /\ UNCHANGED <<files, steady, recent, limit>>

Fail ==
    /\ status = "asked"
    /\ status' = "idle"
    /\ UNCHANGED <<files, steady, recent, limit, cursor, pages>>

Appear(n) ==
    /\ files' = files \cup {n}
    /\ recent' = recent \cup {n}
    /\ UNCHANGED <<steady, status, limit, cursor, pages>>

Vanish(n) ==
    /\ files' = files \ {n}
    /\ steady' = steady \ {n}
    /\ UNCHANGED <<recent, status, limit, cursor, pages>>

Next == Ask \/ Answer \/ Fail \/ \E n \in Names : Appear(n) \/ Vanish(n)

Spec == Init /\ [][Next]_vars
=============================================================================
