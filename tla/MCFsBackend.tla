----------------------------- MODULE MCFsBackend -----------------------------
(* Every path of up to two segments, and every valid one of three; the     *)
(* root is /d, so that an absolute path can lie in it.                     *)
EXTENDS FsBackend

CONSTANTS d, x     \* two names

TwoNames == {d, x}
RootD == <<d>>
Short == [1..1 -> Segment] \cup [1..2 -> Segment]
MCRequests == Short \cup {p \in [1..3 -> Segment] : Valid(p)}
MCBucketPaths == {<<Nil>>, <<x>>, <<x, Nil>>, <<x, d>>, <<x, d, Nil>>}
=============================================================================
