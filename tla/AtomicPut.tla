----------------------------- MODULE AtomicPut ------------------------------
(***************************************************************************)
(* What a copy into S3 promises (Backend::write_all, "replacing any prior  *)
(* object", backend/mod.rs, as S3Backend keeps it): a copy offers at most  *)
(* one body, within the cap; an object changes only to an offered body, as *)
(* a whole; success is reported only after the body took effect; a copy    *)
(* that has not offered a body can only fail, without any effect; and what *)
(* is reported does not change.  A failure says nothing about a body that  *)
(* was offered: it may have taken effect, or take effect later.            *)
(***************************************************************************)
EXTENDS Naturals

CONSTANTS
    Copies,     \* copies whose destination may be S3
    Paths,      \* object keys
    Bodies,     \* the bodies within the cap
    Absent,     \* no object, or no body offered
    Attempts,   \* how often one body can be pending
    ObjInit     \* the objects at the start

VARIABLES
    obj,        \* the object under each key
    dest,       \* the key each copy writes
    body,       \* the body a copy has offered, or Absent
    pending,    \* how many times it can still take effect
    done,       \* it took effect at least once
    result      \* "open", "ok" or "failed"

vars == <<obj, dest, body, pending, done, result>>

Init ==
    /\ obj = ObjInit
    /\ dest \in [Copies -> Paths]
    /\ body = [c \in Copies |-> Absent]
    /\ pending = [c \in Copies |-> 0]
    /\ done = [c \in Copies |-> FALSE]
    /\ result = [c \in Copies |-> "open"]

Offer(c) ==
    /\ result[c] = "open" /\ body[c] = Absent
    /\ pending' = [pending EXCEPT ![c] = 1]
    /\ \E s \in Bodies : body' = [body EXCEPT ![c] = s]
    /\ UNCHANGED <<obj, dest, done, result>>

OfferAgain(c) ==
    /\ result[c] = "open" /\ body[c] # Absent
    /\ pending[c] < Attempts
    /\ pending' = [pending EXCEPT ![c] = @ + 1]
    /\ UNCHANGED <<obj, dest, body, done, result>>

Apply(c) ==
    /\ pending[c] > 0
    /\ obj' = [obj EXCEPT ![dest[c]] = body[c]]
    /\ pending' = [pending EXCEPT ![c] = @ - 1]
    /\ done' = [done EXCEPT ![c] = TRUE]
    /\ UNCHANGED <<dest, body, result>>

Lose(c) ==
    /\ pending[c] > 0
    /\ pending' = [pending EXCEPT ![c] = @ - 1]
    /\ UNCHANGED <<obj, dest, body, done, result>>

Succeed(c) ==
    /\ result[c] = "open" /\ done[c]
    /\ result' = [result EXCEPT ![c] = "ok"]
    /\ UNCHANGED <<obj, dest, body, pending, done>>

GiveUp(c) ==
    /\ result[c] = "open"
    /\ result' = [result EXCEPT ![c] = "failed"]
    /\ UNCHANGED <<obj, dest, body, pending, done>>

\* The service ends: copies that are open get no answer.
Abandon ==
    /\ DOMAIN result' = Copies
    /\ \A c \in Copies :
         \/ result'[c] = result[c]
         \/ result[c] = "open" /\ result'[c] = "failed"
    /\ UNCHANGED <<obj, dest, body, pending, done>>

Next ==
    \/ \E c \in Copies :
         Offer(c) \/ OfferAgain(c) \/ Apply(c) \/ Lose(c) \/ Succeed(c) \/ GiveUp(c)
    \/ Abandon

Spec == Init /\ [][Next]_vars
=============================================================================
