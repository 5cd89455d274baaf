------------------------------- MODULE MCBoot -------------------------------
(***************************************************************************)
(* Documents vary one concern at a time around one that declares           *)
(* everything and one that declares nothing; so do the environments.  The  *)
(* files that an operator did not mean hold another document.              *)
(***************************************************************************)
EXTENDS Boot

Bare == [token |-> {}, trust |-> {}, docs |-> {}, cors |-> {}, s3 |-> {},
         inactivity |-> {}, maxRequest |-> {}]
Bucket == [access |-> "KEY", secret |-> "SECRET", prefix |-> "plain"]
Full == [Bare EXCEPT !.token = {"TOKEN"}, !.docs = {FALSE}, !.s3 = {Bucket}]

MCNames == {"TOKEN", "KEY", "SECRET"}
Gates == {[Full EXCEPT !.token = t, !.trust = b, !.docs = d] :
            t \in {{}, {""}, {"TOKEN"}}, b \in {{}, {TRUE}}, d \in {{}, {FALSE}}}
Buckets == {[Full EXCEPT !.s3 = {[Bucket EXCEPT !.prefix = x]}, !.cors = c] :
              x \in {"plain", "dots", "absolute"}, c \in {{}, {""}, {"origin"}}}
Limits == {[Full EXCEPT !.inactivity = i, !.maxRequest = m] :
             i \in {{}, {300}, {301}}, m \in {{}, {100}, {101}}}
MCDocuments == {Bare} \cup Gates \cup Buckets \cup Limits

MCDisks ==
  {[f \in Paths |-> IF f = g THEN c ELSE other] :
     g \in Paths, c \in {Missing, Garbage} \cup {Holding(d) : d \in MCDocuments},
     other \in {Missing, Holding(Bare)}}
MCEdits == {Missing, Holding(Full)}

AllSet == [given |-> FALSE, var |-> "unset", env |-> [n \in MCNames |-> "secret"],
           admin |-> "unset", offline |-> "unset"]
Environments ==
  {AllSet}
  \cup {[AllSet EXCEPT !.env[n] = v] : n \in MCNames, v \in {"unset", ""}}
  \cup {[AllSet EXCEPT !.admin = "1", !.offline = v] : v \in {"unset", "0", "1"}}
MCLaunches ==
  {[e EXCEPT !.given = g, !.var = v] :
     e \in Environments, g \in BOOLEAN, v \in {"unset", "empty", "set"}}
=============================================================================
