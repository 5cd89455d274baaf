-------------------------------- MODULE Boot --------------------------------
(***************************************************************************)
(* From the command line to a listening socket: which configuration a      *)
(* FileFerry process runs with, or why it does not run (main.rs,           *)
(* config.rs, boot_warnings.rs, doctor.rs).  Two processes read the same   *)
(* environment and the same disk: the server and `fileferry doctor`, while *)
(* an operator edits the files.                                            *)
(*                                                                         *)
(* An Option is a set with at most one member.                             *)
(***************************************************************************)
EXTENDS Naturals, FiniteSets

CONSTANTS Documents,   \* the YAML documents that a config file may hold
          Names,       \* environment variables that a document can refer to
          Launches,    \* the command lines and environments to start with
          Disks,       \* the contents of the config files to start with
          Edits,       \* what an operator may write into a config file
          MaxEdits     \* how many edits there are: a bound for TLC

Fixed == "./fileferry.yaml"
Paths == {"given", "var", Fixed}   \* --config, FILEFERRY_CONFIG, the default
Option(S) == {{}} \cup {{x} : x \in S}
Or(o, default) == IF o = {} THEN default ELSE CHOOSE x \in o : TRUE

\* What serde accepts: every field may be left out, and a block that is left
\* out is one whose fields all are.  The text of a prefix matters only as far
\* as it is validated.
S3Block == [access : Names, secret : Names, prefix : {"plain", "dots", "absolute"}]
Document ==
  [token : Option(Names \cup {""}), trust : Option(BOOLEAN), docs : Option(BOOLEAN),
   cors : Option({"", "origin"}), s3 : Option(S3Block),
   inactivity : SUBSET Nat, maxRequest : SUBSET Nat]

\* A file that does not exist, one that is unreadable or does not parse, or a
\* document.
Missing == [exists |-> FALSE, doc |-> {}]
Garbage == [exists |-> TRUE, doc |-> {}]
Holding(d) == [exists |-> TRUE, doc |-> {d}]
Contents == {Missing, Garbage} \cup {Holding(d) : d \in Documents}

Launch ==
  [given : BOOLEAN,                    \* --config given
   var : {"unset", "empty", "set"},    \* FILEFERRY_CONFIG
   env : [Names -> {"unset", "", "secret"}],
   admin : {"unset", "0", "1"},        \* FILEFERRY_ADMIN_ENABLED
   offline : {"unset", "0", "1"}]      \* FILEFERRY_OFFLINE

ASSUME InputsAreTyped ==
  /\ Documents \subseteq Document
  /\ \A d \in Documents : Cardinality(d.inactivity) < 2 /\ Cardinality(d.maxRequest) < 2
  /\ Launches \subseteq Launch
  /\ Disks \subseteq [Paths -> Contents]
  /\ Edits \subseteq Contents
  /\ MaxEdits \in Nat

VARIABLES launch,   \* argv and the environment: fixed for a process
          disk,     \* contents of the config files
          edits,    \* edits so far
          at,       \* how far each process is
          path,     \* the config file that each process settled on
          text,     \* what it found there
          config,   \* its AppConfig
          warned,   \* the warnings that it gave
          backend   \* the server's S3 backend

vars == <<launch, disk, edits, at, path, text, config, warned, backend>>

Processes == {"server", "doctor"}

\* `1`, `true`, `yes` in any case and with blanks around them.
Truthy(v) == v = "1"
Live(n) == launch.env[n] \notin {"unset", ""}

\* parse_config_arg and resolve_path: the first of --config, a FILEFERRY_CONFIG
\* that is not empty, and the default file if it exists now.
Resolution ==
  IF launch.given THEN {"given"}
  ELSE IF launch.var = "set" THEN {"var"}
  ELSE {p \in {Fixed} : disk[p].exists}

Defaults ==
  [token |-> {}, trust |-> FALSE, admin |-> Truthy(launch.admin), docs |-> TRUE,
   s3 |-> {}, inactivity |-> 30, maxRequest |-> 32]

\* S3Config::validate.
BadPrefix(b) == b.prefix \in {"dots", "absolute"}
\* The three ways out of from_yaml that are errors.
Refused(d) ==
  \/ \E n \in d.token \ {""} : ~Live(n)
  \/ \E b \in d.s3 : ~Live(b.access) \/ ~Live(b.secret) \/ BadPrefix(b)
  \/ Or(d.cors, "") # ""

FromYaml(d) ==
  [token |-> {launch.env[n] : n \in d.token \ {""}},
   trust |-> Or(d.trust, FALSE),
   admin |-> Truthy(launch.admin),
   docs |-> Or(d.docs, Defaults.docs),
   s3 |-> {[access |-> launch.env[b.access], secret |-> launch.env[b.secret]] : b \in d.s3},
   inactivity |-> Or(d.inactivity, Defaults.inactivity),
   maxRequest |-> Or(d.maxRequest, Defaults.maxRequest)]

-----------------------------------------------------------------------------
(***************************************************************************)
(* The preflight warnings.  main binds 0.0.0.0 and nothing else: the       *)
(* address is never a loopback one.  maxRequest counts MiB.                *)
(***************************************************************************)
Loopback == FALSE
W1_TrustIgnored(c) == ~Loopback /\ c.token = {}
W1(c) == ~Loopback /\ c.token = {} /\ ~c.trust
W2(c) == c.trust /\ c.token = {}
W3(c) == c.admin /\ ~Loopback
W4(c) == c.docs /\ ~c.admin /\ ~Loopback
W5(c) == c.inactivity > 300
W6(c) == c.maxRequest > 100
Preflight_FromZero(c) ==
  {w \in 0..5 : <<W1(c), W2(c), W3(c), W4(c), W5(c), W6(c)>>[w + 1]}
Preflight(c) ==
  {w \in 1..6 : <<W1(c), W2(c), W3(c), W4(c), W5(c), W6(c)>>[w]}

-----------------------------------------------------------------------------
Init ==
  /\ launch \in Launches
  /\ disk \in Disks
  /\ edits = 0
  /\ at = [p \in Processes |-> "start"]
  /\ path = [p \in Processes |-> {}]
  /\ text = [p \in Processes |-> {}]
  /\ config = [p \in Processes |-> {}]
  /\ warned = [p \in Processes |-> {}]
  /\ backend = "none"

\* An operator writes, breaks or removes a config file.
Edit(f, c) ==
  /\ edits < MaxEdits
  /\ disk[f] # c
  /\ disk' = [disk EXCEPT ![f] = c]
  /\ edits' = edits + 1
  /\ UNCHANGED <<launch, at, path, text, config, warned, backend>>

\* resolve_path looks whether the default file exists; load reads it later.
Resolve(p) ==
  /\ at[p] = "start"
  /\ path' = [path EXCEPT ![p] = Resolution]
  /\ at' = [at EXCEPT ![p] = "resolved"]
  /\ UNCHANGED <<launch, disk, edits, text, config, warned, backend>>

\* load: the defaults when no file was found, else the file or an error.
\* doctor::run turns an error into exit code 2, main into a fatal line.
Load_UnreadableIsDefault(p) ==
  /\ at[p] = "resolved"
  /\ LET found == {f \in path[p] : disk[f].exists}
         docs  == UNION {disk[f].doc : f \in found}
         fails == found # {} /\ (docs = {} \/ \E d \in docs : Refused(d))
     IN /\ text' = [text EXCEPT ![p] = docs]
        /\ config' = [config EXCEPT ![p] =
                        IF fails THEN {} ELSE IF found = {} THEN {Defaults}
                        ELSE {FromYaml(d) : d \in docs}]
        /\ at' = [at EXCEPT ![p] = IF fails THEN "refused" ELSE "loaded"]
  /\ UNCHANGED <<launch, disk, edits, path, warned, backend>>
Load(p) ==
  /\ at[p] = "resolved"
  /\ LET docs  == UNION {disk[f].doc : f \in path[p]}
         fails == path[p] # {} /\ (docs = {} \/ \E d \in docs : Refused(d))
     IN /\ text' = [text EXCEPT ![p] = docs]
        /\ config' = [config EXCEPT ![p] =
                        IF fails THEN {} ELSE IF path[p] = {} THEN {Defaults}
                        ELSE {FromYaml(d) : d \in docs}]
        /\ at' = [at EXCEPT ![p] = IF fails THEN "refused" ELSE "loaded"]
  /\ UNCHANGED <<launch, disk, edits, path, warned, backend>>

\* write_report, then exit 0 without and 1 with warnings; 2 when stdout does
\* not take the report (a closed pipe).
Report_CountsNothing ==
  /\ at["doctor"] = "loaded"
  /\ \E c \in config["doctor"] : warned' = [warned EXCEPT !["doctor"] = Preflight(c)]
  /\ at' = [at EXCEPT !["doctor"] = "exit 0"]
  /\ UNCHANGED <<launch, disk, edits, path, text, config, backend>>
Report ==
  /\ at["doctor"] = "loaded"
  /\ \E c \in config["doctor"] : warned' = [warned EXCEPT !["doctor"] = Preflight(c)]
  /\ at' = [at EXCEPT !["doctor"] = IF warned'["doctor"] = {} THEN "exit 0" ELSE "exit 1"]
  /\ UNCHANGED <<launch, disk, edits, path, text, config, backend>>
ReportFails ==
  /\ at["doctor"] = "loaded"
  /\ at' = [at EXCEPT !["doctor"] = "torn"]
  /\ UNCHANGED <<launch, disk, edits, path, text, config, warned, backend>>

\* FsBackend::new creates the data directory, or the process ends.
OpenFs ==
  /\ at["server"] = "loaded"
  /\ \E to \in {"fs", "failed"} : at' = [at EXCEPT !["server"] = to]
  /\ UNCHANGED <<launch, disk, edits, path, text, config, warned, backend>>

\* The stub when FILEFERRY_OFFLINE is set, else a client; none without a block.
ConnectS3 ==
  /\ at["server"] = "fs"
  /\ \E c \in config["server"] :
       backend' = IF c.s3 = {} THEN "none"
                  ELSE IF Truthy(launch.offline) THEN "stub" ELSE "live"
  /\ at' = [at EXCEPT !["server"] = "s3"]
  /\ UNCHANGED <<launch, disk, edits, path, text, config, warned>>

LogPreflight ==
  /\ at["server"] = "s3"
  /\ \E c \in config["server"] : warned' = [warned EXCEPT !["server"] = Preflight(c)]
  /\ at' = [at EXCEPT !["server"] = "warned"]
  /\ UNCHANGED <<launch, disk, edits, path, text, config, backend>>

\* TcpListener::bind fails when the port is taken.
Bind ==
  /\ at["server"] = "warned"
  /\ \E to \in {"listening", "failed"} : at' = [at EXCEPT !["server"] = to]
  /\ UNCHANGED <<launch, disk, edits, path, text, config, warned, backend>>

Next ==
  \/ \E f \in Paths, c \in Edits : Edit(f, c)
  \/ \E p \in Processes : Resolve(p) \/ Load(p)
  \/ Report \/ ReportFails
  \/ OpenFs \/ ConnectS3 \/ LogPreflight \/ Bind

Spec == Init /\ [][Next]_vars

-----------------------------------------------------------------------------
\* Every variable has its type, and a process has a configuration exactly when
\* load gave it one.
TypeOK ==
  /\ launch \in Launches
  /\ disk \in [Paths -> Contents]
  /\ edits \in 0..MaxEdits
  /\ at["doctor"] \in {"start", "resolved", "refused", "loaded", "exit 0", "exit 1", "torn"}
  /\ at["server"] \in {"start", "resolved", "refused", "loaded", "fs", "s3", "warned",
                       "listening", "failed"}
  /\ path \in [Processes -> Option(Paths)]
  /\ text \in [Processes -> Option(Documents)]
  /\ \A p \in Processes :
       Cardinality(config[p]) = IF at[p] \in {"start", "resolved", "refused"} THEN 0 ELSE 1
  /\ warned \in [Processes -> SUBSET (1..6)]
  /\ backend \in {"none", "stub", "live"}

Listening == at["server"] = "listening"
Running == CHOOSE c \in config["server"] : TRUE

\* "Never a silent downgrade": a server that listens runs on the file that the
\* operator named, or on the default file if there was one when it looked for it;
\* on every secret that the document refers to; and with the token and the S3
\* backend that it declares.  This holds whatever was on the disk when: a file
\* that is gone when it is read is an error, never the open defaults.
FileFoundIsUsed ==
  /\ launch.given \/ launch.var = "set" =>
       path["server"] = {IF launch.given THEN "given" ELSE "var"}
  /\ path["server"] # {} => text["server"] # {}
SecretsAreLive ==
  \A d \in text["server"] :
    /\ Running.token = {} <=> d.token \subseteq {""}
    /\ Running.s3 = {} <=> d.s3 = {}
    /\ backend = "none" <=> d.s3 = {}
    /\ Running.token \cup UNION {{b.access, b.secret} : b \in Running.s3} \subseteq {"secret"}
    /\ \A b \in d.s3 : b.prefix = "plain"
    /\ d.cors \subseteq {""}
NoSilentDowngrade == Listening => FileFoundIsUsed /\ SecretsAreLive

\* A server that leaves /v1/files open says so before it listens, with W-1 or
\* with W-2 and never with both; with a token it gives neither.
OpenGateAnnounced ==
  Listening => Cardinality(warned["server"] \cap {1, 2}) = Cardinality({{}} \cap {Running.token})

\* What the caller of doctor sees: a closed stdout has the code of a bad
\* configuration (doctor.rs:123, doctor.rs:134).
ExitCode ==
  IF at["doctor"] = "exit 0" THEN 0 ELSE IF at["doctor"] = "exit 1" THEN 1 ELSE 2
SameText ==
  /\ at["doctor"] \in {"exit 0", "exit 1", "torn", "refused"}
  /\ at["server"] \in {"listening", "refused"}
  /\ path["doctor"] = path["server"]
  /\ text["doctor"] = text["server"]

\* The exit code of doctor and a server that found the same text: of a text that
\* the server refuses doctor exits with 2, and where it exits with 0 or 1 the
\* server starts and gives no warning, or the same ones.  Of 2 nothing is claimed,
\* although README.md:106-108 has it mean "config invalid".
DoctorAgrees ==
  SameText =>
    /\ at["server"] = "refused" => ExitCode = 2
    /\ ExitCode = 0 => Listening /\ warned["server"] = {}
    /\ ExitCode = 1 => Listening /\ warned["server"] = warned["doctor"] /\ warned["server"] # {}
=============================================================================
