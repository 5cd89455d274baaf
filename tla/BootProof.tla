------------------------------ MODULE BootProof ------------------------------
(***************************************************************************)
(* For any documents, environments and edits: what a process runs with is  *)
(* a function of the path that it resolved and of the text that it found   *)
(* there, and of the environment, which it never writes.  So a server that *)
(* listens has what the operator declared, its warnings are those of its   *)
(* configuration, and two processes that found the same text agree.        *)
(***************************************************************************)
EXTENDS Boot, FiniteSetTheorems, TLAPS

Unloaded == {"start", "resolved", "refused"}
DoctorAt == {"start", "resolved", "refused", "loaded", "exit 0", "exit 1", "torn"}
ServerAt == {"start", "resolved", "refused", "loaded", "fs", "s3", "warned",
             "listening", "failed"}

Types ==
    /\ launch \in Launches /\ disk \in [Paths -> Contents] /\ edits \in 0..MaxEdits
    /\ at \in [Processes -> DoctorAt \cup ServerAt]
    /\ at["doctor"] \in DoctorAt /\ at["server"] \in ServerAt
    /\ path \in [Processes -> Option(Paths)] /\ text \in [Processes -> Option(Documents)]
    /\ warned \in [Processes -> SUBSET (1..6)]
    /\ config = [p \in Processes |-> config[p]]
    /\ backend \in {"none", "stub", "live"}

\* The file that the command line or the environment names.
NamedOnes == IF launch.given THEN {"given"} ELSE {"var"}
Resolved(p) ==
    at[p] # "start" /\ (launch.given \/ launch.var = "set") => path[p] = NamedOnes

\* What load makes of a text, and whether it does.
Fails(p) == path[p] # {} /\ (text[p] = {} \/ \E d \in text[p] : Refused(d))
Loaded(p) == IF path[p] = {} THEN {Defaults} ELSE {FromYaml(d) : d \in text[p]}
Configured(p) ==
    /\ at[p] \in Unloaded => config[p] = {}
    /\ at[p] \notin Unloaded => ~Fails(p) /\ config[p] = Loaded(p)
    /\ at[p] = "refused" => Fails(p)
    /\ path[p] = {} \/ at[p] \in {"start", "resolved"} => text[p] = {}

\* What the processes make of a configuration.
Warned(p) == \A c \in config[p] : warned[p] = Preflight(c)
Reported ==
    /\ at["server"] \in {"warned", "listening"} => Warned("server")
    /\ at["doctor"] = "exit 0" => Warned("doctor") /\ warned["doctor"] = {}
    /\ at["doctor"] = "exit 1" => Warned("doctor") /\ warned["doctor"] # {}
Connected ==
    at["server"] \in {"s3", "warned", "listening"} =>
        \A c \in config["server"] : backend = "none" <=> c.s3 = {}

Inv == Types /\ Reported /\ Connected /\ \A p \in Processes : Resolved(p) /\ Configured(p)

(* An option is empty or has one member.                                   *)
LEMMA Options == \A S, o : o \in Option(S) <=> o = {} \/ \E x \in S : o = {x}
BY DEF Option

(* Nothing has happened yet.                                               *)
LEMMA InvInit == Init => Inv
<1> SUFFICES ASSUME Init PROVE Inv
  OBVIOUS
<1>1. Types
  BY InputsAreTyped, Options DEF Init, Types, DoctorAt, ServerAt, Processes
<1>2. Reported /\ Connected
  BY DEF Init, Reported, Connected, Processes
<1>3. \A p \in Processes : Resolved(p) /\ Configured(p)
  BY DEF Init, Resolved, Configured, Unloaded
<1> QED BY <1>1, <1>2, <1>3 DEF Inv

(* The environment is fixed for a process: a document means what it meant. *)
LEMMA Meaning ==
    ASSUME UNCHANGED launch
    PROVE  Defaults' = Defaults /\ \A d : FromYaml(d)' = FromYaml(d) /\ Refused(d)' = Refused(d)
BY DEF Defaults, FromYaml, Refused, Live

(* What is true of a process stays true while it stands still.             *)
LEMMA Frame ==
    ASSUME NEW p, Resolved(p), Configured(p), UNCHANGED launch,
           at'[p] = at[p], path'[p] = path[p], text'[p] = text[p], config'[p] = config[p]
    PROVE  Resolved(p)' /\ Configured(p)'
<1>1. Fails(p)' = Fails(p)
  BY Meaning DEF Fails
<1>2. Loaded(p)' = Loaded(p)
  BY Meaning DEF Loaded
<1> QED BY <1>1, <1>2 DEF Resolved, NamedOnes, Configured

(* An edit of a file touches no process.                                   *)
LEMMA EditKeeps == ASSUME Inv, NEW f \in Paths, NEW c \in Edits, Edit(f, c) PROVE Inv'
<1>1. UNCHANGED <<launch, at, path, text, config, warned, backend>>
  BY DEF Edit
<1>2. Types'
  <2>1. edits' \in 0..MaxEdits
    BY InputsAreTyped DEF Edit, Inv, Types
  <2>2. disk' \in [Paths -> Contents]
    BY InputsAreTyped DEF Edit, Inv, Types
  <2> QED BY <1>1, <2>1, <2>2 DEF Inv, Types
<1>3. Reported' /\ Connected'
  BY <1>1 DEF Inv, Reported, Connected, Warned
<1>4. \A p \in Processes : Resolved(p)' /\ Configured(p)'
  BY <1>1, Frame DEF Inv
<1> QED BY <1>2, <1>3, <1>4 DEF Inv
(* A process that has its configuration goes on with it.                   *)
LEMMA Onwards ==
    ASSUME Inv, NEW p \in Processes, at[p] \notin Unloaded, NEW s, s \notin Unloaded,
           at' = [at EXCEPT ![p] = s], UNCHANGED <<launch, path, text, config>>
    PROVE  \A q \in Processes : Resolved(q)' /\ Configured(q)'
<1> SUFFICES ASSUME NEW q \in Processes PROVE Resolved(q)' /\ Configured(q)'
  OBVIOUS
<1>1. Resolved(q) /\ Configured(q) /\ at \in [Processes -> DoctorAt \cup ServerAt]
  BY DEF Inv, Types
<1>2. CASE q # p
  BY <1>1, <1>2, Frame
<1>3. CASE q = p
  <2>1. Fails(p)' = Fails(p)
    BY Meaning DEF Fails
  <2>2. Loaded(p)' = Loaded(p)
    BY Meaning DEF Loaded
  <2>3. at'[p] = s /\ s \notin {"refused", "start", "resolved"} /\ at[p] # "start"
    BY <1>1 DEF Unloaded
  <2> QED BY <1>1, <1>3, <2>1, <2>2, <2>3 DEF Resolved, NamedOnes, Configured, Unloaded
<1> QED BY <1>2, <1>3

(* resolve_path: the file that is named is the one that is taken.          *)
LEMMA ResolveKeeps == ASSUME Inv, NEW p \in Processes, Resolve(p) PROVE Inv'
<1>1. /\ at[p] = "start" /\ at' = [at EXCEPT ![p] = "resolved"]
      /\ path' = [path EXCEPT ![p] = Resolution]
      /\ UNCHANGED <<launch, disk, edits, text, config, warned, backend>>
      /\ Types
  BY DEF Resolve, Inv
<1>2. Resolution \in Option(Paths)
  <2>1. {q \in {Fixed} : disk[q].exists} \in {{}, {Fixed}}
    OBVIOUS
  <2> QED BY <2>1, Options DEF Resolution, Paths
<1>3. Types'
  BY <1>1, <1>2 DEF Types, DoctorAt, ServerAt, Processes
<1>4. Reported' /\ Connected'
  BY <1>1 DEF Inv, Reported, Connected, Warned, Types, Processes
<1>5. ASSUME NEW q \in Processes PROVE Resolved(q)' /\ Configured(q)'
  <2>1. CASE q # p
    BY <1>1, <2>1, Frame DEF Inv, Types
  <2>2. CASE q = p
    <3>1. at'[p] = "resolved" /\ path'[p] = Resolution /\ config'[p] = {} /\ text'[p] = {}
      BY <1>1 DEF Types, Inv, Configured, Unloaded
    <3>2. Resolved(p)'
      BY <1>1, <3>1 DEF Resolved, Resolution, NamedOnes
    <3> QED BY <2>2, <3>1, <3>2 DEF Configured, Unloaded
  <2> QED BY <2>1, <2>2
<1> QED BY <1>3, <1>4, <1>5 DEF Inv
(* load: either it fails, or the configuration is that of the text.        *)
LEMMA LoadKeeps == ASSUME Inv, NEW p \in Processes, Load(p) PROVE Inv'
<1> DEFINE docs  == UNION {disk[f].doc : f \in path[p]}
           fails == path[p] # {} /\ (docs = {} \/ \E d \in docs : Refused(d))
           conf  == IF fails THEN {} ELSE IF path[p] = {} THEN {Defaults}
                    ELSE {FromYaml(d) : d \in docs}
           to    == IF fails THEN "refused" ELSE "loaded"
<1>1. /\ at[p] = "resolved" /\ at' = [at EXCEPT ![p] = to]
      /\ text' = [text EXCEPT ![p] = docs] /\ config' = [config EXCEPT ![p] = conf]
      /\ UNCHANGED <<launch, disk, edits, path, warned, backend>>
  BY DEF Load
<1>2. Types /\ Resolved(p) /\ Configured(p)
  BY DEF Inv
<1>3. docs \in Option(Documents) /\ (path[p] = {} => docs = {})
  <2>1. path[p] \in Option(Paths) /\ \A f \in Paths : disk[f] \in Contents
    BY <1>2 DEF Types
  <2>2. \A x \in Contents : x.doc \in Option(Documents)
    BY Options DEF Contents, Missing, Garbage, Holding
  <2>3. CASE path[p] = {}
    BY <2>3, Options
  <2>4. ASSUME NEW f \in Paths, path[p] = {f} PROVE docs = disk[f].doc /\ path[p] # {}
    BY <2>4
  <2> HIDE DEF docs
  <2> QED BY <2>1, <2>2, <2>3, <2>4, Options
<1>4. /\ at'[p] = to /\ text'[p] = docs /\ config'[p] = conf
      /\ path'[p] = path[p] /\ Fails(p)' = fails
      /\ ~fails => conf = Loaded(p)'
  <2>1. at'[p] = to /\ text'[p] = docs /\ config'[p] = conf /\ path'[p] = path[p]
    BY <1>1, <1>2 DEF Types
  <2>2. Defaults' = Defaults /\ \A d : FromYaml(d)' = FromYaml(d) /\ Refused(d)' = Refused(d)
    BY <1>1, Meaning
  <2>3. Fails(p)' = fails
    BY <2>1, <2>2 DEF Fails
  <2>4. ~fails => conf = Loaded(p)'
    BY <2>1, <2>2 DEF Loaded
  <2> QED BY <2>1, <2>3, <2>4
<1> HIDE DEF docs, fails, conf
<1>5. fails \in BOOLEAN /\ (fails => path[p] # {} /\ conf = {})
  BY DEF fails, conf
<1>6. Types'
  <2>1. to \in DoctorAt /\ to \in ServerAt
    BY DEF DoctorAt, ServerAt
  <2> HIDE DEF to
  <2> QED BY <1>1, <1>2, <1>3, <2>1 DEF Types, Processes
<1>7. Reported' /\ Connected'
  <2>1. to \notin {"exit 0", "exit 1", "s3", "warned", "listening"}
    OBVIOUS
  <2>2. UNCHANGED <<launch, warned, backend>> /\ at'[p] = to
    BY <1>1, <1>4
  <2>3. \A q \in Processes : q # p => at'[q] = at[q] /\ config'[q] = config[q]
    BY <1>1, <1>2 DEF Types
  <2> HIDE DEF to
  <2> QED BY <2>1, <2>2, <2>3 DEF Inv, Reported, Connected, Warned, Processes
<1>8. ASSUME NEW q \in Processes PROVE Resolved(q)' /\ Configured(q)'
  <2>1. CASE q # p
    BY <1>1, <1>2, <2>1, Frame DEF Inv, Types
  <2>2. CASE q = p
    <3>1. Resolved(p)'
      BY <1>1, <1>2 DEF Resolved, NamedOnes
    <3>2. Configured(p)'
      BY <1>3, <1>4, <1>5 DEF Configured, Unloaded
    <3> QED BY <2>2, <3>1, <3>2
  <2> QED BY <2>1, <2>2
<1> QED BY <1>6, <1>7, <1>8 DEF Inv
(* A process past load has one configuration: the defaults, or that of the *)
(* document it found.                                                      *)
LEMMA OneConfig ==
    ASSUME Inv, NEW p \in Processes, at[p] \notin Unloaded
    PROVE  \E c : /\ config[p] = {c}
                  /\ \/ path[p] = {} /\ text[p] = {} /\ c = Defaults
                     \/ path[p] # {} /\ \E d \in Documents :
                          text[p] = {d} /\ ~Refused(d) /\ c = FromYaml(d)
<1>1. Configured(p) /\ config[p] = Loaded(p) /\ ~Fails(p) /\ text[p] \in Option(Documents)
  BY DEF Inv, Configured, Types
<1>2. CASE path[p] = {}
  BY <1>1, <1>2 DEF Configured, Loaded
<1>3. CASE path[p] # {}
  <2>1. text[p] # {}
    BY <1>1, <1>3 DEF Fails
  <2>2. PICK d \in Documents : text[p] = {d}
    BY <1>1, <2>1 DEF Option
  <2>3. config[p] = {FromYaml(d)} /\ ~Refused(d)
    BY <1>1, <1>3, <2>2 DEF Fails, Loaded
  <2> QED BY <1>3, <2>2, <2>3
<1> QED BY <1>2, <1>3

(* doctor: the exit code tells whether there was a warning.                *)
LEMMA DoctorKeeps == ASSUME Inv, Report \/ ReportFails PROVE Inv'
<1>1. /\ at["doctor"] = "loaded" /\ "doctor" \in Processes /\ at["doctor"] \notin Unloaded
      /\ UNCHANGED <<launch, disk, edits, path, text, config, backend>>
  BY DEF Report, ReportFails, Processes, Unloaded
<1>2. PICK s \in {"exit 0", "exit 1", "torn"} :
        /\ at' = [at EXCEPT !["doctor"] = s]
        /\ \/ s = "torn" /\ warned' = warned
           \/ \E c \in config["doctor"] :
                /\ warned' = [warned EXCEPT !["doctor"] = Preflight(c)]
                /\ s = IF Preflight(c) = {} THEN "exit 0" ELSE "exit 1"
  <2>1. CASE ReportFails
    BY <2>1 DEF ReportFails
  <2>2. CASE Report
    <3>1. PICK c \in config["doctor"] : warned' = [warned EXCEPT !["doctor"] = Preflight(c)]
      BY <2>2 DEF Report
    <3>2. warned'["doctor"] = Preflight(c)
      BY <1>1, <3>1 DEF Inv, Types
    <3> QED BY <2>2, <3>1, <3>2 DEF Report
  <2> QED BY <2>1, <2>2
<1>3. Types'
  <2>1. warned' \in [Processes -> SUBSET (1..6)]
    BY <1>2 DEF Inv, Types, Preflight
  <2> QED BY <1>1, <1>2, <2>1 DEF Inv, Types, DoctorAt, Processes
<1>4. \A p \in Processes : Resolved(p)' /\ Configured(p)'
  <2>1. s \notin Unloaded
    BY DEF Unloaded
  <2> QED BY <1>1, <1>2, <2>1, Onwards
<1>5. \A c, d \in config["doctor"] : c = d
  BY <1>1, OneConfig
<1>6. Reported'
  <2>1. at["server"] \in {"warned", "listening"} => Warned("server")
    BY DEF Inv, Reported
  <2>2. /\ at'["server"] = at["server"] /\ warned'["server"] = warned["server"]
        /\ at'["doctor"] = s /\ config' = config
    BY <1>1, <1>2 DEF Inv, Types, Processes
  <2>3. Warned("server")' = Warned("server")
    BY <2>2 DEF Warned
  <2>4. s # "torn" =>
          \E c \in config["doctor"] :
             /\ warned'["doctor"] = Preflight(c)
             /\ s = IF Preflight(c) = {} THEN "exit 0" ELSE "exit 1"
    BY <1>1, <1>2 DEF Inv, Types, Processes
  <2>5. s # "torn" => Warned("doctor")'
    BY <1>5, <2>2, <2>4 DEF Warned
  <2> QED BY <1>2, <2>1, <2>2, <2>3, <2>4, <2>5 DEF Reported
<1>7. Connected'
  BY <1>1, <1>2 DEF Inv, Types, Connected, Processes
<1> QED BY <1>3, <1>4, <1>6, <1>7 DEF Inv

(* The server after load: its data directory, its bucket, its warnings,    *)
(* its port.                                                               *)
LEMMA ServerKeeps == ASSUME Inv, OpenFs \/ ConnectS3 \/ LogPreflight \/ Bind PROVE Inv'
<1>1. /\ at["server"] \in {"loaded", "fs", "s3", "warned"} /\ "server" \in Processes
      /\ at["server"] \notin Unloaded
      /\ UNCHANGED <<launch, disk, edits, path, text, config>>
  BY DEF OpenFs, ConnectS3, LogPreflight, Bind, Processes, Unloaded
<1>2. PICK s \in {"fs", "failed", "s3", "warned", "listening"} :
        at' = [at EXCEPT !["server"] = s]
  BY DEF OpenFs, ConnectS3, LogPreflight, Bind
<1>3. PICK c : config["server"] = {c}
  BY <1>1, OneConfig
<1>4. \A p \in Processes : Resolved(p)' /\ Configured(p)'
  <2>1. s \notin Unloaded
    BY DEF Unloaded
  <2> QED BY <1>1, <1>2, <2>1, Onwards
<1>5. at'["server"] = s /\ at'["doctor"] = at["doctor"] /\ Types
  BY <1>1, <1>2 DEF Inv, Types, Processes
<1>6. CASE ConnectS3
  <2>1. /\ backend' = IF c.s3 = {} THEN "none" ELSE IF Truthy(launch.offline) THEN "stub" ELSE "live"
        /\ UNCHANGED warned /\ s = "s3"
    BY <1>1, <1>3, <1>5, <1>6 DEF ConnectS3, Types
  <2>2. Types'
    BY <1>1, <1>2, <1>5, <2>1 DEF Types, ServerAt, Processes
  <2>3. Reported' /\ Connected'
    BY <1>1, <1>3, <1>5, <2>1 DEF Inv, Reported, Connected, Warned
  <2> QED BY <1>4, <2>2, <2>3 DEF Inv
<1>7. CASE LogPreflight
  <2>1. /\ warned' = [warned EXCEPT !["server"] = Preflight(c)]
        /\ UNCHANGED backend /\ s = "warned" /\ at["server"] = "s3"
    BY <1>1, <1>3, <1>5, <1>7 DEF LogPreflight, Types
  <2>2. warned' \in [Processes -> SUBSET (1..6)] /\ warned'["server"] = Preflight(c)
        /\ warned'["doctor"] = warned["doctor"]
    BY <1>1, <1>5, <2>1 DEF Types, Preflight, Processes
  <2>3. Types'
    BY <1>1, <1>2, <1>5, <2>1, <2>2 DEF Types, ServerAt, Processes
  <2>4. Reported' /\ Connected'
    BY <1>1, <1>3, <1>5, <2>1, <2>2 DEF Inv, Reported, Connected, Warned
  <2> QED BY <1>4, <2>3, <2>4 DEF Inv
<1>8. CASE OpenFs \/ Bind
  <2>1. /\ UNCHANGED <<warned, backend>>
        /\ s = "listening" => at["server"] = "warned"
        /\ s \in {"fs", "failed", "listening"}
    BY <1>1, <1>5, <1>8 DEF OpenFs, Bind, Types
  <2>2. Types'
    BY <1>1, <1>2, <1>5, <2>1 DEF Types, ServerAt, Processes
  <2>3. Reported' /\ Connected'
    BY <1>1, <1>3, <1>5, <2>1 DEF Inv, Reported, Connected, Warned
  <2> QED BY <1>4, <2>2, <2>3 DEF Inv
<1> QED BY <1>6, <1>7, <1>8

LEMMA Steps == Spec => []Inv
<1>1. Inv /\ [Next]_vars => Inv'
  <2> SUFFICES ASSUME Inv, [Next]_vars PROVE Inv'
    OBVIOUS
  <2>1. CASE UNCHANGED vars
    <3>1. UNCHANGED <<launch, disk, edits, at, path, text, config, warned, backend>>
      BY <2>1 DEF vars
    <3>2. Types' /\ Reported' /\ Connected'
      BY <3>1 DEF Inv, Types, Reported, Connected, Warned
    <3>3. \A p \in Processes : Resolved(p)' /\ Configured(p)'
      BY <3>1, Frame DEF Inv
    <3> QED BY <3>2, <3>3 DEF Inv
  <2> QED BY <2>1, EditKeeps, ResolveKeeps, LoadKeeps, DoctorKeeps, ServerKeeps DEF Next
<1> QED BY <1>1, InvInit, PTL DEF Spec

-----------------------------------------------------------------------------
(* Types, and that a process has a configuration if and only if load gave  *)
(* it one (main.rs and doctor.rs stop at an error).                        *)
THEOREM BootTypes == Spec => []TypeOK
<1>1. Inv => TypeOK
  <2> SUFFICES ASSUME Inv PROVE TypeOK
    OBVIOUS
  <2>1. ASSUME NEW p \in Processes
        PROVE  Cardinality(config[p]) = IF at[p] \in Unloaded THEN 0 ELSE 1
    <3>1. CASE at[p] \in Unloaded
      <4>1. config[p] = {}
        BY <3>1 DEF Inv, Configured
      <4> QED BY <3>1, <4>1, FS_EmptySet
    <3>2. CASE at[p] \notin Unloaded
      <4>1. PICK c : config[p] = {c}
        BY <3>2, OneConfig
      <4> QED BY <3>2, <4>1, FS_Singleton
    <3> QED BY <3>1, <3>2
  <2> QED BY <2>1 DEF Inv, Types, TypeOK, Unloaded, DoctorAt, ServerAt
<1> QED BY <1>1, Steps, PTL

(* What a listening server runs with.                                      *)
LEMMA RunningIs ==
    ASSUME Inv, Listening
    PROVE  /\ config["server"] = {Running} /\ warned["server"] = Preflight(Running)
           /\ \/ path["server"] = {} /\ text["server"] = {} /\ Running = Defaults
              \/ path["server"] # {} /\ \E d \in Documents :
                   text["server"] = {d} /\ ~Refused(d) /\ Running = FromYaml(d)
<1>1. "server" \in Processes /\ at["server"] \notin Unloaded
  BY DEF Listening, Processes, Unloaded
<1>2. PICK c : /\ config["server"] = {c}
               /\ \/ path["server"] = {} /\ text["server"] = {} /\ c = Defaults
                  \/ path["server"] # {} /\ \E d \in Documents :
                       text["server"] = {d} /\ ~Refused(d) /\ c = FromYaml(d)
  BY <1>1, OneConfig
<1>3. Running = c
  BY <1>2 DEF Running
<1>4. warned["server"] = Preflight(c)
  BY <1>2 DEF Inv, Reported, Warned, Listening
<1> QED BY <1>2, <1>3, <1>4

(* load, from_yaml: whatever is edited when, a server that listens has the *)
(* file that was named, or the default file if it was there when           *)
(* resolve_path looked, live secrets, and the token and the backend that   *)
(* the document declares.                                                  *)
THEOREM DowngradeCorrect == Spec => []NoSilentDowngrade
<1>1. Inv => NoSilentDowngrade
  <2> SUFFICES ASSUME Inv, Listening PROVE FileFoundIsUsed /\ SecretsAreLive
    BY DEF NoSilentDowngrade
  <2>1. FileFoundIsUsed
    <3>1. Resolved("server") /\ at["server"] # "start"
      BY DEF Inv, Processes, Listening
    <3>2. launch.given \/ launch.var = "set" => path["server"] = NamedOnes
      BY <3>1 DEF Resolved, NamedOnes
    <3>3. path["server"] # {} => text["server"] # {}
      BY RunningIs
    <3> QED BY <3>2, <3>3 DEF FileFoundIsUsed, NamedOnes
  <2>2. SecretsAreLive
    <3> SUFFICES ASSUME NEW d \in text["server"]
                 PROVE  /\ Running.token = {} <=> d.token \subseteq {""}
                        /\ Running.s3 = {} <=> d.s3 = {}
                        /\ backend = "none" <=> d.s3 = {}
                        /\ Running.token \cup UNION {{b.access, b.secret} : b \in Running.s3}
                             \subseteq {"secret"}
                        /\ \A b \in d.s3 : b.prefix = "plain"
                        /\ d.cors \subseteq {""}
      BY DEF SecretsAreLive
    <3>1. d \in Document /\ ~Refused(d) /\ Running = FromYaml(d)
      BY RunningIs, InputsAreTyped
    <3>2. /\ d.token \in Option(Names \cup {""}) /\ d.s3 \in Option(S3Block)
          /\ d.cors \in Option({"", "origin"})
      BY <3>1 DEF Document
    <3>3. \A n \in Names : launch.env[n] \in {"unset", "", "secret"}
      BY InputsAreTyped DEF Inv, Types, Launch
    <3>4. Running.token = {launch.env[n] : n \in d.token \ {""}}
      BY <3>1 DEF FromYaml
    <3>5. Running.s3 = {[access |-> launch.env[b.access], secret |-> launch.env[b.secret]] : b \in d.s3}
      BY <3>1 DEF FromYaml
    <3>6. \A n \in d.token \ {""} : launch.env[n] = "secret"
      BY <3>1, <3>2, <3>3 DEF Refused, Live, Option
    <3>7. \A b \in d.s3 : /\ launch.env[b.access] = "secret" /\ launch.env[b.secret] = "secret"
                          /\ b.prefix = "plain"
      <4>1. \A b \in d.s3 : b \in S3Block
        BY <3>2 DEF Option
      <4>2. \A b \in d.s3 : Live(b.access) /\ Live(b.secret) /\ ~BadPrefix(b)
        BY <3>1 DEF Refused
      <4>3. \A b \in d.s3 : b.access \in Names /\ b.secret \in Names /\ b.prefix \in {"plain", "dots", "absolute"}
        BY <4>1 DEF S3Block
      <4> QED BY <3>3, <4>2, <4>3 DEF Live, BadPrefix
    <3>8. d.cors \subseteq {""}
      BY <3>1, <3>2 DEF Refused, Or, Option
    <3>9. Running.token = {} <=> d.token \subseteq {""}
      BY <3>4
    <3>10. Running.s3 = {} <=> d.s3 = {}
      BY <3>5
    <3>11. Running.token \subseteq {"secret"}
      BY <3>4, <3>6
    <3>12. \A b \in Running.s3 : b.access = "secret" /\ b.secret = "secret"
      BY <3>5, <3>7
    <3>13. backend = "none" <=> d.s3 = {}
      <4>1. Connected /\ config["server"] = {Running}
        BY RunningIs DEF Inv
      <4>2. backend = "none" <=> Running.s3 = {}
        BY <4>1 DEF Connected, Listening
      <4> QED BY <3>10, <4>2
    <3> QED BY <3>7, <3>8, <3>9, <3>10, <3>11, <3>12, <3>13
  <2> QED BY <2>1, <2>2
<1> QED BY <1>1, Steps, PTL

(* emit_preflight_warnings: an open gate is announced, by W-1 or by W-2    *)
(* and never by both, and no other gate is.                                *)
THEOREM AnnouncedCorrect == Spec => []OpenGateAnnounced
<1>1. \A c : /\ 1 \in Preflight(c) <=> W1(c)
             /\ 2 \in Preflight(c) <=> W2(c)
  BY DEF Preflight
<1>2. \A c : Preflight(c) \cap {1, 2} =
        IF c.token # {} THEN {} ELSE IF c.trust THEN {2} ELSE {1}
  BY <1>1 DEF W1, W2, Loopback
<1>3. Inv => OpenGateAnnounced
  <2> SUFFICES ASSUME Inv, Listening
               PROVE  Cardinality(warned["server"] \cap {1, 2})
                        = Cardinality({{}} \cap {Running.token})
    BY DEF OpenGateAnnounced
  <2>1. warned["server"] = Preflight(Running)
    BY RunningIs
  <2>2. CASE Running.token = {}
    <3>1. \E w : warned["server"] \cap {1, 2} = {w}
      BY <1>2, <2>1, <2>2
    <3>2. {{}} \cap {Running.token} = {{}}
      BY <2>2
    <3> QED BY <3>1, <3>2, FS_Singleton
  <2>3. CASE Running.token # {}
    <3>1. warned["server"] \cap {1, 2} = {} /\ {{}} \cap {Running.token} = {}
      BY <1>2, <2>1, <2>3
    <3> QED BY <3>1
  <2> QED BY <2>2, <2>3
<1> QED BY <1>3, Steps, PTL

(* doctor and the server share load and preflight: where they found the    *)
(* same text, doctor exits with 2 if the server refuses it, and with 0 or  *)
(* 1 only if the server starts, without warnings or with the same ones.    *)
(* Of 2 nothing follows: a report that cannot be written has it as well.   *)
THEOREM VerdictCorrect == Spec => []DoctorAgrees
<1>1. Inv => DoctorAgrees
  <2> SUFFICES ASSUME Inv, SameText
               PROVE  /\ at["server"] = "refused" => ExitCode = 2
                      /\ ExitCode = 0 => Listening /\ warned["server"] = {}
                      /\ ExitCode = 1 => /\ Listening /\ warned["server"] = warned["doctor"]
                                         /\ warned["server"] # {}
    BY DEF DoctorAgrees
  <2>0. /\ at["doctor"] \in {"exit 0", "exit 1", "torn", "refused"}
        /\ at["server"] \in {"listening", "refused"}
        /\ path["doctor"] = path["server"] /\ text["doctor"] = text["server"]
    BY DEF SameText
  <2>1. Configured("doctor") /\ Configured("server") /\ Reported
    BY DEF Inv, Processes
  <2>2. Fails("doctor") <=> Fails("server")
    BY <2>0 DEF Fails
  <2>3. Loaded("doctor") = Loaded("server")
    BY <2>0 DEF Loaded
  <2>4. at["doctor"] = "refused" <=> at["server"] = "refused"
    BY <2>0, <2>1, <2>2 DEF Configured, Unloaded
  <2>5. ASSUME at["doctor"] # "refused"
        PROVE  config["doctor"] = config["server"] /\ Listening
    BY <2>0, <2>1, <2>3, <2>4, <2>5 DEF Configured, Unloaded, Listening
  <2>6. ASSUME at["doctor"] \in {"exit 0", "exit 1"}
        PROVE  Listening /\ warned["server"] = warned["doctor"]
    <3>1. config["doctor"] = {Running} /\ warned["server"] = Preflight(Running)
      BY <2>5, <2>6, RunningIs
    <3> QED BY <2>1, <2>5, <2>6, <3>1 DEF Reported, Warned
  <2>7. ExitCode = 0 => at["doctor"] = "exit 0"
    <3>1. 0 # 1 /\ 0 # 2
      OBVIOUS
    <3>2. at["doctor"] # "exit 0" => ExitCode \in {1, 2}
      BY DEF ExitCode
    <3> QED BY <3>1, <3>2
  <2>8. ExitCode = 1 => at["doctor"] = "exit 1"
    <3>1. 1 # 0 /\ 1 # 2
      OBVIOUS
    <3>2. at["doctor"] # "exit 1" => ExitCode \in {0, 2}
      BY DEF ExitCode
    <3> QED BY <3>1, <3>2
  <2>9. at["doctor"] = "refused" => ExitCode = 2
    BY DEF ExitCode
  <2> QED BY <2>1, <2>4, <2>6, <2>7, <2>8, <2>9 DEF Reported
<1> QED BY <1>1, Steps, PTL
===============================================================================
