----------------------------- MODULE Provisioning -----------------------------
(***************************************************************************)
(* The MSK cluster from an empty account to streaming data, and from there *)
(* to a notebook: src/scripts/bootstrap.sh with create_acls.py and         *)
(* create_topics.py, and prepare_msk_notebook.py with devlab/config.py.    *)
(*                                                                         *)
(* Either script may fail or be killed between any two of its commands and *)
(* be run again.  AWS and Terraform are external: public access is refused *)
(* unless ACLs are enforced already, and the public endpoint appears some  *)
(* time after access was enabled.  The sandbox may be wiped at any moment, *)
(* the bucket with Terraform's state together with the cluster, and only   *)
(* bootstrap.sh makes that bucket again: without it no apply succeeds.     *)
(***************************************************************************)
EXTENDS Integers, FiniteSets

CONSTANTS ResourceTypes, \* that the ACLs cover: topics, groups, the cluster, transactions
          Topics,        \* names of TOPIC_SPECS
          Replication,   \* --replication-factor
          Addresses,     \* public addresses of the operator's machine
          MaxIncidents   \* bound: wipes, address changes and edits of .env

\* bootstrap.sh leaves --replication-factor at its default, 2.
ASSUME ReplicationAssumption == Replication \in Nat /\ Replication > 1

VARIABLES backend,       \* is there a bucket for Terraform's state
          exists, public, restricted,   \* the cluster
          built,         \* how often it was built: every build has new names
          endpoint,      \* does AWS publish its public endpoint
          output,        \* the build Terraform's output names, 0 if empty
          acls, topicsOn, allowed,      \* on the cluster
          here,          \* the machine's address
          session,       \* "valid", "expired" or "noSso": the AWS profile
          step,          \* of bootstrap.sh, "off" when it is not running
          wasPublic, address,           \* its variables
          secret,        \* the build the Databricks secret names
          prep,          \* step of prepare, "off" when it is not running
          prepAddress, prepCode,
          environ,       \* "own", or "clean" inside prepare
          envFile,       \* the build the INGEST_* keys of .env name, 0 if they name none
          incidents

clusterVars == <<backend, exists, public, restricted, built, endpoint, output, acls, topicsOn, allowed>>
bootVars == <<step, wasPublic, address, secret>>
prepVars == <<prep, prepAddress, prepCode, environ>>
provVars == <<clusterVars, here, session, envFile, bootVars, prepVars, incidents>>

ProvInit ==
  /\ backend = FALSE /\ exists = FALSE /\ public = FALSE /\ restricted = FALSE
  /\ built = 0 /\ endpoint = FALSE /\ output = 0 /\ acls = {} /\ topicsOn = {} /\ allowed = {}
  /\ here \in Addresses /\ session \in {"valid", "expired", "noSso"}
  /\ step = "off" /\ wasPublic = FALSE /\ address = here /\ secret = 0
  /\ prep = "off" /\ prepAddress = here /\ prepCode = -1 /\ environ = "own"
  /\ envFile = 0 /\ incidents = 0

-----------------------------------------------------------------------------
(* AWS and Kafka. *)

\* One terraform apply.  The provider reads the public names once, when they may
\* not be there yet.
Accepted(p, r) == p => restricted /\ r
Apply(p, r, ip) ==
  /\ backend /\ Accepted(p, r)
  /\ exists' = TRUE /\ public' = p /\ restricted' = r /\ allowed' = {ip}
  /\ built' = IF exists THEN built ELSE built + 1
  /\ endpoint' \in IF p THEN {endpoint, TRUE} ELSE {FALSE}
  /\ output' = IF endpoint' THEN built' ELSE 0
  /\ UNCHANGED <<backend, acls, topicsOn>>

\* wanted_bindings: User:* may do everything on every resource of these types.
Binding(type) ==
  [type |-> type, name |-> IF type = "BROKER" THEN "kafka-cluster" ELSE "*",
   principal |-> "User:*", operation |-> "ALL", permission |-> "ALLOW"]
Bindings == {Binding(type) : type \in ResourceTypes}

\* to_new_topic: one replica may be away and a write with acks=all is taken.
NewTopic(name) ==
  [name |-> name, replicas |-> Replication,
   insync |-> IF Replication > 1 THEN Replication - 1 ELSE 1]
Named(topics) == {t.name : t \in topics}

\* Deny by default: without its ACLs nobody may do anything on the cluster.
MayUse == exists /\ (restricted => acls = Bindings)

Publishes ==
  /\ public /\ ~endpoint /\ endpoint' = TRUE
  /\ UNCHANGED <<backend, exists, public, restricted, built, output, acls, topicsOn, allowed, here, session, envFile, bootVars, prepVars, incidents>>
Moves(ip) ==
  /\ incidents < MaxIncidents /\ incidents' = incidents + 1 /\ ip # here /\ here' = ip
  /\ UNCHANGED <<clusterVars, session, envFile, bootVars, prepVars>>
Wiped ==
  /\ incidents < MaxIncidents /\ incidents' = incidents + 1 /\ exists
  /\ backend' = FALSE /\ output' = 0 /\ exists' = FALSE /\ public' = FALSE /\ restricted' = FALSE /\ endpoint' = FALSE
  /\ acls' = {} /\ topicsOn' = {} /\ allowed' = {}
  /\ UNCHANGED <<built, here, session, envFile, bootVars, prepVars>>
\* The operator copies the current brokers and credentials into .env.
EditsEnv ==
  /\ incidents < MaxIncidents /\ incidents' = incidents + 1 /\ output # 0 /\ envFile' = output
  /\ UNCHANGED <<clusterVars, here, session, bootVars, prepVars>>

-----------------------------------------------------------------------------
(* bootstrap.sh: set -e, so a command that fails ends it. *)

At(s) == step = s /\ UNCHANGED <<here, session, envFile, prepVars, incidents>>
Then(s) == step' = s

BootBegins ==
  /\ At("off") /\ Then("check") /\ backend' = TRUE /\ address' = here
  /\ UNCHANGED <<exists, public, restricted, built, endpoint, output, acls, topicsOn, allowed, wasPublic, secret>>

\* Is there a public endpoint already?  A lookup that fails says no.
Check ==
  /\ At("check") /\ Then("apply") /\ wasPublic' \in {endpoint, FALSE}
  /\ UNCHANGED <<clusterVars, address, secret>>
FirstApply ==
  /\ At("apply") /\ Then("acls") /\ Apply(wasPublic, wasPublic, address)
  /\ UNCHANGED <<wasPublic, address, secret>>
\* The provider moves connectivity before configuration: a public cluster that
\* the lookup missed may be closed, and relaxing its ACLs then fail.
HalfApplied ==
  /\ At("apply") /\ Then("off") /\ backend /\ public /\ ~wasPublic
  /\ public' = FALSE /\ endpoint' = FALSE /\ output' \in {0, output}
  /\ UNCHANGED <<backend, exists, restricted, built, acls, topicsOn, allowed, wasPublic, address, secret>>

\* create_acls, over SSH from inside the VPC: each binding is created or
\* fails; then they are read back, and one that is missing fails it too.
CreateAcls_Unverified ==
  /\ At("acls") /\ MayUse /\ Then(IF wasPublic THEN "topics" ELSE "enforce")
  /\ \E granted \in SUBSET Bindings : acls' = acls \cup granted
  /\ UNCHANGED <<backend, exists, public, restricted, built, endpoint, output, topicsOn, allowed, wasPublic, address, secret>>
CreateAcls ==
  /\ At("acls") /\ MayUse
  /\ \E granted \in SUBSET Bindings :
       /\ acls' = acls \cup granted
       /\ Then(IF Bindings \subseteq acls' THEN (IF wasPublic THEN "topics" ELSE "enforce") ELSE "off")
  /\ UNCHANGED <<backend, exists, public, restricted, built, endpoint, output, topicsOn, allowed, wasPublic, address, secret>>

Enforce ==
  /\ At("enforce") /\ Then("open") /\ Apply(FALSE, TRUE, address)
  /\ UNCHANGED <<wasPublic, address, secret>>
Open ==
  /\ At("open") /\ Then("await") /\ Apply(TRUE, TRUE, address)
  /\ UNCHANGED <<wasPublic, address, secret>>
\* Polls AWS, not Terraform, until the endpoint appears.
Await == At("await") /\ endpoint /\ Then("topics") /\ UNCHANGED <<clusterVars, wasPublic, address, secret>>

\* From this machine, through the public endpoint.
Reachable == endpoint /\ here \in allowed /\ MayUse

\* create_topics: the absent ones, each created or failed; any failure is 1.
Failed(wanted, made) == wanted # made
CreateTopics ==
  /\ At("topics") /\ Reachable
  /\ \E made \in SUBSET (Topics \ Named(topicsOn)) :
       /\ topicsOn' = topicsOn \cup {NewTopic(name) : name \in made}
       /\ Then(IF Failed(Topics \ Named(topicsOn), made) THEN "off" ELSE "secrets")
  /\ UNCHANGED <<backend, exists, public, restricted, built, endpoint, output, acls, allowed, wasPublic, address, secret>>
PutSecrets ==
  /\ At("secrets") /\ Then("smoke") /\ secret' = built
  /\ UNCHANGED <<clusterVars, wasPublic, address>>
SmokeTest ==
  /\ At("smoke") /\ Reachable /\ "md.trades.v1" \in Named(topicsOn) /\ Then("ready")
  /\ UNCHANGED <<clusterVars, wasPublic, address, secret>>

\* A command fails, times out, or the script is killed; or it has printed Ready.
BootEnds ==
  /\ step # "off" /\ At(step) /\ Then("off")
  /\ UNCHANGED <<clusterVars, wasPublic, address, secret>>

BootStep == Check \/ FirstApply \/ HalfApplied \/ CreateAcls \/ Enforce \/ Open \/ Await \/ CreateTopics \/ PutSecrets \/ SmokeTest

-----------------------------------------------------------------------------
(* prepare_msk_notebook.py.  Terraform's lock keeps its apply apart from    *)
(* those of bootstrap.sh: it fails while another one runs.                  *)

Prep(s) == prep = s /\ UNCHANGED <<bootVars, envFile, incidents, here>>
Next_(s) == prep' = s

\* _temporary_environment restores the environment however prepare ends; a
\* PreparationError is 2, any other exception a traceback.
Returns(status) == Next_("off") /\ prepCode' = status /\ environ' = "own"

PrepBegins ==
  /\ Prep("off") /\ Next_("credentials") /\ environ' = "clean" /\ prepCode' = -1
  /\ UNCHANGED <<clusterVars, session, prepAddress>>

\* ensure_aws_credentials: one login, if the profile is an SSO one.
Credentials ==
  /\ Prep("credentials")
  /\ \/ session # "noSso" /\ session' = "valid" /\ Next_("stack") /\ UNCHANGED <<environ, prepCode>>
     \/ session # "valid" /\ Returns(2) /\ UNCHANGED session
  /\ UNCHANGED <<clusterVars, prepAddress>>

\* A deployed stack with a public endpoint, or nothing is applied.
HasStack == backend /\ exists /\ endpoint
FindStack ==
  /\ Prep("stack")
  /\ IF HasStack THEN Next_("address") /\ UNCHANGED <<environ, prepCode>> ELSE Returns(2)
  /\ UNCHANGED <<clusterVars, session, prepAddress>>

CurrentPublicIp == here
Detect ==
  /\ Prep("address") /\ prepAddress' = CurrentPublicIp /\ Next_("refresh")
  /\ UNCHANGED <<clusterVars, session, environ, prepCode>>
Refresh ==
  /\ Prep("refresh")
  /\ \/ Apply(TRUE, TRUE, prepAddress) /\ Next_("verify") /\ UNCHANGED <<environ, prepCode>>
     \/ Returns(2) /\ UNCHANGED clusterVars
  /\ UNCHANGED <<session, prepAddress>>

\* devlab/config.py: a Target, or {} for a TargetError.  Without the user and
\* the password a target connects in the clear.
Target(name, brokers, sasl) == [name |-> name, bootstrap |-> brokers, uses_sasl |-> sasl]
Compose == -1
Local == {Target("local", Compose, FALSE)}
Msk == IF envFile = 0 THEN {} ELSE {Target("msk", envFile, TRUE)}

\* _terraform_output needs a session of this process and a state to read; an
\* empty public output sends it to AWS, which may have no public brokers either.
Output(value) == IF session = "valid" /\ backend THEN {value} ELSE {}
AwsPublicBrokers == IF endpoint THEN {built} ELSE {}
FromTerraform ==
  LET brokers == UNION {IF value # 0 THEN {value} ELSE AwsPublicBrokers : value \in Output(output)}
  IN  {Target("msk", b, TRUE) : b \in brokers}
Resolve(chosen) ==
  CASE chosen = "local" -> Local [] chosen = "msk" -> Msk
    [] chosen = "terraform" -> FromTerraform [] OTHER -> {}

\* _verify_access connects there, and looks for the topic.
Reaches(t) == t.bootstrap = built /\ t.uses_sasl
Verified == (\E t \in FromTerraform : Reaches(t)) /\ Reachable /\ "md.trades.v1" \in Named(topicsOn)
Verify ==
  /\ Prep("verify")
  /\ IF Verified THEN Returns(0) ELSE \E status \in {1, 2} : Returns(status)
  /\ UNCHANGED <<clusterVars, session, prepAddress>>
PrepFails ==
  /\ prep # "off" /\ Prep(prep) /\ Returns(1)
  /\ UNCHANGED <<clusterVars, session, prepAddress>>

PrepStep == Credentials \/ FindStack \/ Detect \/ Refresh \/ Verify
ProvNext ==
  \/ Publishes \/ Wiped \/ EditsEnv \/ \E ip \in Addresses : Moves(ip)
  \/ BootBegins \/ BootStep \/ BootEnds
  \/ PrepBegins \/ PrepStep \/ PrepFails

ProvSpec == ProvInit /\ [][ProvNext]_provVars

-----------------------------------------------------------------------------
(* Properties. *)

\* Deny by default is never switched on before the ACLs exist: a cluster that
\* locks out even the one who would add them cannot be recovered from the
\* client side.  Across failures, kills, wipes, re-runs and a notebook's
\* refresh (bootstrap.sh, create_acls.py, prepare).
NeverLockedOut == restricted => acls = Bindings

\* "Ready." is printed for a public, enforced cluster with every topic, unless
\* it was wiped in that moment (bootstrap.sh, create_topics.py).
ReadyIsReady ==
  step = "ready" /\ exists => public /\ endpoint /\ restricted /\ secret = built
                               /\ Named(topicsOn) = Topics /\ \A t \in topicsOn : t.insync < t.replicas

\* The process gets its own environment back however the preflight ends
\* (_temporary_environment).
EnvironmentRestored == prep = "off" => environ = "own"

\* A notebook started with the target terraform is led to the cluster that
\* exists or to none, never to one of an earlier build, and to it for certain
\* while it has a public endpoint: "the only source that cannot go stale", over
\* wipes, rebuilds and an output Terraform read too early.  Only the compose
\* broker is read without credentials, and no .env, however old, redirects
\* "local" (devlab/config.py).
TargetFresh ==
  /\ endpoint /\ session = "valid" => Resolve("terraform") # {}
  /\ \A t \in Resolve("terraform") : exists /\ Reaches(t)
  /\ \A chosen \in {"local", "msk", "terraform"} : \A t \in Resolve(chosen) :
       /\ t.uses_sasl <=> chosen # "local"
       /\ t.bootstrap = Compose <=> ~t.uses_sasl

\* Provisioning may be interrupted anywhere and repeated (bootstrap.sh,
\* create_acls.py, create_topics.py, prepare_msk_notebook.py, devlab/config.py):
\* nobody is locked out, "Ready." is true, and a notebook is led to the cluster
\* that exists.
ProvisionSound == NeverLockedOut /\ ReadyIsReady /\ EnvironmentRestored /\ TargetFresh
=============================================================================
