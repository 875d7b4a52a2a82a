------------------------------- MODULE Deploy -------------------------------
(***************************************************************************)
(* deploy.sh and the scripts it calls (secrets-backup.sh restore,          *)
(* gen-keys.sh, issue-cert.sh) against the box they run on: files, nginx,  *)
(* the engine's systemd unit, certbot's timer.  One run at a time; an      *)
(* operator chooses the stages of each.  A run may be killed, the box      *)
(* rebooted, the engine may crash, a download or a check may fail, the key *)
(* may be replaced, as often as MaxFaults in all.                          *)
(*                                                                         *)
(* Of a file only what the scripts compare is kept: which key is in it,    *)
(* which version of the repository it comes from, whether it is there.     *)
(***************************************************************************)
EXTENDS Naturals, Sequences, FiniteSets

CONSTANTS
    Plans,         \* the lists of stages an operator may ask for
    Origins,       \* how the box begins: subset of {"bare", "snapshot"}
    NginxRunning,  \* whether a bare box has nginx started: subset of BOOLEAN
    Bundle,        \* k3-secrets.enc is in the repository
    MaxVersion,    \* versions of the repository there will be, from 0
    Refused,       \* those whose nginx fragments nginx -t refuses
    MaxRotations,  \* how often the operator replaces the upstream key (0, 1)
    MaxFaults,
    None

STAGES_ALL == <<"preflight", "host", "weights", "secrets", "install", "image",
                "keys", "services", "tls", "verify">>

Stages == {STAGES_ALL[i] : i \in DOMAIN STAGES_ALL}

\* The bare box and the snapshot both come from a version that nginx accepts.
ASSUME PlansAssumption ==
    /\ Plans \subseteq Seq(Stages) /\ <<>> \notin Plans
    /\ NginxRunning \subseteq BOOLEAN
    /\ MaxVersion \in Nat /\ Refused \subseteq 1..MaxVersion
    /\ MaxRotations \in {0, 1} /\ MaxFaults \in Nat /\ Bundle \in BOOLEAN

VARIABLES
    disk,     \* weights, credentials, customer table, serve config, image, cert
    edge,     \* /etc/nginx/conf.d: fragments, key map, limits, TLS server
    nginx,    \* the running server: the edge and the certificate it has loaded
    engine,   \* k3.service: its state, the key and the config it started with
    enabled,  \* units started at boot
    repo,     \* version checked out
    dns,      \* the domain points at this box
    run,      \* the deploy.sh in progress
    outcome,  \* how the last one ended
    told,     \* changes under the running engine an operator was told about
    mishaps,  \* what was interrupted half way, and not written whole since
    faults

vars == <<disk, edge, nginx, engine, enabled, repo, dns, run, outcome, told,
          mishaps, faults>>
world == <<repo, dns, mishaps, faults>>

\* The key of the bundle and of the snapshot; one deploy.sh generates; one an
\* operator writes to api-key.txt.
Keys == {"original", "minted", "rotated"}
Versions == 0..MaxVersion
ASSUME NoneAssumption ==
    /\ None \notin Versions
    /\ None \notin Keys \cup {"empty", "customers", "torn"}
Hints == {"key", "config"}
\* A torn map breaks off inside its block; None is also a map without any of
\* what the TLS server needs of it.  Empty limits hold no directive.
Edge == [frag : Versions \cup {None}, map : {None, "torn", "empty", "customers"},
         limits : Keys \cup {None, "empty"}, tls : BOOLEAN]
Certs == {"none", "expired", "valid"}
Disk == [weights : {"absent", "partial", "whole"},
         api : Keys \cup {None}, env : Keys \cup {None},
         tsv : {None, "empty", "customers"},
         config : Versions \cup {None}, image : BOOLEAN, cert : Certs]
Nginx == [up : BOOLEAN, conf : Edge, cert : Certs]
Engine == [st : {"off", "loading", "up", "waiting", "dead"},
           key : Keys \cup {None}, config : Versions \cup {None}]

Mishaps == {"restore", "install", "map", "limits", "reload", "hook"}
Active == {"loading", "up"}

\* Last conjunct: a unit never runs without its EnvironmentFile and config.
TypeOK ==
    /\ disk \in Disk /\ edge \in Edge /\ nginx \in Nginx /\ engine \in Engine
    /\ enabled \subseteq {"k3", "nginx"}
    /\ repo \in Versions /\ dns \in BOOLEAN /\ faults \in 0..MaxFaults
    /\ run.undo \in Versions \cup {None} /\ run.hints \subseteq Hints
    /\ outcome \in {"none", "green", "part", "incomplete", "failed", "killed"}
    /\ told \subseteq Hints
    /\ mishaps \subseteq Mishaps
    /\ engine.st \in Active => engine.key # None /\ engine.config # None

-----------------------------------------------------------------------------
(* nginx, systemd and the engine, as the scripts use them.                 *)

\* nginx -t: the TLS server needs its certificate, the map that defines
\* $k3_customer, the limits it includes, filled or empty, and the upstreams of
\* the fragments.
Valid(e) ==
    /\ e.frag \notin Refused /\ e.map # "torn"
    /\ e.tls => disk.cert # "none" /\ None \notin {e.frag, e.map, e.limits}

\* A start or a successful reload.
Load(e) == nginx' = [up |-> TRUE, conf |-> e, cert |-> disk.cert]

\* Everything the container needs to load the model.
Loadable == disk.weights = "whole" /\ disk.image

\* A start of the unit needs its EnvironmentFile; systemd reads that, and the
\* container config.yaml, each time.
CanStart_ConfigOnly == disk.config # None
CanStart == disk.config # None /\ disk.env # None
Started == [st |-> "loading", key |-> disk.env, config |-> disk.config]

\* `systemctl enable --now k3.service`: nothing if it is active.
EnsureStarted_Restart == Started
EnsureStarted == IF engine.st \in Active THEN engine ELSE Started

\* Port 80 answers the HTTP-01 challenge: only the server of k3-tls.conf does,
\* the default one drops the connection.
ServesChallenge == dns /\ nginx.up /\ nginx.conf.tls

EngineUp ==
    /\ engine.st = "loading" /\ Loadable
    /\ engine' = [engine EXCEPT !.st = "up"]
    /\ UNCHANGED <<disk, edge, nginx, enabled, run, outcome, told, world>>

EngineExits ==
    /\ engine.st = "loading" /\ ~Loadable
    /\ engine' = [engine EXCEPT !.st = "waiting"]
    /\ UNCHANGED <<disk, edge, nginx, enabled, run, outcome, told, world>>

EngineRestarts ==
    /\ engine.st = "waiting" /\ CanStart
    /\ engine' = Started /\ told' = {}
    /\ UNCHANGED <<disk, edge, nginx, enabled, run, outcome, world>>

\* StartLimitBurst: the unit stops retrying.
EngineGivesUp ==
    /\ engine.st = "waiting" /\ ~(Loadable /\ CanStart)
    /\ engine' = [engine EXCEPT !.st = "dead"]
    /\ UNCHANGED <<disk, edge, nginx, enabled, run, outcome, told, world>>

\* The deploy hook certbot runs after a renewal reloads nginx, unless nginx -t
\* fails.
AfterHook_NotInstalled == nginx
AfterHook == IF Valid(edge)
             THEN [up |-> TRUE, conf |-> edge, cert |-> "valid"] ELSE nginx

\* certbot.timer renews over the webroot.
Renew ==
    /\ disk.cert = "expired" /\ ServesChallenge
    /\ disk' = [disk EXCEPT !.cert = "valid"]
    /\ nginx' = AfterHook
    /\ mishaps' = IF Valid(edge) /\ edge.limits # "empty" THEN mishaps
                  ELSE mishaps \cup {"hook"}
    /\ UNCHANGED <<edge, engine, enabled, repo, dns, run, outcome, told, faults>>

-----------------------------------------------------------------------------
(* The run in progress.                                                    *)

Idle == [pc |-> "idle", todo |-> <<>>, full |-> FALSE, undo |-> None,
         hints |-> {}, deferred |-> FALSE]

At(stage) == run.pc = "stage" /\ run.todo # <<>> /\ Head(run.todo) = stage
Goto(l) == run' = [run EXCEPT !.pc = l] /\ UNCHANGED outcome
Advance(r) ==
    run' = [r EXCEPT !.pc = "stage", !.todo = Tail(@)] /\ UNCHANGED outcome
Die == run' = Idle /\ outcome' = "failed"

\* A change under a running engine is remembered for the summary.
Hinted(changed, hint) ==
    IF changed /\ engine.st \in Active THEN run.hints \cup {hint} ELSE run.hints

Start(plan) ==
    /\ run = Idle
    /\ run' = [Idle EXCEPT !.pc = "stage", !.todo = plan,
                           !.full = plan = STAGES_ALL]
    /\ outcome' = "none"
    /\ UNCHANGED <<disk, edge, nginx, engine, enabled, told, world>>

\* preflight only looks; host tunes the kernel and creates directories.
Prepare ==
    /\ At("preflight") \/ At("host")
    /\ Advance(run)
    /\ UNCHANGED <<disk, edge, nginx, engine, enabled, told, world>>

\* The model directory is there, whole or not.
WeightsPresent == disk.weights # "absent"

Weights ==
    /\ At("weights")
    /\ \/ WeightsPresent /\ Advance(run) /\ UNCHANGED disk
       \/ /\ ~WeightsPresent
          /\ disk' = [disk EXCEPT !.weights = "partial"]
          /\ Goto("download")
    /\ UNCHANGED <<edge, nginx, engine, enabled, told, world>>

Downloaded ==
    /\ run.pc = "download"
    /\ disk' = [disk EXCEPT !.weights = "whole"] /\ Advance(run)
    /\ UNCHANGED <<edge, nginx, engine, enabled, told, world>>

\* Prefer the bundle's identity to a new one.
ShouldRestore_SudoDropsIt == FALSE
ShouldRestore == disk.api = None /\ Bundle

Secrets ==
    /\ At("secrets")
    /\ \/ ShouldRestore /\ Goto("restore") /\ UNCHANGED disk
       \/ /\ ~ShouldRestore
          /\ disk' = [disk EXCEPT !.api = IF @ = None THEN "minted" ELSE @]
          /\ Goto("env")
    /\ UNCHANGED <<edge, nginx, engine, enabled, told, world>>

\* secrets-backup.sh restore installs its files one after the other.
RestoreFile ==
    /\ \/ /\ run.pc = "restore" /\ Goto("restore_table")
          /\ disk' = [disk EXCEPT !.api = "original"]
       \/ /\ run.pc = "restore_table" /\ Goto("restore_env")
          /\ disk' = [disk EXCEPT !.tsv = "customers"]
       \/ /\ run.pc = "restore_env" /\ Goto("env")
          /\ disk' = [disk EXCEPT !.env = "original"]
    /\ UNCHANGED <<edge, nginx, engine, enabled, told, world>>

\* VLLM_API_KEY := api-key.txt
EnvFile ==
    /\ run.pc = "env"
    /\ disk' = [disk EXCEPT !.env = disk.api]
    /\ run' = [run EXCEPT !.pc = "seed",
                          !.hints = Hinted(disk.env # disk.api, "key")]
    /\ UNCHANGED <<edge, nginx, engine, enabled, outcome, told, world>>

SeedTable ==
    /\ run.pc = "seed"
    /\ disk' = [disk EXCEPT !.tsv = IF @ = None THEN "empty" ELSE @]
    /\ Advance(run)
    /\ UNCHANGED <<edge, nginx, engine, enabled, told, world>>

\* config.yaml, and with it the units and the dashboard.
InstallConfig ==
    /\ At("install")
    /\ disk' = [disk EXCEPT !.config = repo]
    /\ run' = [run EXCEPT !.pc = "fragments",
                          !.hints = Hinted(disk.config # repo, "config")]
    /\ UNCHANGED <<edge, nginx, engine, enabled, outcome, told, world>>

\* nginx -t and the reload are skipped when no fragment differs.
InstallFragments ==
    /\ run.pc = "fragments"
    /\ \/ edge.frag = repo /\ Advance(run) /\ UNCHANGED edge
       \/ /\ edge.frag # repo
          /\ edge' = [edge EXCEPT !.frag = repo]
          /\ run' = [run EXCEPT !.pc = "check", !.undo = edge.frag]
          /\ UNCHANGED outcome
    /\ UNCHANGED <<disk, nginx, engine, enabled, told, world>>

\* Overwritten fragments come back, added ones are removed.
RolledBack_AddedOnly ==
    [edge EXCEPT !.frag = IF run.undo = None THEN None ELSE @]
RolledBack == [edge EXCEPT !.frag = run.undo]

CheckFragments ==
    /\ run.pc = "check"
    /\ \/ /\ Valid(edge) /\ Advance(run) /\ UNCHANGED edge
          /\ IF nginx.up THEN Load(edge) ELSE UNCHANGED nginx
       \/ ~Valid(edge) /\ Die /\ edge' = RolledBack /\ UNCHANGED nginx
    /\ UNCHANGED <<disk, engine, enabled, told, world>>

\* Loaded from the tarball or pulled, and verified by digest.
Image ==
    /\ At("image") /\ Advance(run)
    /\ disk' = [disk EXCEPT !.image = TRUE]
    /\ UNCHANGED <<edge, nginx, engine, enabled, told, world>>

\* gen-keys.sh seeds the table ...
Keygen ==
    /\ At("keys")
    /\ IF disk.api = None THEN Die /\ UNCHANGED disk
       ELSE /\ Goto("emit")
            /\ disk' = [disk EXCEPT !.tsv = IF @ = None THEN "empty" ELSE @]
    /\ UNCHANGED <<edge, nginx, engine, enabled, told, world>>

\* ... empties the map, fills it line by line from the table, then does the
\* same to the limits, with api-key.txt.
WriteKeyFiles ==
    /\ \/ /\ run.pc = "emit" /\ Goto("fill")
          /\ \E left \in {None, "torn"} : edge' = [edge EXCEPT !.map = left]
          /\ UNCHANGED mishaps
       \/ /\ run.pc = "fill" /\ Goto("limits")
          /\ edge' = [edge EXCEPT !.map = disk.tsv]
          /\ mishaps' = mishaps \ {"map"}
       \/ /\ run.pc = "limits" /\ Goto("swap")
          /\ edge' = [edge EXCEPT !.limits = "empty"]
          /\ UNCHANGED mishaps
       \/ /\ run.pc = "swap" /\ Goto("reload")
          /\ edge' = [edge EXCEPT !.limits = disk.api]
          /\ mishaps' = mishaps \ {"limits"}
    /\ UNCHANGED <<disk, nginx, engine, enabled, told, repo, dns, faults>>

\* ... then tests and reloads; a reload of an nginx that is not running fails.
ReloadKeys ==
    /\ run.pc = "reload"
    /\ IF Valid(edge) /\ nginx.up THEN Load(edge) /\ Advance(run)
                                  ELSE Die /\ UNCHANGED nginx
    /\ UNCHANGED <<disk, edge, engine, enabled, told, world>>

\* k3.service is enabled if there is such a unit, then started; systemd goes on
\* trying a start that failed, but may refuse one after too many.
EnableEngine ==
    /\ At("services")
    /\ enabled' = IF disk.config = None THEN enabled ELSE enabled \cup {"k3"}
    /\ \/ CanStart /\ Goto("units") /\ engine' = EnsureStarted
       \/ disk.config = None /\ Die /\ UNCHANGED engine
       \/ /\ disk.config # None /\ ~CanStart /\ Die
          /\ engine' = [engine EXCEPT !.st = IF @ \in Active THEN @ ELSE "waiting"]
       \/ engine.st = "dead" /\ Die /\ UNCHANGED engine
    /\ UNCHANGED <<disk, edge, nginx, told, world>>

\* nginx.service comes after the dashboard's unit.
EnableNginx ==
    /\ run.pc = "units"
    /\ enabled' = enabled \cup {"nginx"}
    /\ \/ nginx.up /\ Goto("poll") /\ UNCHANGED nginx
       \/ ~nginx.up /\ Valid(edge) /\ Goto("poll") /\ Load(edge)
       \/ ~nginx.up /\ ~Valid(edge) /\ Die /\ UNCHANGED nginx
    /\ UNCHANGED <<disk, edge, engine, told, world>>

\* The answer of /v1/models with api-key.txt is 200.
Ready == engine.st = "up" /\ engine.key = disk.api

PollReady ==
    /\ run.pc = "poll" /\ Ready /\ Advance(run)
    /\ UNCHANGED <<disk, edge, nginx, engine, enabled, told, world>>

\* 401, or the unit is not active: between two tries it is not.
PollDies ==
    /\ run.pc = "poll" /\ engine.st # "loading" /\ ~Ready /\ Die
    /\ UNCHANGED <<disk, edge, nginx, engine, enabled, told, world>>

\* The run goes on, but is not reported as complete.
Deferred_Forgotten == run
Deferred == [run EXCEPT !.deferred = TRUE]

Tls ==
    /\ At("tls")
    /\ \/ /\ disk.cert # "none" /\ edge.tls
          /\ IF Valid(edge) THEN Advance(run) ELSE Die
       \/ (disk.cert = "none" \/ ~edge.tls) /\ dns /\ Goto("certbot")
       \/ (disk.cert = "none" \/ ~edge.tls) /\ ~dns /\ Advance(Deferred)
    /\ UNCHANGED <<disk, edge, nginx, engine, enabled, told, world>>

\* certonly --webroot --keep-until-expiring
Certbot ==
    /\ run.pc = "certbot"
    /\ IF disk.cert = "valid" \/ ServesChallenge
       THEN disk' = [disk EXCEPT !.cert = "valid"] /\ Goto("write_tls")
       ELSE UNCHANGED disk /\ Advance(Deferred)
    /\ UNCHANGED <<edge, nginx, engine, enabled, told, world>>

WriteTlsServer ==
    /\ run.pc = "write_tls" /\ Goto("check_tls")
    /\ edge' = [edge EXCEPT !.tls = TRUE]
    /\ UNCHANGED <<disk, nginx, engine, enabled, told, world>>

\* On a refused configuration the backup is put back, if there was one: either
\* way a k3-tls.conf stays.  A reload that fails is not noticed.
CheckTlsServer ==
    /\ run.pc = "check_tls"
    /\ \/ /\ Valid(edge) /\ Advance(run)
          /\ IF nginx.up THEN Load(edge) ELSE UNCHANGED nginx
       \/ ~Valid(edge) /\ Advance(Deferred) /\ UNCHANGED nginx
    /\ UNCHANGED <<disk, edge, engine, enabled, told, world>>

\* A customer's request is answered with the engine's own key.
Forwards == /\ nginx.up /\ nginx.conf.tls /\ nginx.cert = "valid"
            /\ nginx.conf.map = "customers" /\ nginx.conf.limits = engine.key

\* verify-auth.sh when there is a certificate and a customer, then gate.sh.
Verified == /\ disk.cert # "none" /\ disk.tsv = "customers" => Forwards
            /\ Ready

Verify ==
    /\ At("verify")
    /\ IF Verified THEN Advance(run) ELSE Die
    /\ UNCHANGED <<disk, edge, nginx, engine, enabled, told, world>>

\* The summary is the only place that announces a restart.
Finish ==
    /\ run.pc = "stage" /\ run.todo = <<>>
    /\ run' = Idle
    /\ outcome' = IF ~run.full THEN "part"
                  ELSE IF run.deferred THEN "incomplete" ELSE "green"
    /\ told' = told \cup run.hints
    /\ UNCHANGED <<disk, edge, nginx, engine, enabled, world>>

Step == \/ Prepare \/ Weights \/ Downloaded \/ Secrets \/ RestoreFile
        \/ EnvFile \/ SeedTable \/ InstallConfig \/ InstallFragments
        \/ CheckFragments \/ Image \/ Keygen \/ WriteKeyFiles \/ ReloadKeys
        \/ EnableEngine \/ EnableNginx \/ PollReady \/ PollDies
        \/ Tls \/ Certbot \/ WriteTlsServer \/ CheckTlsServer \/ Verify \/ Finish

-----------------------------------------------------------------------------
(* What goes wrong.                                                        *)

Fault == faults < MaxFaults /\ faults' = faults + 1

\* A check, a download, a passphrase, the start of the dashboard's unit or the
\* wait for the engine fails.
StageFails ==
    /\ Fault /\ Die
    /\ \/ run.pc \in {"download", "units", "poll"}
       \/ \E s \in {"preflight", "host", "image", "verify"} : At(s)
       \/ At("secrets") /\ ShouldRestore
    /\ UNCHANGED <<disk, edge, nginx, engine, enabled, told, repo, dns, mishaps>>

\* What is left half done if the run ends here.
Torn == CASE run.pc \in {"restore_table", "restore_env"} -> {"restore"}
          [] run.pc = "check" -> {"install"}
          [] run.pc = "fill" -> {"map"}
          [] run.pc = "swap" -> {"limits"}
          [] run.pc \in {"write_tls", "check_tls"} -> {"reload"}
          [] OTHER -> {}

Kill ==
    /\ Fault /\ run # Idle
    /\ run' = Idle /\ outcome' = "killed" /\ mishaps' = mishaps \cup Torn
    /\ UNCHANGED <<disk, edge, nginx, engine, enabled, told, repo, dns>>

Reboot ==
    /\ Fault
    /\ run' = Idle /\ mishaps' = mishaps \cup Torn /\ told' = {}
    /\ outcome' = IF run = Idle THEN outcome ELSE "killed"
    /\ IF "nginx" \in enabled /\ Valid(edge)
       THEN Load(edge) ELSE nginx' = [nginx EXCEPT !.up = FALSE]
    /\ engine' = IF "k3" \notin enabled THEN [engine EXCEPT !.st = "off"]
                 ELSE IF CanStart THEN Started ELSE [engine EXCEPT !.st = "waiting"]
    /\ UNCHANGED <<disk, edge, enabled, repo, dns>>

EngineCrash ==
    /\ Fault /\ engine.st \in Active
    /\ engine' = [engine EXCEPT !.st = "waiting"]
    /\ UNCHANGED <<disk, edge, nginx, enabled, run, outcome, told, repo, dns,
                   mishaps>>

-----------------------------------------------------------------------------
(* What an operator does between runs.                                     *)

Pull ==
    /\ run = Idle /\ repo < MaxVersion /\ repo' = repo + 1
    /\ UNCHANGED <<disk, edge, nginx, engine, enabled, dns, run, outcome, told,
                   mishaps, faults>>

\* A new api-key.txt; vllm-k3.env, the limits and the engine have to follow.  It
\* counts among the faults only to bound how much happens to one box.
Rotate ==
    /\ Fault
    /\ run = Idle /\ MaxRotations = 1 /\ disk.api \notin {None, "rotated"}
    /\ disk' = [disk EXCEPT !.api = "rotated"] /\ outcome' = "none"
    /\ UNCHANGED <<edge, nginx, engine, enabled, run, told, repo, dns, mishaps>>

\* systemctl restart k3.service, when there is a reason to.
RestartEngine ==
    /\ run = Idle /\ CanStart
    /\ \/ engine.st = "dead"
       \/ engine.st = "up" /\ engine # [Started EXCEPT !.st = "up"]
    /\ engine' = Started /\ told' = {}
    /\ UNCHANGED <<disk, edge, nginx, enabled, run, outcome, world>>

\* issue-cert.sh by itself: once the name resolves it calls certbot, whatever
\* certificate there is.
IssueCert ==
    /\ run = Idle /\ dns
    /\ run' = [Idle EXCEPT !.pc = "certbot", !.todo = <<"tls">>]
    /\ outcome' = "none"
    /\ UNCHANGED <<disk, edge, nginx, engine, enabled, told, world>>

PointDns ==
    /\ ~dns /\ dns' = TRUE
    /\ UNCHANGED <<disk, edge, nginx, engine, enabled, repo, run, outcome, told,
                   mishaps, faults>>

-----------------------------------------------------------------------------
Bare(up) ==
    /\ disk = [weights |-> "absent", api |-> None, env |-> None, tsv |-> None,
               config |-> None, image |-> FALSE, cert |-> "none"]
    /\ edge = [frag |-> None, map |-> None, limits |-> None, tls |-> FALSE]
    /\ nginx = [up |-> up, conf |-> edge, cert |-> "none"]
    /\ engine = [st |-> "off", key |-> None, config |-> None]
    /\ enabled = IF up THEN {"nginx"} ELSE {}

\* A droplet booted from a snapshot, whose certificate may be too old.
Snapshot(cert) ==
    /\ disk = [weights |-> "whole", api |-> "original", env |-> "original",
               tsv |-> "customers", config |-> 0, image |-> TRUE, cert |-> cert]
    /\ edge = [frag |-> 0, map |-> "customers", limits |-> "original",
               tls |-> TRUE]
    /\ nginx = [up |-> TRUE, conf |-> edge, cert |-> cert]
    /\ engine = [st |-> "loading", key |-> "original", config |-> 0]
    /\ enabled = {"k3", "nginx"}

Init ==
    /\ \/ "bare" \in Origins /\ \E up \in NginxRunning : Bare(up)
       \/ "snapshot" \in Origins /\ \E cert \in {"expired", "valid"} : Snapshot(cert)
    /\ repo = 0 /\ dns \in BOOLEAN /\ run = Idle /\ outcome = "none"
    /\ told = {} /\ mishaps = {} /\ faults = 0

Systemd == EngineUp \/ EngineExits \/ EngineRestarts \/ EngineGivesUp
Operator == Pull \/ Rotate \/ RestartEngine \/ IssueCert \/ PointDns
Nature == StageFails \/ Kill \/ Reboot \/ EngineCrash

Next == \/ Step \/ Systemd \/ Renew \/ Operator \/ Nature
        \/ \E plan \in Plans : Start(plan)

\* Scripts, systemd and certbot's timer go on by themselves, and somebody
\* points the name at the box.  Nobody need start a run, pull or restart.
Fairness == /\ WF_vars(Step) /\ WF_vars(EngineUp) /\ WF_vars(EngineExits)
            /\ WF_vars(EngineRestarts) /\ WF_vars(Renew) /\ WF_vars(PointDns)
Spec == Init /\ [][Next]_vars /\ Fairness

\* The same box where every run comes to its own end.
UnkilledSpec ==
    Init /\ [][\/ Step \/ Systemd \/ Renew \/ Operator \/ StageFails
              \/ EngineCrash \/ \E plan \in Plans : Start(plan)]_vars

\* An operator who also runs the whole sequence whenever none is in progress.
PersistentSpec == Spec /\ WF_vars(\E plan \in Plans : Start(plan))
-----------------------------------------------------------------------------
(* What the scripts promise.                                               *)

\* A whole sequence that ended well (verify is its last stage) left one
\* credential in every place and nginx serving TLS from what is on disk
\* (deploy.sh:222-224); nothing that happens to the box afterwards undoes it
\* until the next run or rotation.
GreenMeansDeployed ==
    outcome = "green" =>
        /\ disk.env = disk.api /\ nginx.up
        /\ nginx.conf = edge /\ edge.limits = disk.api /\ edge.tls
        /\ engine.st = "up" => engine.key = disk.api

\* With the bundle at hand no run generates a key or seeds an empty customer
\* table, unless one was cut off in the middle of the restore (deploy.sh:439).
IdentityKept ==
    Bundle /\ "restore" \notin mishaps =>
        disk.api # "minted" /\ disk.env # "minted" /\ disk.tsv # "empty"

\* nginx could be restarted at any moment: what is in conf.d passes nginx -t,
\* except while refused fragments wait for their removal or the key map is being
\* written, and after a run was cut off there: for good in the first case
\* (deploy.sh:606-609 finds nothing to install again), in the second until a run
\* gets past the map.
AlwaysStartable ==
    \/ run.pc \in {"check", "fill"}
    \/ mishaps \cap {"install", "map"} # {}
    \/ Valid(edge)

Serving == engine.st = "up" /\ Forwards

\* While the key has not been replaced, no stage of any run, even of one that
\* installs refused fragments or that fails, takes a serving box out of service
\* (deploy.sh:14-18), unless an earlier run was cut off while it wrote the
\* limits: the next reload takes the emptied file.
NeverInterrupts ==
    [][Step /\ Serving /\ disk.api = engine.key /\ "limits" \notin mishaps
           => Serving']_vars

\* A box from a snapshot comes to serve and keeps coming back to it, through
\* crashes, reboots, failing stages, refused versions of the repository, an
\* expired certificate and kills; unless the key was replaced, the renewal hook
\* met a configuration nginx refuses or the emptied limits, or one of these was
\* cut off half way: the restore, an install before its rollback, the writing of
\* the map or of the limits, an issuance before its reload.
SnapshotServes ==
    (/\ disk.weights = "whole"
     /\ [](mishaps = {} /\ disk.api = "original"))
        => []<>Serving

\* deploy.sh:2, "bare box -> authenticated TLS API": with nothing failing and
\* the domain pointing at the box, running the sequence over and over ends in a
\* box that serves.
BareBoxComesUp == <>Serving

\* deploy.sh:16-18, "when an installed file changed underneath a running unit
\* the script WARNS": after a whole sequence that ended well, an engine that runs
\* on an older config or key is one somebody was told about.
StaleEngineAnnounced ==
    outcome = "green" /\ engine.st = "up" /\ engine.config # disk.config
        => "config" \in told

\* deploy.sh:5-6, "re-running converges": however earlier runs ended, a whole
\* sequence that ends well with the bundle at hand has the customers' table.
RerunConverges == Bundle /\ outcome \in {"green", "incomplete"} => disk.tsv = "customers"
=============================================================================
