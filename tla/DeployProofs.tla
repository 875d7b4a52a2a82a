----------------------------- MODULE DeployProofs -----------------------------
(***************************************************************************)
(* Proofs about Deploy: what holds of the box whatever stages are run,     *)
(* killed and run again, for any plans, any number of versions of the      *)
(* repository, refused or not, and any number of faults.                   *)
(***************************************************************************)
EXTENDS Deploy, SequenceTheorems, TLAPS

Pcs == {"idle", "stage", "download", "restore", "restore_table", "restore_env",
        "env", "seed", "fragments", "check", "emit", "fill", "limits", "swap",
        "reload", "units", "poll", "certbot", "write_tls", "check_tls"}
Run == [pc : Pcs, todo : Seq(Stages), full : BOOLEAN,
        undo : Versions \cup {None}, hints : SUBSET Hints, deferred : BOOLEAN]

-----------------------------------------------------------------------------
(* The invariants.                                                         *)

\* The run has its type; in the middle of a stage that stage is still to do.
RunInv ==
    /\ run \in Run
    /\ run.pc \notin {"idle", "stage"} => run.todo # <<>>

\* A run that is about to derive something from the key or from the table has
\* it.
UnitInv ==
    /\ run.pc \in {"restore_table", "restore_env", "env", "seed", "emit", "fill",
                  "limits", "swap", "reload"} => disk.api # None
    /\ run.pc \in {"emit", "fill"} => disk.tsv # None

\* A box either has no certificate and no TLS server, on disk or in nginx, or
\* everything the TLS server needs but the map.
EdgeInv ==
    /\ edge.tls \/ nginx.conf.tls \/ disk.cert # "none"
         \/ run.pc \in {"write_tls", "check_tls"} =>
            /\ disk.cert # "none"
            /\ None \notin {edge.frag, edge.limits}
            /\ run.pc = "check" => run.undo # None
            /\ edge.tls

\* The map is whole, but while it is written or after a run was cut off there.
MapInv ==
    \/ run.pc = "fill"
    \/ "map" \in mishaps
    \/ edge.map # "torn" /\ (edge.tls => edge.map # None)

\* nginx -t passes, or would without the fragments being tried.
StartInv ==
    "install" \notin mishaps =>
        IF run.pc = "check" THEN run.undo \notin Refused
        ELSE edge.frag \notin Refused

\* Once the bundle's key is installed, so is the bundle's table.
IdInv ==
    Bundle /\ "restore" \notin mishaps =>
        /\ disk.api # "minted" /\ disk.env # "minted" /\ disk.tsv # "empty"
        /\ disk.api # None /\ run.pc # "restore_table" => disk.tsv = "customers"

\* The inductive invariant.
IInv == TypeOK /\ RunInv /\ UnitInv /\ EdgeInv /\ MapInv /\ StartInv /\ IdInv

\* A start or a reload leaves nginx with what is on disk.
LEMMA LoadFacts ==
    ASSUME disk \in Disk, edge \in Edge, Load(edge)
    PROVE  /\ nginx' \in Nginx /\ nginx'.up /\ nginx'.conf = edge
           /\ nginx'.cert = disk.cert
BY DEF Load, Nginx, Disk

\* The lists of stages deploy.sh builds itself are lists of stages.
LEMMA StagesOf ==
    /\ <<>> \in Seq(Stages)
    /\ <<"tls">> \in Seq(Stages)
    /\ STAGES_ALL \in Seq(Stages)
<1>1. STAGES_ALL[9] = "tls" /\ 9 \in DOMAIN STAGES_ALL BY DEF STAGES_ALL
<1>2. STAGES_ALL \in Seq(Stages) BY DEF Stages, STAGES_ALL
<1> QED BY <1>1, <1>2 DEF Stages

\* A run that goes on to the next point of its stage has the same ones left.
LEMMA GotoFacts ==
    ASSUME RunInv, NEW l \in Pcs, Goto(l)
    PROVE  /\ run' \in Run /\ run'.pc = l
           /\ run'.todo = run.todo /\ run'.full = run.full
           /\ run'.undo = run.undo /\ run'.hints = run.hints
           /\ run'.deferred = run.deferred /\ outcome' = outcome
BY DEF RunInv, Run, Goto

\* One that ends a stage has the others left.
LEMMA AdvanceFacts ==
    ASSUME RunInv, run.todo # <<>>, NEW r \in {run, Deferred}, Advance(r)
    PROVE  /\ run' \in Run /\ run'.pc = "stage"
           /\ run'.todo = Tail(run.todo) /\ run'.full = run.full
           /\ run'.undo = run.undo /\ run'.hints = run.hints
           /\ run'.deferred = r.deferred /\ outcome' = outcome
<1>1. /\ r \in Run /\ r.todo = run.todo /\ r.full = run.full
      /\ r.undo = run.undo /\ r.hints = run.hints
  BY DEF RunInv, Run, Deferred
<1>2. Tail(r.todo) \in Seq(Stages)
  BY <1>1 DEF Run
<1>3. run' = [r EXCEPT !.pc = "stage", !.todo = Tail(r.todo)]
  BY DEF Advance
<1> QED BY <1>1, <1>2, <1>3 DEF Run, Pcs, Advance

\* One that dies is over.
LEMMA DieFacts ==
    ASSUME Die
    PROVE  /\ run' \in Run /\ run'.pc = "idle" /\ run'.todo = <<>>
           /\ run'.full = FALSE /\ run'.undo = None /\ run'.hints = {}
           /\ outcome' = "failed"
BY DEF Die, Idle, Run, Pcs, Hints

\* A run that writes a generated file changes that file and goes on.
LEMMA WriteFacts ==
    ASSUME TypeOK, RunInv, WriteKeyFiles
    PROVE  /\ UNCHANGED <<disk, nginx, engine, enabled, told, repo, dns, faults, outcome>>
           /\ run' \in Run /\ run.todo # <<>> /\ run'.todo = run.todo
           /\ run'.full = run.full /\ run'.undo = run.undo
           /\ run'.hints = run.hints /\ run'.deferred = run.deferred
           /\ edge' \in Edge /\ edge'.frag = edge.frag /\ edge'.tls = edge.tls
           /\ \/ /\ run.pc = "emit" /\ run'.pc = "fill" /\ mishaps' = mishaps
                 /\ edge'.map \in {None, "torn"} /\ edge'.limits = edge.limits
              \/ /\ run.pc = "fill" /\ run'.pc = "limits" /\ mishaps' = mishaps \ {"map"}
                 /\ edge'.map = disk.tsv /\ edge'.limits = edge.limits
              \/ /\ run.pc = "limits" /\ run'.pc = "swap" /\ mishaps' = mishaps
                 /\ edge'.map = edge.map /\ edge'.limits = "empty"
              \/ /\ run.pc = "swap" /\ run'.pc = "reload" /\ mishaps' = mishaps \ {"limits"}
                 /\ edge'.map = edge.map /\ edge'.limits = disk.api
<1>1. edge \in Edge /\ disk \in Disk
  BY DEF TypeOK
<1>2. run.pc \in {"emit", "fill", "limits", "swap"}
  BY DEF WriteKeyFiles
<1>3. UNCHANGED <<disk, nginx, engine, enabled, told, repo, dns, faults, outcome>>
  BY DEF WriteKeyFiles, Goto
<1>4. CASE run.pc = "emit"
  <2>1. PICK left \in {None, "torn"} : edge' = [edge EXCEPT !.map = left]
    BY <1>4 DEF WriteKeyFiles
  <2>2. Goto("fill") /\ mishaps' = mishaps
    BY <1>4 DEF WriteKeyFiles
  <2> QED BY <1>1, <1>2, <1>3, <1>4, <2>1, <2>2, GotoFacts DEF Edge, Pcs, RunInv
<1>5. CASE run.pc = "fill"
  <2>1. /\ Goto("limits") /\ mishaps' = mishaps \ {"map"}
        /\ edge' = [edge EXCEPT !.map = disk.tsv]
    BY <1>5 DEF WriteKeyFiles
  <2>2. disk.tsv \in {None, "torn", "empty", "customers"}
    BY <1>1 DEF Disk
  <2> QED BY <1>1, <1>2, <1>3, <1>5, <2>1, <2>2, GotoFacts DEF Edge, Pcs, RunInv
<1>6. CASE run.pc = "limits"
  <2>1. /\ Goto("swap") /\ mishaps' = mishaps
        /\ edge' = [edge EXCEPT !.limits = "empty"]
    BY <1>6 DEF WriteKeyFiles
  <2> QED BY <1>1, <1>2, <1>3, <1>6, <2>1, GotoFacts DEF Edge, Pcs, RunInv
<1>7. CASE run.pc = "swap"
  <2>1. /\ Goto("reload") /\ mishaps' = mishaps \ {"limits"}
        /\ edge' = [edge EXCEPT !.limits = disk.api]
    BY <1>7 DEF WriteKeyFiles
  <2>2. disk.api \in Keys \cup {None, "empty"}
    BY <1>1 DEF Disk
  <2> QED BY <1>1, <1>2, <1>3, <1>7, <2>1, <2>2, GotoFacts DEF Edge, Pcs, RunInv
<1> QED BY <1>2, <1>4, <1>5, <1>6, <1>7

\* Types are preserved; the step that starts the unit (services) has checked
\* that its credential and its config are there, and a restart finds them.
LEMMA TypeStep == ASSUME TypeOK, RunInv, UnitInv, Next PROVE TypeOK'
<1> USE DEF world, Idle, Run, Pcs, Mishaps, TypeOK, RunInv, UnitInv
<1>1. CASE Prepare
  BY <1>1, AdvanceFacts DEF Prepare, At
<1>2. CASE Weights
  BY <1>2, AdvanceFacts, GotoFacts DEF Weights, At, Disk
<1>3. CASE Downloaded
  BY <1>3, AdvanceFacts DEF Downloaded, Disk
<1>4. CASE Secrets
  BY <1>4, GotoFacts DEF Secrets, Disk, Keys
<1>5. CASE RestoreFile
  BY <1>5, GotoFacts DEF RestoreFile, Disk, Keys
<1>6. CASE EnvFile
  <2>1. disk' \in Disk
    BY <1>6 DEF EnvFile, Disk
  <2>2. run'.undo \in Versions \cup {None} /\ run'.hints \subseteq Hints
    BY <1>6 DEF EnvFile, Hinted, Hints
  <2> QED
    BY <1>6, <2>1, <2>2 DEF EnvFile
<1>7. CASE SeedTable
  BY <1>7, AdvanceFacts DEF SeedTable, Disk
<1>8. CASE InstallConfig
  <2>1. disk' \in Disk
    BY <1>8 DEF InstallConfig, Disk, Versions
  <2>2. run'.undo \in Versions \cup {None} /\ run'.hints \subseteq Hints
    BY <1>8 DEF InstallConfig, Hinted, Hints
  <2> QED
    BY <1>8, <2>1, <2>2 DEF InstallConfig
<1>9. CASE InstallFragments
  <2>1. edge' \in Edge
    BY <1>9 DEF InstallFragments, Edge
  <2>2. /\ run'.undo \in Versions \cup {None} /\ run'.hints \subseteq Hints
        /\ outcome' = outcome
    BY <1>9, AdvanceFacts DEF InstallFragments, Edge
  <2> QED
    BY <1>9, <2>1, <2>2 DEF InstallFragments
<1>10. CASE CheckFragments
  <2>1. edge' \in Edge
    BY <1>10 DEF CheckFragments, RolledBack, Edge
  <2>2. nginx' \in Nginx
    BY <1>10, LoadFacts DEF CheckFragments
  <2>3. /\ run'.undo \in Versions \cup {None} /\ run'.hints \subseteq Hints
        /\ outcome' \in {outcome, "failed"}
    BY <1>10, AdvanceFacts, DieFacts DEF CheckFragments
  <2> QED
    BY <1>10, <2>1, <2>2, <2>3 DEF CheckFragments
<1>11. CASE Image
  BY <1>11, AdvanceFacts DEF Image, At, Disk
<1>12. CASE Keygen
  <2>1. disk' \in Disk
    BY <1>12 DEF Keygen, Disk
  <2>2. /\ run'.undo \in Versions \cup {None} /\ run'.hints \subseteq Hints
        /\ outcome' \in {outcome, "failed"}
    BY <1>12, GotoFacts, DieFacts DEF Keygen
  <2> QED
    BY <1>12, <2>1, <2>2 DEF Keygen, Goto, Die
<1>13. CASE ReloadKeys
  <2>1. nginx' \in Nginx
    BY <1>13, LoadFacts DEF ReloadKeys
  <2>2. /\ run'.undo \in Versions \cup {None} /\ run'.hints \subseteq Hints
        /\ outcome' \in {outcome, "failed"}
    BY <1>13, AdvanceFacts, DieFacts DEF ReloadKeys
  <2> QED
    BY <1>13, <2>1, <2>2 DEF ReloadKeys
<1>14. CASE EnableEngine
  <2>1. engine' \in Engine
    BY <1>14 DEF EnableEngine, EnsureStarted, Started, Engine, Disk
  <2>2. /\ run'.undo \in Versions \cup {None} /\ run'.hints \subseteq Hints
        /\ outcome' \in {outcome, "failed"}
    BY <1>14, GotoFacts, DieFacts DEF EnableEngine
  <2>3. engine'.st \in Active => engine'.key # None /\ engine'.config # None
    BY <1>14 DEF EnableEngine, EnsureStarted, Started, CanStart, Active, Engine
  <2> QED
    BY <1>14, <2>1, <2>2, <2>3 DEF EnableEngine
<1>15. CASE PollReady
  BY <1>15, AdvanceFacts DEF PollReady
<1>16. CASE PollDies
  BY <1>16, DieFacts DEF PollDies
<1>17. CASE Tls
  BY <1>17, AdvanceFacts, DieFacts, GotoFacts DEF Tls, At
<1>18. CASE Certbot
  BY <1>18, GotoFacts, AdvanceFacts DEF Certbot, Disk, Certs
<1>19. CASE WriteTlsServer
  BY <1>19, GotoFacts DEF WriteTlsServer, Edge
<1>20. CASE CheckTlsServer
  <2>1. nginx' \in Nginx
    BY <1>20, LoadFacts DEF CheckTlsServer
  <2>2. /\ run'.undo \in Versions \cup {None} /\ run'.hints \subseteq Hints
        /\ outcome' = outcome
    BY <1>20, AdvanceFacts DEF CheckTlsServer
  <2> QED
    BY <1>20, <2>1, <2>2 DEF CheckTlsServer
<1>21. CASE Verify
  BY <1>21, AdvanceFacts, DieFacts DEF Verify, At
<1>22. CASE Finish
  BY <1>22 DEF Finish
<1>23. CASE EngineUp
  BY <1>23 DEF EngineUp, Active, Engine
<1>24. CASE EngineExits
  BY <1>24 DEF EngineExits, Active, Engine
<1>25. CASE EngineRestarts
  BY <1>25 DEF EngineRestarts, CanStart, Started, Engine, Disk
<1>26. CASE EngineGivesUp
  BY <1>26 DEF EngineGivesUp, Active, Engine
<1>27. CASE Renew
  BY <1>27, PlansAssumption DEF Renew, AfterHook, Disk, Nginx, Certs
<1>28. CASE Pull
  BY <1>28, PlansAssumption DEF Pull, Versions
<1>29. CASE Rotate
  BY <1>29, PlansAssumption DEF Rotate, Fault, Disk, Keys
<1>30. CASE RestartEngine
  BY <1>30 DEF RestartEngine, CanStart, Started, Engine, Disk
<1>31. CASE IssueCert
  BY <1>31 DEF IssueCert
<1>32. CASE PointDns
  BY <1>32, PlansAssumption DEF PointDns
<1>33. CASE StageFails
  BY <1>33, PlansAssumption, DieFacts DEF StageFails, Fault
<1>34. CASE Kill
  BY <1>34, PlansAssumption DEF Kill, Fault, Torn
<1>35. CASE Reboot
  <2>1. nginx' \in Nginx
    BY <1>35, LoadFacts DEF Reboot, Nginx
  <2>2. engine' \in Engine
    BY <1>35 DEF Reboot, Started, Engine, Disk
  <2>3. run'.undo \in Versions \cup {None} /\ run'.hints \subseteq Hints
    BY <1>35 DEF Reboot, Idle
  <2>4. mishaps' \subseteq Mishaps
    BY <1>35 DEF Reboot, Torn
  <2>5. faults' \in 0..MaxFaults
    BY <1>35, PlansAssumption DEF Reboot, Fault
  <2>6. engine'.st \in Active => engine'.key # None /\ engine'.config # None
    BY <1>35 DEF Reboot, CanStart, Started, Active, Engine
  <2> QED
    BY <1>35, <2>1, <2>2, <2>3, <2>4, <2>5, <2>6 DEF Reboot, Fault, Started
<1>36. CASE EngineCrash
  BY <1>36, PlansAssumption DEF EngineCrash, Fault, Active, Engine
<1>37. CASE \E plan \in Plans : Start(plan)
  BY <1>37, PlansAssumption, PlansAssumption DEF Start
<1>38. CASE WriteKeyFiles
  BY <1>38, WriteFacts DEF WriteKeyFiles
<1>39. CASE EnableNginx
  <2>1. nginx' \in Nginx
    BY <1>39, LoadFacts DEF EnableNginx
  <2>2. /\ run'.undo \in Versions \cup {None} /\ run'.hints \subseteq Hints
        /\ outcome' \in {outcome, "failed"}
    BY <1>39, GotoFacts, DieFacts DEF EnableNginx
  <2> QED
    BY <1>39, <2>1, <2>2 DEF EnableNginx
<1> QED BY <1>1, <1>2, <1>3, <1>4, <1>5, <1>6, <1>7, <1>8, <1>9, <1>10, <1>11,
    <1>12, <1>13, <1>14, <1>15, <1>16, <1>17, <1>18, <1>19, <1>20, <1>21,
    <1>22, <1>23, <1>24, <1>25, <1>26, <1>27, <1>28, <1>29, <1>30, <1>31,
    <1>32, <1>33, <1>34, <1>35, <1>36, <1>37, <1>38, <1>39
  DEF Next, Step, Systemd, Operator, Nature

\* A run inside a stage has that stage still to do.
LEMMA RunStep == ASSUME TypeOK, RunInv, Next PROVE RunInv'
<1> USE DEF world, Idle, Run, Pcs, Hints, Versions, TypeOK, RunInv
<1>1. CASE Prepare
  BY <1>1, AdvanceFacts DEF Prepare, At
<1>2. CASE Weights
  BY <1>2, AdvanceFacts, GotoFacts DEF Weights, At
<1>3. CASE Downloaded
  BY <1>3, AdvanceFacts DEF Downloaded
<1>4. CASE Secrets
  BY <1>4, GotoFacts DEF Secrets, At
<1>5. CASE RestoreFile
  BY <1>5, GotoFacts DEF RestoreFile
<1>6. CASE EnvFile
  BY <1>6 DEF EnvFile, Hinted
<1>7. CASE SeedTable
  BY <1>7, AdvanceFacts DEF SeedTable
<1>8. CASE InstallConfig
  BY <1>8 DEF InstallConfig, At, Hinted
<1>9. CASE InstallFragments
  <2>1. CASE edge.frag = repo /\ Advance(run)
    BY <1>9, <2>1, AdvanceFacts DEF InstallFragments
  <2>2. CASE run' = [run EXCEPT !.pc = "check", !.undo = edge.frag]
    BY <1>9, <2>2 DEF InstallFragments, Edge
  <2> QED BY <1>9, <2>1, <2>2 DEF InstallFragments
<1>10. CASE CheckFragments
  BY <1>10, AdvanceFacts, DieFacts DEF CheckFragments
<1>11. CASE Image
  BY <1>11, AdvanceFacts DEF Image, At
<1>12. CASE Keygen
  BY <1>12, DieFacts, GotoFacts DEF Keygen, At
<1>13. CASE ReloadKeys
  BY <1>13, AdvanceFacts, DieFacts DEF ReloadKeys
<1>14. CASE EnableEngine
  BY <1>14, DieFacts, GotoFacts DEF EnableEngine, At
<1>15. CASE PollReady
  BY <1>15, AdvanceFacts DEF PollReady
<1>16. CASE PollDies
  BY <1>16, DieFacts DEF PollDies
<1>17. CASE Tls
  BY <1>17, AdvanceFacts, DieFacts, GotoFacts DEF Tls, At
<1>18. CASE Certbot
  BY <1>18, GotoFacts, AdvanceFacts DEF Certbot
<1>19. CASE WriteTlsServer
  BY <1>19, GotoFacts DEF WriteTlsServer
<1>20. CASE CheckTlsServer
  BY <1>20, AdvanceFacts DEF CheckTlsServer
<1>21. CASE Verify
  BY <1>21, AdvanceFacts, DieFacts DEF Verify, At
<1>22. CASE Finish
  BY <1>22 DEF Finish
<1>23. CASE EngineUp
  BY <1>23 DEF EngineUp
<1>24. CASE EngineExits
  BY <1>24 DEF EngineExits
<1>25. CASE EngineRestarts
  BY <1>25 DEF EngineRestarts
<1>26. CASE EngineGivesUp
  BY <1>26 DEF EngineGivesUp
<1>27. CASE Renew
  BY <1>27 DEF Renew
<1>28. CASE Pull
  BY <1>28 DEF Pull
<1>29. CASE Rotate
  BY <1>29 DEF Rotate
<1>30. CASE RestartEngine
  BY <1>30, StagesOf DEF RestartEngine
<1>31. CASE IssueCert
  BY <1>31, StagesOf DEF IssueCert
<1>32. CASE PointDns
  BY <1>32, StagesOf DEF PointDns
<1>33. CASE StageFails
  BY <1>33, DieFacts DEF StageFails, Fault
<1>34. CASE Kill
  BY <1>34 DEF Kill, Fault
<1>35. CASE Reboot
  BY <1>35 DEF Reboot, Fault
<1>36. CASE EngineCrash
  BY <1>36 DEF EngineCrash, Fault
<1>37. CASE \E plan \in Plans : Start(plan)
  <2>1. PICK plan \in Plans : Start(plan) BY <1>37
  <2>2. plan \in Seq(Stages) /\ plan # <<>> BY PlansAssumption
  <2> QED BY <2>1, <2>2 DEF Start
<1>38. CASE WriteKeyFiles
  BY <1>38, WriteFacts
<1>39. CASE EnableNginx
  BY <1>39, DieFacts, GotoFacts DEF EnableNginx
<1> QED BY <1>1, <1>2, <1>3, <1>4, <1>5, <1>6, <1>7, <1>8, <1>9, <1>10, <1>11,
    <1>12, <1>13, <1>14, <1>15, <1>16, <1>17, <1>18, <1>19, <1>20, <1>21,
    <1>22, <1>23, <1>24, <1>25, <1>26, <1>27, <1>28, <1>29, <1>30, <1>31,
    <1>32, <1>33, <1>34, <1>35, <1>36, <1>37, <1>38, <1>39
  DEF Next, Step, Systemd, Operator, Nature

\* Files a unit depends on are replaced, never removed.
LEMMA UnitStep == ASSUME TypeOK, RunInv, UnitInv, Next PROVE UnitInv'
<1> USE DEF world, Idle, Run, Pcs, Hints, Versions, Keys, Certs, Edge, Disk,
    Nginx, Engine, TypeOK, RunInv, UnitInv
<1>1. CASE Prepare
  BY <1>1, AdvanceFacts DEF Prepare, At
<1>2. CASE Weights
  BY <1>2, AdvanceFacts, GotoFacts DEF Weights, At
<1>3. CASE Downloaded
  BY <1>3, NoneAssumption, AdvanceFacts DEF Downloaded
<1>4. CASE Secrets
  BY <1>4, NoneAssumption, GotoFacts DEF Secrets
<1>5. CASE RestoreFile
  BY <1>5, NoneAssumption, GotoFacts DEF RestoreFile
<1>6. CASE EnvFile
  BY <1>6, NoneAssumption DEF EnvFile
<1>7. CASE SeedTable
  BY <1>7, NoneAssumption DEF SeedTable
<1>8. CASE InstallConfig
  BY <1>8, NoneAssumption DEF InstallConfig
<1>9. CASE InstallFragments
  <2>1. run'.pc \in {"stage", "check"}
    BY <1>9, AdvanceFacts DEF InstallFragments
  <2> QED BY <2>1
<1>10. CASE CheckFragments
  BY <1>10, AdvanceFacts, DieFacts DEF CheckFragments
<1>11. CASE Image
  BY <1>11, AdvanceFacts DEF Image, At
<1>12. CASE Keygen
  <2>1. CASE disk.api = None
    BY <1>12, <2>1, DieFacts DEF Keygen
  <2>2. CASE disk.api # None
    <3>1. /\ disk' = [disk EXCEPT
                         !.tsv = IF disk.tsv = None THEN "empty" ELSE disk.tsv]
          /\ run'.pc = "emit"
      BY <1>12, <2>2, GotoFacts DEF Keygen
    <3>2. disk'.tsv # None /\ disk'.api = disk.api
      BY <3>1, NoneAssumption
    <3> QED BY <2>2, <3>1, <3>2
  <2> QED BY <2>1, <2>2
<1>13. CASE ReloadKeys
  BY <1>13, AdvanceFacts, DieFacts DEF ReloadKeys
<1>14. CASE EnableEngine
  BY <1>14, DieFacts, GotoFacts DEF EnableEngine
<1>15. CASE PollReady
  BY <1>15, AdvanceFacts DEF PollReady
<1>16. CASE PollDies
  BY <1>16, DieFacts DEF PollDies
<1>17. CASE Tls
  BY <1>17, AdvanceFacts, DieFacts, GotoFacts DEF Tls, At
<1>18. CASE Certbot
  BY <1>18, GotoFacts, AdvanceFacts DEF Certbot
<1>19. CASE WriteTlsServer
  BY <1>19, GotoFacts DEF WriteTlsServer
<1>20. CASE CheckTlsServer
  BY <1>20, AdvanceFacts DEF CheckTlsServer
<1>21. CASE Verify
  BY <1>21, AdvanceFacts, DieFacts DEF Verify, At
<1>22. CASE Finish
  BY <1>22 DEF Finish
<1>23. CASE EngineUp
  BY <1>23 DEF EngineUp
<1>24. CASE EngineExits
  BY <1>24 DEF EngineExits
<1>25. CASE EngineRestarts
  BY <1>25 DEF EngineRestarts
<1>26. CASE EngineGivesUp
  BY <1>26 DEF EngineGivesUp
<1>27. CASE Renew
  BY <1>27 DEF Renew
<1>28. CASE Pull
  BY <1>28 DEF Pull
<1>29. CASE Rotate
  BY <1>29 DEF Rotate
<1>30. CASE RestartEngine
  BY <1>30 DEF RestartEngine
<1>31. CASE IssueCert
  BY <1>31 DEF IssueCert
<1>32. CASE PointDns
  BY <1>32 DEF PointDns
<1>33. CASE StageFails
  BY <1>33, DieFacts DEF StageFails, Fault
<1>34. CASE Kill
  BY <1>34 DEF Kill, Fault, Torn
<1>35. CASE Reboot
  BY <1>35 DEF Reboot, Fault, Torn
<1>36. CASE EngineCrash
  BY <1>36 DEF EngineCrash, Fault, Active
<1>37. CASE \E plan \in Plans : Start(plan)
  BY <1>37 DEF Start
<1>38. CASE WriteKeyFiles
  BY <1>38, WriteFacts
<1>39. CASE EnableNginx
  BY <1>39, DieFacts, GotoFacts DEF EnableNginx
<1> QED BY <1>1, <1>2, <1>3, <1>4, <1>5, <1>6, <1>7, <1>8, <1>9, <1>10, <1>11,
    <1>12, <1>13, <1>14, <1>15, <1>16, <1>17, <1>18, <1>19, <1>20, <1>21,
    <1>22, <1>23, <1>24, <1>25, <1>26, <1>27, <1>28, <1>29, <1>30, <1>31,
    <1>32, <1>33, <1>34, <1>35, <1>36, <1>37, <1>38, <1>39
  DEF Next, Step, Systemd, Operator, Nature

\* Only an issued certificate brings the TLS server, only the TLS server
\* answers for a certificate, and no file it needs is ever removed.
LEMMA EdgeStep ==
    ASSUME TypeOK, RunInv, UnitInv, EdgeInv, Next
    PROVE EdgeInv'
<1> USE DEF world, Idle, Run, Pcs, Hints, Versions, Keys, Certs, Edge, Disk,
    Nginx, Engine, TypeOK, RunInv, UnitInv, EdgeInv
<1>1. CASE Prepare
  BY <1>1, AdvanceFacts DEF Prepare, At
<1>2. CASE Weights
  BY <1>2, AdvanceFacts, GotoFacts DEF Weights, At
<1>3. CASE Downloaded
  BY <1>3, AdvanceFacts DEF Downloaded
<1>4. CASE Secrets
  BY <1>4, GotoFacts DEF Secrets
<1>5. CASE RestoreFile
  BY <1>5, GotoFacts DEF RestoreFile
<1>6. CASE EnvFile
  BY <1>6 DEF EnvFile
<1>7. CASE SeedTable
  BY <1>7, AdvanceFacts DEF SeedTable
<1>8. CASE InstallConfig
  BY <1>8 DEF InstallConfig
<1>9. CASE InstallFragments
  <2>1. CASE edge.frag = repo /\ Advance(run) /\ UNCHANGED edge
    BY <1>9, <2>1, AdvanceFacts DEF InstallFragments
  <2>2. CASE /\ edge' = [edge EXCEPT !.frag = repo]
             /\ run' = [run EXCEPT !.pc = "check", !.undo = edge.frag]
    <3>1. /\ edge'.frag = repo /\ edge'.map = edge.map
          /\ edge'.limits = edge.limits /\ edge'.tls = edge.tls
      BY <2>2
    <3>2. run'.pc = "check" /\ run'.undo = edge.frag
      BY <2>2
    <3>3. run.pc = "fragments" /\ UNCHANGED <<disk, nginx>>
      BY <1>9 DEF InstallFragments
    <3> QED BY <3>1, <3>2, <3>3, NoneAssumption
  <2> QED BY <1>9, <2>1, <2>2 DEF InstallFragments
<1>10. CASE CheckFragments
  <2>1. CASE Advance(run) /\ UNCHANGED edge
    <3>1. run'.pc = "stage"
      BY <1>10, <2>1, AdvanceFacts DEF CheckFragments
    <3>2. nginx'.conf \in {edge, nginx.conf}
      BY <1>10, <2>1, LoadFacts DEF CheckFragments
    <3> QED BY <1>10, <2>1, <3>1, <3>2 DEF CheckFragments
  <2>2. CASE Die /\ edge' = RolledBack
    <3>1. run'.pc = "idle"
      BY <2>2, DieFacts
    <3>2. /\ edge'.frag = run.undo /\ edge'.map = edge.map
          /\ edge'.limits = edge.limits /\ edge'.tls = edge.tls
      BY <2>2 DEF RolledBack
    <3>3. run.pc = "check" /\ UNCHANGED <<disk, nginx>>
      BY <1>10, <2>2, <3>1, AdvanceFacts DEF CheckFragments
    <3> QED BY <3>1, <3>2, <3>3
  <2> QED BY <1>10, <2>1, <2>2 DEF CheckFragments
<1>11. CASE Image
  BY <1>11, AdvanceFacts DEF Image, At
<1>12. CASE Keygen
  <2>1. disk'.cert = disk.cert /\ UNCHANGED <<edge, nginx>>
    BY <1>12 DEF Keygen
  <2>2. run'.pc \in {"emit", "idle"}
    BY <1>12, GotoFacts, DieFacts DEF Keygen
  <2> QED BY <2>1, <2>2
<1>13. CASE ReloadKeys
  <2>1. nginx'.conf \in {edge, nginx.conf} /\ UNCHANGED <<disk, edge>>
    BY <1>13, LoadFacts DEF ReloadKeys
  <2>2. run'.pc \notin {"write_tls", "check_tls", "check"}
    BY <1>13, AdvanceFacts, DieFacts DEF ReloadKeys
  <2> QED BY <2>1, <2>2
<1>14. CASE EnableEngine
  BY <1>14, GotoFacts, DieFacts DEF EnableEngine
<1>15. CASE PollReady
  BY <1>15, AdvanceFacts DEF PollReady
<1>16. CASE PollDies
  BY <1>16, DieFacts DEF PollDies
<1>17. CASE Tls
  BY <1>17, AdvanceFacts, DieFacts, GotoFacts DEF Tls, At
<1>18. CASE Certbot
  BY <1>18, GotoFacts, AdvanceFacts DEF Certbot, ServesChallenge
<1>19. CASE WriteTlsServer
  BY <1>19, GotoFacts DEF WriteTlsServer
<1>20. CASE CheckTlsServer
  BY <1>20, AdvanceFacts DEF CheckTlsServer
<1>21. CASE Verify
  BY <1>21, AdvanceFacts, DieFacts DEF Verify, At
<1>22. CASE Finish
  BY <1>22 DEF Finish
<1>23. CASE EngineUp
  BY <1>23 DEF EngineUp
<1>24. CASE EngineExits
  BY <1>24 DEF EngineExits
<1>25. CASE EngineRestarts
  BY <1>25 DEF EngineRestarts
<1>26. CASE EngineGivesUp
  BY <1>26 DEF EngineGivesUp
<1>27. CASE Renew
  BY <1>27 DEF Renew
<1>28. CASE Pull
  BY <1>28 DEF Pull
<1>29. CASE Rotate
  BY <1>29 DEF Rotate
<1>30. CASE RestartEngine
  BY <1>30 DEF RestartEngine
<1>31. CASE IssueCert
  BY <1>31 DEF IssueCert
<1>32. CASE PointDns
  BY <1>32 DEF PointDns
<1>33. CASE StageFails
  BY <1>33, DieFacts DEF StageFails, Fault
<1>34. CASE Kill
  BY <1>34 DEF Kill, Fault
<1>35. CASE Reboot
  BY <1>35 DEF Reboot, Fault, Load
<1>36. CASE EngineCrash
  BY <1>36 DEF EngineCrash, Fault
<1>37. CASE \E plan \in Plans : Start(plan)
  BY <1>37 DEF Start
<1>38. CASE WriteKeyFiles
  <2>1. /\ UNCHANGED <<disk, nginx>> /\ edge'.frag = edge.frag /\ edge'.tls = edge.tls
        /\ run.pc \in {"emit", "fill", "limits", "swap"}
        /\ run'.pc \in {"fill", "limits", "swap", "reload"}
        /\ edge'.limits \in {edge.limits, "empty", disk.api}
    BY <1>38, WriteFacts
  <2> QED BY ONLY <2>1, NoneAssumption, EdgeInv, UnitInv DEF EdgeInv, UnitInv
<1>39. CASE EnableNginx
  <2>1. nginx'.conf \in {edge, nginx.conf} /\ UNCHANGED <<disk, edge>>
    BY <1>39, LoadFacts DEF EnableNginx
  <2>2. run'.pc \notin {"write_tls", "check_tls", "check"}
    BY <1>39, GotoFacts, DieFacts DEF EnableNginx
  <2> QED BY <2>1, <2>2
<1> QED BY <1>1, <1>2, <1>3, <1>4, <1>5, <1>6, <1>7, <1>8, <1>9, <1>10, <1>11,
    <1>12, <1>13, <1>14, <1>15, <1>16, <1>17, <1>18, <1>19, <1>20, <1>21,
    <1>22, <1>23, <1>24, <1>25, <1>26, <1>27, <1>28, <1>29, <1>30, <1>31,
    <1>32, <1>33, <1>34, <1>35, <1>36, <1>37, <1>38, <1>39
  DEF Next, Step, Systemd, Operator, Nature

\* Fragments are kept only if nginx -t accepted them; refused ones give way to
\* those that were there before.
LEMMA StartStep ==
    ASSUME TypeOK, RunInv, UnitInv, EdgeInv, StartInv, Next
    PROVE StartInv'
<1> USE DEF world, Idle, Run, Pcs, Hints, Versions, Keys, Certs, Edge, Disk,
    Nginx, Engine, TypeOK, RunInv, EdgeInv, StartInv
<1>1. CASE Prepare
  BY <1>1, AdvanceFacts DEF Prepare, At
<1>2. CASE Weights
  BY <1>2, AdvanceFacts, GotoFacts DEF Weights, At
<1>3. CASE Downloaded
  BY <1>3, AdvanceFacts DEF Downloaded
<1>4. CASE Secrets
  BY <1>4, GotoFacts DEF Secrets, At
<1>5. CASE RestoreFile
  BY <1>5, GotoFacts DEF RestoreFile
<1>6. CASE EnvFile
  BY <1>6 DEF EnvFile
<1>7. CASE SeedTable
  BY <1>7, AdvanceFacts DEF SeedTable
<1>8. CASE InstallConfig
  BY <1>8 DEF InstallConfig, At
<1>9. CASE InstallFragments
  BY <1>9, AdvanceFacts DEF InstallFragments
<1>10. CASE CheckFragments
  BY <1>10, AdvanceFacts, DieFacts DEF CheckFragments, RolledBack, Valid
<1>11. CASE Image
  BY <1>11, AdvanceFacts DEF Image, At
<1>12. CASE Keygen
  BY <1>12, DieFacts, GotoFacts DEF Keygen, At
<1>13. CASE ReloadKeys
  BY <1>13, AdvanceFacts, DieFacts DEF ReloadKeys
<1>14. CASE EnableEngine
  BY <1>14, DieFacts, GotoFacts DEF EnableEngine, At
<1>15. CASE PollReady
  BY <1>15, AdvanceFacts DEF PollReady
<1>16. CASE PollDies
  BY <1>16, DieFacts DEF PollDies
<1>17. CASE Tls
  BY <1>17, AdvanceFacts, DieFacts, GotoFacts DEF Tls, At
<1>18. CASE Certbot
  BY <1>18, GotoFacts, AdvanceFacts DEF Certbot
<1>19. CASE WriteTlsServer
  BY <1>19, GotoFacts DEF WriteTlsServer
<1>20. CASE CheckTlsServer
  BY <1>20, AdvanceFacts DEF CheckTlsServer
<1>21. CASE Verify
  BY <1>21, AdvanceFacts, DieFacts DEF Verify, At
<1>22. CASE Finish
  BY <1>22 DEF Finish
<1>23. CASE EngineUp
  BY <1>23 DEF EngineUp
<1>24. CASE EngineExits
  BY <1>24 DEF EngineExits
<1>25. CASE EngineRestarts
  BY <1>25 DEF EngineRestarts
<1>26. CASE EngineGivesUp
  BY <1>26 DEF EngineGivesUp
<1>27. CASE Renew
  BY <1>27 DEF Renew
<1>28. CASE Pull
  BY <1>28 DEF Pull
<1>29. CASE Rotate
  BY <1>29 DEF Rotate
<1>30. CASE RestartEngine
  BY <1>30 DEF RestartEngine
<1>31. CASE IssueCert
  BY <1>31 DEF IssueCert
<1>32. CASE PointDns
  BY <1>32 DEF PointDns
<1>33. CASE StageFails
  BY <1>33, DieFacts DEF StageFails, Fault, At
<1>34. CASE Kill
  BY <1>34 DEF Kill, Fault, Torn
<1>35. CASE Reboot
  BY <1>35 DEF Reboot, Fault, Torn
<1>36. CASE EngineCrash
  BY <1>36 DEF EngineCrash, Fault
<1>37. CASE \E plan \in Plans : Start(plan)
  BY <1>37 DEF Start
<1>38. CASE WriteKeyFiles
  BY <1>38, WriteFacts
<1>39. CASE EnableNginx
  BY <1>39, DieFacts, GotoFacts DEF EnableNginx
<1> QED BY <1>1, <1>2, <1>3, <1>4, <1>5, <1>6, <1>7, <1>8, <1>9, <1>10, <1>11,
    <1>12, <1>13, <1>14, <1>15, <1>16, <1>17, <1>18, <1>19, <1>20, <1>21,
    <1>22, <1>23, <1>24, <1>25, <1>26, <1>27, <1>28, <1>29, <1>30, <1>31,
    <1>32, <1>33, <1>34, <1>35, <1>36, <1>37, <1>38, <1>39
  DEF Next, Step, Systemd, Operator, Nature

\* The map is emptied only on the way to being filled.
LEMMA MapStep ==
    ASSUME TypeOK, RunInv, UnitInv, EdgeInv, MapInv, Next
    PROVE  MapInv'
<1> USE DEF world, TypeOK, RunInv
<1>1. ASSUME edge'.map = edge.map, edge'.tls => edge.tls,
             "map" \in mishaps => "map" \in mishaps',
             run.pc = "fill" => run'.pc = "fill" \/ "map" \in mishaps'
      PROVE  MapInv'
  BY <1>1 DEF MapInv
<1>2. CASE WriteKeyFiles
  <2>1. run.pc \in {"emit", "fill"} => disk.tsv # None
    BY DEF UnitInv
  <2>2. disk.tsv # "torn"
    BY NoneAssumption DEF Disk
  <2>3. run'.pc = "fill" \/ run.pc = "fill" \/ run.pc \notin {"emit", "fill"}
    BY <1>2, WriteFacts
  <2> QED BY <1>2, <2>1, <2>2, <2>3, WriteFacts DEF MapInv
<1>3. CASE Kill \/ Reboot
  <2>1. UNCHANGED edge /\ mishaps' = mishaps \cup Torn
    BY <1>3 DEF Kill, Reboot
  <2>2. run.pc = "fill" => "map" \in Torn
    BY DEF Torn
  <2> QED BY <1>1, <2>1, <2>2
<1>4. CASE InstallFragments \/ CheckFragments
  <2>1. /\ edge'.map = edge.map /\ edge'.tls = edge.tls /\ UNCHANGED mishaps
        /\ run.pc # "fill"
    BY <1>4 DEF InstallFragments, CheckFragments, RolledBack, Edge
  <2> QED BY <1>1, <2>1
<1>5. CASE WriteTlsServer
  <2>1. /\ edge'.map = edge.map /\ UNCHANGED mishaps
        /\ run.pc # "fill" /\ edge.tls
    BY <1>5 DEF WriteTlsServer, EdgeInv, Edge
  <2> QED BY <1>1, <2>1
<1>6. CASE Prepare \/ Weights \/ Secrets \/ InstallConfig \/ Image \/ Keygen
           \/ EnableEngine \/ Tls \/ Verify
  <2>1. run.pc # "fill" /\ UNCHANGED <<edge, mishaps>>
    BY <1>6 DEF Prepare, Weights, Secrets, InstallConfig, Image, Keygen, EnableEngine,
                Tls, Verify, At
  <2> QED BY <1>1, <2>1
<1>7. CASE Downloaded \/ RestoreFile \/ EnvFile \/ SeedTable \/ ReloadKeys
           \/ EnableNginx \/ PollReady \/ PollDies \/ Certbot \/ CheckTlsServer
           \/ Finish
  <2>1. run.pc # "fill" /\ UNCHANGED <<edge, mishaps>>
    BY <1>7 DEF Downloaded, RestoreFile, EnvFile, SeedTable, ReloadKeys, EnableNginx,
                PollReady, PollDies, Certbot, CheckTlsServer, Finish
  <2> QED BY <1>1, <2>1
<1>8. CASE EngineUp \/ EngineExits \/ EngineRestarts \/ EngineGivesUp \/ Renew
           \/ PointDns \/ EngineCrash
  <2>1. UNCHANGED <<edge, run>> /\ mishaps \subseteq mishaps'
    BY <1>8 DEF EngineUp, EngineExits, EngineRestarts, EngineGivesUp, Renew, PointDns,
                EngineCrash
  <2> QED BY <1>1, <2>1
<1>9. CASE Pull \/ Rotate \/ RestartEngine \/ IssueCert \/ \E plan \in Plans : Start(plan)
  <2>1. run = Idle /\ UNCHANGED <<edge, mishaps>>
    BY <1>9 DEF Pull, Rotate, RestartEngine, IssueCert, Start
  <2>2. run.pc # "fill"
    BY <2>1 DEF Idle
  <2> QED BY <1>1, <2>1, <2>2
<1>10. CASE StageFails
  <2>1. run.pc # "fill" /\ UNCHANGED <<edge, mishaps>>
    BY <1>10 DEF StageFails, At
  <2> QED BY <1>1, <2>1
<1> QED BY <1>2, <1>3, <1>4, <1>5, <1>6, <1>7, <1>8, <1>9, <1>10
        DEF Next, Step, Systemd, Operator, Nature

\* Where there is no key the bundle's is restored, table and credential with it.
LEMMA IdStep == ASSUME TypeOK, RunInv, UnitInv, IdInv, Next PROVE IdInv'
<1> USE DEF world, Idle, Run, Pcs, Hints, Versions, Keys, Certs, Edge, Disk,
    Nginx, Engine, TypeOK, RunInv, UnitInv, IdInv
<1>1. CASE Prepare
  BY <1>1 DEF Prepare, At
<1>2. CASE Weights
  BY <1>2 DEF Weights, At
<1>3. CASE Downloaded
  BY <1>3 DEF Downloaded
<1>4. CASE Secrets
  BY <1>4, GotoFacts DEF Secrets, At, ShouldRestore
<1>5. CASE RestoreFile
  BY <1>5, GotoFacts DEF RestoreFile
<1>6. CASE EnvFile
  BY <1>6 DEF EnvFile
<1>7. CASE SeedTable
  <2>1. /\ disk'.api = disk.api /\ disk'.env = disk.env
        /\ disk'.tsv = IF disk.tsv = None THEN "empty" ELSE disk.tsv
    BY <1>7 DEF SeedTable
  <2>2. run.pc = "seed" /\ run'.pc = "stage" /\ UNCHANGED mishaps
    BY <1>7, AdvanceFacts DEF SeedTable
  <2> QED BY <2>1, <2>2, NoneAssumption
<1>8. CASE InstallConfig
  BY <1>8, NoneAssumption DEF InstallConfig, At
<1>9. CASE InstallFragments
  BY <1>9 DEF InstallFragments
<1>10. CASE CheckFragments
  BY <1>10 DEF CheckFragments
<1>11. CASE Image
  BY <1>11, NoneAssumption DEF Image, At
<1>12. CASE Keygen
  BY <1>12, NoneAssumption DEF Keygen, At
<1>13. CASE ReloadKeys
  BY <1>13, NoneAssumption DEF ReloadKeys
<1>14. CASE EnableEngine
  BY <1>14 DEF EnableEngine, At
<1>15. CASE PollReady
  BY <1>15 DEF PollReady
<1>16. CASE PollDies
  BY <1>16 DEF PollDies
<1>17. CASE Tls
  BY <1>17 DEF Tls, At
<1>18. CASE Certbot
  BY <1>18 DEF Certbot
<1>19. CASE WriteTlsServer
  BY <1>19 DEF WriteTlsServer
<1>20. CASE CheckTlsServer
  BY <1>20 DEF CheckTlsServer
<1>21. CASE Verify
  BY <1>21 DEF Verify, At
<1>22. CASE Finish
  BY <1>22 DEF Finish
<1>23. CASE EngineUp
  BY <1>23 DEF EngineUp
<1>24. CASE EngineExits
  BY <1>24 DEF EngineExits
<1>25. CASE EngineRestarts
  BY <1>25 DEF EngineRestarts
<1>26. CASE EngineGivesUp
  BY <1>26 DEF EngineGivesUp
<1>27. CASE Renew
  BY <1>27 DEF Renew
<1>28. CASE Pull
  BY <1>28 DEF Pull
<1>29. CASE Rotate
  BY <1>29 DEF Rotate
<1>30. CASE RestartEngine
  BY <1>30 DEF RestartEngine
<1>31. CASE IssueCert
  BY <1>31 DEF IssueCert
<1>32. CASE PointDns
  BY <1>32 DEF PointDns
<1>33. CASE StageFails
  BY <1>33 DEF StageFails, Fault, At
<1>34. CASE Kill
  BY <1>34 DEF Kill, Fault, Torn
<1>35. CASE Reboot
  BY <1>35 DEF Reboot, Fault, Torn
<1>36. CASE EngineCrash
  BY <1>36 DEF EngineCrash, Fault
<1>37. CASE \E plan \in Plans : Start(plan)
  BY <1>37 DEF Start
<1>38. CASE WriteKeyFiles
  BY <1>38, WriteFacts
<1>39. CASE EnableNginx
  BY <1>39 DEF EnableNginx
<1> QED BY <1>1, <1>2, <1>3, <1>4, <1>5, <1>6, <1>7, <1>8, <1>9, <1>10, <1>11,
    <1>12, <1>13, <1>14, <1>15, <1>16, <1>17, <1>18, <1>19, <1>20, <1>21,
    <1>22, <1>23, <1>24, <1>25, <1>26, <1>27, <1>28, <1>29, <1>30, <1>31,
    <1>32, <1>33, <1>34, <1>35, <1>36, <1>37, <1>38, <1>39
  DEF Next, Step, Systemd, Operator, Nature

\* A bare box and a box from the snapshot satisfy the invariant.
LEMMA Initially == ASSUME Init PROVE IInv
<1>1. run = Idle /\ run \in Run /\ run.pc = "idle"
  BY DEF Init, Idle, Run, Pcs, Hints
<1>2. /\ repo \in Versions /\ dns \in BOOLEAN /\ faults \in 0..MaxFaults
      /\ run.undo \in Versions \cup {None} /\ run.hints \subseteq Hints
      /\ outcome = "none" /\ told = {} /\ mishaps = {}
  BY <1>1, PlansAssumption DEF Init, Run, Versions
<1>3. CASE \E up \in NginxRunning : Bare(up)
  <2>1. PICK up \in NginxRunning : Bare(up) BY <1>3
  <2>2. up \in BOOLEAN BY PlansAssumption
  <2>3. disk \in Disk /\ edge \in Edge /\ engine \in Engine
    BY <2>1 DEF Bare, Disk, Edge, Engine, Certs
  <2>4. nginx \in Nginx /\ nginx.conf = edge
    BY <2>1, <2>2, <2>3 DEF Bare, Nginx, Certs
  <2>5. TypeOK
    BY <1>2, <2>1, <2>3, <2>4 DEF TypeOK, Bare, Mishaps, Active
  <2>6. UnitInv /\ EdgeInv /\ MapInv
    BY <1>1, <1>2, <2>1, <2>4, NoneAssumption DEF Bare, UnitInv, EdgeInv, MapInv
  <2>7. StartInv
    <3>1. \A v \in Refused : v \in Versions
      BY PlansAssumption DEF Versions
    <3> QED BY <1>1, <2>1, <3>1, NoneAssumption DEF Bare, StartInv
  <2>8. IdInv
    BY <2>1, NoneAssumption DEF Bare, IdInv, Keys
  <2> QED BY <1>1, <2>5, <2>6, <2>7, <2>8 DEF IInv, RunInv
<1>4. CASE \E cert \in {"expired", "valid"} : Snapshot(cert)
  <2>1. PICK cert \in {"expired", "valid"} : Snapshot(cert) BY <1>4
  <2>2. 0 \in Versions BY PlansAssumption DEF Versions
  <2>3. disk \in Disk /\ edge \in Edge /\ engine \in Engine
    BY <2>1, <2>2 DEF Snapshot, Disk, Edge, Engine, Certs, Keys
  <2>4. nginx \in Nginx /\ nginx.conf = edge
    BY <2>1, <2>3 DEF Snapshot, Nginx, Certs
  <2>5. TypeOK
    BY <1>2, <2>1, <2>2, <2>3, <2>4, NoneAssumption DEF TypeOK, Snapshot, Keys
  <2>6. UnitInv /\ EdgeInv /\ MapInv
    BY <1>1, <1>2, <2>1, <2>2, <2>4, NoneAssumption
    DEF Snapshot, UnitInv, EdgeInv, MapInv, Keys
  <2>7. StartInv
    BY <1>1, <2>1, PlansAssumption DEF Snapshot, StartInv
  <2>8. IdInv
    BY <2>1 DEF Snapshot, IdInv
  <2> QED BY <1>1, <2>5, <2>6, <2>7, <2>8 DEF IInv, RunInv
<1> QED BY <1>3, <1>4 DEF Init

\* Every step preserves it.
LEMMA Inductive == IInv /\ [Next]_vars => IInv'
<1> SUFFICES ASSUME IInv, [Next]_vars PROVE IInv'
  OBVIOUS
<1>1. CASE Next
  BY <1>1, TypeStep, RunStep, UnitStep, EdgeStep, MapStep, StartStep, IdStep DEF IInv
<1>2. CASE UNCHANGED vars
  BY <1>2 DEF vars, IInv, TypeOK, RunInv, UnitInv, EdgeInv, MapInv, StartInv, IdInv
<1> QED BY <1>1, <1>2

\* The inductive invariant holds throughout, whatever is run, killed or broken.
THEOREM InvariantHolds == Spec => []IInv
<1>1. Init => IInv BY Initially
<1>2. IInv /\ [Next]_vars => IInv' BY Inductive
<1> QED BY <1>1, <1>2, PTL DEF Spec

\* Every variable keeps its type, and the engine's unit is never started without
\* its credential and its configuration (deploy.sh, services).
THEOREM TypeCorrect == Spec => []TypeOK
<1>1. IInv => TypeOK BY DEF IInv
<1> QED BY <1>1, InvariantHolds, PTL

\* Whatever stages are run, fail or are killed, in whatever order, nginx could
\* be restarted: only an install killed before it put the old fragments back, or
\* a run killed while gen-keys.sh wrote the map and until one gets past that,
\* leaves a configuration that nginx refuses (deploy.sh:639-656,
\* gen-keys.sh:67-94).
THEOREM AlwaysStartableCorrect == Spec => []AlwaysStartable
<1>1. IInv => AlwaysStartable
  BY DEF IInv, EdgeInv, MapInv, StartInv, AlwaysStartable, Valid
<1> QED BY <1>1, InvariantHolds, PTL

\* With the bundle at hand no run mints a key or seeds an empty table, unless a
\* restore was cut in two (deploy.sh, secrets).
THEOREM IdentityKeptCorrect == Spec => []IdentityKept
<1>1. IInv => IdentityKept
  BY DEF IInv, IdInv, IdentityKept
<1> QED BY <1>1, InvariantHolds, PTL

-----------------------------------------------------------------------------
(***************************************************************************)
(* What a run of deploy.sh leaves behind: a green outcome, a box that      *)
(* keeps serving, and a bare box that never comes to serve.                *)
(***************************************************************************)

\* What nginx has loaded is not ahead of what is on disk, and what is on disk
\* would serve whoever nginx serves now, but for a file that is being written or
\* was cut off.
ServeInv ==
    /\ nginx.cert = "valid" => disk.cert = "valid"
    /\ nginx.conf.map = "customers" =>
          edge.map # "empty" /\ disk.tsv = "customers"
    /\ edge.map = "customers" => disk.tsv = "customers"
    /\ nginx.conf.limits = disk.api => edge.limits \in {disk.api, "empty"}
    /\ edge.limits = "empty" => run.pc = "swap" \/ "limits" \in mishaps
    /\ disk.api = None => edge.limits = None /\ nginx.conf.limits = None
    /\ disk.api # "rotated" => "rotated" \notin {edge.limits, nginx.conf.limits}
    /\ run.pc = "restore" => disk.api = None

\* How many stages a whole sequence still has to end when it is inside one.
Left == Len(run.todo)
LeftAt == [download |-> 8, restore |-> 7, restore_table |-> 7,
           restore_env |-> 7, env |-> 7, seed |-> 7, fragments |-> 6,
           check |-> 6, emit |-> 4, fill |-> 4, limits |-> 4, swap |-> 4,
           reload |-> 4, units |-> 3, poll |-> 3, certbot |-> 2,
           write_tls |-> 2, check_tls |-> 2]

\* A whole sequence has the last of the stages still to do, in their order.
OrderInv ==
    run.full =>
        /\ Left <= 10
        /\ \A i \in 1..Left : run.todo[i] = STAGES_ALL[10 - Left + i]
        /\ run.pc \in DOMAIN LeftAt => Left = LeftAt[run.pc]

\* What each stage of a whole sequence has established once it has ended.
DoneInv ==
    run.full =>
        /\ Left <= 6 \/ run.pc = "seed" => disk.env = disk.api
        /\ Left <= 3 \/ run.pc = "reload" => edge.limits = disk.api
        /\ Left <= 3 => nginx.up /\ nginx.conf = edge
        /\ Left <= 2 \/ run.pc = "poll" => "nginx" \in enabled
        /\ Left <= 2 => engine.key = disk.api
        /\ Left <= 1 /\ ~run.deferred => edge.tls /\ Valid(edge)

\* An outcome stands while no run is in progress; a green one with everything
\* the stages have established.
GreenInv ==
    /\ run.pc # "idle" => outcome = "none"
    /\ outcome = "green" =>
          /\ disk.env = disk.api /\ edge.limits = disk.api
          /\ engine.key = disk.api
          /\ nginx.up /\ nginx.conf = edge /\ "nginx" \in enabled
          /\ edge.tls /\ Valid(edge)

\* What a run promises of its outcome, as an inductive invariant next to IInv.
OutInv == OrderInv /\ DoneInv /\ GreenInv

\* A box that has never had a certificate nor a TLS server.
BareInv == /\ disk.cert = "none" /\ ~edge.tls /\ ~nginx.conf.tls
           /\ run.pc \notin {"write_tls", "check_tls"}

-----------------------------------------------------------------------------
(* Where a whole sequence is.                                              *)

\* A whole sequence that starts a stage has that one and the later ones left.
LEMMA InStage ==
    ASSUME RunInv, OrderInv, run.full, NEW s, At(s)
    PROVE  /\ Left \in 1..10
           /\ s = "preflight" => Left = 10
           /\ s = "host" => Left = 9
           /\ s = "weights" => Left = 8
           /\ s = "secrets" => Left = 7
           /\ s = "install" => Left = 6
           /\ s = "image" => Left = 5
           /\ s = "keys" => Left = 4
           /\ s = "services" => Left = 3
           /\ s = "tls" => Left = 2
           /\ s = "verify" => Left = 1
<1>1. run.todo \in Seq(Stages) /\ run.todo # <<>> /\ Head(run.todo) = s
  BY DEF At, RunInv, Run
<1>2. Left \in Nat \ {0}
  BY <1>1, EmptySeq DEF Left
<1>3. Left \in 1..10
  BY <1>2 DEF OrderInv
<1>4. run.todo[1] = STAGES_ALL[10 - Left + 1]
  BY <1>3 DEF OrderInv
<1>5. s = STAGES_ALL[11 - Left]
  <2>1. 10 - Left + 1 = 11 - Left
    BY <1>3
  <2>2. s = run.todo[1]
    BY <1>1
  <2> QED BY <1>4, <2>1, <2>2
<1> QED BY <1>3, <1>5 DEF STAGES_ALL

\* One that ends a stage has one less.
LEMMA AdvanceOrder ==
    ASSUME RunInv, OrderInv, run.todo # <<>>, NEW r \in {run, Deferred},
           Advance(r)
    PROVE  OrderInv' /\ Left \in Nat /\ Left' = Left - 1
<1>1. /\ run'.full = run.full /\ run'.pc = "stage" /\ run'.todo = Tail(run.todo)
      /\ run.todo \in Seq(Stages)
  BY AdvanceFacts DEF RunInv, Run
<1>2. Left \in Nat \ {0}
  BY <1>1, EmptySeq DEF Left
<1>3. Left' = Left - 1
  BY <1>1, HeadTailProperties DEF Left
<1>4. run'.pc \notin DOMAIN LeftAt
  BY <1>1 DEF LeftAt
<1>5. ASSUME run.full, NEW i \in 1..Left'
      PROVE  run'.todo[i] = STAGES_ALL[10 - Left' + i]
  <2>1. run'.todo[i] = run.todo[i + 1]
    BY <1>1, <1>5, HeadTailProperties DEF Left
  <2>2. i + 1 \in 1..Left
    BY <1>2, <1>3
  <2>3. run.todo[i + 1] = STAGES_ALL[10 - Left + (i + 1)]
    BY <2>2, <1>5 DEF OrderInv
  <2>4. 10 - Left + (i + 1) = 10 - Left' + i
    BY <1>2, <1>3
  <2> QED BY <2>1, <2>3, <2>4
<1>6. run.full => Left' <= 10
  BY <1>2, <1>3 DEF OrderInv
<1> QED BY <1>1, <1>2, <1>3, <1>4, <1>5, <1>6 DEF OrderInv

\* One that goes on inside a stage has the same ones left.
LEMMA SameStage ==
    ASSUME OrderInv, run'.full = run.full, run'.todo = run.todo,
           run'.pc = run.pc \/ (run.full => Left = LeftAt[run'.pc])
    PROVE  OrderInv' /\ Left' = Left
<1>1. Left' = Left
  BY DEF Left
<1> QED BY <1>1 DEF OrderInv, LeftAt

\* A run that is not the whole sequence, or has ended badly.
LEMMA NotWhole ==
    ASSUME ~run'.full, run'.pc = "idle" \/ outcome' = "none",
           outcome' # "green"
    PROVE  OutInv'
BY DEF OutInv, OrderInv, DoneInv, GreenInv

\* While a run is in progress there is no outcome.
LEMMA NoOutcome ==
    ASSUME GreenInv, run.pc # "idle", outcome' = outcome
    PROVE  GreenInv'
BY DEF GreenInv

\* Each stage of a whole sequence establishes its part and keeps the others.
LEMMA OutcomeStep == ASSUME IInv, OutInv, Next PROVE OutInv'
<1> USE DEF IInv, OutInv, world
<1>0. RunInv /\ TypeOK /\ run.todo \in Seq(Stages) /\ Left \in Nat
  BY EmptySeq, LenProperties DEF RunInv, Run, Left
<1>1. CASE Prepare
  <2>1. run.full => Left \in {9, 10}
    BY <1>1, InStage DEF Prepare
  <2>2. /\ OrderInv' /\ Left' = Left - 1 /\ run'.pc = "stage"
        /\ run'.full = run.full
    BY <1>1, <1>0, AdvanceOrder, AdvanceFacts DEF Prepare, At
  <2>3. DoneInv'
    BY <1>0, <2>1, <2>2 DEF DoneInv
  <2> QED BY <1>1, <2>2, <2>3, NoOutcome DEF Prepare, At, Advance
<1>2. CASE Weights
  <2>1. run.full => Left = 8
    BY <1>2, InStage DEF Weights
  <2>2. /\ OrderInv' /\ Left' \in {Left, Left - 1} /\ run'.full = run.full
        /\ run'.pc \in {"stage", "download"}
    BY <1>2, <1>0, <2>1, AdvanceOrder, AdvanceFacts, GotoFacts, SameStage
    DEF Weights, At, Pcs, LeftAt
  <2>3. DoneInv'
    BY <1>0, <2>1, <2>2 DEF DoneInv
  <2> QED BY <1>2, <2>2, <2>3, NoOutcome DEF Weights, At, Advance, Goto
<1>3. CASE Downloaded
  <2>1. run.full => Left = 8
    BY <1>3 DEF Downloaded, OrderInv, LeftAt
  <2>2. /\ OrderInv' /\ Left' = Left - 1 /\ run'.pc = "stage"
        /\ run'.full = run.full
    BY <1>3, <1>0, AdvanceOrder, AdvanceFacts DEF Downloaded, RunInv
  <2>3. DoneInv'
    BY <1>0, <2>1, <2>2 DEF DoneInv
  <2> QED BY <1>3, <2>2, <2>3, NoOutcome DEF Downloaded, Advance
<1>4. CASE Secrets
  <2>1. run.full => Left = 7
    BY <1>4, InStage DEF Secrets
  <2>2. /\ OrderInv' /\ Left' = Left /\ run'.full = run.full
        /\ run'.pc \in {"restore", "env"}
    BY <1>4, <1>0, <2>1, GotoFacts, SameStage DEF Secrets, Pcs, LeftAt
  <2>3. DoneInv'
    BY <1>0, <2>1, <2>2 DEF DoneInv
  <2> QED BY <1>4, <2>2, <2>3, NoOutcome DEF Secrets, At, Goto
<1>5. CASE RestoreFile
  <2>1. run.full => Left = 7
    BY <1>5 DEF RestoreFile, OrderInv, LeftAt
  <2>2. /\ OrderInv' /\ Left' = Left /\ run'.full = run.full
        /\ run'.pc \in {"restore_table", "restore_env", "env"}
    BY <1>5, <1>0, <2>1, GotoFacts, SameStage DEF RestoreFile, Pcs, LeftAt
  <2>3. DoneInv'
    BY <1>0, <2>1, <2>2 DEF DoneInv
  <2> QED BY <1>5, <2>2, <2>3, NoOutcome DEF RestoreFile, Goto
<1>6. CASE EnvFile
  <2>1. run.full => Left = 7
    BY <1>6 DEF EnvFile, OrderInv, LeftAt
  <2>2. /\ run'.full = run.full /\ run'.todo = run.todo /\ run'.pc = "seed"
        /\ disk'.env = disk'.api
    BY <1>6, <1>0 DEF EnvFile, RunInv, Run, TypeOK, Disk
  <2>3. OrderInv' /\ Left' = Left
    BY <2>1, <2>2, SameStage DEF LeftAt
  <2>4. DoneInv'
    BY <1>0, <2>1, <2>2, <2>3 DEF DoneInv
  <2> QED BY <1>6, <2>3, <2>4, NoOutcome DEF EnvFile
<1>7. CASE SeedTable
  <2>1. run.full => Left = 7 /\ disk.env = disk.api
    BY <1>7 DEF SeedTable, OrderInv, LeftAt, DoneInv
  <2>2. /\ OrderInv' /\ Left' = Left - 1 /\ run'.pc = "stage"
        /\ run'.full = run.full
    BY <1>7, <1>0, AdvanceOrder, AdvanceFacts DEF SeedTable, RunInv
  <2>3. disk'.env = disk.env /\ disk'.api = disk.api
    BY <1>7, <1>0 DEF SeedTable, TypeOK, Disk
  <2>4. DoneInv'
    BY <1>0, <2>1, <2>2, <2>3 DEF DoneInv
  <2> QED BY <1>7, <2>2, <2>4, NoOutcome DEF SeedTable, Advance
<1>8. CASE InstallConfig
  <2>1. run.full => Left = 6 /\ disk.env = disk.api
    BY <1>8, <1>0, InStage DEF InstallConfig, DoneInv
  <2>2. /\ run'.full = run.full /\ run'.todo = run.todo /\ run'.pc = "fragments"
        /\ disk'.env = disk.env /\ disk'.api = disk.api
    BY <1>8, <1>0 DEF InstallConfig, RunInv, Run, TypeOK, Disk
  <2>3. OrderInv' /\ Left' = Left
    BY <2>1, <2>2, SameStage DEF LeftAt
  <2>4. DoneInv'
    BY <1>0, <2>1, <2>2, <2>3 DEF DoneInv
  <2> QED BY <1>8, <2>3, <2>4, NoOutcome DEF InstallConfig, At
<1>9. CASE InstallFragments
  <2>1. run.full => Left = 6 /\ disk.env = disk.api
    BY <1>9 DEF InstallFragments, OrderInv, LeftAt, DoneInv
  <2>2. /\ OrderInv' /\ Left' \in {Left, Left - 1} /\ run'.full = run.full
        /\ run'.pc \in {"stage", "check"}
    <3>1. CASE Advance(run)
      BY <1>9, <1>0, <3>1, AdvanceOrder, AdvanceFacts
      DEF InstallFragments, RunInv
    <3>2. CASE run' = [run EXCEPT !.pc = "check", !.undo = edge.frag]
      <4>1. run'.full = run.full /\ run'.todo = run.todo /\ run'.pc = "check"
        BY <3>2, <1>0 DEF RunInv, Run
      <4> QED BY <2>1, <4>1, SameStage DEF LeftAt
    <3> QED BY <1>9, <3>1, <3>2 DEF InstallFragments
  <2>3. DoneInv'
    BY <1>9, <1>0, <2>1, <2>2 DEF InstallFragments, DoneInv
  <2> QED BY <1>9, <2>2, <2>3, NoOutcome DEF InstallFragments, Advance
<1>10. CASE CheckFragments
  <2>1. CASE Die
    BY <2>1, DieFacts, NotWhole
  <2>2. CASE Advance(run)
    <3>1. run.full => Left = 6 /\ disk.env = disk.api
      BY <1>10 DEF CheckFragments, OrderInv, LeftAt, DoneInv
    <3>2. /\ OrderInv' /\ Left' = Left - 1 /\ run'.pc = "stage"
          /\ run'.full = run.full
      BY <1>10, <1>0, <2>2, AdvanceOrder, AdvanceFacts
      DEF CheckFragments, RunInv
    <3>3. DoneInv'
      BY <1>10, <1>0, <3>1, <3>2 DEF CheckFragments, DoneInv
    <3> QED BY <1>10, <2>2, <3>2, <3>3, NoOutcome DEF CheckFragments, Advance
  <2> QED BY <1>10, <2>1, <2>2 DEF CheckFragments
<1>11. CASE Image
  <2>1. run.full => Left = 5 /\ disk.env = disk.api
    BY <1>11, <1>0, InStage DEF Image, DoneInv
  <2>2. /\ OrderInv' /\ Left' = Left - 1 /\ run'.pc = "stage"
        /\ run'.full = run.full
    BY <1>11, <1>0, AdvanceOrder, AdvanceFacts DEF Image, At
  <2>3. disk'.env = disk.env /\ disk'.api = disk.api
    BY <1>11, <1>0 DEF Image, TypeOK, Disk
  <2>4. DoneInv'
    BY <1>0, <2>1, <2>2, <2>3 DEF DoneInv
  <2> QED BY <1>11, <2>2, <2>4, NoOutcome DEF Image, At, Advance
<1>12. CASE Keygen
  <2>1. CASE disk.api = None
    BY <1>12, <2>1, DieFacts, NotWhole DEF Keygen
  <2>2. CASE disk.api # None
    <3>1. run.full => Left = 4 /\ disk.env = disk.api
      BY <1>12, <1>0, InStage DEF Keygen, DoneInv
    <3>2. disk'.env = disk.env /\ disk'.api = disk.api
      BY <1>12, <2>2, <1>0 DEF Keygen, TypeOK, Disk
    <3>3. /\ run'.full = run.full /\ run'.todo = run.todo /\ run'.pc = "emit"
      BY <1>12, <2>2, <1>0, GotoFacts DEF Keygen, Pcs
    <3>4. OrderInv' /\ Left' = Left
      BY <3>1, <3>3, SameStage DEF LeftAt
    <3>5. DoneInv'
      BY <1>0, <3>1, <3>2, <3>3, <3>4 DEF DoneInv
    <3> QED BY <1>12, <2>2, <3>4, <3>5, NoOutcome DEF Keygen, At, Goto
  <2> QED BY <2>1, <2>2
<1>13. CASE ReloadKeys
  <2>1. CASE Die
    BY <2>1, DieFacts, NotWhole
  <2>2. CASE Load(edge) /\ Advance(run)
    <3>1. run.full => /\ Left = 4 /\ disk.env = disk.api
                      /\ edge.limits = disk.api
      BY <1>13 DEF ReloadKeys, OrderInv, LeftAt, DoneInv
    <3>2. /\ OrderInv' /\ Left' = Left - 1 /\ run'.pc = "stage"
          /\ run'.full = run.full
      BY <1>13, <1>0, <2>2, AdvanceOrder, AdvanceFacts DEF ReloadKeys, RunInv
    <3>3. nginx'.up /\ nginx'.conf = edge
      BY <2>2, <1>0, LoadFacts DEF TypeOK
    <3>4. DoneInv'
      BY <1>13, <1>0, <3>1, <3>2, <3>3 DEF ReloadKeys, DoneInv
    <3> QED BY <1>13, <2>2, <3>2, <3>4, NoOutcome DEF ReloadKeys, Advance
  <2> QED BY <1>13, <2>1, <2>2 DEF ReloadKeys
<1>14. CASE EnableEngine
  <2>1. CASE Die
    BY <2>1, DieFacts, NotWhole
  <2>2. CASE Goto("units")
    <3>1. run.full => /\ Left = 3 /\ disk.env = disk.api /\ nginx.up
                      /\ nginx.conf = edge /\ edge.limits = disk.api
      BY <1>14, <1>0, InStage DEF EnableEngine, DoneInv
    <3>2. run'.full = run.full /\ run'.todo = run.todo /\ run'.pc = "units"
      BY <2>2, <1>0, GotoFacts DEF Pcs
    <3>3. OrderInv' /\ Left' = Left
      BY <3>1, <3>2, SameStage DEF LeftAt
    <3>4. DoneInv'
      BY <1>14, <1>0, <3>1, <3>2, <3>3 DEF EnableEngine, DoneInv
    <3> QED BY <1>14, <2>2, <3>3, <3>4, NoOutcome DEF EnableEngine, At, Goto
  <2> QED BY <1>14, <2>1, <2>2 DEF EnableEngine
<1>15. CASE PollReady
  <2>1. run.full => /\ Left = 3 /\ disk.env = disk.api /\ nginx.up
                    /\ nginx.conf = edge /\ edge.limits = disk.api
                    /\ "nginx" \in enabled /\ engine.key = disk.api
    BY <1>15, <1>0 DEF PollReady, Ready, OrderInv, LeftAt, DoneInv
  <2>2. /\ OrderInv' /\ Left' = Left - 1 /\ run'.pc = "stage"
        /\ run'.full = run.full
    BY <1>15, <1>0, AdvanceOrder, AdvanceFacts DEF PollReady, RunInv
  <2>3. DoneInv'
    BY <1>15, <1>0, <2>1, <2>2 DEF PollReady, DoneInv
  <2> QED BY <1>15, <2>2, <2>3, NoOutcome DEF PollReady, Advance
<1>16. CASE PollDies
  BY <1>16, DieFacts, NotWhole DEF PollDies
<1>17. CASE Tls
  <2>1. run.full => Left = 2
    BY <1>17, InStage DEF Tls
  <2>2. CASE Die
    BY <2>2, DieFacts, NotWhole
  <2>3. CASE edge.tls /\ Valid(edge) /\ Advance(run)
    <3>1. /\ OrderInv' /\ Left' = Left - 1 /\ run'.pc = "stage"
          /\ run'.full = run.full
      BY <1>17, <1>0, <2>3, AdvanceOrder, AdvanceFacts DEF Tls, At
    <3>2. DoneInv'
      BY <1>17, <1>0, <2>1, <2>3, <3>1 DEF Tls, DoneInv, Valid
    <3> QED BY <1>17, <2>3, <3>1, <3>2, NoOutcome DEF Tls, At, Advance
  <2>4. CASE Goto("certbot")
    <3>1. run'.full = run.full /\ run'.todo = run.todo /\ run'.pc = "certbot"
      BY <2>4, <1>0, GotoFacts DEF Pcs
    <3>2. OrderInv' /\ Left' = Left
      BY <2>1, <3>1, SameStage DEF LeftAt
    <3>3. DoneInv'
      BY <1>17, <1>0, <2>1, <3>1, <3>2 DEF Tls, DoneInv
    <3> QED BY <1>17, <2>4, <3>2, <3>3, NoOutcome DEF Tls, At, Goto
  <2>5. CASE Advance(Deferred)
    <3>1. /\ OrderInv' /\ Left' = Left - 1 /\ run'.pc = "stage"
          /\ run'.full = run.full /\ run'.deferred
      BY <1>17, <1>0, <2>5, AdvanceOrder, AdvanceFacts
      DEF Tls, At, Deferred, RunInv, Run
    <3>2. DoneInv'
      BY <1>17, <1>0, <2>1, <3>1 DEF Tls, DoneInv
    <3> QED BY <1>17, <2>5, <3>1, <3>2, NoOutcome DEF Tls, At, Advance
  <2> QED BY <1>17, <2>2, <2>3, <2>4, <2>5 DEF Tls
<1>18. CASE Certbot
  <2>1. run.full => Left = 2
    BY <1>18 DEF Certbot, OrderInv, LeftAt
  <2>2. disk'.env = disk.env /\ disk'.api = disk.api
    BY <1>18, <1>0 DEF Certbot, TypeOK, Disk
  <2>3. CASE Goto("write_tls")
    <3>1. run'.full = run.full /\ run'.todo = run.todo /\ run'.pc = "write_tls"
      BY <2>3, <1>0, GotoFacts DEF Pcs
    <3>2. OrderInv' /\ Left' = Left
      BY <2>1, <3>1, SameStage DEF LeftAt
    <3>3. DoneInv'
      BY <1>18, <1>0, <2>1, <2>2, <3>1, <3>2 DEF Certbot, DoneInv
    <3> QED BY <1>18, <2>3, <3>2, <3>3, NoOutcome DEF Certbot, Goto
  <2>4. CASE Advance(Deferred)
    <3>1. /\ OrderInv' /\ Left' = Left - 1 /\ run'.pc = "stage"
          /\ run'.full = run.full /\ run'.deferred
      BY <1>18, <1>0, <2>4, AdvanceOrder, AdvanceFacts
      DEF Certbot, Deferred, RunInv, Run
    <3>2. DoneInv'
      BY <1>18, <1>0, <2>1, <2>2, <3>1 DEF Certbot, DoneInv
    <3> QED BY <1>18, <2>4, <3>1, <3>2, NoOutcome DEF Certbot, Advance
  <2> QED BY <1>18, <2>3, <2>4 DEF Certbot
<1>19. CASE WriteTlsServer
  <2>1. run.full => Left = 2
    BY <1>19 DEF WriteTlsServer, OrderInv, LeftAt
  <2>2. UNCHANGED <<disk, edge, nginx, engine, enabled>>
    BY <1>19, <1>0 DEF WriteTlsServer, TypeOK, Edge, EdgeInv
  <2>3. run'.full = run.full /\ run'.todo = run.todo /\ run'.pc = "check_tls"
    BY <1>19, <1>0, GotoFacts DEF WriteTlsServer, Pcs
  <2>4. OrderInv' /\ Left' = Left
    BY <2>1, <2>3, SameStage DEF LeftAt
  <2>5. DoneInv'
    BY <1>0, <2>1, <2>2, <2>3, <2>4 DEF DoneInv
  <2> QED BY <1>19, <2>4, <2>5, NoOutcome DEF WriteTlsServer, Goto
<1>20. CASE CheckTlsServer
  <2>1. run.full => Left = 2
    BY <1>20 DEF CheckTlsServer, OrderInv, LeftAt
  <2>2. nginx' = nginx \/ (nginx'.up /\ nginx'.conf = edge)
    BY <1>20, <1>0, LoadFacts DEF CheckTlsServer, TypeOK
  <2>3. edge.tls
    BY <1>20 DEF CheckTlsServer, EdgeInv
  <2>4. CASE Valid(edge) /\ Advance(run)
    <3>1. /\ OrderInv' /\ Left' = Left - 1 /\ run'.pc = "stage"
          /\ run'.full = run.full
      BY <1>20, <1>0, <2>4, AdvanceOrder, AdvanceFacts
      DEF CheckTlsServer, RunInv
    <3>2. DoneInv'
      BY <1>20, <1>0, <2>1, <2>2, <2>3, <2>4, <3>1
      DEF CheckTlsServer, DoneInv, Valid
    <3> QED BY <1>20, <2>4, <3>1, <3>2, NoOutcome DEF CheckTlsServer, Advance
  <2>5. CASE Advance(Deferred)
    <3>1. /\ OrderInv' /\ Left' = Left - 1 /\ run'.pc = "stage"
          /\ run'.full = run.full /\ run'.deferred
      BY <1>20, <1>0, <2>5, AdvanceOrder, AdvanceFacts
      DEF CheckTlsServer, Deferred, RunInv, Run
    <3>2. DoneInv'
      BY <1>20, <1>0, <2>1, <2>2, <3>1 DEF CheckTlsServer, DoneInv
    <3> QED BY <1>20, <2>5, <3>1, <3>2, NoOutcome DEF CheckTlsServer, Advance
  <2> QED BY <1>20, <2>4, <2>5 DEF CheckTlsServer
<1>21. CASE Verify
  <2>1. CASE Die
    BY <2>1, DieFacts, NotWhole
  <2>2. CASE Advance(run)
    <3>1. run.full => Left = 1
      BY <1>21, InStage DEF Verify
    <3>2. /\ OrderInv' /\ Left' = Left - 1 /\ run'.pc = "stage"
          /\ run'.full = run.full /\ run'.deferred = run.deferred
      BY <1>21, <1>0, <2>2, AdvanceOrder, AdvanceFacts DEF Verify, At
    <3>3. DoneInv'
      BY <1>21, <1>0, <3>1, <3>2 DEF Verify, DoneInv, Valid
    <3> QED BY <1>21, <2>2, <3>2, <3>3, NoOutcome DEF Verify, At, Advance
  <2> QED BY <1>21, <2>1, <2>2 DEF Verify
<1>22. CASE Finish
  <2>1. run'.full = FALSE /\ run'.pc = "idle"
    BY <1>22 DEF Finish, Idle
  <2>2. Left = 0
    BY <1>22, EmptySeq DEF Finish, Left
  <2>3. CASE outcome' = "green"
    <3>1. run.full /\ ~run.deferred
      BY <1>22, <2>3 DEF Finish
    <3>2. GreenInv'
      BY <1>22, <2>1, <2>2, <3>1 DEF Finish, DoneInv, GreenInv, Valid
    <3> QED BY <2>1, <3>2 DEF OrderInv, DoneInv
  <2> QED BY <2>1, <2>3, NotWhole
<1>23. ASSUME run' = run, outcome' = outcome, UNCHANGED <<edge, enabled>>,
              disk'.env = disk.env, disk'.api = disk.api,
              disk'.cert = disk.cert \/ disk'.cert = "valid",
              disk'.cert # "none" \/ disk.cert = "none",
              engine'.key \in {engine.key, disk.env},
              nginx' = nginx \/ (nginx'.up /\ nginx'.conf = edge)
       PROVE  OutInv'
  <2>1. OrderInv' /\ Left' = Left
    BY <1>23, SameStage
  <2>2. Valid(edge) => Valid(edge)'
    BY <1>23 DEF Valid
  <2>3. DoneInv'
    BY <1>0, <1>23, <2>1, <2>2 DEF DoneInv
  <2>4. GreenInv'
    BY <1>23, <2>2 DEF GreenInv
  <2> QED BY <2>1, <2>3, <2>4
<1>24. CASE Systemd
  BY <1>0, <1>23, <1>24
  DEF Systemd, EngineUp, EngineExits, EngineRestarts, EngineGivesUp, Started,
      TypeOK, Engine
<1>25. CASE Renew
  BY <1>0, <1>23, <1>25 DEF Renew, AfterHook, TypeOK, Disk
<1>26. CASE Pull \/ RestartEngine \/ PointDns
  BY <1>0, <1>23, <1>26 DEF Pull, RestartEngine, PointDns, Started
<1>27. CASE Rotate
  BY <1>27, NotWhole DEF Rotate, Idle
<1>28. CASE IssueCert
  BY <1>28, NotWhole DEF IssueCert, Idle
<1>29. CASE StageFails
  BY <1>29, DieFacts, NotWhole DEF StageFails
<1>30. CASE Kill
  BY <1>30, NotWhole DEF Kill, Idle
<1>31. CASE Reboot
  <2>1. run'.pc = "idle" /\ ~run'.full
    BY <1>31 DEF Reboot, Idle
  <2>2. CASE outcome' = "green"
    <3>1. outcome = "green" /\ UNCHANGED <<disk, edge, enabled>>
      BY <1>31, <2>2 DEF Reboot
    <3>2. nginx'.up /\ nginx'.conf = edge
      BY <1>31, <1>0, <3>1, LoadFacts DEF Reboot, GreenInv, TypeOK
    <3>3. engine'.key \in {engine.key, disk.env}
      BY <1>31, <1>0 DEF Reboot, Started, TypeOK, Engine
    <3>4. GreenInv'
      BY <2>1, <3>1, <3>2, <3>3 DEF GreenInv, Valid
    <3> QED BY <2>1, <3>4 DEF OrderInv, DoneInv
  <2> QED BY <2>1, <2>2, NotWhole
<1>32. CASE EngineCrash
  BY <1>0, <1>23, <1>32 DEF EngineCrash, TypeOK, Engine
<1>33. CASE \E plan \in Plans : Start(plan)
  <2>1. PICK plan \in Plans : Start(plan) BY <1>33
  <2>2. /\ run'.pc = "stage" /\ run'.todo = plan /\ outcome' = "none"
        /\ run'.full = (plan = STAGES_ALL)
    BY <2>1 DEF Start, Idle
  <2>3. CASE plan # STAGES_ALL
    BY <2>2, <2>3, NotWhole
  <2>4. CASE plan = STAGES_ALL
    <3>1. Left' = 10
      BY <2>2, <2>4 DEF Left, STAGES_ALL
    <3>2. \A i \in 1..10 : run'.todo[i] = STAGES_ALL[10 - 10 + i]
      BY <2>2, <2>4
    <3>3. OrderInv'
      BY <2>2, <3>1, <3>2 DEF OrderInv, LeftAt
    <3> QED BY <2>2, <3>1, <3>3 DEF DoneInv, GreenInv
  <2> QED BY <2>3, <2>4
<1>34. CASE WriteKeyFiles
  <2>1. run.full => Left = 4 /\ disk.env = disk.api
    BY <1>0, <1>34, WriteFacts DEF OrderInv, LeftAt, DoneInv
  <2>2. /\ run'.full = run.full /\ run'.todo = run.todo /\ UNCHANGED <<disk, outcome>>
        /\ run'.pc \in {"fill", "limits", "swap", "reload"}
        /\ run'.pc = "reload" => edge'.limits = disk.api
    BY <1>0, <1>34, WriteFacts
  <2>3. OrderInv' /\ Left' = Left
    BY <2>1, <2>2, SameStage DEF LeftAt
  <2>4. DoneInv'
    BY <1>0, <2>1, <2>2, <2>3 DEF DoneInv
  <2>5. run.pc # "idle"
    BY <1>0, <1>34, WriteFacts
  <2> QED BY <2>2, <2>3, <2>4, <2>5, NoOutcome
<1>35. CASE EnableNginx
  <2>1. CASE Die
    BY <2>1, DieFacts, NotWhole
  <2>2. CASE /\ Goto("poll") /\ "nginx" \in enabled'
             /\ nginx' = nginx \/ (~nginx.up /\ Load(edge))
    <3>1. run.full => /\ Left = 3 /\ disk.env = disk.api /\ nginx.up
                      /\ nginx.conf = edge /\ edge.limits = disk.api
      BY <1>35, <1>0 DEF EnableNginx, OrderInv, LeftAt, DoneInv
    <3>2. run'.full = run.full /\ run'.todo = run.todo /\ run'.pc = "poll"
      BY <2>2, <1>0, GotoFacts DEF Pcs
    <3>3. OrderInv' /\ Left' = Left
      BY <3>1, <3>2, SameStage DEF LeftAt
    <3>4. DoneInv'
      BY <1>35, <1>0, <2>2, <3>1, <3>2, <3>3 DEF EnableNginx, DoneInv
    <3> QED BY <1>35, <2>2, <3>3, <3>4, NoOutcome DEF EnableNginx, Goto
  <2> QED BY <1>35, <2>1, <2>2 DEF EnableNginx
<1> QED BY <1>1, <1>2, <1>3, <1>4, <1>5, <1>6, <1>7, <1>8, <1>9, <1>10, <1>11,
           <1>12, <1>13, <1>14, <1>15, <1>16, <1>17, <1>18, <1>19, <1>20, <1>21,
           <1>22, <1>24, <1>25, <1>26, <1>27, <1>28, <1>29, <1>30, <1>31, <1>32,
           <1>33, <1>34, <1>35
        DEF Next, Step, Operator, Nature


-----------------------------------------------------------------------------
(* A box that serves.                                                      *)

\* A reload keeps what would serve.
LEMMA LoadServes ==
    ASSUME TypeOK, ServeInv, UNCHANGED <<disk, edge>>,
           nginx' = nginx \/ Load(edge), mishaps \subseteq mishaps',
           run.pc = "swap" => "limits" \in mishaps', run'.pc # "restore"
    PROVE  ServeInv'
<1>1. CASE nginx' = nginx
  BY <1>1 DEF ServeInv
<1>2. CASE Load(edge)
  <2>1. nginx'.conf = edge /\ nginx'.cert = disk.cert
    BY <1>2, LoadFacts DEF TypeOK
  <2> QED BY <2>1 DEF ServeInv
<1> QED BY <1>1, <1>2

\* Every step keeps nginx behind what is on disk.
LEMMA ServeStep == ASSUME IInv, ServeInv, Next PROVE ServeInv'
<1> USE DEF IInv, world
<1>0. RunInv /\ TypeOK /\ disk \in Disk /\ edge \in Edge /\ nginx \in Nginx
  BY DEF TypeOK
<1>a. ASSUME UNCHANGED <<edge, nginx>>, run'.pc # "restore",
             mishaps \subseteq mishaps', run.pc = "swap" => "limits" \in mishaps',
             disk'.api = disk.api, disk'.cert \in {disk.cert, "valid"},
             disk'.tsv = disk.tsv \/ disk.tsv = None \/ disk'.tsv = "customers"
      PROVE  ServeInv'
  BY <1>a, NoneAssumption DEF ServeInv
<1>1. CASE Prepare
  BY <1>0, <1>1, <1>a, AdvanceFacts DEF Prepare, At
<1>2. CASE Weights
  BY <1>0, <1>2, <1>a, AdvanceFacts, GotoFacts DEF Weights, At, Disk, Pcs
<1>3. CASE Downloaded
  BY <1>0, <1>3, <1>a, AdvanceFacts DEF Downloaded, Disk, RunInv
<1>4. CASE Secrets
  <2>1. /\ disk'.cert = disk.cert /\ disk'.tsv = disk.tsv
        /\ disk'.api = disk.api \/ (disk.api = None /\ disk'.api = "minted")
    BY <1>0, <1>4 DEF Secrets, Disk
  <2>2. run'.pc = "restore" => disk'.api = None
    BY <1>0, <1>4, GotoFacts DEF Secrets, ShouldRestore, Pcs
  <2>3. UNCHANGED <<edge, nginx, mishaps>> /\ run.pc # "swap"
    BY <1>4 DEF Secrets, At
  <2> QED BY <2>1, <2>2, <2>3, NoneAssumption DEF ServeInv, Keys
<1>5. CASE RestoreFile
  <2>1. CASE run.pc = "restore"
    <3>1. /\ disk'.cert = disk.cert /\ disk'.tsv = disk.tsv
          /\ disk.api = None /\ disk'.api = "original"
      BY <1>0, <1>5, <2>1 DEF RestoreFile, Disk, ServeInv
    <3>2. run'.pc = "restore_table" /\ UNCHANGED <<edge, nginx>>
      BY <1>0, <1>5, <2>1, GotoFacts DEF RestoreFile, Pcs
    <3> QED BY <3>1, <3>2, NoneAssumption DEF ServeInv, Keys
  <2>2. CASE run.pc # "restore"
    BY <1>0, <1>5, <2>2, <1>a, GotoFacts DEF RestoreFile, Disk, Pcs
  <2> QED BY <2>1, <2>2
<1>6. CASE EnvFile
  BY <1>0, <1>6, <1>a DEF EnvFile, Disk, RunInv, Run
<1>7. CASE SeedTable
  BY <1>0, <1>7, <1>a, AdvanceFacts DEF SeedTable, Disk, RunInv
<1>8. CASE InstallConfig
  BY <1>0, <1>8, <1>a DEF InstallConfig, At, Disk, RunInv, Run
<1>9. CASE InstallFragments
  <2>1. /\ edge'.map = edge.map /\ edge'.limits = edge.limits
        /\ UNCHANGED <<disk, nginx, mishaps>> /\ run.pc # "swap"
    BY <1>0, <1>9 DEF InstallFragments, Edge
  <2>2. run'.pc # "restore"
    BY <1>0, <1>9, AdvanceFacts DEF InstallFragments, RunInv, Run
  <2> QED BY <2>1, <2>2 DEF ServeInv
<1>10. CASE CheckFragments
  <2>1. CASE Die
    <3>1. /\ edge'.map = edge.map /\ edge'.limits = edge.limits
          /\ UNCHANGED <<disk, mishaps>> /\ run.pc # "swap"
          /\ nginx' = nginx \/ (Load(edge) /\ edge' = edge)
      BY <1>0, <1>10, <2>1 DEF CheckFragments, RolledBack, Edge
    <3>2. run'.pc # "restore"
      BY <2>1, DieFacts
    <3>3. CASE nginx' = nginx
      BY <3>1, <3>2, <3>3 DEF ServeInv
    <3>4. CASE Load(edge) /\ edge' = edge
      BY <1>0, <3>1, <3>2, <3>4, LoadServes
    <3> QED BY <3>1, <3>3, <3>4
  <2>2. CASE Advance(run) /\ UNCHANGED edge
    <3>1. run'.pc # "restore"
      BY <1>0, <1>10, <2>2, AdvanceFacts DEF CheckFragments, RunInv
    <3> QED BY <1>0, <1>10, <2>2, <3>1, LoadServes DEF CheckFragments
  <2> QED BY <1>10, <2>1, <2>2 DEF CheckFragments
<1>11. CASE Image
  BY <1>0, <1>11, <1>a, AdvanceFacts DEF Image, Disk, At
<1>12. CASE Keygen
  <2>1. /\ disk'.cert = disk.cert /\ disk'.api = disk.api
        /\ disk'.tsv = disk.tsv \/ disk.tsv = None
        /\ UNCHANGED <<edge, nginx, mishaps>> /\ run.pc # "swap"
    BY <1>0, <1>12 DEF Keygen, Disk, At
  <2>2. run'.pc \in {"emit", "idle"}
    BY <1>0, <1>12, GotoFacts, DieFacts DEF Keygen, Pcs
  <2> QED BY <1>a, <2>1, <2>2
<1>13. CASE ReloadKeys
  <2>1. run'.pc # "restore"
    BY <1>0, <1>13, AdvanceFacts, DieFacts DEF ReloadKeys, RunInv
  <2> QED BY <1>0, <1>13, <2>1, LoadServes DEF ReloadKeys
<1>14. CASE EnableEngine
  <2>1. run'.pc # "restore"
    BY <1>0, <1>14, GotoFacts, DieFacts DEF EnableEngine, Pcs
  <2> QED BY <1>0, <1>14, <2>1, LoadServes DEF EnableEngine, At
<1>15. CASE PollReady
  BY <1>0, <1>15, <1>a, AdvanceFacts DEF PollReady, RunInv
<1>16. CASE PollDies
  BY <1>16, <1>a, DieFacts DEF PollDies
<1>17. CASE Tls
  BY <1>0, <1>17, <1>a, AdvanceFacts, DieFacts, GotoFacts DEF Tls, At, Pcs
<1>18. CASE Certbot
  BY <1>0, <1>18, <1>a, AdvanceFacts, GotoFacts DEF Certbot, Disk, Pcs, RunInv
<1>19. CASE WriteTlsServer
  <2>1. /\ edge'.map = edge.map /\ edge'.limits = edge.limits
        /\ UNCHANGED <<disk, nginx, mishaps>> /\ run.pc # "swap"
    BY <1>0, <1>19 DEF WriteTlsServer, Edge
  <2>2. run'.pc # "restore"
    BY <1>0, <1>19, GotoFacts DEF WriteTlsServer, Pcs
  <2> QED BY <2>1, <2>2 DEF ServeInv
<1>20. CASE CheckTlsServer
  <2>1. run'.pc # "restore"
    BY <1>0, <1>20, AdvanceFacts DEF CheckTlsServer, RunInv
  <2> QED BY <1>0, <1>20, <2>1, LoadServes DEF CheckTlsServer
<1>21. CASE Verify
  BY <1>0, <1>21, <1>a, AdvanceFacts, DieFacts DEF Verify, At
<1>22. CASE Finish
  BY <1>22, <1>a DEF Finish, Idle
<1>23. CASE Systemd \/ Pull \/ RestartEngine \/ PointDns \/ EngineCrash
  <2>1. UNCHANGED <<disk, edge, nginx, run, mishaps>>
    BY <1>23
    DEF Systemd, EngineUp, EngineExits, EngineRestarts, EngineGivesUp, Pull,
        RestartEngine, PointDns, EngineCrash
  <2> QED BY <2>1 DEF ServeInv
<1>24. CASE Renew
  <2>1. /\ disk'.cert = "valid" /\ disk'.api = disk.api /\ disk'.tsv = disk.tsv
        /\ UNCHANGED <<edge, run>> /\ mishaps \subseteq mishaps'
        /\ nginx' = nginx \/ nginx'.conf = edge
    BY <1>0, <1>24 DEF Renew, AfterHook, Disk
  <2> QED BY <2>1 DEF ServeInv
<1>25. CASE Rotate
  <2>1. /\ disk'.api = "rotated" /\ disk.api \notin {None, "rotated"}
        /\ disk'.cert = disk.cert /\ disk'.tsv = disk.tsv
        /\ run'.pc = "idle" /\ run.pc = "idle" /\ UNCHANGED <<edge, nginx, mishaps>>
    BY <1>0, <1>25 DEF Rotate, Disk, Idle
  <2> QED BY <2>1, NoneAssumption DEF ServeInv, Keys
<1>26. CASE IssueCert
  BY <1>26, <1>a DEF IssueCert, Idle
<1>27. CASE StageFails
  BY <1>27, <1>a, DieFacts DEF StageFails, At
<1>28. CASE Kill
  BY <1>28, <1>a DEF Kill, Torn, Idle
<1>29. CASE Reboot
  <2>1. /\ run'.pc # "restore" /\ UNCHANGED <<disk, edge>>
        /\ mishaps \subseteq mishaps'
        /\ run.pc = "swap" => "limits" \in mishaps'
    BY <1>29 DEF Reboot, Torn, Idle
  <2>2. CASE nginx' = [nginx EXCEPT !.up = FALSE]
    <3>1. nginx'.conf = nginx.conf /\ nginx'.cert = nginx.cert
      BY <1>0, <2>2 DEF Nginx
    <3> QED BY <2>1, <3>1 DEF ServeInv
  <2>3. CASE Load(edge)
    BY <1>0, <2>1, <2>3, LoadServes
  <2> QED BY <1>29, <2>2, <2>3 DEF Reboot
<1>30. CASE \E plan \in Plans : Start(plan)
  BY <1>30, <1>a DEF Start, Idle
<1>31. CASE WriteKeyFiles
  <2>1. run.pc \in {"limits", "swap"} => disk.api # None
    BY DEF UnitInv
  <2>2. disk.tsv # None \/ run.pc # "fill"
    BY DEF UnitInv
  <2>3. UNCHANGED <<disk, nginx>> /\ run'.pc # "restore"
    BY <1>0, <1>31, WriteFacts
  <2>4. CASE run.pc = "emit"
    <3>1. /\ edge'.map \in {None, "torn"} /\ edge'.limits = edge.limits
          /\ mishaps' = mishaps
      BY <1>0, <1>31, <2>4, WriteFacts
    <3> QED BY <2>3, <2>4, <3>1, NoneAssumption DEF ServeInv
  <2>5. CASE run.pc = "fill"
    <3>1. /\ edge'.map = disk.tsv /\ edge'.limits = edge.limits
          /\ "limits" \in mishaps => "limits" \in mishaps'
      BY <1>0, <1>31, <2>5, WriteFacts
    <3> QED BY <2>3, <2>5, <3>1 DEF ServeInv
  <2>6. CASE run.pc = "limits"
    <3>1. /\ edge'.map = edge.map /\ edge'.limits = "empty" /\ run'.pc = "swap"
      BY <1>0, <1>31, <2>6, WriteFacts
    <3> QED BY <2>1, <2>3, <2>6, <3>1 DEF ServeInv
  <2>7. CASE run.pc = "swap"
    <3>1. /\ edge'.map = edge.map /\ edge'.limits = disk.api
      BY <1>0, <1>31, <2>7, WriteFacts
    <3>2. disk.api # "empty"
      BY <1>0, NoneAssumption DEF Disk, Keys
    <3> QED BY <2>1, <2>3, <2>7, <3>1, <3>2 DEF ServeInv
  <2> QED BY <1>0, <1>31, <2>4, <2>5, <2>6, <2>7, WriteFacts
<1>32. CASE EnableNginx
  <2>1. run'.pc # "restore"
    BY <1>0, <1>32, GotoFacts, DieFacts DEF EnableNginx, Pcs
  <2> QED BY <1>0, <1>32, <2>1, LoadServes DEF EnableNginx
<1> QED BY <1>1, <1>2, <1>3, <1>4, <1>5, <1>6, <1>7, <1>8, <1>9, <1>10, <1>11,
           <1>12, <1>13, <1>14, <1>15, <1>16, <1>17, <1>18, <1>19, <1>20, <1>21,
           <1>22, <1>23, <1>24, <1>25, <1>26, <1>27, <1>28, <1>29, <1>30,
           <1>31, <1>32
        DEF Next, Step, Systemd, Operator, Nature

\* A step of a run leaves a box that serves serving: a reload gives nginx what
\* serves as well.
LEMMA StepServes ==
    ASSUME IInv, ServeInv, Step, Serving, disk.api = engine.key,
           "limits" \notin mishaps
    PROVE  Serving'
<1> USE DEF IInv, world
<1>0. /\ RunInv /\ TypeOK /\ engine.st = "up" /\ nginx.up /\ nginx.conf.tls
      /\ nginx.cert = "valid" /\ nginx.conf.map = "customers"
      /\ nginx.conf.limits = engine.key
  BY DEF Serving, Forwards
<1>1. /\ edge.tls /\ edge.map \in {"customers", "torn", None}
      /\ disk.cert = "valid"
      /\ run.pc # "swap" => edge.limits = engine.key
  BY <1>0 DEF EdgeInv, ServeInv, TypeOK, Edge
<1>2. engine' = engine
  <2>1. [engine EXCEPT !.st = engine.st] = engine
    BY <1>0 DEF TypeOK, Engine
  <2> QED BY <1>0, <2>1
  DEF Step, Prepare, Weights, Downloaded, Secrets, RestoreFile, EnvFile,
      SeedTable, InstallConfig, InstallFragments, CheckFragments, Image, Keygen,
      WriteKeyFiles, ReloadKeys, EnableEngine, EnableNginx, EnsureStarted, Active,
      PollReady, PollDies, Tls, Certbot, WriteTlsServer, CheckTlsServer, Verify,
      Finish
<1>3. nginx' = nginx \/ (Load(edge) /\ Valid(edge) /\ run.pc # "swap")
  BY DEF Step, Prepare, Weights, Downloaded, Secrets, RestoreFile, EnvFile,
      SeedTable, InstallConfig, InstallFragments, CheckFragments, Image, Keygen,
      WriteKeyFiles, ReloadKeys, EnableEngine, EnableNginx, PollReady, PollDies,
      Tls, Certbot, WriteTlsServer, CheckTlsServer, Verify, Finish
<1>4. CASE nginx' = nginx
  BY <1>0, <1>2, <1>4 DEF Serving, Forwards
<1>5. CASE Load(edge) /\ Valid(edge) /\ run.pc # "swap"
  <2>1. nginx'.up /\ nginx'.conf = edge /\ nginx'.cert = disk.cert
    BY <1>0, <1>5, LoadFacts DEF TypeOK
  <2>2. edge.map = "customers" /\ edge.limits = engine.key
    BY <1>1, <1>5 DEF Valid
  <2> QED BY <1>0, <1>1, <1>2, <2>1, <2>2 DEF Serving, Forwards
<1> QED BY <1>3, <1>4, <1>5


-----------------------------------------------------------------------------
(* A box that has never had a certificate.                                 *)

\* Only the TLS server answers certbot's challenge, and only a certificate
\* brings the TLS server.
LEMMA BareStep == ASSUME IInv, BareInv, Next PROVE BareInv'
<1> USE DEF IInv, world
<1>0. RunInv /\ TypeOK /\ disk \in Disk /\ edge \in Edge /\ nginx \in Nginx
  BY DEF TypeOK
<1>a. ASSUME disk'.cert = disk.cert, edge'.tls = edge.tls,
             nginx'.conf \in {nginx.conf, edge},
             run'.pc \notin {"write_tls", "check_tls"}
      PROVE  BareInv'
  BY <1>a DEF BareInv
<1>1. CASE Prepare
  BY <1>0, <1>1, <1>a, AdvanceFacts DEF Prepare, At
<1>2. CASE Weights
  BY <1>0, <1>2, <1>a, AdvanceFacts, GotoFacts DEF Weights, At, Disk, Pcs
<1>3. CASE Downloaded
  BY <1>0, <1>3, <1>a, AdvanceFacts DEF Downloaded, Disk, RunInv
<1>4. CASE Secrets
  BY <1>0, <1>4, <1>a, GotoFacts DEF Secrets, Disk, Pcs
<1>5. CASE RestoreFile
  BY <1>0, <1>5, <1>a, GotoFacts DEF RestoreFile, Disk, Pcs
<1>6. CASE EnvFile
  BY <1>0, <1>6, <1>a DEF EnvFile, Disk, RunInv, Run
<1>7. CASE SeedTable
  BY <1>0, <1>7, <1>a, AdvanceFacts DEF SeedTable, Disk, RunInv
<1>8. CASE InstallConfig
  BY <1>0, <1>8, <1>a DEF InstallConfig, Disk, RunInv, Run
<1>9. CASE InstallFragments
  <2>1. edge'.tls = edge.tls /\ UNCHANGED <<disk, nginx>>
    BY <1>0, <1>9 DEF InstallFragments, Edge
  <2>2. run'.pc \in {"stage", "check"}
    BY <1>0, <1>9, AdvanceFacts DEF InstallFragments, RunInv, Run
  <2> QED BY <1>a, <2>1, <2>2
<1>10. CASE CheckFragments
  <2>1. edge'.tls = edge.tls /\ UNCHANGED disk
    BY <1>0, <1>10 DEF CheckFragments, RolledBack, Edge
  <2>2. nginx'.conf \in {nginx.conf, edge}
    BY <1>0, <1>10, LoadFacts DEF CheckFragments
  <2>3. run'.pc \in {"stage", "idle"}
    BY <1>0, <1>10, AdvanceFacts, DieFacts DEF CheckFragments, RunInv
  <2> QED BY <1>a, <2>1, <2>2, <2>3
<1>11. CASE Image
  BY <1>0, <1>11, <1>a, AdvanceFacts DEF Image, Disk, At
<1>12. CASE Keygen
  <2>1. /\ disk'.cert = disk.cert /\ UNCHANGED <<edge, nginx>>
    BY <1>0, <1>12 DEF Keygen, Disk
  <2>2. run'.pc \in {"emit", "idle"}
    BY <1>0, <1>12, GotoFacts, DieFacts DEF Keygen, Pcs
  <2> QED BY <1>a, <2>1, <2>2
<1>13. CASE ReloadKeys
  BY <1>0, <1>13, <1>a, LoadFacts, AdvanceFacts, DieFacts DEF ReloadKeys, RunInv
<1>14. CASE EnableEngine
  <2>1. run'.pc \in {"units", "idle"}
    BY <1>0, <1>14, GotoFacts, DieFacts DEF EnableEngine, Pcs
  <2> QED BY <1>0, <1>14, <1>a, <2>1 DEF EnableEngine
<1>15. CASE PollReady
  BY <1>0, <1>15, <1>a, AdvanceFacts DEF PollReady, RunInv
<1>16. CASE PollDies
  BY <1>16, <1>a, DieFacts DEF PollDies
<1>17. CASE Tls
  BY <1>0, <1>17, <1>a, AdvanceFacts, DieFacts, GotoFacts DEF Tls, At, Pcs
<1>18. CASE Certbot
  <2>1. ~ServesChallenge /\ disk.cert # "valid"
    BY DEF BareInv, ServesChallenge
  <2> QED BY <1>0, <1>18, <1>a, <2>1, AdvanceFacts DEF Certbot, RunInv
<1>19. CASE WriteTlsServer
  BY <1>19 DEF WriteTlsServer, BareInv
<1>20. CASE CheckTlsServer
  BY <1>20 DEF CheckTlsServer, BareInv
<1>21. CASE Verify
  BY <1>0, <1>21, <1>a, AdvanceFacts, DieFacts DEF Verify, At
<1>22. CASE Finish
  BY <1>22, <1>a DEF Finish, Idle
<1>23. CASE Systemd \/ Pull \/ Rotate \/ RestartEngine \/ PointDns \/
    EngineCrash
  <2>1. UNCHANGED <<edge, nginx, run>> /\ disk'.cert = disk.cert
    BY <1>0, <1>23
    DEF Systemd, EngineUp, EngineExits, EngineRestarts, EngineGivesUp, Pull,
        Rotate, Disk, RestartEngine, PointDns, EngineCrash
  <2> QED BY <2>1 DEF BareInv
<1>24. CASE Renew
  BY <1>24 DEF Renew, BareInv
<1>25. CASE IssueCert
  BY <1>25, <1>a DEF IssueCert, Idle
<1>26. CASE StageFails
  BY <1>26, <1>a, DieFacts DEF StageFails
<1>27. CASE Kill
  BY <1>27, <1>a DEF Kill, Idle
<1>28. CASE Reboot
  <2>1. run'.pc = "idle" /\ UNCHANGED <<disk, edge>>
    BY <1>28 DEF Reboot, Idle
  <2>2. nginx'.conf \in {nginx.conf, edge}
    BY <1>0, <1>28, LoadFacts DEF Reboot, Nginx
  <2> QED BY <1>a, <2>1, <2>2
<1>29. CASE \E plan \in Plans : Start(plan)
  BY <1>29, <1>a DEF Start, Idle
<1>30. CASE WriteKeyFiles
  BY <1>0, <1>30, <1>a, WriteFacts
<1>31. CASE EnableNginx
  <2>1. run'.pc \in {"poll", "idle"}
    BY <1>0, <1>31, GotoFacts, DieFacts DEF EnableNginx, Pcs
  <2> QED BY <1>0, <1>31, <1>a, <2>1, LoadFacts DEF EnableNginx
<1> QED BY <1>1, <1>2, <1>3, <1>4, <1>5, <1>6, <1>7, <1>8, <1>9, <1>10, <1>11,
           <1>12, <1>13, <1>14, <1>15, <1>16, <1>17, <1>18, <1>19, <1>20, <1>21,
           <1>22, <1>23, <1>24, <1>25, <1>26, <1>27, <1>28, <1>29,
           <1>30, <1>31
        DEF Next, Step, Operator, Nature


-----------------------------------------------------------------------------
(* The theorems.                                                           *)

\* A green outcome leaves one credential in every place and nginx serving TLS
\* from what is on disk, and nothing undoes it until the next run or rotation,
\* whatever crashes, reboots or is killed (deploy.sh:222-224).
THEOREM GreenMeansDeployedCorrect == Spec => []GreenMeansDeployed
<1>1. Init => OutInv
  BY DEF Init, Idle, OutInv, OrderInv, DoneInv, GreenInv
<1>2. IInv /\ OutInv /\ [Next]_vars => OutInv'
  <2> SUFFICES ASSUME IInv, OutInv, [Next]_vars PROVE OutInv'
    OBVIOUS
  <2>1. CASE Next
    BY <2>1, OutcomeStep
  <2>2. CASE UNCHANGED vars
    BY <2>2 DEF vars, OutInv, OrderInv, DoneInv, GreenInv, Left, Valid
  <2> QED BY <2>1, <2>2
<1>3. OutInv => GreenMeansDeployed
  BY DEF OutInv, GreenInv, GreenMeansDeployed
<1> QED BY <1>1, <1>2, <1>3, InvariantHolds, PTL DEF Spec

\* While the key has not been replaced and no run was cut off while it wrote the
\* limits, no step of any run, not even of one that installs refused fragments or
\* that fails, stops a serving box from serving (deploy.sh:14-18).
THEOREM NeverInterruptsCorrect == Spec => NeverInterrupts
<1>1. Init => ServeInv
  BY NoneAssumption DEF Init, Idle, ServeInv, Bare, Snapshot, Keys
<1>2. IInv /\ ServeInv /\ [Next]_vars => ServeInv'
  <2> SUFFICES ASSUME IInv, ServeInv, [Next]_vars PROVE ServeInv'
    OBVIOUS
  <2>1. CASE Next
    BY <2>1, ServeStep
  <2>2. CASE UNCHANGED vars
    BY <2>2 DEF vars, ServeInv
  <2> QED BY <2>1, <2>2
<1>3. IInv /\ ServeInv =>
          [Step /\ Serving /\ disk.api = engine.key /\ "limits" \notin mishaps
              => Serving']_vars
  BY StepServes
<1> QED BY <1>1, <1>2, <1>3, InvariantHolds, PTL DEF Spec, NeverInterrupts

\* A box that begins bare never serves, whatever is run on it how often: certbot
\* needs the TLS server to answer its challenge, and deploy.sh writes the TLS
\* server after certbot (issue-cert.sh).
THEOREM BareNeverServes ==
    ASSUME Origins = {"bare"}
    PROVE  Spec => []~Serving
<1>1. Init => BareInv
  BY DEF Init, Idle, BareInv, Bare
<1>2. IInv /\ BareInv /\ [Next]_vars => BareInv'
  <2> SUFFICES ASSUME IInv, BareInv, [Next]_vars PROVE BareInv'
    OBVIOUS
  <2>1. CASE Next
    BY <2>1, BareStep
  <2>2. CASE UNCHANGED vars
    BY <2>2 DEF vars, BareInv
  <2> QED BY <2>1, <2>2
<1>3. BareInv => ~Serving
  BY DEF BareInv, Serving, Forwards
<1> QED BY <1>1, <1>2, <1>3, InvariantHolds, PTL DEF Spec
=============================================================================
