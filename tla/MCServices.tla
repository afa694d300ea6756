---------------------------- MODULE MCServices ----------------------------
(***************************************************************************)
(* The managers that share no state, each checked by itself: part, chosen  *)
(* at the start, says which one moves.                                     *)
(***************************************************************************)
EXTENDS StreamServer, Storage, HealthReports, PodMonitoring, ResourceQuotas,
        ImageRegistry, EnvironmentContainers, Database, Credentials, RedisStore, Logins, Terminals,
        Ingress

CONSTANTS p1, p2, db, store, x1, c1, hits

MCPods == {p1, p2}

\* The database may not answer in time; a store may be nearly full.
MCWays(c) == IF c = db THEN {"healthy", "hangs"} ELSE {"healthy", "degraded"}

MCChecks == <<"system", "docker">>

\* The titles of all critical alerts collide.
MCHash(c, severity) == IF severity = "critical" THEN 1 ELSE IF c = "docker" THEN 2 ELSE 3

Vector(a, b) == [k \in Kinds |-> IF k = "cpu" THEN a ELSE b]

MCAmounts == {Vector(1, 0), Vector(1, 1), Vector(0, 2), Vector(-1, 1)}

MCLimits == {Vector(1, 2), Vector(2, 1)}

MCPolicies == {[min |-> Vector(1, 2), max |-> Vector(4, 7), target |-> 50],
               [min |-> Vector(2, 3), max |-> Vector(5, 5), target |-> 60]}

\* Two ids whose names make the same file.
MCFileOf == [i \in Ids |-> IF i = "c" THEN "g" ELSE "f"]

\* flush_db asks for "c1" and deletes another key: the prefix is in it twice.
MCFlushedAs == [x \in {x1, c1, hits} |-> IF x = c1 THEN x1 ELSE x]

\* Ids that begin with the same eight characters.
MCSubdomain == [s \in Routed |-> "sess-202"]

----------------------------------------------------------------------------
VARIABLE part

resourceVars == <<quotaVars, scalingVars>>
credentialVars == <<lastingVars, securedVars>>

StillBut(moving) ==
  /\ moving = part /\ UNCHANGED part
  /\ moving # "streams" => UNCHANGED streamVars
  /\ moving # "storage" => UNCHANGED storageVars
  /\ moving # "health" => UNCHANGED healthVars
  /\ moving \notin {"monitors", "alerts"} => UNCHANGED monitoringVars
  /\ moving \notin {"quotas", "scaling"} => UNCHANGED resourceVars
  /\ moving # "images" => UNCHANGED imageVars
  /\ moving # "containers" => UNCHANGED containerVars
  /\ moving # "database" => UNCHANGED databaseVars
  /\ moving \notin {"lasting", "secured"} => UNCHANGED credentialVars
  /\ moving # "redis" => UNCHANGED redisVars
  /\ moving # "logins" => UNCHANGED loginVars
  /\ moving # "terminals" => UNCHANGED terminalVars
  /\ moving # "ingress" => UNCHANGED ingressVars

ServicesInit ==
  /\ part \in {"streams", "storage", "health", "monitors", "alerts", "quotas", "scaling",
               "images", "containers", "database", "lasting", "secured", "redis", "logins", "terminals",
               "ingress"}
  /\ StreamInit /\ StorageInit /\ HealthInit /\ MonitoringInit /\ QuotaInit /\ ScalingInit
  /\ ImageInit /\ ContainerInit /\ DatabaseInit /\ LastingInit /\ SecuredInit
  /\ RedisInit /\ LoginInit /\ TerminalInit /\ IngressInit
  /\ part # "secured" => keyFile = 0
  /\ part # "ingress" => writable

ServicesNext ==
  \/ StillBut("streams") /\ StreamNext
  \/ StillBut("storage") /\ StorageNext
  \/ StillBut("health") /\ HealthNext
  \/ StillBut("monitors") /\ MonitorNext
  \/ StillBut("alerts") /\ AlertNext
  \/ StillBut("quotas") /\ QuotaNext
  \/ StillBut("scaling") /\ ScalingNext
  \/ StillBut("images") /\ ImageNext
  \/ StillBut("containers") /\ ContainerNext
  \/ StillBut("database") /\ DatabaseNext
  \/ StillBut("lasting") /\ LastingNext
  \/ StillBut("secured") /\ SecuredNext
  \/ StillBut("redis") /\ RedisNext
  \/ StillBut("logins") /\ LoginNext
  \/ StillBut("terminals") /\ TerminalNext
  \/ StillBut("ingress") /\ IngressNext

servicesVars == <<part, streamVars, storageVars, healthVars, monitoringVars, resourceVars,
                  imageVars, containerVars, databaseVars, credentialVars,
                  redisVars, loginVars, terminalVars, ingressVars>>

ServicesSpec ==
  /\ ServicesInit /\ [][ServicesNext]_servicesVars
  /\ StreamFairness /\ StorageFairness /\ HealthFairness
  /\ DatabaseFairness /\ CredentialFairness
=============================================================================
