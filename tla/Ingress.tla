------------------------------ MODULE Ingress ------------------------------
(***************************************************************************)
(* Public addresses of sessions: IngressRouter and NginxConfigGenerator    *)
(* (src/networking/router.py).  The address of a route is made of its      *)
(* domain and the first eight characters of its session's id, the name of  *)
(* its configuration file of those characters alone; sess-20250101... and  *)
(* all others of the decade share them.                                    *)
(*                                                                         *)
(* External: the file system.                                              *)
(***************************************************************************)
EXTENDS Naturals

CONSTANTS
  Routed,       \* session ids
  Subdomain,    \* session id -> its first eight characters
  Domains,
  TargetPorts,
  Unrouted      \* no route, or a file that nothing or half a route is in

ASSUME IngressConstants == DOMAIN Subdomain = Routed

VARIABLES
  routes,     \* IngressRouter.routes: the route of each address, or Unrouted
  writable,   \* os.access(config_dir, W_OK)
  files,      \* the configuration in each directory for each subdomain, or Unrouted
  unsaved     \* history: subdomains whose file was not written or not found once

ingressVars == <<routes, writable, files, unsaved>>

----------------------------------------------------------------------------
Subdomains == {Subdomain[s] : s \in Routed}

\* create_external_access makes the route.
RouteTo(s, d, port) == [session |-> s, domain |-> d, port |-> port]

Address(route) == <<Subdomain[route.session], route.domain>>

\* nginx reads the configured directory; the other one is written when that is
\* not writable.
Directory == IF writable THEN "conf.d" ELSE "nginx_configs"

IngressInit ==
  /\ routes = [a \in Subdomains \X Domains |-> Unrouted]
  /\ writable \in BOOLEAN
  /\ files = [d \in {"conf.d", "nginx_configs"} |-> [x \in Subdomains |-> Unrouted]]
  /\ unsaved = {}

\* register_route and save_config, which replaces the file.
RegisterRoute(route) ==
  /\ routes' = [routes EXCEPT ![Address(route)] = route]
  /\ files' = [files EXCEPT ![Directory][Subdomain[route.session]] = route]
  /\ UNCHANGED <<writable, unsaved>>

\* save_config swallows what goes wrong: opening the file, or writing it once it
\* is empty.  The address is handed out all the same.
SaveFails(route) ==
  LET x == Subdomain[route.session] IN
  /\ routes' = [routes EXCEPT ![Address(route)] = route]
  /\ \E left \in {files[Directory][x], Unrouted} : files' = [files EXCEPT ![Directory][x] = left]
  /\ unsaved' = unsaved \cup {x}
  /\ UNCHANGED writable

\* remove_config: the file goes whoever's route is in it.
RemoveConfig(Removed) ==
  files' = [files EXCEPT ![Directory] = [x \in Subdomains |-> IF x \in Removed THEN Unrouted ELSE @[x]]]

\* A variant that forgets the routes and leaves the files.
ForgetRoutes(A) ==
  /\ routes' = [a \in DOMAIN routes |-> IF a \in A THEN Unrouted ELSE routes[a]]
  /\ UNCHANGED <<writable, files, unsaved>>

\* unregister_route of each address that has a route.  When a file cannot be
\* removed it raises and keeps the route.
UnregisterRoutes(A) ==
  /\ RemoveConfig({a[1] : a \in {b \in A : routes[b] # Unrouted}})
  /\ routes' = [a \in DOMAIN routes |-> IF a \in A THEN Unrouted ELSE routes[a]]
  /\ UNCHANGED <<writable, unsaved>>

\* cleanup_network_with_retry is given the addresses; the first file that cannot
\* be removed ends it.
CleanupNetwork == \E A \in SUBSET DOMAIN routes : UnregisterRoutes(A)

\* The directory becomes writable, or no longer is: files in the other one are
\* not found from now on.
AccessChanges ==
  /\ writable' = ~ writable
  /\ unsaved' = unsaved \cup {x \in Subdomains : files[Directory][x] # Unrouted}
  /\ UNCHANGED <<routes, files>>

IngressNext ==
  \/ \E s \in Routed, d \in Domains, port \in TargetPorts :
       RegisterRoute(RouteTo(s, d, port)) \/ SaveFails(RouteTo(s, d, port))
  \/ CleanupNetwork
  \/ AccessChanges

IngressSpec == IngressInit /\ [][IngressNext]_ingressVars

----------------------------------------------------------------------------
\* Sessions share addresses and addresses share files, and routes come and go in
\* any order.  Still, whatever nginx is told is what its address was registered
\* for last: a file never outlives its route or names an older target, unless
\* the subdomain's file could not be written or found once.
FilesNameRoutes ==
  \A d \in DOMAIN files, x \in Subdomains \ unsaved :
     LET route == files[d][x] IN route # Unrouted => routes[Address(route)] = route
=============================================================================
