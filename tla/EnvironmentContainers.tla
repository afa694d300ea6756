------------------------ MODULE EnvironmentContainers ------------------------
(***************************************************************************)
(* The containers of environments (src/containers/orchestrator_enhanced.py).*)
(*                                                                         *)
(* EnhancedContainerOrchestrator does not suspend: a call is a step, and   *)
(* what is hard is that docker may refuse any part of it.  A container is  *)
(* tracked in _container_info, and known to the caller that was given it   *)
(* by create_environment_containers.  Security options, ports, images and  *)
(* logs are not modelled.                                                  *)
(***************************************************************************)
EXTENDS PlatformIds, Integers, Sequences, FiniteSets

CONSTANTS
  Environments,
  Services,         \* how many services an environment has
  MaxContainers     \* bound on the containers ever made

ASSUME ContainerConstants == Services \in Nat /\ MaxContainers \in Nat

VARIABLES
  containers,     \* docker: every container made: its environment and its state
  containerInfo,  \* _container_info, the containers it has entries for
  given,          \* what the caller has been given for each environment
  networks,       \* docker: the networks of environments that are there
  ended,          \* history: environments whose creation failed or that were destroyed
  kept,           \* history: containers docker refused to stop or remove then
  unnoticed       \* history: containers whose creation raised after they ran, or
                  \* that were removed by others

containerVars == <<containers, containerInfo, given, networks, ended, kept, unnoticed>>

----------------------------------------------------------------------------
Made == DOMAIN containers

Exists(c) == containers[c].state # "gone"

ContainerInit ==
  /\ containers = <<>>
  /\ containerInfo = {}
  /\ given = [e \in Environments |-> {}]
  /\ networks = Environments
  /\ ended = {}
  /\ kept = {}
  /\ unnoticed = {}

New(e, count) == [i \in 1..count |-> [of |-> e, state |-> "running"]]

\* The containers of S are removed, but for those docker refuses to remove; an
\* entry goes with its container, and is left when docker does not know that.
RemoveAll(made, S, refused) ==
  /\ containers' = [c \in DOMAIN made |-> IF c \in S \ refused THEN [made[c] EXCEPT !.state = "gone"]
                                        ELSE made[c]]
  /\ kept' = kept \cup {c \in refused : made[c].state # "gone"}

Forgotten(made, S, refused) == {c \in S \ refused : made[c].state # "gone"}

\* create_environment_containers, when every service gets its container.
CreateEnvironment(e) ==
  LET ids == (Len(containers) + 1)..(Len(containers) + Services) IN
  /\ given[e] = {} /\ e \notin ended
  /\ Len(containers) + Services <= MaxContainers
  /\ containers' = containers \o New(e, Services)
  /\ containerInfo' = containerInfo \cup ids
  /\ given' = [given EXCEPT ![e] = ids]
  /\ UNCHANGED <<networks, ended, kept, unnoticed>>

\* ... when the service after the first done is refused, by docker before (runs
\* is 0) or after (1) its container runs: the containers made are cleaned up,
\* errors being swallowed.  The container that runs has no entry and stays.
CreationFails(e, done, runs, refused) ==
  LET made == containers \o New(e, done + runs)
      ids == (Len(containers) + 1)..(Len(containers) + done) IN
  /\ given[e] = {} /\ e \notin ended
  /\ done < Services /\ Len(made) <= MaxContainers
  /\ refused \subseteq ids
  /\ RemoveAll(made, ids, refused)
  /\ containerInfo' = (containerInfo \cup ids) \ Forgotten(made, ids, refused)
  /\ unnoticed' = unnoticed \cup {c \in DOMAIN made : c > Len(containers) + done}
  /\ ended' = ended \cup {e}
  /\ UNCHANGED <<given, networks>>

\* ... and when the definition of that service is wrong: the exception passes the
\* handler, and nothing is cleaned up.
DefinitionFails(e, done) ==
  LET ids == (Len(containers) + 1)..(Len(containers) + done) IN
  /\ given[e] = {} /\ e \notin ended
  /\ done < Services /\ Len(containers) + done <= MaxContainers
  /\ containers' = containers \o New(e, done)
  /\ containerInfo' = containerInfo \cup ids
  /\ ended' = ended \cup {e}
  /\ kept' = kept \cup ids
  /\ UNCHANGED <<given, networks, unnoticed>>

\* destroy_environment with what the caller was given: every container is stopped
\* and removed, one that docker refuses to stop or remove is passed over, and so
\* is the network if docker refuses that.
DestroyEnvironment(e, refused, networkStays) ==
  /\ given[e] # {}
  /\ refused \subseteq {c \in given[e] : Exists(c)}
  /\ RemoveAll(containers, given[e], refused)
  /\ containerInfo' = containerInfo \ Forgotten(containers, given[e], refused)
  /\ given' = [given EXCEPT ![e] = {}]
  /\ ended' = ended \cup {e}
  /\ networks' = IF networkStays THEN networks ELSE networks \ {e}
  /\ UNCHANGED unnoticed

StartContainer(c) ==
  /\ containers[c].state = "exited"
  /\ containers' = [containers EXCEPT ![c].state = "running"]
  /\ UNCHANGED <<containerInfo, given, networks, ended, kept, unnoticed>>

\* Also what happens when the container's command ends.
StopContainer(c) ==
  /\ containers[c].state = "running"
  /\ containers' = [containers EXCEPT ![c].state = "exited"]
  /\ UNCHANGED <<containerInfo, given, networks, ended, kept, unnoticed>>

\* A variant that forgets the container before docker answers.
ForgetContainer(c) ==
  /\ Exists(c)
  /\ \/ containers' = [containers EXCEPT ![c].state = "gone"]
     \/ UNCHANGED containers
  /\ containerInfo' = containerInfo \ {c}
  /\ UNCHANGED <<given, networks, ended, kept, unnoticed>>

\* remove_container, also as cleanup_orphaned_containers calls it for every
\* labelled container that is a day old, tracked or not.
RemoveContainer(c) ==
  /\ Exists(c)
  /\ containers' = [containers EXCEPT ![c].state = "gone"]
  /\ containerInfo' = containerInfo \ {c}
  /\ UNCHANGED <<given, networks, ended, kept, unnoticed>>

\* External: someone else removes it.
ContainerVanishes(c) ==
  /\ Exists(c)
  /\ containers' = [containers EXCEPT ![c].state = "gone"]
  /\ unnoticed' = unnoticed \cup {c}
  /\ UNCHANGED <<containerInfo, given, networks, ended, kept>>

ContainerNext ==
  \/ \E e \in Environments :
       \/ CreateEnvironment(e)
       \/ \E done \in 0..Services :
            \/ DefinitionFails(e, done)
            \/ \E runs \in 0..1, refused \in SUBSET (1..MaxContainers) : CreationFails(e, done, runs, refused)
       \/ \E refused \in SUBSET Made, networkStays \in BOOLEAN :
            DestroyEnvironment(e, refused, networkStays)
  \/ \E c \in Made : StartContainer(c) \/ StopContainer(c) \/ RemoveContainer(c) \/ ContainerVanishes(c)

ContainerSpec == ContainerInit /\ [][ContainerNext]_containerVars

----------------------------------------------------------------------------
\* Every container is accounted for, through rollbacks, removals that docker refuses
\* and destroyed environments.  It has an entry exactly while it exists: only one
\* whose creation raised after it ran has none, and only one that others removed
\* keeps its entry, for good.  And once its environment's creation failed, or the
\* environment was destroyed, it is gone, unless docker refused to stop or remove
\* it, it is one without an entry or a later service was defined wrongly.
ContainersAreAccounted ==
  \A c \in Made \ unnoticed :
     /\ c \in containerInfo <=> Exists(c)
     /\ containers[c].of \in ended /\ Exists(c) => c \in kept
=============================================================================
