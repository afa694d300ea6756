------------------------------ MODULE Storage ------------------------------
(***************************************************************************)
(* Volumes, snapshots and backups (src/storage/storage_manager.py).        *)
(*                                                                         *)
(* A snapshot is a record: it names its volume and copies nothing, and a   *)
(* restore copies what the volume's directory holds by then.  A backup is  *)
(* made by a task, which checks that snapshot and volume are there, sleeps *)
(* and reports completion.  Nothing but that task suspends.                *)
(***************************************************************************)
EXTENDS PlatformIds, Integers, Sequences

CONSTANTS
  VolumePods,    \* the pods that get volumes
  MaxVolumes,    \* bounds on the volumes, snapshots and backups ever made
  MaxSnapshots,
  MaxBackups,
  MaxWrites      \* bound on the content a pod writes, which counts its writes

ASSUME StorageConstants ==
  /\ MaxVolumes \in Nat /\ MaxSnapshots \in Nat /\ MaxBackups \in Nat /\ MaxWrites \in Nat
  /\ VolumePods \subseteq Pods /\ None \notin Nat

VARIABLES
  volumes,     \* every volume made: the pod it is ephemeral for, the pod it is
               \* attached to, whether it is tracked, and what its directory holds
               \* (None where there is no directory or rmtree stopped half way)
  snapshots,   \* every snapshot: its volume, whether it is tracked
               \* and, as history, what the directory held when it was taken
  backups,     \* every backup: its snapshot and volume, its status, and whether
               \* its task is past the lookup
  restored,    \* history: the snapshot each volume was restored from
  quiet        \* history: snapshots whose volume has not changed since

storageVars == <<volumes, snapshots, backups, restored, quiet>>

----------------------------------------------------------------------------
VolumeIds == DOMAIN volumes

SnapshotIds == DOMAIN snapshots

Tracked(v) == volumes[v].tracked

NewVolume(for, pod, holds) == [for |-> for, attached |-> pod, tracked |-> TRUE, holds |-> holds]

SnapshotsOf(v) == {s \in SnapshotIds : snapshots[s].volume = v}

StorageInit ==
  /\ volumes = <<>>
  /\ snapshots = <<>>
  /\ backups = <<>>
  /\ restored = <<>>
  /\ quiet = {}

\* create_persistent_volume
CreatePersistentVolume ==
  /\ Len(volumes) < MaxVolumes
  /\ volumes' = Append(volumes, NewVolume(None, None, 0))
  /\ restored' = Append(restored, None)
  /\ UNCHANGED <<snapshots, backups, quiet>>

\* create_ephemeral_volume: created and attached.
CreateEphemeralVolume(p) ==
  /\ Len(volumes) < MaxVolumes
  /\ volumes' = Append(volumes, NewVolume(p, p, 0))
  /\ restored' = Append(restored, None)
  /\ UNCHANGED <<snapshots, backups, quiet>>

AttachVolumeToPod(v, p) ==
  /\ Tracked(v)
  /\ volumes[v].attached = None
  /\ volumes' = [volumes EXCEPT ![v].attached = p]
  /\ UNCHANGED <<snapshots, backups, restored, quiet>>

DetachVolumeFromPod(v, p) ==
  /\ Tracked(v)
  /\ volumes[v].attached = p
  /\ volumes' = [volumes EXCEPT ![v].attached = None]
  /\ UNCHANGED <<snapshots, backups, restored, quiet>>

\* External: a pod writes to a volume it is attached to.
Write(v) ==
  /\ Tracked(v) /\ volumes[v].attached # None
  /\ volumes[v].holds # None /\ volumes[v].holds < MaxWrites
  /\ volumes' = [volumes EXCEPT ![v].holds = @ + 1]
  /\ quiet' = quiet \ SnapshotsOf(v)
  /\ UNCHANGED <<snapshots, backups, restored>>

\* rmtree removes the directory, or raises with some, all or nothing of it gone.
Deletions(x) ==
  {[x EXCEPT !.holds = None, !.tracked = FALSE], [x EXCEPT !.holds = None], x}

Deletion(v) ==
  \E x \in Deletions(volumes[v]) :
    /\ volumes' = [volumes EXCEPT ![v] = x]
    /\ quiet' = quiet \ SnapshotsOf(v)

DeleteVolume(v) ==
  /\ Tracked(v)
  /\ volumes[v].attached = None
  /\ Deletion(v)
  /\ UNCHANGED <<snapshots, backups, restored>>

AttachedTo(p) == {v \in VolumeIds : Tracked(v) /\ volumes[v].attached = p}

\* cleanup_pod_volumes: every volume of the pod is detached, and those that are
\* named as its ephemeral ones are deleted.
CleanupPodVolumes(p) ==
  LET own == {v \in AttachedTo(p) : volumes[v].for = p}
      Left(v) == [volumes[v] EXCEPT !.attached = None] IN
  /\ AttachedTo(p) # {}
  /\ \E after \in [own -> UNION {Deletions(Left(v)) : v \in own}] :
       /\ \A v \in own : after[v] \in Deletions(Left(v))
       /\ volumes' = [v \in VolumeIds |-> IF v \in own THEN after[v]
                                        ELSE IF v \in AttachedTo(p) THEN Left(v) ELSE volumes[v]]
  /\ quiet' = quiet \ UNION {SnapshotsOf(v) : v \in own}
  /\ UNCHANGED <<snapshots, backups, restored>>

Snapshot(v) == [volume |-> v, tracked |-> TRUE, taken |-> volumes[v].holds]

CreateSnapshot(v) ==
  /\ Tracked(v)
  /\ Len(snapshots) < MaxSnapshots
  /\ snapshots' = Append(snapshots, Snapshot(v))
  /\ quiet' = quiet \cup {Len(snapshots) + 1}
  /\ UNCHANGED <<volumes, backups, restored>>

DeleteSnapshot(s) ==
  /\ snapshots[s].tracked
  /\ snapshots' = [snapshots EXCEPT ![s].tracked = FALSE]
  /\ UNCHANGED <<volumes, backups, restored, quiet>>

\* A variant that keeps what was copied before the error.
RestoreKeepsPart(s) ==
  /\ Len(volumes) < MaxVolumes
  /\ \E holds \in {volumes[snapshots[s].volume].holds, 0} \ {None} :
       volumes' = Append(volumes, NewVolume(None, None, holds))
  /\ restored' = Append(restored, s)

\* restore_snapshot: what the volume's directory holds is copied to a new one,
\* nothing if there is no directory.  If the copy fails the new volume is
\* deleted again; when that fails too it stays, and is nobody's restored volume.
Restore(s) ==
  LET holds == volumes[snapshots[s].volume].holds IN
  /\ Len(volumes) < MaxVolumes
  /\ \/ /\ volumes' = Append(volumes, NewVolume(None, None, IF holds = None THEN 0 ELSE holds))
        /\ restored' = Append(restored, s)
     \/ \E deleted \in BOOLEAN :
          /\ holds # None
          /\ volumes' = Append(volumes, [NewVolume(None, None, None) EXCEPT !.tracked = ~ deleted])
          /\ restored' = Append(restored, None)

RestoreSnapshot(s) ==
  /\ snapshots[s].tracked
  /\ Restore(s)
  /\ UNCHANGED <<snapshots, backups, quiet>>

\* create_backup, to a configured location: a snapshot, a record and a task.
CreateBackup(v) ==
  /\ Tracked(v)
  /\ Len(snapshots) < MaxSnapshots /\ Len(backups) < MaxBackups
  /\ snapshots' = Append(snapshots, Snapshot(v))
  /\ backups' = Append(backups, [snapshot |-> Len(snapshots) + 1, volume |-> v, status |-> "pending"])
  /\ quiet' = quiet \cup {Len(snapshots) + 1}
  /\ UNCHANGED <<volumes, restored>>

Available(b) == snapshots[backups[b].snapshot].tracked /\ Tracked(backups[b].volume)

\* A variant that looks the snapshot up only.
BackupBeginsBlindly(b) ==
  /\ backups[b].status = "pending"
  /\ backups' = [backups EXCEPT ![b].status =
                   IF snapshots[backups[b].snapshot].tracked THEN "in-progress" ELSE "failed"]
  /\ UNCHANGED <<volumes, snapshots, restored, quiet>>

\* _perform_backup, up to its sleep: the lookups raise when something is gone.
BackupBegins(b) ==
  /\ backups[b].status = "pending"
  /\ backups' = [backups EXCEPT ![b].status = IF Available(b) THEN "in-progress" ELSE "failed"]
  /\ UNCHANGED <<volumes, snapshots, restored, quiet>>

BackupEnds(b) ==
  /\ backups[b].status = "in-progress"
  /\ backups' = [backups EXCEPT ![b].status = "completed"]
  /\ UNCHANGED <<volumes, snapshots, restored, quiet>>

\* restore_backup, through the backup's snapshot.
RestoreBackup(b) ==
  /\ backups[b].status = "completed"
  /\ snapshots[backups[b].snapshot].tracked
  /\ Restore(backups[b].snapshot)
  /\ UNCHANGED <<snapshots, backups, quiet>>

StorageNext ==
  \/ CreatePersistentVolume
  \/ \E p \in VolumePods : CreateEphemeralVolume(p) \/ CleanupPodVolumes(p)
  \/ \E v \in VolumeIds :
       \/ \E p \in VolumePods : AttachVolumeToPod(v, p) \/ DetachVolumeFromPod(v, p)
       \/ Write(v) \/ DeleteVolume(v) \/ CreateSnapshot(v) \/ CreateBackup(v)
  \/ \E s \in SnapshotIds : DeleteSnapshot(s) \/ RestoreSnapshot(s)
  \/ \E b \in DOMAIN backups : BackupBegins(b) \/ BackupEnds(b) \/ RestoreBackup(b)

StorageSpec == StorageInit /\ [][StorageNext]_storageVars

\* A created task is run and woken from its sleep.
StorageFairness ==
  \A b \in 1..MaxBackups : WF_storageVars(b \in DOMAIN backups /\ (BackupBegins(b) \/ BackupEnds(b)))

----------------------------------------------------------------------------
\* A restored volume starts as the snapshot was taken, if the volume it was
\* taken of was left alone in between: a restore gives all of it or no volume.
\* (Otherwise it starts as that volume is by then, or empty.)
RestoredAsTaken ==
  \A v \in DOMAIN volumes' \ VolumeIds :
    restored'[v] # None /\ restored'[v] \in quiet /\ snapshots[restored'[v]].taken # None
      => volumes'[v].holds = snapshots[restored'[v]].taken

QuietSnapshotsRestore == [][RestoredAsTaken]_storageVars

\* Every backup comes to an end, and its verdict is that of the lookup: when the
\* snapshot or the volume was deleted before the task ran, it is not completed.
\* (What is deleted during the sleep goes unnoticed.)
BackupsSettle ==
  /\ \A b \in 1..MaxBackups :
       b \in DOMAIN backups ~> b \in DOMAIN backups /\ backups[b].status \in {"completed", "failed"}
  /\ [][\A b \in DOMAIN backups :
          backups[b].status = "pending" /\ ~ Available(b) =>
            backups'[b].status \in {"pending", "failed"}]_storageVars
=============================================================================
