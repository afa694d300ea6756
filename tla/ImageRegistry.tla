---------------------------- MODULE ImageRegistry ----------------------------
(***************************************************************************)
(* The images of one registry (src/registry/image_registry.py): docker's   *)
(* tags, the registry, the records of ImageRegistry.images and the cache   *)
(* files.                                                                  *)
(*                                                                         *)
(* push_image, pull_image and delete_image hold one asyncio.Lock.  Within  *)
(* it a push is suspended while its image is scanned, and both while a     *)
(* cache file is read or written; docker is called without suspending.     *)
(* Others use the same docker daemon at any time.  An image's size, digest *)
(* and scan results are not modelled.                                      *)
(***************************************************************************)
EXTENDS PlatformIds, Integers, FiniteSets

CONSTANTS
  ImageNames,
  ImageIds,
  MaxChanges      \* bound on what others do to docker and the registry

ASSUME ImageConstants == MaxChanges \in Nat /\ None \notin ImageIds

VARIABLES
  tags,         \* docker: the image under each name, local or of the registry
  remote,       \* the registry: the image under each name
  records,      \* ImageRegistry.images: the id of each name's record
  cacheFile,    \* the cache files: the first tag written in each, CutShort if the writing broke off
  task,         \* who has the lock, and what it is suspended in
  cleaning,     \* the names cleanup_old_images has yet to delete
  changes,      \* what others have done
  answer        \* history: the name whose image pull_image has just found or pulled

imageVars == <<tags, remote, records, cacheFile, task, cleaning, changes, answer>>

----------------------------------------------------------------------------
Local(n) == <<"local", n>>

Registry(n) == <<"registry", n>>

Tags == {Local(n) : n \in ImageNames} \cup {Registry(n) : n \in ImageNames}

\* What is in a file whose writing failed.
CutShort == <<"cut short", None>>

Free == [at |-> "free"]

ImageInit ==
  /\ tags = [t \in Tags |-> None]
  /\ remote = [n \in ImageNames |-> None]
  /\ records = [n \in ImageNames |-> None]
  /\ cacheFile = [n \in ImageNames |-> None]
  /\ task = Free
  /\ cleaning = {}
  /\ changes = 0
  /\ answer = None

\* The tags docker lists for the image under tag t, in an order of its own.
Aliases(t, docker) == {u \in Tags : docker[u] = docker[t]}

\* push_image, up to the scan.  The tag is set before the push; the push may
\* raise, and so may the reading of docker's attributes after it.
Push(n) ==
  LET id == tags[Local(n)] IN
  /\ task = Free
  /\ id # None
  /\ tags' = [tags EXCEPT ![Registry(n)] = id]
  /\ \/ UNCHANGED <<remote, task>>
     \/ /\ remote' = [remote EXCEPT ![n] = id]
        /\ task' \in {Free, [at |-> "scan", name |-> n, id |-> id]}
  /\ answer' = None
  /\ UNCHANGED <<records, cacheFile, cleaning, changes>>

\* _cache_image, up to the write: the first tag docker lists; no file if the
\* name is gone or docker raises.
CacheImage(n, docker) ==
  \/ task' = Free
  \/ /\ docker[Registry(n)] # None
     /\ \E t \in Aliases(Registry(n), docker) : task' = [at |-> "write", name |-> n, tag |-> t]

\* scan_image returns, with a result or an error, and the push goes on.
ScanReturns ==
  /\ task.at = "scan"
  /\ records' = [records EXCEPT ![task.name] = task.id]
  /\ CacheImage(task.name, tags)
  /\ answer' = None
  /\ UNCHANGED <<tags, remote, cacheFile, cleaning, changes>>

\* The file is written, or cannot be opened, or breaks off after it was truncated;
\* the error is swallowed.
CacheWritten ==
  /\ task.at = "write"
  /\ \E content \in {task.tag, cacheFile[task.name], CutShort} :
        cacheFile' = [cacheFile EXCEPT ![task.name] = content]
  /\ task' = Free
  /\ answer' = None
  /\ UNCHANGED <<tags, remote, records, cleaning, changes>>

\* The rest of pull_image after the cache has been looked at: nothing to do, or
\* the image is pulled, which may raise before or after it is there.
Fetch(n, hit, force) ==
  IF ~ force /\ (hit \/ tags[Registry(n)] # None)
  THEN /\ task' = Free
       /\ answer' = n
       /\ UNCHANGED <<tags, records>>
  ELSE LET pulled == [tags EXCEPT ![Registry(n)] = remote[n]] IN
       \/ /\ task' = Free
          /\ answer' = None
          /\ UNCHANGED <<tags, records>>
       \/ /\ remote[n] # None
          /\ tags' = pulled
          /\ \/ task' = Free /\ answer' = None /\ UNCHANGED records
             \/ /\ records' = [records EXCEPT ![n] = remote[n]]
                /\ answer' = n
                /\ CacheImage(n, pulled)

Pull(n, force) ==
  /\ task = Free
  /\ IF cacheFile[n] = None
     THEN Fetch(n, FALSE, force)
     ELSE /\ task' = [at |-> "read", name |-> n, force |-> force]
          /\ answer' = None
          /\ UNCHANGED <<tags, records>>
  /\ UNCHANGED <<remote, cacheFile, cleaning, changes>>

\* A variant that trusts the file.
TrustCache ==
  /\ task.at = "read"
  /\ Fetch(task.name, TRUE, task.force)
  /\ UNCHANGED <<remote, cacheFile, cleaning, changes>>

\* _get_cached_image has read the file: it counts while docker has an image under
\* the tag it names, and is deleted when docker has none.  A file that cannot be
\* read or parsed, and an error of docker's, count as no file; the file stays.
CacheRead ==
  LET file == cacheFile[task.name] IN
  /\ task.at = "read"
  /\ \/ UNCHANGED cacheFile /\ Fetch(task.name, FALSE, task.force)
     \/ /\ file # CutShort /\ tags[file] # None
        /\ UNCHANGED cacheFile /\ Fetch(task.name, TRUE, task.force)
     \/ /\ file # CutShort /\ tags[file] = None
        /\ cacheFile' = [cacheFile EXCEPT ![task.name] = None]
        /\ Fetch(task.name, FALSE, task.force)
  /\ UNCHANGED <<remote, cleaning, changes>>

\* delete_image: the image goes with all its tags, of other names too, while the
\* record and the file go for this name only.  docker may refuse, and when it does
\* not know the name nothing changes.
Delete(n) ==
  /\ task = Free
  /\ tags[Registry(n)] # None
  /\ tags' = [t \in Tags |-> IF tags[t] = tags[Registry(n)] THEN None ELSE tags[t]]
  /\ records' = [records EXCEPT ![n] = None]
  /\ cacheFile' = [cacheFile EXCEPT ![n] = None]
  /\ answer' = None
  /\ UNCHANGED <<remote, task, changes>>

DeleteImage(n) == Delete(n) /\ UNCHANGED cleaning

\* cleanup_old_images takes the names whose record is old enough, ...
StartCleanup(old) ==
  /\ cleaning = {}
  /\ \E ids \in SUBSET ImageIds : old = {n \in ImageNames : records[n] \in ids}
  /\ old # {}
  /\ cleaning' = old
  /\ answer' = None
  /\ UNCHANGED <<tags, remote, records, cacheFile, task, changes>>

\* ... and deletes one after the other, each under the lock, going on after errors.
CleanupNext(n) ==
  /\ n \in cleaning
  /\ cleaning' = cleaning \ {n}
  /\ \/ Delete(n)
     \/ /\ task = Free /\ answer' = None
        /\ UNCHANGED <<tags, remote, records, cacheFile, task, changes>>

\* External: a build, a tag or an untag.
DockerChanges(t, id) ==
  /\ changes < MaxChanges
  /\ tags[t] # id
  /\ changes' = changes + 1
  /\ tags' = [tags EXCEPT ![t] = id]
  /\ answer' = None
  /\ UNCHANGED <<remote, records, cacheFile, task, cleaning>>

\* External: another client pushes.
RegistryChanges(n, id) ==
  /\ changes < MaxChanges
  /\ changes' = changes + 1
  /\ remote' = [remote EXCEPT ![n] = id]
  /\ answer' = None
  /\ UNCHANGED <<tags, records, cacheFile, task, cleaning>>

ImageNext ==
  \/ \E n \in ImageNames : Push(n) \/ DeleteImage(n) \/ CleanupNext(n)
  \/ \E n \in ImageNames, force \in BOOLEAN : Pull(n, force)
  \/ ScanReturns \/ CacheWritten \/ CacheRead
  \/ \E old \in SUBSET ImageNames : StartCleanup(old)
  \/ \E t \in Tags, id \in ImageIds \cup {None} : DockerChanges(t, id)
  \/ \E n \in ImageNames, id \in ImageIds : RegistryChanges(n, id)

ImageSpec == ImageInit /\ [][ImageNext]_imageVars

----------------------------------------------------------------------------
\* A pull succeeds when docker has an image under the name, although the deletion
\* of another name of the image takes the tag and leaves the cache file.  The
\* exception is a file that names the image by another of its tags: that one
\* may be there alone, and the pull succeeds without an image under the name.
PullsDeliver ==
  answer # None =>
    tags[Registry(answer)] # None \/ cacheFile[answer] \in Tags \ {Registry(answer)}
=============================================================================
