----------------------------- MODULE Credentials -----------------------------
(***************************************************************************)
(* The two stores of credentials: CredentialManager                        *)
(* (src/utils/security_enhanced.py), whose files a task deletes when their *)
(* time is over, and SecureCredentialStore                                 *)
(* (src/utils/credential_encryption.py), which encrypts its files with a   *)
(* key of its own file and keeps what it has read in memory.               *)
(*                                                                         *)
(* A restart ends the tasks and empties the memory.  The secure store puts *)
(* the time of expiry inside the encrypted data and looks for it outside,  *)
(* so that nothing expires there: it is not modelled.                      *)
(***************************************************************************)
EXTENDS PlatformIds, Integers

CONSTANTS
  Keys,           \* keys of CredentialManager
  Ttls,           \* ttl_minutes
  MaxMinute,      \* bound on the clock
  Twins,          \* bound on the tasks that wait for the same key and minute
  Ids,            \* ids of SecureCredentialStore
  Files,          \* its files
  FileOf,         \* _credential_file: ids that differ in separators share one
  Values,
  MaxRestarts     \* bound on the restarts

ASSUME CredentialConstants ==
  /\ Ttls \subseteq Nat \ {0} /\ MaxMinute \in Nat /\ MaxRestarts \in Nat
  /\ FileOf \in [Ids -> Files]
  /\ {None, "unknown"} \cap Values = {} /\ None # "unknown"
  /\ None \notin Nat \cup [value : Values \cup {None}, key : Nat \cup {None}]

VARIABLES
  lasting,      \* CredentialManager's files: the minute each is stored to last until
  cleanups,     \* the tasks of _schedule_cleanup: a key, the minute they wake in and
                \* which of the tasks of that key and minute it is
  minute,
  soonest,      \* history: the minute a task may delete each file in
  leftover,     \* history: the files no task will delete: the process ended, os.remove
                \* raised, or store_credential did and no other task waited
  secured,      \* SecureCredentialStore's files: value and encryption key
  cached,       \* _credentials
  key,          \* the encryption key in use, ...
  keyFile,      \* ... and the one in the key file
  restarts,
  expected      \* history: the value each id was stored with, None if it was deleted,
                \* "unknown" if that failed or another id has the file

lastingVars == <<lasting, cleanups, minute, soonest, leftover>>
securedVars == <<secured, cached, key, keyFile, restarts, expected>>

----------------------------------------------------------------------------
LastingInit ==
  /\ lasting = [k \in Keys |-> None]
  /\ cleanups = {}
  /\ minute = 0
  /\ soonest = [k \in Keys |-> None]
  /\ leftover = {}

\* When the tasks among the given ones that wait for a key wake.
Dues(k, tasks) == {c.due : c \in {d \in tasks : d.of = k}}

\* The file of a key goes at the earliest of the given times or, when there is none,
\* by no task.
Awaits(k, times) ==
  \/ /\ times = {}
     /\ soonest' = [soonest EXCEPT ![k] = None]
     /\ leftover' = leftover \cup {k}
  \/ \E t \in times :
       /\ \A u \in times : t <= u
       /\ soonest' = [soonest EXCEPT ![k] = t]
       /\ leftover' = leftover \ {k}

\* create_task of _schedule_cleanup.
Starts(k, due) ==
  \E t \in Twins :
    /\ [of |-> k, due |-> due, twin |-> t] \notin cleanups
    /\ cleanups' = cleanups \cup {[of |-> k, due |-> due, twin |-> t]}

\* A variant that schedules the deletion of every credential after the same time.
StoreForOneMinute(k, ttl) ==
  /\ lasting' = [lasting EXCEPT ![k] = minute + ttl]
  /\ Starts(k, minute + 1)
  /\ Awaits(k, {minute + ttl} \cup Dues(k, cleanups))
  /\ UNCHANGED <<minute, securedVars>>

\* store_credential: the file is overwritten, an earlier task goes on waiting.
StoreFor(k, ttl) ==
  /\ lasting' = [lasting EXCEPT ![k] = minute + ttl]
  /\ Starts(k, minute + ttl)
  /\ Awaits(k, {minute + ttl} \cup Dues(k, cleanups))
  /\ UNCHANGED <<minute, securedVars>>

\* store_credential, where the write raises once the file was emptied, or create_task
\* in a thread without an event loop: the file is left to the tasks of earlier calls.
\* (When the file cannot be opened nothing changes.)
StoreRaises(k, ttl) ==
  /\ lasting' = [lasting EXCEPT ![k] = minute + ttl]
  /\ Awaits(k, Dues(k, cleanups))
  /\ UNCHANGED <<cleanups, minute, securedVars>>

Gone(k) ==
  /\ lasting' = [lasting EXCEPT ![k] = None]
  /\ soonest' = [soonest EXCEPT ![k] = None]
  /\ leftover' = leftover \ {k}

DeleteLasting(k) ==
  /\ lasting[k] # None
  /\ Gone(k)
  /\ UNCHANGED <<cleanups, minute, securedVars>>

\* The sleep of a task is over: the file of its key is deleted, whenever it was
\* written, or os.remove raises and the file is left to the other tasks.
CleanUp(c) ==
  /\ c \in cleanups
  /\ c.due <= minute
  /\ cleanups' = cleanups \ {c}
  /\ \/ Gone(c.of)
     \/ /\ lasting[c.of] # None
        /\ Awaits(c.of, Dues(c.of, cleanups \ {c}))
        /\ UNCHANGED lasting
  /\ UNCHANGED <<minute, securedVars>>

MinutePasses ==
  /\ minute < MaxMinute
  /\ minute' = minute + 1
  /\ UNCHANGED <<lasting, cleanups, soonest, leftover, securedVars>>

\* The process ends, and with it the tasks.
RestartLasting ==
  /\ cleanups # {}
  /\ cleanups' = {}
  /\ leftover' = {k \in Keys : lasting[k] # None}
  /\ UNCHANGED <<lasting, minute, soonest, securedVars>>

LastingNext ==
  \/ \E k \in Keys : DeleteLasting(k) \/ \E ttl \in Ttls : StoreFor(k, ttl) \/ StoreRaises(k, ttl)
  \/ \E c \in cleanups : CleanUp(c)
  \/ MinutePasses \/ RestartLasting

LastDue == MaxMinute + CHOOSE t \in Ttls : \A u \in Ttls : u <= t

\* asyncio wakes the tasks whose sleep is over.
CredentialFairness ==
  \A k \in Keys, due \in 1..LastDue :
    WF_<<lastingVars, securedVars>>(\E c \in cleanups : c.of = k /\ c.due = due /\ CleanUp(c))

----------------------------------------------------------------------------
\* A file whose writing was interrupted.
Broken == [value |-> None, key |-> None]

SecuredInit ==
  /\ secured = [f \in Files |-> None]
  /\ cached = [i \in Ids |-> None]
  /\ key = 0
  /\ keyFile \in {0, None}
  /\ restarts = 0
  /\ expected = [i \in Ids |-> None]

\* The ids other than i that have its file.
Sharing(i) == {j \in Ids \ {i} : FileOf[j] = FileOf[i]}

Expect(i, v) == expected' = [j \in Ids |-> IF j = i THEN v ELSE IF j \in Sharing(i) THEN "unknown" ELSE expected[j]]

\* A variant that leaves the memory to the next retrieval.
StoreFileOnly(i, v) ==
  LET record == [value |-> v, key |-> key] IN
  /\ \/ /\ secured' = [secured EXCEPT ![FileOf[i]] = record]
        /\ Expect(i, v)
     \/ /\ secured' \in {[secured EXCEPT ![FileOf[i]] = Broken], secured}
        /\ Expect(i, "unknown")
  /\ UNCHANGED <<cached, key, keyFile, restarts, lastingVars>>

\* store_credential; an exception leaves the file as it was, or half written.
StoreSecured(i, v) ==
  LET record == [value |-> v, key |-> key] IN
  /\ \/ /\ secured' = [secured EXCEPT ![FileOf[i]] = record]
        /\ cached' = [cached EXCEPT ![i] = record]
        /\ Expect(i, v)
     \/ /\ secured' \in {[secured EXCEPT ![FileOf[i]] = Broken], secured}
        /\ Expect(i, "unknown")
        /\ UNCHANGED cached
  /\ UNCHANGED <<key, keyFile, restarts, lastingVars>>

\* A file that can be read, with the key that is in use.
Readable(f) == IF secured[f] \in {None, Broken} THEN FALSE ELSE secured[f].key = key

\* retrieve_credential of an id that is not in memory, also as cleanup_expired
\* calls it for every file.
RetrieveFromFile(i) ==
  /\ cached[i] = None
  /\ Readable(FileOf[i])
  /\ cached' = [cached EXCEPT ![i] = secured[FileOf[i]]]
  /\ UNCHANGED <<secured, key, keyFile, restarts, expected, lastingVars>>

\* delete_credential: from memory first, then the file, whose unlink may raise.
DeleteSecured(i) ==
  /\ cached' = [cached EXCEPT ![i] = None]
  /\ \/ secured' = [secured EXCEPT ![FileOf[i]] = None] /\ Expect(i, None)
     \/ secured[FileOf[i]] # None /\ Expect(i, "unknown") /\ UNCHANGED secured
  /\ UNCHANGED <<key, keyFile, restarts, lastingVars>>

\* _load_or_generate_key of the next process: the key of the file or, when there is
\* none or it cannot be read, a new one, which may or may not be saved.
RestartSecured ==
  /\ restarts < MaxRestarts
  /\ restarts' = restarts + 1
  /\ cached' = [i \in Ids |-> None]
  /\ \/ keyFile # None /\ key' = keyFile /\ UNCHANGED keyFile
     \/ key' = restarts + 1 /\ keyFile' \in {restarts + 1, keyFile}
  /\ UNCHANGED <<secured, expected, lastingVars>>

SecuredNext ==
  \/ \E i \in Ids :
       \/ \E v \in Values : StoreSecured(i, v)
       \/ RetrieveFromFile(i) \/ DeleteSecured(i)
  \/ RestartSecured

CredentialSpec ==
  /\ LastingInit /\ SecuredInit
  /\ [][LastingNext \/ SecuredNext]_<<lastingVars, securedVars>>

----------------------------------------------------------------------------
\* A task deletes the file of its key.
Deletes(k) == lasting[k] # None /\ lasting'[k] = None /\ cleanups' # cleanups

\* No task deletes a file before the time the file was stored for or, where it replaced
\* another whose task was waiting, before the time of that one: whichever is earlier.
\* A task knows its key only.
NotTooSoon == \A k \in Keys : Deletes(k) => minute >= soonest[k]

\* So it is with the deletions of CredentialManager, and no file outlives that time: it
\* stays only when the process ended before, when os.remove raised, or when
\* store_credential raised and no task of an earlier call waited.
CredentialsLastTheirTime ==
  /\ [][NotTooSoon]_<<lastingVars, securedVars>>
  /\ \A k \in Keys : []<>(lasting[k] # None /\ k \notin leftover => minute < soonest[k])

\* What retrieve_credential returns.
Retrieved(i) ==
  IF cached[i] # None THEN cached[i].value
  ELSE IF Readable(FileOf[i]) THEN secured[FileOf[i]].value ELSE None

\* A credential is retrieved as it was stored last and not after it was deleted,
\* from memory or from the file, before and after restarts.  It is lost with a
\* key that could not be saved or read, and nothing is promised after errors or to ids
\* whose names make the same file.
RetrievedAsStored ==
  \A i \in Ids :
    \/ expected[i] = "unknown"
    \/ Retrieved(i) = expected[i]
    \/ secured[FileOf[i]] \notin {None, Broken} /\ secured[FileOf[i]].key # key
=============================================================================
