------------------------------- MODULE Logins -------------------------------
(***************************************************************************)
(* The limit on failed logins: AuthManager.authenticate_user               *)
(* (src/api/auth.py).  The limit is checked before the database is asked   *)
(* for the user and a failure is recorded after, so attempts overlap.      *)
(*                                                                         *)
(* External: the database, and passlib's verdict on a password.  A list of *)
(* failures that is missing and one that is empty answer alike.            *)
(***************************************************************************)
EXTENDS PlatformIds, Integers, Sequences, FiniteSets, SequenceFilter

CONSTANTS
  Accounts,         \* emails
  FailuresAllowed,  \* _max_failed_attempts
  LockoutTime,      \* _rate_limit_window
  MaxInstant,       \* bound on the clock
  MaxWrong          \* bound on the wrong passwords ever tried for an account

ASSUME LoginConstants ==
  /\ FailuresAllowed \in Nat \ {0} /\ LockoutTime \in Nat /\ MaxInstant \in Nat /\ MaxWrong \in Nat
  /\ None \notin Accounts /\ IsFiniteSet(Calls)

VARIABLES
  failures,   \* _failed_attempts: the times of an account's failures
  login,      \* the account each attempt awaits from the database, or None
  instant,    \* datetime.utcnow()
  judged,     \* history: the times of wrong passwords since the last right one
  refused     \* history: the account that was refused last, or None

loginVars == <<failures, login, instant, judged, refused>>

----------------------------------------------------------------------------
LoginInit ==
  /\ failures = [a \in Accounts |-> <<>>]
  /\ login = [k \in Calls |-> None]
  /\ instant = 0
  /\ judged = [a \in Accounts |-> <<>>]
  /\ refused = None

Lately(times) == OnlyIn(times, {t \in Int : instant - t < LockoutTime})

\* _check_rate_limit drops the old failures and counts the others.
Allowed(a) == Len(Lately(failures[a])) < FailuresAllowed

Prune(a) == failures' = [failures EXCEPT ![a] = Lately(@)]

\* authenticate_user, up to the await of the database.
StartLogin(k, a) ==
  /\ login[k] = None
  /\ Allowed(a)
  /\ Prune(a)
  /\ login' = [login EXCEPT ![k] = a]
  /\ refused' = None
  /\ UNCHANGED <<instant, judged>>

\* A variant that counts what it refuses as one more failure.
RefuseAndRecord(a) ==
  /\ ~ Allowed(a)
  /\ failures' = [failures EXCEPT ![a] = Append(Lately(@), instant)]
  /\ refused' = a
  /\ UNCHANGED <<login, instant, judged>>

\* 429: nothing is recorded.
RefuseLogin(a) ==
  /\ ~ Allowed(a)
  /\ Prune(a)
  /\ refused' = a
  /\ UNCHANGED <<login, instant, judged>>

\* _record_failed_attempt: there is no such user, or the password is wrong.
WrongPassword(k) ==
  LET a == login[k] IN
  /\ a # None
  /\ Len(judged[a]) < MaxWrong
  /\ failures' = [failures EXCEPT ![a] = Append(@, instant)]
  /\ judged' = [judged EXCEPT ![a] = Append(@, instant)]
  /\ login' = [login EXCEPT ![k] = None]
  /\ refused' = None
  /\ UNCHANGED instant

\* Success clears the failures, those recorded while it awaited the user too.
RightPassword(k) ==
  LET a == login[k] IN
  /\ a # None
  /\ failures' = [failures EXCEPT ![a] = <<>>]
  /\ judged' = [judged EXCEPT ![a] = <<>>]
  /\ login' = [login EXCEPT ![k] = None]
  /\ refused' = None
  /\ UNCHANGED instant

\* The user has no password_hash, or the database raises: nobody is let in and
\* nothing is recorded.
NoVerdict(k) ==
  /\ login[k] # None
  /\ login' = [login EXCEPT ![k] = None]
  /\ refused' = None
  /\ UNCHANGED <<failures, instant, judged>>

InstantPasses ==
  /\ instant < MaxInstant
  /\ instant' = instant + 1
  /\ refused' = None
  /\ UNCHANGED <<failures, login, judged>>

LoginNext ==
  \/ \E k \in Calls : \/ \E a \in Accounts : StartLogin(k, a)
                      \/ WrongPassword(k) \/ RightPassword(k) \/ NoVerdict(k)
  \/ \E a \in Accounts : RefuseLogin(a)
  \/ InstantPasses

LoginSpec == LoginInit /\ [][LoginNext]_loginVars

----------------------------------------------------------------------------
\* Guessing is limited although attempts overlap: within a window no more wrong
\* passwords are tried than the limit, but for one less than the attempts that
\* can be under way at once.  And the limit shuts out nobody else: an account is
\* refused only while the last window holds as many wrong passwords as are
\* allowed, however often it was refused meanwhile, and never right after it was
\* let in.
LoginsAreLimited ==
  /\ \A a \in Accounts : Len(Lately(judged[a])) < FailuresAllowed + Cardinality(Calls)
  /\ refused # None => Len(Lately(judged[refused])) >= FailuresAllowed
=============================================================================
