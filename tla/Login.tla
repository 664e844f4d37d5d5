------------------------------- MODULE Login -------------------------------
(***************************************************************************)
(* Logging in (backend/app/core/auth.py): the server's threads take one    *)
(* request after the other, look at the throttle, ask the directory and    *)
(* come back to the throttle.                                              *)
(*                                                                         *)
(* A Key is what the throttle counts by: the name as it was typed, in      *)
(* small letters, and the address.  authenticate() gets the name without   *)
(* blanks, and the directory the name without its domain, so one account   *)
(* has as many keys as its name has spellings: what is said here of a key  *)
(* is not true of an account (README, section 5).                          *)
(*                                                                         *)
(* A failure is a member of Id with an age in minutes, for every key apart.*)
(* "Variant" marks a faulty version of the operation below it.             *)
(***************************************************************************)
EXTENDS Naturals, FiniteSets

CONSTANTS
    Key,            \* f"{body.username.lower()}|{client}"
    Thread,         \* threads that serve requests (external)
    Id,             \* bound: names for the failures of a key
    MaxFailures,    \* max_failures
    Window          \* window_seconds, in the model's unit

ASSUME LoginAssumption ==
    /\ IsFiniteSet(Thread) /\ Thread # {}
    /\ MaxFailures \in Nat \ {0} /\ Window \in Nat \ {0}

VARIABLES
    failures,   \* LoginThrottle._failures
    age,        \* how long ago each failure was, Window when that is long enough
    at,         \* where each thread is in login(), "idle" between two requests
    key,        \* the key of the request it serves or served last
    tried       \* wrong passwords of the last Window, since a restart and since a
                \* login of the key (the model's own note)

vars == <<failures, age, at, key, tried>>

Init ==
    /\ failures = [k \in Key |-> {}] /\ age = [k \in Key |-> [i \in Id |-> Window]]
    /\ at = [t \in Thread |-> "idle"] /\ key \in [Thread -> Key]
    /\ tried = [k \in Key |-> {}]

Goes(t, to) == at' = [at EXCEPT ![t] = to]
Trying(k) == {t \in Thread : at[t] # "idle" /\ key[t] = k}

\* _recent: the failures of the last Window.
Recent(k) == {i \in failures[k] : age[k][i] < Window}
Blocked(k) == Cardinality(Recent(k)) >= MaxFailures

\* A name for the next failure.
Free(k) == Id \ (Recent(k) \cup tried[k])
NextId(k) == CHOOSE i \in Free(k) : TRUE
Record(k, i) ==
    /\ failures' = [failures EXCEPT ![k] = Recent(k) \cup {i}]
    /\ age' = [age EXCEPT ![k] = [j \in Id |-> IF j = i THEN 0 ELSE age[k][j]]]

-----------------------------------------------------------------------------
\* Variant: a refused request counts as a failure.
RefuseAndCount(t, k) ==
    /\ at[t] = "idle" /\ Blocked(k) /\ Free(k) # {}
    /\ Record(k, NextId(k))
    /\ UNCHANGED <<at, key, tried>>

\* blocked: 429.  Looking drops what is too old.
Refuse(t, k) ==
    /\ at[t] = "idle" /\ Blocked(k)
    /\ failures' = [failures EXCEPT ![k] = Recent(k)]
    /\ UNCHANGED <<age, at, key, tried>>

\* blocked: not, and on to the directory.
Check(t, k) ==
    /\ at[t] = "idle" /\ ~Blocked(k)
    /\ failures' = [failures EXCEPT ![k] = Recent(k)]
    /\ Goes(t, "asking") /\ key' = [key EXCEPT ![t] = k]
    /\ UNCHANGED <<age, tried>>

\* authenticate: the local administrator or the directory.  An error of the
\* directory counts as a wrong password.
Authenticate(t) ==
    /\ at[t] = "asking"
    /\ Goes(t, "accepted") \/ Goes(t, "failed")
    /\ UNCHANGED <<failures, age, key, tried>>

\* Variant: only the last failure is kept.
FailAlone(t) ==
    LET k == key[t] i == NextId(key[t]) IN
    /\ at[t] = "failed" /\ Free(k) # {} /\ Goes(t, "idle")
    /\ failures' = [failures EXCEPT ![k] = {i}]
    /\ age' = [age EXCEPT ![k] = [j \in Id |-> IF j = i THEN 0 ELSE age[k][j]]]
    /\ tried' = [tried EXCEPT ![k] = tried[k] \cup {i}]
    /\ UNCHANGED key

\* fail, and the 401.
Fail(t) ==
    LET k == key[t] i == NextId(key[t]) IN
    /\ at[t] = "failed" /\ Free(k) # {} /\ Goes(t, "idle")
    /\ Record(k, i)
    /\ tried' = [tried EXCEPT ![k] = tried[k] \cup {i}]
    /\ UNCHANGED key

\* reset and the session.
Succeed(t) ==
    /\ at[t] = "accepted" /\ Goes(t, "idle")
    /\ failures' = [failures EXCEPT ![key[t]] = {}]
    /\ tried' = [tried EXCEPT ![key[t]] = {}]
    /\ UNCHANGED <<age, key>>

\* The throttle is in memory.
Restart ==
    /\ failures' = [k \in Key |-> {}] /\ tried' = [k \in Key |-> {}]
    /\ at' = [t \in Thread |-> "idle"]
    /\ UNCHANGED <<age, key>>

TimePasses ==
    /\ age' = [k \in Key |-> [i \in Id |-> IF age[k][i] < Window THEN age[k][i] + 1 ELSE Window]]
    /\ tried' = [k \in Key |-> {i \in tried[k] : age[k][i] + 1 < Window}]
    /\ UNCHANGED <<failures, at, key>>

Next ==
    \/ \E t \in Thread :
          \/ \E k \in Key : Refuse(t, k) \/ Check(t, k)
          \/ Authenticate(t) \/ Fail(t) \/ Succeed(t)
    \/ Restart \/ TimePasses

Spec == Init /\ [][Next]_vars

FairSpec == Spec /\ WF_vars(TimePasses)

-----------------------------------------------------------------------------
(* Properties                                                              *)

\* "Blocks a username/address pair after repeated failed logins"
\* (auth.py:41): the check and the record of a failure are two steps
\* (auth.py:161,165), so the requests of all threads may be between them, but
\* no more.  While nobody logs in with the key and the server is not
\* restarted, which both forget its failures, the wrong passwords of a window
\* and those under way are at most MaxFailures + Thread - 1.
GuessesBounded ==
    \A k \in Key :
        Cardinality(tried[k]) + Cardinality(Trying(k)) <= MaxFailures + Cardinality(Thread) - 1

\* A key that is blocked is let in again after a while, however many requests
\* are refused meanwhile and however late the ones let through before record
\* their failures: looking does not prolong the block (auth.py:49-57).
BlockEnds == \A k \in Key : Blocked(k) ~> ~Blocked(k)

=============================================================================
