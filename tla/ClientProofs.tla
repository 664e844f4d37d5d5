---------------------------- MODULE ClientProofs ----------------------------
(***************************************************************************)
(* What a client of the server meets: Login, for any keys and threads and  *)
(* any limit and window (how many passwords are tried with one key), and   *)
(* DetailDialog, for any devices and any number of requests under way      *)
(* (whose list and text the dialog shows).                                 *)
(***************************************************************************)
EXTENDS Login, DetailDialog, FiniteSetTheorems, TLAPS

Stages == {"idle", "asking", "accepted", "failed"}

TypeInv ==
    /\ failures \in [Key -> SUBSET Id] /\ tried \in [Key -> SUBSET Id]
    /\ age \in [Key -> [Id -> 0..Window]]
    /\ at \in [Thread -> Stages]
    /\ key \in [Thread -> Key]

\* The note of a wrong password is on record as a recent failure, and there is
\* room for no more than the bound.
GuessInv ==
    \A k \in Key :
        /\ tried[k] \subseteq Recent(k) /\ IsFiniteSet(failures[k])
        /\ Cardinality(tried[k]) + Cardinality(Trying(k)) <= MaxFailures + Cardinality(Thread) - 1

LEMMA TypeInit == Init => TypeInv
<1> SUFFICES ASSUME Init PROVE TypeInv
  OBVIOUS
<1>1. failures \in [Key -> SUBSET Id] /\ tried \in [Key -> SUBSET Id] /\ key \in [Thread -> Key]
  BY DEF Init
<1>2. age \in [Key -> [Id -> 0..Window]]
  BY LoginAssumption DEF Init
<1>3. at \in [Thread -> Stages]
  <2>1. "idle" \in Stages
    BY DEF Stages
  <2> QED
    BY <2>1 DEF Init
<1> QED
  BY <1>1, <1>2, <1>3 DEF TypeInv

\* A failure is recorded under a name that is free.
LEMMA NextIsFree == ASSUME NEW k \in Key, Free(k) # {} PROVE NextId(k) \in Free(k) /\ NextId(k) \in Id
BY DEF NextId, Free

LEMMA TypeStep == TypeInv /\ [Next]_vars => TypeInv'
<1> SUFFICES ASSUME TypeInv, [Next]_vars PROVE TypeInv'
  OBVIOUS
<1> USE LoginAssumption DEF TypeInv, Stages
<1>1. ASSUME NEW t \in Thread, NEW k \in Key, Refuse(t, k) \/ Check(t, k) PROVE TypeInv'
  <2>1. Recent(k) \subseteq Id /\ failures' = [failures EXCEPT ![k] = Recent(k)]
    BY <1>1 DEF Refuse, Check, Recent
  <2>2. failures' \in [Key -> SUBSET Id]
    BY <2>1
  <2>3. at' \in [Thread -> Stages] /\ key' \in [Thread -> Key]
    BY <1>1 DEF Refuse, Check, Goes
  <2>4. age' = age /\ tried' = tried
    BY <1>1 DEF Refuse, Check
  <2> QED
    BY <2>2, <2>3, <2>4
<1>2. ASSUME NEW t \in Thread, Authenticate(t) PROVE TypeInv'
  BY <1>2 DEF Authenticate, Goes
<1>3. ASSUME NEW t \in Thread, Fail(t) PROVE TypeInv'
  <2> DEFINE k == key[t]
             i == NextId(k)
  <2>1. k \in Key /\ i \in Id /\ Recent(k) \subseteq Id
    BY <1>3, NextIsFree DEF Fail, Recent
  <2>2. /\ failures' = [failures EXCEPT ![k] = Recent(k) \cup {i}]
        /\ age' = [age EXCEPT ![k] = [j \in Id |-> IF j = i THEN 0 ELSE age[k][j]]]
        /\ tried' = [tried EXCEPT ![k] = tried[k] \cup {i}]
        /\ at' = [at EXCEPT ![t] = "idle"] /\ key' = key
    BY <1>3 DEF Fail, Record, Goes
  <2> HIDE DEF i, k
  <2> QED
    BY <2>1, <2>2
<1>4. ASSUME NEW t \in Thread, Succeed(t) PROVE TypeInv'
  BY <1>4 DEF Succeed, Goes
<1>5. CASE Restart
  BY <1>5 DEF Restart
<1>6. CASE TimePasses
  <2>1. age' \in [Key -> [Id -> 0..Window]]
    BY <1>6 DEF TimePasses
  <2> QED
    BY <1>6, <2>1 DEF TimePasses
<1>7. CASE UNCHANGED vars
  BY <1>7 DEF vars
<1> QED
  BY <1>1, <1>2, <1>3, <1>4, <1>5, <1>6, <1>7 DEF Next

\* What is counted of a key is finite.
LEMMA Countable ==
    ASSUME TypeInv, GuessInv, NEW k \in Key
    PROVE  /\ IsFiniteSet(tried[k]) /\ IsFiniteSet(Trying(k)) /\ IsFiniteSet(Recent(k))
           /\ Cardinality(tried[k]) \in Nat /\ Cardinality(Trying(k)) \in Nat
           /\ Cardinality(Recent(k)) \in Nat /\ Cardinality(Thread) \in Nat
           /\ Cardinality(tried[k]) <= Cardinality(Recent(k))
           /\ Cardinality(Trying(k)) <= Cardinality(Thread)
<1>1. Recent(k) \subseteq failures[k] /\ Trying(k) \subseteq Thread
  BY DEF Recent, Trying
<1>2. IsFiniteSet(Recent(k)) /\ IsFiniteSet(Trying(k)) /\ Cardinality(Trying(k)) <= Cardinality(Thread)
  BY <1>1, FS_Subset, LoginAssumption DEF GuessInv
<1>3. IsFiniteSet(tried[k]) /\ Cardinality(tried[k]) <= Cardinality(Recent(k))
  BY <1>2, FS_Subset DEF GuessInv
<1> QED
  BY <1>2, <1>3, FS_CardinalityType, LoginAssumption

LEMMA GuessInit == Init => GuessInv
<1> SUFFICES ASSUME Init, NEW k \in Key
             PROVE  /\ tried[k] \subseteq Recent(k) /\ IsFiniteSet(failures[k])
                    /\ Cardinality(tried[k]) + Cardinality(Trying(k)) <= MaxFailures + Cardinality(Thread) - 1
  BY DEF GuessInv
<1>1. tried[k] = {} /\ failures[k] = {} /\ Trying(k) = {}
  BY DEF Init, Trying
<1>2. IsFiniteSet({}) /\ Cardinality({}) = 0
  BY FS_EmptySet
<1>3. Cardinality(Thread) \in Nat /\ Cardinality(Thread) # 0
  BY FS_CardinalityType, FS_EmptySet, LoginAssumption
<1> QED
  BY <1>1, <1>2, <1>3, LoginAssumption

\* A step that adds neither a note nor a request of any key.
LEMMA GuessFewer ==
    ASSUME TypeInv, GuessInv,
           \A k \in Key : /\ tried'[k] \subseteq tried[k] /\ Trying(k)' \subseteq Trying(k)
                          /\ IsFiniteSet(failures'[k]) /\ tried'[k] \subseteq Recent(k)'
    PROVE  GuessInv'
<1> SUFFICES ASSUME NEW k \in Key
             PROVE  Cardinality(tried'[k]) + Cardinality(Trying(k)') <= MaxFailures + Cardinality(Thread) - 1
  BY DEF GuessInv
<1>1. /\ Cardinality(tried'[k]) <= Cardinality(tried[k]) /\ Cardinality(Trying(k)') <= Cardinality(Trying(k))
      /\ IsFiniteSet(tried'[k]) /\ IsFiniteSet(Trying(k)')
  BY Countable, FS_Subset
<1>2. Cardinality(tried'[k]) \in Nat /\ Cardinality(Trying(k)') \in Nat
  BY <1>1, FS_CardinalityType
<1> QED
  BY <1>1, <1>2, Countable, LoginAssumption DEF GuessInv

\* The request that is let through saw fewer failures than are allowed, and it
\* is one of the threads.
LEMMA GuessCheck ==
    ASSUME TypeInv, GuessInv, NEW t \in Thread, NEW k \in Key, Check(t, k)
    PROVE  GuessInv'
<1> SUFFICES ASSUME NEW l \in Key
             PROVE  /\ tried'[l] \subseteq Recent(l)' /\ IsFiniteSet(failures'[l])
                    /\ Cardinality(tried'[l]) + Cardinality(Trying(l)') <= MaxFailures + Cardinality(Thread) - 1
  BY DEF GuessInv
<1>1. tried' = tried /\ Recent(l)' = Recent(l)
  BY DEF Check, Recent, TypeInv
<1>2. IsFiniteSet(failures'[l])
  <2>1. failures'[l] = IF l = k THEN Recent(k) ELSE failures[l]
    BY DEF Check, TypeInv
  <2>2. IsFiniteSet(Recent(k)) /\ IsFiniteSet(failures[l])
    BY Countable DEF GuessInv
  <2> QED
    BY <2>1, <2>2
<1>3. CASE l = k
  <2>0. Trying(l)' \subseteq Thread
    BY DEF Trying
  <2>1. Cardinality(Recent(k)) < MaxFailures
    <3>1. ~(Cardinality(Recent(k)) >= MaxFailures)
      BY DEF Check, Blocked
    <3>2. Cardinality(Recent(k)) \in Nat
      BY Countable
    <3> QED
      BY <3>1, <3>2, LoginAssumption
  <2>2. Cardinality(Trying(l)') <= Cardinality(Thread) /\ Cardinality(Trying(l)') \in Nat
    BY <2>0, FS_Subset, FS_CardinalityType, LoginAssumption
  <2> QED
    BY <1>1, <1>2, <1>3, <2>1, <2>2, Countable, LoginAssumption DEF GuessInv
<1>4. CASE l # k
  <2>1. Trying(l)' = Trying(l)
    BY <1>4 DEF Check, Goes, Trying, TypeInv
  <2> QED
    BY <1>1, <1>2, <2>1 DEF GuessInv
<1> QED
  BY <1>3, <1>4

\* The record of a failure turns a request under way into a note.
LEMMA GuessFail ==
    ASSUME TypeInv, GuessInv, NEW t \in Thread, Fail(t)
    PROVE  GuessInv'
<1> DEFINE k == key[t]
           i == NextId(k)
<1> SUFFICES ASSUME NEW l \in Key
             PROVE  /\ tried'[l] \subseteq Recent(l)' /\ IsFiniteSet(failures'[l])
                    /\ Cardinality(tried'[l]) + Cardinality(Trying(l)') <= MaxFailures + Cardinality(Thread) - 1
  BY DEF GuessInv
<1>1. /\ failures' = [failures EXCEPT ![k] = Recent(k) \cup {i}]
      /\ age' = [age EXCEPT ![k] = [j \in Id |-> IF j = i THEN 0 ELSE age[k][j]]]
      /\ tried' = [tried EXCEPT ![k] = tried[k] \cup {i}]
      /\ at' = [at EXCEPT ![t] = "idle"] /\ key' = key /\ at[t] = "failed"
  BY DEF Fail, Record, Goes
<1>2. k \in Key /\ i \in Id
  BY NextIsFree DEF Fail, TypeInv
<1> HIDE DEF i
<1>3. CASE l = k
  <2>1. Recent(l)' = Recent(l) \cup {i}
    BY <1>1, <1>2, <1>3, LoginAssumption DEF Recent, TypeInv
  <2>2. IsFiniteSet(failures'[l])
    BY <1>1, <1>2, <1>3, Countable, FS_AddElement DEF TypeInv
  <2>3. tried'[l] = tried[l] \cup {i} /\ tried'[l] \subseteq Recent(l)'
    BY <1>1, <1>2, <1>3, <2>1 DEF TypeInv, GuessInv
  <2>4. Cardinality(tried'[l]) \in Nat /\ Cardinality(tried'[l]) <= Cardinality(tried[l]) + 1
    <3>1. IsFiniteSet(tried[l] \cup {i})
      BY Countable, FS_AddElement
    <3>2. Cardinality(tried[l] \cup {i})
              = IF i \in tried[l] THEN Cardinality(tried[l]) ELSE Cardinality(tried[l]) + 1
      BY Countable, FS_AddElement
    <3> QED
      BY <2>3, <3>1, <3>2, Countable, FS_CardinalityType
  <2>5. Trying(l)' = Trying(l) \ {t} /\ t \in Trying(l)
    BY <1>1, <1>3 DEF Trying, TypeInv
  <2>6. Cardinality(Trying(l)') = Cardinality(Trying(l)) - 1
    BY <2>5, Countable, FS_RemoveElement
  <2> QED
    BY <2>2, <2>3, <2>4, <2>6, Countable, LoginAssumption DEF GuessInv
<1>4. CASE l # k
  <2>1. Trying(l)' = Trying(l)
    BY <1>1, <1>4 DEF Trying, TypeInv
  <2>2. tried'[l] = tried[l] /\ failures'[l] = failures[l] /\ Recent(l)' = Recent(l)
    BY <1>1, <1>4 DEF Recent, TypeInv
  <2> QED
    BY <2>1, <2>2 DEF GuessInv
<1> QED
  BY <1>3, <1>4

LEMMA GuessStep == TypeInv /\ GuessInv /\ [Next]_vars => GuessInv'
<1> SUFFICES ASSUME TypeInv, GuessInv, [Next]_vars PROVE GuessInv'
  OBVIOUS
<1>0. IsFiniteSet({})
  BY FS_EmptySet
<1>1. ASSUME NEW t \in Thread, NEW k \in Key, Refuse(t, k) PROVE GuessInv'
  <2> SUFFICES ASSUME NEW l \in Key
               PROVE  /\ tried'[l] = tried[l] /\ Trying(l)' = Trying(l)
                      /\ IsFiniteSet(failures'[l]) /\ Recent(l)' = Recent(l)
    BY GuessFewer DEF GuessInv
  <2>1. tried'[l] = tried[l] /\ Trying(l)' = Trying(l) /\ Recent(l)' = Recent(l)
    BY <1>1 DEF Refuse, Recent, Trying, TypeInv
  <2>2. IsFiniteSet(failures'[l])
    BY <1>1, Countable DEF Refuse, TypeInv, GuessInv
  <2> QED
    BY <2>1, <2>2
<1>2. ASSUME NEW t \in Thread, Authenticate(t) PROVE GuessInv'
  <2>1. \A k \in Key : Trying(k)' = Trying(k) /\ Recent(k)' = Recent(k)
    BY <1>2 DEF Authenticate, Goes, Trying, Recent, TypeInv
  <2> QED
    BY <1>2, <2>1, GuessFewer DEF Authenticate, GuessInv
<1>3. ASSUME NEW t \in Thread, Succeed(t) PROVE GuessInv'
  <2> SUFFICES ASSUME NEW l \in Key
               PROVE  /\ tried'[l] \subseteq tried[l] /\ Trying(l)' \subseteq Trying(l)
                      /\ IsFiniteSet(failures'[l]) /\ tried'[l] \subseteq Recent(l)'
    BY GuessFewer
  <2>1. Trying(l)' \subseteq Trying(l)
    BY <1>3 DEF Succeed, Goes, Trying, TypeInv
  <2>2. CASE l = key[t]
    BY <1>0, <1>3, <2>1, <2>2 DEF Succeed, TypeInv
  <2>3. CASE l # key[t]
    BY <1>3, <2>1, <2>3 DEF Succeed, TypeInv, GuessInv, Recent
  <2> QED
    BY <2>2, <2>3
<1>4. CASE Restart
  <2>1. \A k \in Key : tried'[k] = {} /\ failures'[k] = {} /\ Trying(k)' = {}
    BY <1>4 DEF Restart, Trying
  <2> QED
    BY <1>0, <2>1, GuessFewer
<1>5. CASE TimePasses
  <2> SUFFICES ASSUME NEW l \in Key
               PROVE  /\ tried'[l] \subseteq tried[l] /\ Trying(l)' = Trying(l)
                      /\ failures'[l] = failures[l] /\ tried'[l] \subseteq Recent(l)'
    BY GuessFewer DEF GuessInv
  <2>1. tried'[l] \subseteq tried[l] /\ Trying(l)' = Trying(l) /\ failures'[l] = failures[l]
    BY <1>5 DEF TimePasses, Trying
  <2>2. ASSUME NEW i \in tried'[l] PROVE i \in Recent(l)'
    <3>1. i \in Id /\ i \in failures[l] /\ age[l][i] \in 0..Window /\ age[l][i] + 1 < Window
      BY <1>5, <2>1, <2>2 DEF TimePasses, GuessInv, Recent, TypeInv
    <3> QED
      BY <1>5, <2>1, <3>1, LoginAssumption DEF TimePasses, Recent
  <2> QED
    BY <2>1, <2>2
<1>6. CASE UNCHANGED vars
  <2>1. \A k \in Key : Trying(k)' = Trying(k) /\ Recent(k)' = Recent(k)
    BY <1>6 DEF vars, Trying, Recent
  <2> QED
    BY <1>6, <2>1, GuessFewer DEF vars, GuessInv
<1> QED
  BY <1>1, <1>2, <1>3, <1>4, <1>5, <1>6, GuessCheck, GuessFail DEF Next

\* The check and the record of a failure are two steps around the directory's
\* answer (auth.py:160-166): the wrong passwords of one key, those of a window
\* and those under way, are at most MaxFailures and one less than the threads
\* as long as no login and no restart forgets them.
THEOREM GuessesAreBounded == Spec => []GuessesBounded
<1>1. GuessInv => GuessesBounded
  BY DEF GuessInv, GuessesBounded
<1> QED
  BY <1>1, TypeInit, TypeStep, GuessInit, GuessStep, PTL DEF Spec

-----------------------------------------------------------------------------
(* The dialog                                                              *)

AnyRequest == [for : {"runs", "versions", "text", "download"}, device : Device]

DialogTyped ==
    /\ requests \in Seq(AnyRequest)
    /\ open \in BOOLEAN /\ tab \in {"runs", "versions"}
    /\ open => detailDevice \in Device

\* A request under way is of the device in the title, or was noted.
AskedFor(q, d, noted) ==
    \/ q.device = d \/ q.for = "download" \/ q.for \in noted
    \/ q.for = "text" /\ "versions" \in noted

RequestsSound == \A i \in DOMAIN requests : AskedFor(requests[i], detailDevice, crossed)

\* What the list of the selected tab shows, or is going to show.
ListSound ==
    open => \/ Shown \in {detailDevice, "error"}
            \/ Shown = "loading" /\ \E i \in DOMAIN requests : requests[i].for = tab
            \/ tab \in crossed

TextSound == (text # none /\ crossed \cap {"text", "versions"} = {}) => text = detailDevice

DialogInv == DialogTyped /\ RequestsSound /\ ListSound /\ TextSound

\* The steps that ask: the new request joins those under way.
LEMMA Asked ==
    ASSUME NEW for \in {"runs", "versions", "text", "download"}, NEW d \in Device,
           requests \in Seq(AnyRequest), Ask(for, d)
    PROVE  /\ requests' \in Seq(AnyRequest)
           /\ DOMAIN requests' = 1..(Len(requests) + 1)
           /\ requests'[Len(requests) + 1] = [for |-> for, device |-> d]
           /\ \A i \in DOMAIN requests : i \in DOMAIN requests' /\ requests'[i] = requests[i]
           /\ \A i \in DOMAIN requests' : i \in DOMAIN requests \/ i = Len(requests) + 1
<1>1. [for |-> for, device |-> d] \in AnyRequest  BY DEF AnyRequest
<1>2. requests' = Append(requests, [for |-> for, device |-> d])  BY DEF Ask
<1> QED  BY <1>1, <1>2

LEMMA Cut ==
    ASSUME NEW S, NEW s \in Seq(S), NEW m \in 1..(Len(s) + 1), NEW n \in 0..Len(s)
    PROVE  /\ SubSeq(s, m, n) \in Seq(S)
           /\ Len(SubSeq(s, m, n)) = IF m <= n THEN n - m + 1 ELSE 0
           /\ \A i \in 1..(n - m + 1) : SubSeq(s, m, n)[i] = s[m + i - 1]
OBVIOUS

\* The steps that are answered: one request goes, the others stay.
LEMMA Removed ==
    ASSUME requests \in Seq(AnyRequest), NEW k \in 1..Len(requests),
           requests' = RemoveAt(requests, k)
    PROVE  /\ requests' \in Seq(AnyRequest)
           /\ \A i \in DOMAIN requests' : \E j \in DOMAIN requests : requests'[i] = requests[j]
           /\ \A j \in DOMAIN requests : j # k => \E i \in DOMAIN requests' : requests'[i] = requests[j]
<1> DEFINE n == Len(requests)
           a == SubSeq(requests, 1, k - 1)
           b == SubSeq(requests, k + 1, n)
<1>1. n \in Nat /\ k \in 1..n /\ DOMAIN requests = 1..n  OBVIOUS
<1>4. requests' = a \o b  BY DEF RemoveAt
<1>2. /\ a \in Seq(AnyRequest) /\ Len(a) = k - 1
      /\ \A i \in 1..(k - 1) : a[i] = requests[i]
  <2>1. 1 \in 1..(n + 1) /\ k - 1 \in 0..n  BY <1>1
  <2>2. /\ a \in Seq(AnyRequest) /\ Len(a) = IF 1 <= k - 1 THEN (k - 1) - 1 + 1 ELSE 0
        /\ \A i \in 1..((k - 1) - 1 + 1) : a[i] = requests[1 + i - 1]
    BY <2>1, Cut
  <2> HIDE DEF a
  <2> QED  BY <2>2, <1>1
<1>3. /\ b \in Seq(AnyRequest) /\ Len(b) = n - k
      /\ \A i \in 1..(n - k) : b[i] = requests[k + i]
  <2>1. k + 1 \in 1..(n + 1) /\ n \in 0..n  BY <1>1
  <2>2. /\ b \in Seq(AnyRequest) /\ Len(b) = IF k + 1 <= n THEN n - (k + 1) + 1 ELSE 0
        /\ \A i \in 1..(n - (k + 1) + 1) : b[i] = requests[(k + 1) + i - 1]
    BY <2>1, Cut
  <2> HIDE DEF b, n
  <2>3. /\ n - (k + 1) + 1 = n - k /\ (k + 1 <= n \/ n - k = 0)
        /\ \A i \in 1..(n - k) : (k + 1) + i - 1 = k + i
    BY <1>1
  <2> QED  BY <2>2, <2>3, <1>1
<1> HIDE DEF a, b, n
<1>5. /\ requests' \in Seq(AnyRequest) /\ DOMAIN requests' = 1..(n - 1)
      /\ \A i \in 1..(n - 1) : requests'[i] = IF i < k THEN a[i] ELSE b[i - (k - 1)]
  BY <1>1, <1>2, <1>3, <1>4
<1>6. ASSUME NEW i \in 1..(n - 1)
      PROVE  requests'[i] = IF i < k THEN requests[i] ELSE requests[i + 1]
  <2>1. CASE i < k
    <3>1. i \in 1..(k - 1)  BY <2>1, <1>1
    <3> QED  BY <2>1, <3>1, <1>2, <1>5
  <2>2. CASE ~(i < k)
    <3>1. i - (k - 1) \in 1..(n - k) /\ k + (i - (k - 1)) = i + 1  BY <2>2, <1>1
    <3>2. requests'[i] = b[i - (k - 1)]  BY <2>2, <1>5
    <3> QED  BY <2>2, <3>1, <3>2, <1>3
  <2> QED  BY <2>1, <2>2
<1>7. ASSUME NEW i \in DOMAIN requests'
      PROVE  \E j \in DOMAIN requests : requests'[i] = requests[j]
  <2>1. CASE i < k  BY <2>1, <1>1, <1>5, <1>6
  <2>2. CASE i >= k
    <3>1. i + 1 \in DOMAIN requests /\ requests'[i] = requests[i + 1]  BY <2>2, <1>1, <1>5, <1>6
    <3> QED  BY <3>1
  <2> QED  BY <2>1, <2>2, <1>5
<1>8. ASSUME NEW j \in DOMAIN requests, j # k
      PROVE  \E i \in DOMAIN requests' : requests'[i] = requests[j]
  <2>1. CASE j < k  BY <2>1, <1>1, <1>5, <1>6
  <2>2. CASE j > k
    <3>1. j - 1 \in DOMAIN requests' /\ requests'[j - 1] = requests[j]
      BY <2>2, <1>1, <1>5, <1>6
    <3> QED  BY <3>1
  <2> QED  BY <2>1, <2>2, <1>1, <1>8
<1> QED  BY <1>5, <1>7, <1>8

\* Loading a list anew notes the requests of other devices that are under way.
LEMMA CrossNotes ==
    ASSUME NEW t, NEW d, requests \in Seq(AnyRequest), Cross(t, d)
    PROVE  /\ \A i \in DOMAIN requests : requests[i].device = d \/ requests[i].for \in crossed'
           /\ \A x \in crossed : x \notin {t, "text"} => x \in crossed'
<1>1. crossed' = (crossed \ {t, "text"}) \cup {q.for : q \in {p \in Range(requests) : p.device # d}}
  BY DEF Cross
<1>2. \A i \in DOMAIN requests : requests[i] \in Range(requests)
  BY DEF Range
<1> QED  BY <1>1, <1>2

\* Loading a list anew is sound whatever was there before.
LEMMA LoadsAnew ==
    ASSUME DialogTyped, NEW t \in {"runs", "versions"}, NEW d \in Device,
           Ask(t, d), Cross(t, d),
           open' = TRUE, detailDevice' = d, tab' = t, text' = none,
           IF t = "runs" THEN runs' = "loading" ELSE versions' = "loading"
    PROVE  DialogInv'
<1>0. requests \in Seq(AnyRequest)  BY DEF DialogTyped
<1>1. /\ requests' \in Seq(AnyRequest)
      /\ DOMAIN requests' = 1..(Len(requests) + 1)
      /\ requests'[Len(requests) + 1] = [for |-> t, device |-> d]
      /\ \A i \in DOMAIN requests : i \in DOMAIN requests' /\ requests'[i] = requests[i]
      /\ \A i \in DOMAIN requests' : i \in DOMAIN requests \/ i = Len(requests) + 1
  BY <1>0, Asked
<1>2. \A i \in DOMAIN requests : requests[i].device = d \/ requests[i].for \in crossed'
  BY <1>0, CrossNotes
<1>3. DialogTyped'  BY <1>1 DEF DialogTyped
<1>4. RequestsSound'
  <2> SUFFICES ASSUME NEW i \in DOMAIN requests'
               PROVE  AskedFor(requests'[i], detailDevice', crossed')
    BY DEF RequestsSound
  <2>1. CASE i \in DOMAIN requests  BY <2>1, <1>1, <1>2 DEF AskedFor
  <2>2. CASE i = Len(requests) + 1  BY <2>2, <1>1 DEF AskedFor
  <2> QED  BY <2>1, <2>2, <1>1
<1>5. ListSound'
  <2>1. Shown' = "loading"  BY DEF Shown
  <2>2. Len(requests) + 1 \in DOMAIN requests' /\ requests'[Len(requests) + 1].for = tab'
    BY <1>0, <1>1
  <2> QED  BY <2>1, <2>2 DEF ListSound
<1>6. TextSound'  BY DEF TextSound
<1> QED  BY <1>3, <1>4, <1>5, <1>6 DEF DialogInv

\* A button of the version list asks for what the list was loaded for, and
\* fills neither list.
LEMMA AsksForText ==
    ASSUME DialogInv, Listed,
           NEW for \in {"text", "download"}, Ask(for, versions),
           UNCHANGED <<open, detailDevice, tab, runs, versions, text, crossed>>
    PROVE  DialogInv'
<1>0. requests \in Seq(AnyRequest) /\ versions \in Device /\ open /\ tab = "versions"
  BY DEF DialogInv, DialogTyped, Listed
<1>1. /\ requests' \in Seq(AnyRequest)
      /\ DOMAIN requests' = 1..(Len(requests) + 1)
      /\ requests'[Len(requests) + 1] = [for |-> for, device |-> versions]
      /\ \A i \in DOMAIN requests : i \in DOMAIN requests' /\ requests'[i] = requests[i]
      /\ \A i \in DOMAIN requests' : i \in DOMAIN requests \/ i = Len(requests) + 1
  BY <1>0, Asked
<1>2. versions = detailDevice \/ "versions" \in crossed
  BY <1>0, DialogAssumption DEF DialogInv, ListSound, Shown
<1>3. DialogTyped'  BY <1>1 DEF DialogInv, DialogTyped
<1>4. RequestsSound'
  <2> SUFFICES ASSUME NEW i \in DOMAIN requests'
               PROVE  AskedFor(requests'[i], detailDevice', crossed')
    BY DEF RequestsSound
  <2>1. CASE i \in DOMAIN requests  BY <2>1, <1>1 DEF DialogInv, RequestsSound
  <2>2. CASE i = Len(requests) + 1  BY <2>2, <1>1, <1>2 DEF AskedFor
  <2> QED  BY <2>1, <2>2, <1>1
<1>5. ListSound'
  <2>1. Shown' = Shown  BY DEF Shown
  <2> QED  BY <2>1, <1>1 DEF DialogInv, ListSound
<1>6. TextSound'  BY DEF DialogInv, TextSound
<1> QED  BY <1>3, <1>4, <1>5, <1>6 DEF DialogInv

\* An answer fills what it was asked for, or an error does; no note is taken.
LEMMA AnswerFits ==
    ASSUME DialogInv, NEW k \in 1..MaxRequests, Answer(k)
    PROVE  DialogInv'
<1>1. /\ requests \in Seq(AnyRequest) /\ k \in 1..Len(requests)
      /\ requests' = RemoveAt(requests, k)
      /\ UNCHANGED <<open, detailDevice, tab, crossed>>
  BY DEF DialogInv, DialogTyped, Answer, Answered, Failed, Due
<1>2. /\ requests' \in Seq(AnyRequest)
      /\ \A i \in DOMAIN requests' : \E j \in DOMAIN requests : requests'[i] = requests[j]
      /\ \A j \in DOMAIN requests : j # k => \E i \in DOMAIN requests' : requests'[i] = requests[j]
  BY <1>1, Removed
<1>3. k \in DOMAIN requests /\ AskedFor(requests[k], detailDevice, crossed)
  BY <1>1 DEF DialogInv, RequestsSound
<1>4. DialogTyped'  BY <1>1, <1>2 DEF DialogInv, DialogTyped
<1>5. RequestsSound'  BY <1>1, <1>2 DEF DialogInv, RequestsSound
<1>6. ListSound'
  <2> SUFFICES ASSUME open, tab \notin crossed
               PROVE  \/ Shown' \in {detailDevice, "error"}
                      \/ Shown' = "loading" /\ \E i \in DOMAIN requests' : requests'[i].for = tab
    BY <1>1 DEF ListSound
  <2>1. tab \in {"runs", "versions"}  BY DEF DialogInv, DialogTyped
  <2>2. CASE requests[k].for = tab
    <3>1. requests[k].device = detailDevice  BY <2>1, <2>2, <1>3 DEF AskedFor
    <3>2. Shown' \in {requests[k].device, "error"}
      BY <2>1, <2>2, <1>1 DEF Shown, Answer, Answered, Failed
    <3> QED  BY <3>1, <3>2
  <2>3. CASE requests[k].for # tab
    <3>1. Shown' = Shown
      BY <2>1, <2>3, <1>1 DEF Shown, Answer, Answered, Failed
    <3>2. \A j \in DOMAIN requests : requests[j].for = tab =>
             \E i \in DOMAIN requests' : requests'[i].for = tab
      BY <2>3, <1>2
    <3> QED  BY <3>1, <3>2 DEF DialogInv, ListSound
  <2> QED  BY <2>2, <2>3
<1>7. TextSound'
  BY <1>1, <1>3 DEF DialogInv, TextSound, AskedFor, Answer, Answered, Failed
<1> QED  BY <1>4, <1>5, <1>6, <1>7 DEF DialogInv

\* Once every answer is there, the list under a device's title is that
\* device's, and a text is never another's, unless requests of two devices
\* crossed: loadRuns, loadVersions and showConfig write what they get into the
\* dialog that is shown by then (app.js:348-425).
THEOREM DialogShowsItsDevice == DialogSpec => []ListIsOwn
<1>1. DialogInit => DialogInv
  <2> SUFFICES ASSUME DialogInit
               PROVE  DialogInv
    OBVIOUS
  <2>1. requests \in Seq(AnyRequest) /\ DOMAIN requests = {}  BY DEF DialogInit
  <2>2. RequestsSound  BY <2>1 DEF RequestsSound
  <2>3. DialogTyped /\ ListSound /\ TextSound
    BY <2>1 DEF DialogInit, DialogTyped, ListSound, TextSound
  <2> QED  BY <2>2, <2>3 DEF DialogInv
<1>2. DialogInv /\ [DialogNext]_dialogVars => DialogInv'
  <2> SUFFICES ASSUME DialogInv, [DialogNext]_dialogVars
               PROVE  DialogInv'
    OBVIOUS
  <2>1. ASSUME NEW d \in Device, openDetail(d)
        PROVE  DialogInv'
    BY <2>1, LoadsAnew DEF DialogInv, openDetail
  <2>2. ASSUME NEW t \in {"runs", "versions"}, selectDetailTab(t)
        PROVE  DialogInv'
    <3>1. /\ detailDevice \in Device /\ detailDevice' = detailDevice /\ open' = TRUE
          /\ tab' = t /\ text' = none
          /\ Ask(t, detailDevice) /\ Cross(t, detailDevice)
          /\ IF t = "runs" THEN runs' = "loading" ELSE versions' = "loading"
      BY <2>2 DEF DialogInv, DialogTyped, selectDetailTab
    <3> QED  BY <3>1, LoadsAnew DEF DialogInv
  <2>3. CASE showConfig  BY <2>3, AsksForText DEF showConfig
  <2>4. CASE downloadConfig  BY <2>4, AsksForText DEF downloadConfig
  <2>5. CASE Close
    BY <2>5 DEF Close, DialogInv, DialogTyped, RequestsSound, ListSound, TextSound
  <2>6. ASSUME NEW i \in 1..MaxRequests, Answer(i)
        PROVE  DialogInv'
    BY <2>6, AnswerFits
  <2>7. CASE UNCHANGED dialogVars
    BY <2>7 DEF dialogVars, DialogInv, DialogTyped, RequestsSound, ListSound, TextSound, Shown
  <2> QED  BY <2>1, <2>2, <2>3, <2>4, <2>5, <2>6, <2>7 DEF DialogNext
<1>3. DialogInv => ListIsOwn
  <2> SUFFICES ASSUME DialogInv
               PROVE  ListIsOwn
    OBVIOUS
  <2>1. (open /\ requests = <<>> /\ tab \notin crossed) => Shown \in {detailDevice, "error"}
    BY DEF DialogInv, ListSound
  <2> QED  BY <2>1 DEF DialogInv, TextSound, ListIsOwn
<1> QED  BY <1>1, <1>2, <1>3, PTL DEF DialogSpec

=============================================================================
