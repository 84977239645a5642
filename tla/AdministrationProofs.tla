-------------------------- MODULE AdministrationProofs --------------------------
(***************************************************************************)
(* Theorems about Access, Console and Installation: what the administrator *)
(* of one machine sets up, and what holds of it afterwards.                *)
(***************************************************************************)
EXTENDS Access, Console, Installation, SequenceTheorems, WellFoundedInduction, TLAPS
-------------------------------------------------------------------------------
(***************************************************************************)
(* Access.                                                                 *)
(***************************************************************************)

(* What is in the administrator's file and in the cookies. *)

StoredWell ==
    \/ stored \in {NoAdministrator, TornFile}
    \/ stored \in [password : Passwords, secret : 1..secretsMade]

CookiesWell ==
    cookie \in [Browsers -> {NoSession} \cup [issued : Nat, secret : 1..secretsMade]]

ProvedWell == DOMAIN proved = Browsers

(* A session carries a secret that was drawn, and the secret of the file   *)
(* goes with one password only: whoever holds a session with it has proved *)
(* to know that password.  Its age does not matter.                        *)
SecretsMeanPasswords ==
    \A b \in Browsers :
        cookie[b] # NoSession /\ AdministratorReadable /\ cookie[b].secret = stored.secret
            => proved[b] = stored.password

AccessInv ==
    /\ time \in Nat /\ secretsMade \in Nat
    /\ StoredWell /\ CookiesWell /\ ProvedWell
    /\ SecretsMeanPasswords
-------------------------------------------------------------------------------
(* A fresh secret is in no cookie yet, and a session that is made with it  *)
(* is of who entered the password it goes with.                            *)
LEMMA FreshSecret ==
    ASSUME AccessInv, NEW b \in Browsers, NEW password \in Passwords,
           stored' = [password |-> password, secret |-> secretsMade + 1],
           secretsMade' = secretsMade + 1, time' = time,
           \/ Proves(b, password, secretsMade + 1)
           \/ UNCHANGED <<cookie, proved>>
    PROVE  AccessInv'
<1>1. time' \in Nat /\ secretsMade' \in Nat /\ 1..secretsMade \subseteq 1..secretsMade'
  BY SMT DEF AccessInv
<1>2. StoredWell'
  <2>1. secretsMade + 1 \in 1..secretsMade'
    BY SMT DEF AccessInv
  <2> QED
    BY <2>1 DEF StoredWell
<1>3. cookie' \in [Browsers -> {NoSession} \cup [issued : Nat, secret : 1..secretsMade']] /\ DOMAIN proved' = Browsers
  <2>1. CASE UNCHANGED <<cookie, proved>>
    BY <1>1, <2>1 DEF AccessInv, CookiesWell, ProvedWell
  <2>2. CASE Proves(b, password, secretsMade + 1)
    <3>1. SessionNow(secretsMade + 1) \in [issued : Nat, secret : 1..secretsMade']
      BY SMT DEF AccessInv, SessionNow
    <3> QED
      BY <1>1, <2>2, <3>1 DEF AccessInv, CookiesWell, ProvedWell, Proves
  <2> QED
    BY <2>1, <2>2
<1>4. SecretsMeanPasswords'
  <2> SUFFICES ASSUME NEW c \in Browsers, cookie'[c] # NoSession, cookie'[c].secret = stored'.secret
               PROVE  proved'[c] = stored'.password
    BY DEF SecretsMeanPasswords
  <2>1. CASE cookie'[c] = cookie[c]
    <3>1. cookie[c] \in [issued : Nat, secret : 1..secretsMade]
      BY <2>1 DEF AccessInv, CookiesWell
    <3>2. cookie[c].secret \in 1..secretsMade /\ cookie[c].secret = secretsMade + 1
      BY <2>1, <3>1
    <3> QED
      BY <3>2, SMT DEF AccessInv
  <2>2. CASE cookie'[c] # cookie[c]
    <3>1. c = b /\ proved'[c] = password
      BY <2>2 DEF Proves, AccessInv, CookiesWell, ProvedWell
    <3> QED
      BY <3>1
  <2> QED
    BY <2>1, <2>2
<1> QED
  BY <1>1, <1>2, <1>3, <1>4 DEF AccessInv, CookiesWell, ProvedWell

(* Where neither the file nor the secrets change, a new session of who     *)
(* knows the password is all that can be added.                            *)
LEMMA SameAdministrator ==
    ASSUME AccessInv, time' \in Nat, UNCHANGED <<stored, secretsMade>>,
           CookiesWell', ProvedWell',
           \A b \in Browsers :
              \/ cookie'[b] = NoSession
              \/ cookie'[b] = cookie[b] /\ proved'[b] = proved[b]
              \/ proved'[b] = stored.password
    PROVE  AccessInv'
<1>1. SecretsMeanPasswords'
  BY DEF AccessInv, SecretsMeanPasswords, AdministratorReadable
<1>2. StoredWell'
  BY DEF AccessInv, StoredWell
<1> QED
  BY <1>1, <1>2 DEF AccessInv

(* Setups, logins, password changes and crashes keep the invariant.        *)
LEMMA AccessInvInductive == AccessInv /\ [AccessNext]_accessVars => AccessInv'
<1> SUFFICES ASSUME AccessInv, [AccessNext]_accessVars PROVE AccessInv'
  OBVIOUS
<1>1. ASSUME NEW b \in Browsers, NEW p \in Passwords, SetsUp(b, p) PROVE AccessInv'
  BY <1>1, FreshSecret DEF SetsUp
<1>2. CASE TearsSetup
  <2>1. StoredWell' /\ ~AdministratorReadable'
    BY <1>2 DEF TearsSetup, StoredWell, AdministratorReadable
  <2> QED
    BY <1>2, <2>1 DEF TearsSetup, AccessInv, CookiesWell, ProvedWell, SecretsMeanPasswords
<1>3. ASSUME NEW b \in Browsers, NEW p \in Passwords, LogsIn(b, p) PROVE AccessInv'
  <2>1. /\ UNCHANGED <<stored, secretsMade, time>> /\ stored.password = p /\ AdministratorReadable
        /\ cookie' = [cookie EXCEPT ![b] = SessionNow(stored.secret)] /\ proved' = [proved EXCEPT ![b] = p]
    BY <1>3 DEF LogsIn, Verifies, Proves
  <2>2. stored.secret \in 1..secretsMade
    BY <2>1 DEF AccessInv, StoredWell, AdministratorReadable
  <2>3. SessionNow(stored.secret) \in [issued : Nat, secret : 1..secretsMade]
    BY <2>2 DEF SessionNow, AccessInv
  <2>4. CookiesWell' /\ ProvedWell'
    BY <2>1, <2>3 DEF AccessInv, CookiesWell, ProvedWell
  <2>5. time' \in Nat
    BY <2>1 DEF AccessInv
  <2>6. \A c \in Browsers : \/ cookie'[c] = cookie[c] /\ proved'[c] = proved[c]
                           \/ proved'[c] = stored.password
    BY <2>1 DEF AccessInv, CookiesWell, ProvedWell
  <2> QED
    BY <2>1, <2>4, <2>5, <2>6, SameAdministrator
<1>4. ASSUME NEW b \in Browsers, LogsOut(b) PROVE AccessInv'
  <2>1. /\ UNCHANGED <<stored, secretsMade, time, proved>>
        /\ cookie' = [cookie EXCEPT ![b] = NoSession]
    BY <1>4 DEF LogsOut
  <2>2. CookiesWell' /\ ProvedWell' /\ time' \in Nat
    BY <2>1 DEF AccessInv, CookiesWell, ProvedWell
  <2>3. \A c \in Browsers : cookie'[c] = NoSession \/ (cookie'[c] = cookie[c] /\ proved'[c] = proved[c])
    BY <2>1 DEF AccessInv, CookiesWell
  <2> QED
    BY <2>1, <2>2, <2>3, SameAdministrator
<1>5. ASSUME NEW b \in Browsers, NEW p \in Passwords, NEW q \in Passwords, ChangesPassword(b, p, q) PROVE AccessInv'
  <2>1. stored' = [password |-> q, secret |-> secretsMade + 1]
    BY <1>5 DEF ChangesPassword, Rotated
  <2>2. stored'.secret = secretsMade + 1
    BY <2>1
  <2> QED
    BY <1>5, <2>1, <2>2, FreshSecret DEF ChangesPassword
<1>6. ASSUME NEW b \in Browsers, NEW p \in Passwords, NEW q \in Passwords, DiesChanging(b, p, q) PROVE AccessInv'
  BY <1>6, FreshSecret DEF DiesChanging, Rotated
<1>7. ASSUME NEW t \in ApiTokens, NEW scope \in ApiScopes, Calls(t, scope) PROVE AccessInv'
  <2>1. UNCHANGED <<stored, secretsMade, time, cookie, proved>>
    BY <1>7 DEF Calls
  <2> QED
    BY <2>1 DEF AccessInv, StoredWell, CookiesWell, ProvedWell, SecretsMeanPasswords, AdministratorReadable
<1>8. CASE TimePasses
  <2>1. UNCHANGED <<stored, secretsMade, cookie, proved>> /\ time' = time + 1
    BY <1>8 DEF TimePasses
  <2>2. time' \in Nat
    BY <2>1 DEF AccessInv
  <2> QED
    BY <2>1, <2>2 DEF AccessInv, StoredWell, CookiesWell, ProvedWell, SecretsMeanPasswords, AdministratorReadable
<1>9. CASE Restarts
  <2>1. UNCHANGED <<stored, secretsMade, time, cookie, proved>>
    BY <1>9 DEF Restarts
  <2> QED
    BY <2>1 DEF AccessInv, StoredWell, CookiesWell, ProvedWell, SecretsMeanPasswords, AdministratorReadable
<1>10. CASE UNCHANGED accessVars
  BY <1>10 DEF accessVars, AccessInv, StoredWell, CookiesWell, ProvedWell, SecretsMeanPasswords, AdministratorReadable
<1> QED
  BY <1>1, <1>2, <1>3, <1>4, <1>5, <1>6, <1>7, <1>8, <1>9, <1>10 DEF AccessNext

(* For any browsers, passwords, keys and length of a session: whoever is   *)
(* let in has proved to know the password that holds now.                  *)
THEOREM SessionsAlwaysKnow == AccessSpec => []SessionsKnowThePassword
<1>1. ASSUME AccessInit PROVE AccessInv
  <2>1. StoredWell /\ ~AdministratorReadable
    BY <1>1 DEF AccessInit, AccessFresh, StoredWell, AdministratorReadable
  <2>2. time \in Nat /\ secretsMade \in Nat
    <3>1. time = 0 /\ secretsMade = 0
      BY <1>1 DEF AccessInit, AccessFresh
    <3> QED
      BY <3>1
  <2>3. CookiesWell /\ ProvedWell
    BY <1>1 DEF AccessInit, AccessFresh, CookiesWell, ProvedWell
  <2> QED
    BY <2>1, <2>2, <2>3 DEF AccessInv, SecretsMeanPasswords
<1>2. AccessInv => SessionsKnowThePassword
  BY DEF AccessInv, SecretsMeanPasswords, SessionsKnowThePassword, ValidSession
<1> QED
  BY <1>1, <1>2, AccessInvInductive, PTL DEF AccessSpec
-------------------------------------------------------------------------------
(* The request rate. *)

(* A bounded set of natural numbers has a largest member, which Max is.    *)
LEMMA MaxIsMember ==
    ASSUME NEW n \in Nat, NEW S, S \subseteq 0..n, S # {}
    PROVE  Max(S) \in S
<1> DEFINE gaps == {n - x : x \in S}
<1>1. gaps \subseteq Nat /\ gaps # {}
  <2>1. \A x \in S : n - x \in Nat
    OBVIOUS
  <2>2. PICK x \in S : TRUE
    OBVIOUS
  <2>3. n - x \in gaps
    BY <2>2
  <2> QED
    BY <2>1, <2>3
<1>2. PICK g \in gaps : \A h \in gaps : <<h, g>> \notin OpToRel(<, Nat)
  BY <1>1, NatLessThanWellFounded, WFMin
<1>3. \A h \in gaps : ~(h < g)
  <2> SUFFICES ASSUME NEW h \in gaps, h < g
               PROVE  <<h, g>> \in OpToRel(<, Nat)
    BY <1>2
  <2> QED
    BY <1>1 DEF OpToRel
<1>4. PICK x \in S : g = n - x
  <2>1. g \in {n - x : x \in S}
    BY <1>2
  <2> QED
    BY <2>1
<1>5. \A y \in S : x >= y
  <2> SUFFICES ASSUME NEW y \in S, ~(x >= y)
               PROVE  FALSE
    OBVIOUS
  <2>1. n - y \in gaps /\ n - y < g
    BY <1>4
  <2> QED
    BY <1>3, <2>1
<1> QED
  BY <1>5 DEF Max

(* What is popped from a window is its front, and old. *)
LEMMA StillCountedIsRest ==
    ASSUME time \in Nat, NEW times \in Seq(Nat)
    PROVE  \E n \in 0..Len(times) :
              /\ \A i \in 1..n : times[i] <= time - RateWindow
              /\ StillCounted(times) \in Seq(Nat) /\ Len(StillCounted(times)) = Len(times) - n
              /\ \A i \in 1..(Len(times) - n) : StillCounted(times)[i] = times[n + i]
<1>1. Len(times) \in Nat /\ 0 \in Outdated(times) /\ Outdated(times) \subseteq 0..Len(times)
  BY DEF Outdated
<1>2. PICK n \in 0..Len(times) : n = Max(Outdated(times)) /\ n \in Outdated(times)
  BY <1>1, MaxIsMember
<1>3. StillCounted(times) = SubSeq(times, n + 1, Len(times))
  BY <1>2 DEF StillCounted
<1>4. /\ SubSeq(times, n + 1, Len(times)) \in Seq(Nat) /\ Len(SubSeq(times, n + 1, Len(times))) = Len(times) - n
      /\ \A i \in 1..(Len(times) - n) : SubSeq(times, n + 1, Len(times))[i] = times[n + i]
  BY <1>1, SubSeqProperties
<1> QED
  BY <1>2, <1>3, <1>4 DEF Outdated

(* The window of a key is the rest of what was accepted: what is no longer *)
(* in it is as old as the window is long.                                  *)
WindowIsRest(window, all, now) ==
    /\ window \in Seq(Nat) /\ all \in Seq(Nat) /\ Len(window) <= Len(all)
    /\ \A i \in 1..Len(window) : window[i] = all[Len(all) - Len(window) + i]
    /\ \A i \in 1..(Len(all) - Len(window)) : all[i] <= now - RateWindow

Spaced(all) == \A i, j \in DOMAIN all : j = i + MaxRequests => all[j] - all[i] >= RateWindow

RateInv ==
    /\ time \in Nat /\ DOMAIN windows = KeyIds /\ DOMAIN accepted = KeyIds
    /\ \A id \in KeyIds : WindowIsRest(windows[id], accepted[id], time) /\ Spaced(accepted[id])

(* After the old ones were popped it is still the rest. *)
LEMMA PoppingKeeps ==
    ASSUME time \in Nat, NEW window, NEW all, WindowIsRest(window, all, time)
    PROVE  WindowIsRest(StillCounted(window), all, time)
<1>1. window \in Seq(Nat) /\ all \in Seq(Nat) /\ Len(window) \in Nat /\ Len(all) \in Nat /\ Len(window) <= Len(all)
  BY DEF WindowIsRest
<1>2. PICK n \in 0..Len(window) :
              /\ \A i \in 1..n : window[i] <= time - RateWindow
              /\ StillCounted(window) \in Seq(Nat) /\ Len(StillCounted(window)) = Len(window) - n
              /\ \A i \in 1..(Len(window) - n) : StillCounted(window)[i] = window[n + i]
  BY <1>1, StillCountedIsRest
<1>3. ASSUME NEW i \in 1..(Len(window) - n)
      PROVE  StillCounted(window)[i] = all[Len(all) - (Len(window) - n) + i]
  <2>1. n + i \in 1..Len(window)
    BY <1>1
  <2>2. window[n + i] = all[Len(all) - Len(window) + (n + i)]
    BY <2>1 DEF WindowIsRest
  <2>3. Len(all) - Len(window) + (n + i) = Len(all) - (Len(window) - n) + i
    BY <1>1
  <2> QED
    BY <1>2, <2>2, <2>3
<1>4. ASSUME NEW i \in 1..(Len(all) - (Len(window) - n))
      PROVE  all[i] <= time - RateWindow
  <2>1. CASE i <= Len(all) - Len(window)
    BY <1>1, <2>1 DEF WindowIsRest
  <2>2. CASE i > Len(all) - Len(window)
    <3> DEFINE k == i - (Len(all) - Len(window))
    <3>1. k \in 1..n /\ k \in 1..Len(window) /\ Len(all) - Len(window) + k = i
      BY <1>1, <2>2
    <3>2. window[k] = all[i]
      BY <3>1 DEF WindowIsRest
    <3> QED
      BY <1>2, <3>1, <3>2
  <2> QED
    BY <1>1, <2>1, <2>2
<1> QED
  BY <1>1, <1>2, <1>3, <1>4 DEF WindowIsRest

(* A request is accepted while fewer than the maximum are in the window:   *)
(* the one the maximum before it is no longer in it.                       *)
LEMMA AdmittingKeeps ==
    ASSUME NEW now \in Nat, NEW window, NEW all, WindowIsRest(window, all, now), Spaced(all), Len(window) < MaxRequests
    PROVE  WindowIsRest(Append(window, now), Append(all, now), now) /\ Spaced(Append(all, now))
<1>1. window \in Seq(Nat) /\ all \in Seq(Nat) /\ Len(window) <= Len(all)
  BY DEF WindowIsRest
<1>2. PICK w \in Nat, a \in Nat : w = Len(window) /\ a = Len(all)
  BY <1>1
<1>3. PICK window2, all2 : window2 = Append(window, now) /\ all2 = Append(all, now)
  OBVIOUS
<1>4. /\ window2 \in Seq(Nat) /\ all2 \in Seq(Nat) /\ Len(window2) = w + 1 /\ Len(all2) = a + 1
      /\ \A i \in 1..w : window2[i] = window[i]
      /\ \A i \in 1..a : all2[i] = all[i]
      /\ window2[w + 1] = now /\ all2[a + 1] = now
      /\ DOMAIN all = 1..a /\ DOMAIN all2 = 1..(a + 1)
  BY <1>1, <1>2, <1>3
<1>5. /\ \A i \in 1..w : window[i] = all[a - w + i]
      /\ \A i \in 1..(a - w) : all[i] <= now - RateWindow
      /\ w <= a /\ w < MaxRequests
  BY <1>2 DEF WindowIsRest
<1>6. ASSUME NEW i \in 1..(w + 1)
      PROVE  window2[i] = all2[(a + 1) - (w + 1) + i]
  <2>1. CASE i = w + 1
    <3>1. (a + 1) - (w + 1) + i = a + 1
      BY <2>1
    <3> QED
      BY <1>4, <2>1, <3>1
  <2>2. CASE i # w + 1
    <3>1. i \in 1..w /\ a - w + i \in 1..a /\ (a + 1) - (w + 1) + i = a - w + i
      BY <1>5, <2>2
    <3> QED
      BY <1>4, <1>5, <3>1
  <2> QED
    BY <2>1, <2>2
<1>7. ASSUME NEW i \in 1..((a + 1) - (w + 1))
      PROVE  all2[i] <= now - RateWindow
  <2>1. i \in 1..(a - w) /\ i \in 1..a
    BY <1>5
  <2> QED
    BY <1>4, <1>5, <2>1
<1>8. WindowIsRest(window2, all2, now)
  <2>1. Len(window2) <= Len(all2)
    BY <1>4, <1>5
  <2> QED
    BY <1>4, <1>6, <1>7, <2>1 DEF WindowIsRest
<1>9. Spaced(all2)
  <2> SUFFICES ASSUME NEW i \in 1..(a + 1), NEW j \in 1..(a + 1), j = i + MaxRequests
               PROVE  all2[j] - all2[i] >= RateWindow
    BY <1>4 DEF Spaced
  <2>1. MaxRequests \in Nat /\ MaxRequests > 0 /\ RateWindow \in Nat
    BY <1>5, RateAssumption
  <2>2. i \in 1..a
    BY <2>1
  <2>3. CASE j = a + 1
    <3>1. i \in 1..(a - w)
      BY <1>5, <2>1, <2>3
    <3>2. all2[i] <= now - RateWindow /\ all2[i] \in Nat
      <4>1. all[i] <= now - RateWindow
        BY <1>5, <3>1
      <4>2. all[i] \in Nat
        BY <1>1, <1>2, <2>2
      <4> QED
        BY <4>1, <4>2, <1>4, <2>2
    <3>3. all2[j] = now
      BY <1>4, <2>3
    <3> QED
      BY <2>1, <3>2, <3>3
  <2>4. CASE j # a + 1
    <3>1. j \in 1..a
      BY <2>4
    <3>2. all2[j] = all[j] /\ all2[i] = all[i]
      BY <1>4, <2>2, <3>1
    <3> QED
      BY <1>4, <2>2, <3>1, <3>2 DEF Spaced
  <2> QED
    BY <2>3, <2>4
<1> QED
  BY <1>3, <1>8, <1>9

(* Time only makes what is popped older. *)
LEMMA WaitingKeeps ==
    ASSUME NEW now \in Nat, NEW later \in Nat, now <= later, NEW window, NEW all, WindowIsRest(window, all, now)
    PROVE  WindowIsRest(window, all, later)
<1> SUFFICES ASSUME NEW i \in 1..(Len(all) - Len(window))
             PROVE  all[i] <= later - RateWindow
  BY DEF WindowIsRest
<1>1. all \in Seq(Nat) /\ Len(window) \in Nat /\ all[i] <= now - RateWindow
  BY DEF WindowIsRest
<1>2. all[i] \in Nat
  BY <1>1
<1> QED
  BY <1>1, <1>2, RateAssumption

(* Calls, time and a new process keep the windows as they should be; no    *)
(* other step touches them.                                                *)
LEMMA RateStep == RateInv /\ [AccessNext]_accessVars => RateInv'
<1> SUFFICES ASSUME RateInv, [AccessNext]_accessVars
             PROVE  RateInv'
  OBVIOUS
<1>1. ASSUME UNCHANGED <<windows, accepted>>, time' \in {time, time + 1}
      PROVE  RateInv'
  <2>1. time \in Nat /\ time' \in Nat /\ time <= time'
    BY <1>1 DEF RateInv
  <2>2. \A id \in KeyIds : WindowIsRest(windows[id], accepted[id], time')
    BY <2>1, WaitingKeeps DEF RateInv
  <2> QED
    BY <1>1, <2>1, <2>2 DEF RateInv, Spaced
<1>2. ASSUME NEW token \in ApiTokens, NEW scope \in ApiScopes, Calls(token, scope)
      PROVE  RateInv'
  <2>1. PICK id, window, all : id = ApiKeys[token].id /\ window = StillCounted(windows[id]) /\ all = accepted[id]
    OBVIOUS
  <2>2. /\ id \in KeyIds /\ time' = time
        /\ windows' = [windows EXCEPT ![id] = IF Admitted(window) THEN Append(window, time) ELSE window]
        /\ accepted' = [accepted EXCEPT ![id] = IF Admitted(window) THEN Append(all, time) ELSE all]
    BY <1>2, <2>1 DEF Calls, Authenticates, KeyIds
  <2>3. time \in Nat /\ WindowIsRest(window, all, time) /\ Spaced(all)
    BY <2>1, <2>2, PoppingKeeps DEF RateInv
  <2>4. WindowIsRest(windows'[id], accepted'[id], time) /\ Spaced(accepted'[id])
    <3>1. CASE Admitted(window)
      <4>1. windows'[id] = Append(window, time) /\ accepted'[id] = Append(all, time)
        BY <2>2, <3>1 DEF RateInv
      <4> QED
        BY <2>3, <3>1, <4>1, AdmittingKeeps DEF Admitted
    <3>2. CASE ~Admitted(window)
      <4>1. windows'[id] = window /\ accepted'[id] = all
        BY <2>2, <3>2 DEF RateInv
      <4> QED
        BY <2>3, <4>1
    <3> QED
      BY <3>1, <3>2
  <2>5. ASSUME NEW other \in KeyIds
        PROVE  WindowIsRest(windows'[other], accepted'[other], time') /\ Spaced(accepted'[other])
    <3>1. CASE other = id
      BY <2>2, <2>4, <3>1
    <3>2. CASE other # id
      BY <2>2, <3>2 DEF RateInv
    <3> QED
      BY <3>1, <3>2
  <2>6. DOMAIN windows' = KeyIds /\ DOMAIN accepted' = KeyIds
    BY <2>2 DEF RateInv
  <2>7. time' \in Nat
    BY <2>2, <2>3
  <2>8. \A other \in KeyIds : Spaced(accepted[other])'
    BY <2>5 DEF Spaced
  <2> QED
    BY <2>5, <2>6, <2>7, <2>8 DEF RateInv
<1>3. CASE Restarts
  <2>1. time' = time /\ windows' = EmptyWindows /\ accepted' = EmptyWindows
    BY <1>3 DEF Restarts
  <2> QED
    BY <2>1 DEF RateInv, EmptyWindows, WindowIsRest, Spaced
<1>4. CASE TimePasses
  BY <1>1, <1>4 DEF TimePasses
<1>5. ASSUME NEW b \in Browsers, NEW p \in Passwords, SetsUp(b, p) \/ LogsIn(b, p)
      PROVE  RateInv'
  BY <1>1, <1>5 DEF SetsUp, LogsIn
<1>6. ASSUME NEW b \in Browsers, LogsOut(b)
      PROVE  RateInv'
  BY <1>1, <1>6 DEF LogsOut
<1>7. ASSUME NEW b \in Browsers, NEW p \in Passwords, NEW q \in Passwords, ChangesPassword(b, p, q) \/ DiesChanging(b, p, q)
      PROVE  RateInv'
  BY <1>1, <1>7 DEF ChangesPassword, DiesChanging
<1>8. CASE TearsSetup
  BY <1>1, <1>8 DEF TearsSetup
<1>9. CASE UNCHANGED accessVars
  BY <1>1, <1>9 DEF accessVars
<1> QED
  BY <1>2, <1>3, <1>4, <1>5, <1>6, <1>7, <1>8, <1>9 DEF AccessNext

(* For any keys, maximum and window, in no stretch as long as the window   *)
(* are more requests of a key accepted than the maximum.                   *)
THEOREM RatesAreBounded == AccessSpec => []RateIsBounded
<1>1. AccessInit => RateInv
  <2> SUFFICES ASSUME AccessInit
               PROVE  RateInv
    OBVIOUS
  <2>1. time = 0 /\ windows = EmptyWindows /\ accepted = EmptyWindows
    BY DEF AccessInit, AccessFresh
  <2> QED
    BY <2>1 DEF RateInv, EmptyWindows, WindowIsRest, Spaced
<1>2. RateInv => RateIsBounded
  BY DEF RateInv, RateIsBounded, Spaced
<1> QED
  BY <1>1, <1>2, RateStep, PTL DEF AccessSpec

(* Whoever is let in knows the password that holds now, and no key calls   *)
(* more often than it may.                                                 *)
THEOREM AccessStaysEarned == AccessSpec => []AccessIsEarned
BY SessionsAlwaysKnow, RatesAreBounded, PTL DEF AccessIsEarned
-------------------------------------------------------------------------------
(***************************************************************************)
(* Console: what was entered keeps its credential.                         *)
(***************************************************************************)

ConsoleSpec == ConsoleInit /\ [][ConsoleNext]_consoleVars
-------------------------------------------------------------------------------
(* The rows, and what each of their references may be to. *)

Names == {"", "source", "ai"} \X Nat
Refs == [type : {"none", "env", "file"}, name : Names, root : Roots \cup {0}]
Rows == [kind : SourceKinds, location : Locations, ref : Refs, origin : {"dashboard", "terminal"}]

(* Nothing that is stored, or a file of one of these names. *)
RefersTo(ref, names) ==
    /\ ref \in Refs
    /\ IF ref.type = "file" THEN ref.name \in names ELSE ref.name = NoRef.name

OfAnalyses == {AnalysisSecret(n) : n \in 1..drawn}

RowWell(id, row) == row \in Rows /\ RefersTo(row.ref, {SourceSecret(id)})

ProfilesWell ==
    /\ drawnIds \in Nat /\ DOMAIN profiles \subseteq Nat
    /\ \A id \in DOMAIN profiles : RowWell(id, profiles[id])

SettingsWell == dataRoot \in Roots /\ RefersTo(settingsRef, {DefaultSecret})

(* A job or schedule that has a key of its own has a file of its own, and  *)
(* what another form removes is never this file.                           *)
Submissions ==
    [mode : Modes, key : SubmissionKeys,
     source : [kind : {"local", "openwebui", "website"}, ref : Refs, consent : BOOLEAN],
     ai : Refs, own : BOOLEAN, alive : BOOLEAN]

SubmissionWell(submission) ==
    /\ RefersTo(submission.ai, {DefaultSecret} \cup OfAnalyses)
    /\ submission.own => submission.ai.type = "file" /\ submission.ai.name \in OfAnalyses \cap secretFiles

WorkWell ==
    /\ work \in Seq(Submissions) /\ drawn \in Nat
    /\ \A i \in DOMAIN work : SubmissionWell(work[i])

(* What a handler holds between its two steps. *)
ConnectWell == \A w \in waiting : w.op = "connect" => w.id \in Nat /\ w.profile \in Rows /\ w.credential \in {"env", "key"}

TerminalWell ==
    \A w \in waiting : w.op = "terminal" =>
        w.id \in Nat /\ RowWell(w.id, w.profile) /\ w.profile.ref.type # "file" /\ w.profile.origin = "terminal"

(* The key of a question is of no job, and was written where the data is:  *)
(* the data is not moved while a question waits.                           *)
QuestionWell(w) ==
    /\ RefersTo(w.temporary, {DefaultSecret} \cup OfAnalyses)
    /\ w.temporary.name \in OfAnalyses => w.temporary.root = dataRoot
    /\ \A i \in DOMAIN work : work[i].own => work[i].ai.name # w.temporary.name

QuestionsWell == \A w \in waiting : w.op = "models" => QuestionWell(w)

ConsoleInv ==
    /\ ProfilesWell /\ SettingsWell /\ WorkWell
    /\ ConnectWell /\ TerminalWell /\ QuestionsWell
    /\ ProfilesKeepTheirKeys /\ NoStrayKeys /\ OneProfilePerSource
-------------------------------------------------------------------------------
(* The names of the files are told apart by their kind and number. *)
LEMMA NamesDiffer ==
    /\ \A n, m : SourceSecret(n) # AnalysisSecret(m) /\ SourceSecret(n) # DefaultSecret
    /\ \A n, m : SourceSecret(n) = SourceSecret(m) => n = m
    /\ \A n, m : AnalysisSecret(n) = AnalysisSecret(m) => n = m
    /\ \A n \in 1..drawn : AnalysisSecret(n) # DefaultSecret
    /\ \A n : NoRef.name \notin {SourceSecret(n), AnalysisSecret(n), DefaultSecret}
BY SMT DEF SourceSecret, AnalysisSecret, DefaultSecret, NoRef

(* The references the forms make are of the kind they ask for. *)
LEMMA RefsMade ==
    /\ NoRef \in Refs /\ NoRef.type = "none"
    /\ EnvRef \in Refs /\ EnvRef.type = "env" /\ EnvRef.name = NoRef.name
    /\ \A names : RefersTo(NoRef, names) /\ RefersTo(EnvRef, names)
<1>1. NoRef.name = <<"", 0>> /\ NoRef.type = "none" /\ NoRef.root = 0
  BY DEF NoRef
<1>2. NoRef.name \in Names
  <2>1. <<"", 0>> \in Names
    BY DEF Names
  <2> QED
    BY <1>1, <2>1
<1>3. NoRef = [type |-> "none", name |-> NoRef.name, root |-> 0]
  BY <1>1 DEF NoRef
<1>4. EnvRef = [type |-> "env", name |-> NoRef.name, root |-> 0]
  BY <1>3 DEF EnvRef
<1>5. NoRef \in Refs /\ EnvRef \in Refs /\ EnvRef.type = "env" /\ EnvRef.name = NoRef.name
  BY <1>2, <1>3, <1>4 DEF Refs
<1> QED
  BY <1>1, <1>5 DEF RefersTo

(* A reference to a file is to one that was written where the data is.     *)
LEMMA FileRefMade ==
    ASSUME dataRoot \in Roots, NEW name \in Names
    PROVE  /\ FileRef(name).type = "file" /\ FileRef(name).name = name /\ FileRef(name).root = dataRoot
           /\ \A names : name \in names => RefersTo(FileRef(name), names)
<1>1. FileRef(name) = [type |-> "file", name |-> name, root |-> dataRoot]
  BY DEF FileRef
<1>2. FileRef(name) \in Refs
  <2>1. [type |-> "file", name |-> name, root |-> dataRoot] \in Refs
    BY DEF Refs
  <2> QED
    BY <1>1, <2>1
<1> QED
  BY <1>1, <1>2 DEF RefersTo

(* The key of a job's own analysis is there when it runs where it was      *)
(* entered: what the invariant says of the files covers what the worker    *)
(* asks of them.                                                           *)
LEMMA OwnKeysResolve == WorkWell => WorkKeepsItsKey
<1> SUFFICES ASSUME WorkWell, NEW i \in DOMAIN work, work[i].own, work[i].ai.root = dataRoot
             PROVE  Outcome(work[i]) # "without analysis"
  BY DEF WorkKeepsItsKey
<1>1. work[i].ai.type = "file" /\ work[i].ai.name \in secretFiles
  BY DEF WorkWell, SubmissionWell
<1>2. Resolves(work[i].ai)
  BY <1>1 DEF Resolves
<1> QED
  BY <1>2 DEF Outcome
-------------------------------------------------------------------------------
(* Conjuncts that a step leaves as they are. *)

(* A profile that is saved brings no second one of its source. *)
LEMMA SavingKeeps ==
    ASSUME ProfilesWell, OneProfilePerSource, NEW id \in Nat, NEW row, RowWell(id, row),
           drawnIds' \in Nat, profiles' = Saved(id, row)
    PROVE  /\ ProfilesWell' /\ OneProfilePerSource'
           /\ \A other \in DOMAIN profiles' \ {id} : other \in DOMAIN profiles /\ profiles'[other] = profiles[other]
           /\ id \in DOMAIN profiles' => profiles'[id] = row \/ (id \in DOMAIN profiles /\ profiles'[id] = profiles[id])
           /\ IsDuplicate(id, row) => profiles' = profiles
<1>1. CASE IsDuplicate(id, row)
  BY <1>1 DEF Saved, ProfilesWell, OneProfilePerSource, RowWell, RefersTo, SameSource, SourceSecret
<1>2. CASE ~IsDuplicate(id, row)
  <2>1. /\ DOMAIN profiles' = DOMAIN profiles \cup {id} /\ profiles'[id] = row
        /\ \A other \in DOMAIN profiles \ {id} : profiles'[other] = profiles[other]
    BY <1>2 DEF Saved, WithProfile
  <2>2. \A other \in DOMAIN profiles \ {id} : ~SameSource(profiles[other], row) /\ ~SameSource(row, profiles[other])
    BY <1>2 DEF IsDuplicate, SameSource
  <2>3. ProfilesWell'
    BY <2>1 DEF ProfilesWell, RowWell, RefersTo, SourceSecret
  <2>4. OneProfilePerSource'
    <3> SUFFICES ASSUME NEW a \in DOMAIN profiles', NEW b \in DOMAIN profiles', a # b, SameSource(profiles'[a], profiles'[b])
                 PROVE  "terminal" \in {profiles'[a].origin, profiles'[b].origin}
      BY DEF OneProfilePerSource, SameSource
    <3>1. a # id /\ b # id
      BY <2>1, <2>2
    <3> QED
      BY <2>1, <3>1 DEF OneProfilePerSource
  <2> QED
    BY <1>2, <2>1, <2>3, <2>4
<1> QED
  BY <1>1, <1>2

(* Deleting a profile leaves the others as they are. *)
LEMMA RemovingKeeps ==
    ASSUME ProfilesWell, OneProfilePerSource, NEW id, profiles' = Removed(id), drawnIds' = drawnIds
    PROVE  /\ ProfilesWell' /\ OneProfilePerSource'
           /\ DOMAIN profiles' = DOMAIN profiles \ {id}
           /\ \A other \in DOMAIN profiles' : profiles'[other] = profiles[other]
<1>1. DOMAIN profiles' = DOMAIN profiles \ {id} /\ \A other \in DOMAIN profiles' : profiles'[other] = profiles[other]
  BY DEF Removed
<1>2. ProfilesWell'
  BY <1>1 DEF ProfilesWell, RowWell, RefersTo, SourceSecret
<1>3. OneProfilePerSource'
  BY <1>1 DEF OneProfilePerSource, SameSource
<1> QED
  BY <1>1, <1>2, <1>3

(* Where the profiles do not change, neither do their references. *)
LEMMA ProfilesStay ==
    ASSUME ProfilesWell, OneProfilePerSource, profiles' = profiles, drawnIds' \in Nat
    PROVE  ProfilesWell' /\ OneProfilePerSource'
BY DEF ProfilesWell, RowWell, RefersTo, SourceSecret, OneProfilePerSource, SameSource

(* The profiles keep their keys when no key of theirs is removed. *)
LEMMA ProfileKeysStay ==
    ASSUME ProfilesWell, ProfilesKeepTheirKeys, profiles' = profiles,
           \A id \in Nat : SourceSecret(id) \in secretFiles => SourceSecret(id) \in secretFiles'
    PROVE  ProfilesKeepTheirKeys'
BY DEF ProfilesWell, RowWell, RefersTo, ProfilesKeepTheirKeys

(* The work keeps its keys when no key of an analysis is removed that a    *)
(* job has.                                                                *)
LEMMA WorkStays ==
    ASSUME WorkWell, work' = work, drawn' \in Nat, drawn <= drawn',
           \A i \in DOMAIN work : work[i].own /\ work[i].ai.name \in secretFiles => work[i].ai.name \in secretFiles'
    PROVE  WorkWell'
<1>1. OfAnalyses \subseteq OfAnalyses'
  BY SMT DEF OfAnalyses, AnalysisSecret, WorkWell
<1>2. ASSUME NEW i \in DOMAIN work
      PROVE  SubmissionWell(work[i])'
  <2>1. SubmissionWell(work[i])
    BY DEF WorkWell
  <2> QED
    BY <1>1, <2>1 DEF SubmissionWell, RefersTo, DefaultSecret
<1> QED
  BY <1>2 DEF WorkWell

(* The handlers that still wait hold what they held. *)
LEMMA HandlersStay ==
    ASSUME ConnectWell, TerminalWell, QuestionsWell, waiting' \subseteq waiting,
           work' = work, dataRoot' = dataRoot, drawn' = drawn
    PROVE  ConnectWell' /\ TerminalWell' /\ QuestionsWell'
<1>1. ConnectWell' /\ TerminalWell'
  BY DEF ConnectWell, TerminalWell, RowWell, RefersTo, SourceSecret
<1>2. QuestionsWell'
  BY DEF QuestionsWell, QuestionWell, RefersTo, OfAnalyses, DefaultSecret, AnalysisSecret
<1> QED
  BY <1>1, <1>2

(* A key of an analysis is accounted for as long as what holds it stays.   *)
LEMMA KeysStay ==
    ASSUME NoStrayKeys, interrupted' = interrupted, drawn' = drawn, work' = work,
           \A n \in 1..drawn : AnalysisSecret(n) \in secretFiles' => AnalysisSecret(n) \in secretFiles,
           \A w \in waiting \ waiting' : w.op # "models"
    PROVE  NoStrayKeys'
BY DEF NoStrayKeys, AnalysisSecret

(* After a crash nothing is said of stray keys. *)
LEMMA KeysOfTheDead == Dies => NoStrayKeys'
BY DEF Dies, NoStrayKeys
-------------------------------------------------------------------------------
(* The names of the files that are written. *)
LEMMA NamesMade ==
    /\ DefaultSecret \in Names
    /\ \A id \in Nat : SourceSecret(id) \in Names /\ AnalysisSecret(id) \in Names
BY DEF Names, DefaultSecret, SourceSecret, AnalysisSecret

(* What the forms make of the field for the credential. *)
LEMMA CredentialMade ==
    ASSUME dataRoot \in Roots, NEW name, NEW kind \in {"none", "env", "key", "remove"}, kind = "key" => name \in Names
    PROVE  /\ RefersTo(Credential(kind, name), {name})
           /\ kind # "key" => Credential(kind, name).type # "file"
           /\ kind = "key" => Credential(kind, name).type = "file" /\ Credential(kind, name).name = name
<1>1. CASE kind = "key"
  <2>1. Credential(kind, name) = FileRef(name)
    BY <1>1 DEF Credential
  <2> QED
    BY <1>1, <2>1, FileRefMade
<1>2. CASE kind = "env"
  <2>1. Credential(kind, name) = EnvRef
    BY <1>2 DEF Credential
  <2> QED
    BY <1>2, <2>1, RefsMade
<1>3. CASE kind \notin {"key", "env"}
  <2>1. Credential(kind, name) = NoRef
    BY <1>3 DEF Credential
  <2> QED
    BY <1>3, <2>1, RefsMade
<1> QED
  BY <1>1, <1>2, <1>3

(* A profile as the forms make it. *)
LEMMA RowMade ==
    ASSUME NEW kind \in SourceKinds, NEW location \in Locations, NEW origin \in {"dashboard", "terminal"},
           NEW ref, NEW id, RefersTo(ref, {SourceSecret(id)})
    PROVE  /\ RowWell(id, ProfileOf(kind, location, ref, origin))
           /\ ProfileOf(kind, location, ref, origin).ref = ref
           /\ ProfileOf(kind, location, ref, origin).origin = origin
<1>1. ref \in Refs
  BY DEF RefersTo
<1>2. ProfileOf(kind, location, ref, origin) \in Rows /\ ProfileOf(kind, location, ref, origin).ref = ref
  BY <1>1 DEF ProfileOf, Rows
<1> QED
  BY <1>2 DEF RowWell, ProfileOf

(* A row whose reference is replaced. *)
LEMMA RowRefers ==
    ASSUME NEW row \in Rows, NEW ref, NEW id, RefersTo(ref, {SourceSecret(id)})
    PROVE  /\ RowWell(id, [row EXCEPT !.ref = ref]) /\ [row EXCEPT !.ref = ref].ref = ref
           /\ [row EXCEPT !.ref = ref].kind = row.kind /\ [row EXCEPT !.ref = ref].location = row.location
           /\ [row EXCEPT !.ref = ref].origin = row.origin
<1>1. ref \in Refs
  BY DEF RefersTo
<1>2. [row EXCEPT !.ref = ref] \in Rows /\ [row EXCEPT !.ref = ref].ref = ref
  BY <1>1 DEF Rows
<1> QED
  BY <1>2 DEF RowWell, Rows
-------------------------------------------------------------------------------
(* A source is added. *)
LEMMA AddingKeeps ==
    ASSUME ConsoleInv, NEW kind \in SourceKinds, NEW location \in Locations, NEW c \in {"none", "env", "key"},
           AddsSource(kind, location, c)
    PROVE  ConsoleInv'
<1> DEFINE id == NewId
           ref == Credential(c, SourceSecret(NewId))
           row == ProfileOf(kind, location, ref, "dashboard")
<1>1. drawnIds \in Nat /\ id \in Nat /\ dataRoot \in Roots
  BY DEF ConsoleInv, ProfilesWell, SettingsWell, NewId
<1>2. RefersTo(ref, {SourceSecret(id)}) /\ (ref.type = "file" => c = "key")
  BY <1>1, NamesMade, CredentialMade
<1>3. RowWell(id, row) /\ row.ref = ref
  BY <1>2, RowMade
<1>4. /\ profiles' = Saved(id, row) /\ drawnIds' \in Nat
      /\ secretFiles' = IF c = "key" /\ ~IsDuplicate(id, row) THEN secretFiles \cup {SourceSecret(id)} ELSE secretFiles
      /\ UNCHANGED <<settingsRef, work, waiting, dataRoot, drawn, interrupted>>
  <2>1. /\ profiles' = Saved(id, row) /\ drawnIds' = (IF IsDuplicate(id, row) THEN drawnIds ELSE id)
        /\ secretFiles' = IF c = "key" /\ ~IsDuplicate(id, row) THEN secretFiles \cup {SourceSecret(id)} ELSE secretFiles
        /\ UNCHANGED <<settingsRef, work, waiting, dataRoot, drawn, interrupted>>
    BY DEF AddsSource
  <2> QED
    BY <1>1, <2>1
<1> HIDE DEF id, ref, row
<1>5. ProfilesWell' /\ OneProfilePerSource'
  BY <1>1, <1>3, <1>4, SavingKeeps DEF ConsoleInv
<1>6. ProfilesKeepTheirKeys'
  <2> SUFFICES ASSUME NEW other \in DOMAIN profiles', profiles'[other].ref.type = "file"
               PROVE  profiles'[other].ref.name \in secretFiles'
    BY DEF ProfilesKeepTheirKeys
  <2>1. CASE other \in DOMAIN profiles /\ profiles'[other] = profiles[other]
    BY <1>4, <2>1 DEF ConsoleInv, ProfilesKeepTheirKeys
  <2>2. CASE ~(other \in DOMAIN profiles /\ profiles'[other] = profiles[other])
    <3>1. other = id /\ profiles'[id] = row /\ ~IsDuplicate(id, row)
      BY <1>1, <1>3, <1>4, <2>2, SavingKeeps DEF ConsoleInv
    <3>2. row.ref.name = SourceSecret(id) /\ c = "key"
      BY <1>2, <1>3, <3>1 DEF RefersTo
    <3> QED
      BY <1>4, <3>1, <3>2
  <2> QED
    BY <2>1, <2>2
<1>7. SettingsWell' /\ WorkWell'
  BY <1>4, WorkStays DEF ConsoleInv, SettingsWell, WorkWell, RefersTo, DefaultSecret
<1>8. ConnectWell' /\ TerminalWell' /\ QuestionsWell'
  BY <1>4, HandlersStay DEF ConsoleInv
<1>9. NoStrayKeys'
  BY <1>4, KeysStay, NamesDiffer DEF ConsoleInv
<1> QED
  BY <1>5, <1>6, <1>7, <1>8, <1>9 DEF ConsoleInv

(* A connection is asked for: the handler waits with the profile as it is. *)
LEMMA BeginsConnectingKeeps ==
    ASSUME ConsoleInv, NEW id \in DOMAIN profiles, NEW c \in {"env", "key"}, BeginsConnecting(id, c)
    PROVE  ConsoleInv'
<1> DEFINE w == [op |-> "connect", id |-> id, profile |-> profiles[id], credential |-> c]
<1>1. /\ waiting' = waiting \cup {w}
      /\ UNCHANGED <<profiles, secretFiles, settingsRef, work, dataRoot, drawnIds, drawn, interrupted>>
  BY DEF BeginsConnecting
<1>2. w.op = "connect" /\ w.id \in Nat /\ w.profile \in Rows /\ w.credential \in {"env", "key"}
  BY DEF ConsoleInv, ProfilesWell, RowWell
<1> HIDE DEF w
<1>3. ProfilesWell' /\ OneProfilePerSource' /\ ProfilesKeepTheirKeys'
  BY <1>1, ProfilesStay, ProfileKeysStay DEF ConsoleInv, ProfilesWell
<1>4. SettingsWell' /\ WorkWell'
  BY <1>1, WorkStays DEF ConsoleInv, SettingsWell, WorkWell, RefersTo, DefaultSecret
<1>5. ConnectWell'
  BY <1>1, <1>2 DEF ConsoleInv, ConnectWell
<1>6. TerminalWell'
  BY <1>1, <1>2 DEF ConsoleInv, TerminalWell, RowWell, RefersTo, SourceSecret
<1>7. QuestionsWell'
  BY <1>1, <1>2 DEF ConsoleInv, QuestionsWell, QuestionWell, RefersTo, OfAnalyses, DefaultSecret, AnalysisSecret
<1>8. NoStrayKeys'
  BY <1>1, KeysStay DEF ConsoleInv
<1> QED
  BY <1>3, <1>4, <1>5, <1>6, <1>7, <1>8 DEF ConsoleInv

(* A connection is answered: the key is stored before the profile that     *)
(* refers to it, and both only when it was verified.                       *)
LEMMA EndsConnectingKeeps ==
    ASSUME ConsoleInv, NEW w \in waiting, NEW verified \in BOOLEAN, EndsConnecting(w, verified)
    PROVE  ConsoleInv'
<1> DEFINE ref == Credential(w.credential, SourceSecret(w.id))
           row == [w.profile EXCEPT !.ref = ref]
<1>1. /\ w.op = "connect" /\ waiting' = waiting \ {w}
      /\ secretFiles' = FilesConnected(w, verified)
      /\ profiles' = IF verified THEN Saved(w.id, row) ELSE profiles
      /\ UNCHANGED <<settingsRef, work, dataRoot, drawnIds, drawn, interrupted>>
  BY DEF EndsConnecting
<1>2. w.id \in Nat /\ w.profile \in Rows /\ w.credential \in {"env", "key"} /\ dataRoot \in Roots /\ drawnIds' \in Nat
  BY <1>1 DEF ConsoleInv, ConnectWell, SettingsWell, ProfilesWell
<1>3. RefersTo(ref, {SourceSecret(w.id)}) /\ (ref.type = "file" => w.credential = "key")
  BY <1>2, NamesMade, CredentialMade
<1> HIDE DEF ref
<1>4. RowWell(w.id, row) /\ row.ref = ref
  BY <1>2, <1>3, RowRefers
<1> HIDE DEF row
<1>5. ProfilesWell' /\ OneProfilePerSource'
  <2>1. CASE verified
    BY <1>1, <1>2, <1>4, <2>1, SavingKeeps DEF ConsoleInv
  <2>2. CASE ~verified
    BY <1>1, <1>2, <2>2, ProfilesStay DEF ConsoleInv
  <2> QED
    BY <2>1, <2>2
<1>6. secretFiles \subseteq secretFiles' /\ secretFiles' \subseteq secretFiles \cup {SourceSecret(w.id)}
  BY <1>1 DEF FilesConnected
<1>7. ProfilesKeepTheirKeys'
  <2> SUFFICES ASSUME NEW other \in DOMAIN profiles', profiles'[other].ref.type = "file"
               PROVE  profiles'[other].ref.name \in secretFiles'
    BY DEF ProfilesKeepTheirKeys
  <2>1. CASE other \in DOMAIN profiles /\ profiles'[other] = profiles[other]
    BY <1>6, <2>1 DEF ConsoleInv, ProfilesKeepTheirKeys
  <2>2. CASE ~(other \in DOMAIN profiles /\ profiles'[other] = profiles[other])
    <3>1. verified
      BY <1>1, <2>2
    <3>2. other = w.id /\ profiles'[w.id] = row
      BY <1>1, <1>2, <1>4, <2>2, <3>1, SavingKeeps DEF ConsoleInv
    <3>3. row.ref.name = SourceSecret(w.id) /\ w.credential = "key"
      BY <1>3, <1>4, <3>2 DEF RefersTo
    <3> QED
      BY <1>1, <3>1, <3>2, <3>3 DEF FilesConnected
  <2> QED
    BY <2>1, <2>2
<1>8. SettingsWell' /\ WorkWell'
  BY <1>1, <1>6, WorkStays DEF ConsoleInv, SettingsWell, WorkWell, RefersTo, DefaultSecret
<1>9. ConnectWell' /\ TerminalWell' /\ QuestionsWell'
  BY <1>1, HandlersStay DEF ConsoleInv
<1>10. NoStrayKeys'
  BY <1>1, <1>6, KeysStay, NamesDiffer DEF ConsoleInv
<1> QED
  BY <1>5, <1>7, <1>8, <1>9, <1>10 DEF ConsoleInv

(* A source is deleted: the key that goes with it is its own.              *)
LEMMA DeletingKeeps ==
    ASSUME ConsoleInv, NEW id \in DOMAIN profiles, DeletesSource(id)
    PROVE  ConsoleInv'
<1>1. /\ profiles' = Removed(id) /\ secretFiles' = secretFiles \ Deletable(profiles[id].ref)
      /\ UNCHANGED <<settingsRef, work, waiting, dataRoot, drawnIds, drawn, interrupted>>
  BY DEF DeletesSource
<1>2. ProfilesWell /\ OneProfilePerSource /\ ProfilesKeepTheirKeys
  BY DEF ConsoleInv
<1>3. /\ ProfilesWell' /\ OneProfilePerSource'
      /\ DOMAIN profiles' = DOMAIN profiles \ {id}
      /\ \A other \in DOMAIN profiles' : profiles'[other] = profiles[other]
  BY <1>1, <1>2, RemovingKeeps
<1>4. Deletable(profiles[id].ref) \subseteq {SourceSecret(id)}
  BY <1>2 DEF ProfilesWell, RowWell, RefersTo, Deletable
<1>5. ProfilesKeepTheirKeys'
  <2> SUFFICES ASSUME NEW other \in DOMAIN profiles', profiles'[other].ref.type = "file"
               PROVE  profiles'[other].ref.name \in secretFiles'
    BY DEF ProfilesKeepTheirKeys
  <2>1. other # id /\ other \in DOMAIN profiles /\ profiles'[other] = profiles[other]
    BY <1>3
  <2>2. profiles[other].ref.name = SourceSecret(other) /\ profiles[other].ref.name \in secretFiles
    BY <1>2, <2>1 DEF ProfilesWell, RowWell, RefersTo, ProfilesKeepTheirKeys
  <2>3. SourceSecret(other) # SourceSecret(id)
    BY <2>1, NamesDiffer
  <2> QED
    BY <1>1, <1>4, <2>1, <2>2, <2>3
<1>6. \A n : AnalysisSecret(n) \in secretFiles <=> AnalysisSecret(n) \in secretFiles'
  BY <1>1, <1>4, NamesDiffer
<1>7. SettingsWell' /\ WorkWell'
  <2>1. \A i \in DOMAIN work : work[i].own => work[i].ai.name \in OfAnalyses
    BY DEF ConsoleInv, WorkWell, SubmissionWell
  <2>2. \A i \in DOMAIN work : work[i].own /\ work[i].ai.name \in secretFiles => work[i].ai.name \in secretFiles'
    BY <1>6, <2>1 DEF OfAnalyses
  <2> QED
    BY <1>1, <2>2, WorkStays DEF ConsoleInv, SettingsWell, WorkWell, RefersTo, DefaultSecret
<1>8. ConnectWell' /\ TerminalWell' /\ QuestionsWell'
  BY <1>1, HandlersStay DEF ConsoleInv
<1>9. NoStrayKeys'
  BY <1>1, <1>6, KeysStay DEF ConsoleInv
<1> QED
  BY <1>3, <1>5, <1>7, <1>8, <1>9 DEF ConsoleInv

(* The terminal has found no profile of its source, and waits. *)
LEMMA LookingKeeps ==
    ASSUME ConsoleInv, NEW location \in Locations, NEW c \in {"none", "env"}, TerminalLooks(location, c)
    PROVE  ConsoleInv'
<1> DEFINE id == NewId
           ref == Credential(c, NoRef)
           row == ProfileOf("openwebui", location, ref, "terminal")
           w == [op |-> "terminal", id |-> id, profile |-> row, credential |-> c]
<1>1. /\ waiting' = waiting \cup {w} /\ drawnIds' = id
      /\ UNCHANGED <<profiles, secretFiles, settingsRef, work, dataRoot, drawn, interrupted>>
  BY DEF TerminalLooks
<1>2. drawnIds \in Nat /\ id \in Nat /\ dataRoot \in Roots
  BY DEF ConsoleInv, ProfilesWell, SettingsWell, NewId
<1>3. RefersTo(ref, {SourceSecret(id)}) /\ ref.type # "file"
  <2>1. RefersTo(ref, {NoRef}) /\ ref.type # "file"
    BY <1>2, CredentialMade
  <2> QED
    BY <2>1 DEF RefersTo
<1> HIDE DEF ref
<1>4. RowWell(id, row) /\ row.ref = ref /\ row.origin = "terminal"
  BY <1>3, RowMade, KindsAssumption
<1> HIDE DEF row, id
<1>5. w.op = "terminal" /\ w.id = id /\ w.profile = row
  OBVIOUS
<1> HIDE DEF w
<1>6. ProfilesWell' /\ OneProfilePerSource' /\ ProfilesKeepTheirKeys'
  BY <1>1, <1>2, ProfilesStay, ProfileKeysStay DEF ConsoleInv
<1>7. SettingsWell' /\ WorkWell'
  BY <1>1, WorkStays DEF ConsoleInv, SettingsWell, WorkWell, RefersTo, DefaultSecret
<1>8. ConnectWell'
  BY <1>1, <1>5 DEF ConsoleInv, ConnectWell
<1>9. TerminalWell'
  BY <1>1, <1>2, <1>3, <1>4, <1>5 DEF ConsoleInv, TerminalWell, RowWell, RefersTo, SourceSecret
<1>10. QuestionsWell'
  BY <1>1, <1>5 DEF ConsoleInv, QuestionsWell, QuestionWell, RefersTo, OfAnalyses, DefaultSecret, AnalysisSecret
<1>11. NoStrayKeys'
  BY <1>1, KeysStay DEF ConsoleInv
<1> QED
  BY <1>6, <1>7, <1>8, <1>9, <1>10, <1>11 DEF ConsoleInv

(* The terminal inserts what it looked for: its profile may be a second    *)
(* one, and it is marked as one of the terminal.                           *)
LEMMA InsertingKeeps ==
    ASSUME ConsoleInv, NEW w \in waiting, TerminalInserts(w)
    PROVE  ConsoleInv'
<1>1. /\ w.op = "terminal" /\ waiting' = waiting \ {w} /\ profiles' = WithProfile(w.id, w.profile)
      /\ UNCHANGED <<secretFiles, settingsRef, work, dataRoot, drawnIds, drawn, interrupted>>
  BY DEF TerminalInserts
<1>2. w.id \in Nat /\ RowWell(w.id, w.profile) /\ w.profile.ref.type # "file" /\ w.profile.origin = "terminal"
  BY <1>1 DEF ConsoleInv, TerminalWell
<1>3. /\ DOMAIN profiles' = DOMAIN profiles \cup {w.id} /\ profiles'[w.id] = w.profile
      /\ \A other \in DOMAIN profiles \ {w.id} : profiles'[other] = profiles[other]
  BY <1>1 DEF WithProfile
<1>4. ProfilesWell'
  BY <1>1, <1>2, <1>3 DEF ConsoleInv, ProfilesWell, RowWell, RefersTo, SourceSecret
<1>5. OneProfilePerSource'
  <2> SUFFICES ASSUME NEW a \in DOMAIN profiles', NEW b \in DOMAIN profiles', a # b, SameSource(profiles'[a], profiles'[b])
               PROVE  "terminal" \in {profiles'[a].origin, profiles'[b].origin}
    BY DEF OneProfilePerSource, SameSource
  <2>1. CASE a = w.id \/ b = w.id
    BY <1>2, <1>3, <2>1
  <2>2. CASE a # w.id /\ b # w.id
    BY <1>3, <2>2 DEF ConsoleInv, OneProfilePerSource
  <2> QED
    BY <2>1, <2>2
<1>6. ProfilesKeepTheirKeys'
  BY <1>1, <1>2, <1>3 DEF ConsoleInv, ProfilesKeepTheirKeys
<1>7. SettingsWell' /\ WorkWell'
  BY <1>1, WorkStays DEF ConsoleInv, SettingsWell, WorkWell, RefersTo, DefaultSecret
<1>8. ConnectWell' /\ TerminalWell' /\ QuestionsWell'
  BY <1>1, HandlersStay DEF ConsoleInv
<1>9. NoStrayKeys'
  BY <1>1, KeysStay DEF ConsoleInv
<1> QED
  BY <1>4, <1>5, <1>6, <1>7, <1>8, <1>9 DEF ConsoleInv

(* The page rebinds references to the directory as it is now: the file has *)
(* the same name, so it is the same key.                                   *)
LEMMA RenderingKeeps ==
    ASSUME ConsoleInv, NEW rebound \in SUBSET DOMAIN profiles, RendersPage(rebound)
    PROVE  ConsoleInv'
<1>1. /\ profiles' = [id \in DOMAIN profiles |->
                         IF id \in rebound THEN [profiles[id] EXCEPT !.ref = FileRef(profiles[id].ref.name)] ELSE profiles[id]]
      /\ \A id \in rebound : Rebindable(profiles[id].ref)
      /\ UNCHANGED <<secretFiles, settingsRef, work, waiting, dataRoot, drawnIds, drawn, interrupted>>
  BY DEF RendersPage
<1>2. DOMAIN profiles' = DOMAIN profiles /\ dataRoot \in Roots /\ ProfilesWell
  BY <1>1 DEF ConsoleInv, SettingsWell
<1>3. ASSUME NEW id \in DOMAIN profiles
      PROVE  /\ RowWell(id, profiles'[id]) /\ profiles'[id].kind = profiles[id].kind
             /\ profiles'[id].location = profiles[id].location /\ profiles'[id].origin = profiles[id].origin
             /\ profiles'[id].ref.type = profiles[id].ref.type /\ profiles'[id].ref.name = profiles[id].ref.name
  <2>1. RowWell(id, profiles[id]) /\ profiles[id] \in Rows /\ profiles[id].ref \in Refs
    BY <1>2 DEF ProfilesWell, RowWell, Rows
  <2>2. CASE id \notin rebound
    BY <1>1, <2>1, <2>2
  <2>3. CASE id \in rebound
    <3>1. profiles[id].ref.type = "file" /\ profiles[id].ref.name = SourceSecret(id) /\ profiles[id].ref.name \in Names
      BY <1>1, <2>1, <2>3 DEF Rebindable, RowWell, RefersTo, Refs
    <3>2. PICK ref : ref = FileRef(profiles[id].ref.name)
      OBVIOUS
    <3>3. ref.type = "file" /\ ref.name = profiles[id].ref.name /\ RefersTo(ref, {SourceSecret(id)})
      BY <1>2, <3>1, <3>2, FileRefMade
    <3>4. profiles'[id] = [profiles[id] EXCEPT !.ref = ref]
      BY <1>1, <2>3, <3>2
    <3> QED
      BY <2>1, <3>1, <3>3, <3>4, RowRefers
  <2> QED
    BY <2>2, <2>3
<1>4. ProfilesWell'
  BY <1>1, <1>2, <1>3 DEF ProfilesWell, RowWell, RefersTo, SourceSecret
<1>5. OneProfilePerSource'
  BY <1>2, <1>3 DEF ConsoleInv, OneProfilePerSource, SameSource
<1>6. ProfilesKeepTheirKeys'
  BY <1>1, <1>2, <1>3 DEF ConsoleInv, ProfilesKeepTheirKeys
<1>7. SettingsWell' /\ WorkWell'
  BY <1>1, WorkStays DEF ConsoleInv, SettingsWell, WorkWell, RefersTo, DefaultSecret
<1>8. ConnectWell' /\ TerminalWell' /\ QuestionsWell'
  BY <1>1, HandlersStay DEF ConsoleInv
<1>9. NoStrayKeys'
  BY <1>1, KeysStay DEF ConsoleInv
<1> QED
  BY <1>4, <1>5, <1>6, <1>7, <1>8, <1>9 DEF ConsoleInv
-------------------------------------------------------------------------------
(* The settings have one file, and no other is touched when they change.   *)
LEMMA SettingsFiles ==
    ASSUME SettingsWell, NEW change \in {"keep", "remove", "key", "env", "blank"}, secretFiles' = FilesOfSettings(change)
    PROVE  \A name : name # DefaultSecret => (name \in secretFiles <=> name \in secretFiles')
<1>1. Deletable(settingsRef) \subseteq {DefaultSecret}
  BY DEF SettingsWell, RefersTo, Deletable
<1>2. CASE change = "keep"
  BY <1>2 DEF FilesOfSettings
<1>3. CASE change = "key"
  BY <1>1, <1>3 DEF FilesOfSettings
<1>4. CASE change \notin {"keep", "key"}
  BY <1>1, <1>4 DEF FilesOfSettings
<1> QED
  BY <1>2, <1>3, <1>4

(* What goes with any change of the settings' file alone. *)
LEMMA OtherFilesKeep ==
    ASSUME ConsoleInv, UNCHANGED <<profiles, work, dataRoot, drawnIds, drawn>>,
           \A name : name # DefaultSecret => (name \in secretFiles <=> name \in secretFiles')
    PROVE  /\ ProfilesWell' /\ OneProfilePerSource' /\ ProfilesKeepTheirKeys' /\ WorkWell'
           /\ \A n \in 1..drawn : AnalysisSecret(n) \in secretFiles <=> AnalysisSecret(n) \in secretFiles'
<1>1. \A n \in 1..drawn : AnalysisSecret(n) \in secretFiles <=> AnalysisSecret(n) \in secretFiles'
  BY NamesDiffer
<1>2. ProfilesWell' /\ OneProfilePerSource' /\ ProfilesKeepTheirKeys'
  BY NamesDiffer, ProfilesStay, ProfileKeysStay DEF ConsoleInv, ProfilesWell
<1>3. \A i \in DOMAIN work : work[i].own => work[i].ai.name \in OfAnalyses
  BY DEF ConsoleInv, WorkWell, SubmissionWell
<1>4. \A i \in DOMAIN work : work[i].own /\ work[i].ai.name \in secretFiles => work[i].ai.name \in secretFiles'
  BY <1>1, <1>3 DEF OfAnalyses
<1>5. drawn \in Nat /\ drawn <= drawn' /\ drawn' \in Nat
  BY DEF ConsoleInv, WorkWell
<1> QED
  BY <1>1, <1>2, <1>4, <1>5, WorkStays DEF ConsoleInv

(* The settings are saved. *)
LEMMA SavingSettingsKeeps ==
    ASSUME ConsoleInv, NEW change \in {"keep", "remove", "key", "env", "blank"}, NEW fits \in BOOLEAN,
           SavesSettings(change, fits)
    PROVE  ConsoleInv'
<1>1. /\ secretFiles' = FilesOfSettings(change)
      /\ settingsRef' = IF ~fits \/ change \in {"keep", "blank"} THEN settingsRef ELSE Credential(change, DefaultSecret)
      /\ UNCHANGED <<profiles, work, waiting, dataRoot, drawnIds, drawn, interrupted>>
  BY DEF SavesSettings
<1>2. SettingsWell'
  <2>1. SettingsWell /\ dataRoot \in Roots
    BY DEF ConsoleInv, SettingsWell
  <2>2. CASE settingsRef' = settingsRef
    BY <1>1, <2>1, <2>2 DEF SettingsWell, RefersTo, DefaultSecret
  <2>3. CASE change \in {"remove", "key", "env"} /\ settingsRef' = Credential(change, DefaultSecret)
    <3>1. RefersTo(Credential(change, DefaultSecret), {DefaultSecret})
      BY <2>1, <2>3, NamesMade, CredentialMade
    <3> QED
      BY <1>1, <2>1, <2>3, <3>1 DEF SettingsWell, RefersTo, DefaultSecret
  <2> QED
    BY <1>1, <2>2, <2>3
<1>3. \A name : name # DefaultSecret => (name \in secretFiles <=> name \in secretFiles')
  BY <1>1, SettingsFiles DEF ConsoleInv
<1>4. /\ ProfilesWell' /\ OneProfilePerSource' /\ ProfilesKeepTheirKeys' /\ WorkWell'
      /\ \A n \in 1..drawn : AnalysisSecret(n) \in secretFiles <=> AnalysisSecret(n) \in secretFiles'
  BY <1>1, <1>3, OtherFilesKeep
<1>5. ConnectWell' /\ TerminalWell' /\ QuestionsWell'
  BY <1>1, HandlersStay DEF ConsoleInv
<1>6. NoStrayKeys'
  BY <1>1, <1>4, KeysStay DEF ConsoleInv
<1> QED
  BY <1>2, <1>4, <1>5, <1>6 DEF ConsoleInv
-------------------------------------------------------------------------------
(* Names of analyses that were drawn before are not the next one. *)
LEMMA NextNameIsNew ==
    ASSUME drawn \in Nat
    PROVE  /\ AnalysisSecret(drawn + 1) \notin {DefaultSecret, NoRef.name} \cup OfAnalyses
           /\ AnalysisSecret(drawn + 1) \in Names
           /\ \A n \in 1..(drawn + 1) : n \in 1..drawn \/ n = drawn + 1
<1>1. drawn + 1 \in Nat /\ drawn + 1 \in 1..(drawn + 1) /\ drawn + 1 \notin 1..drawn
  BY SMT
<1>2. AnalysisSecret(drawn + 1) \notin OfAnalyses
  BY <1>1, NamesDiffer DEF OfAnalyses
<1>3. AnalysisSecret(drawn + 1) # DefaultSecret
  BY <1>1, SMT DEF AnalysisSecret, DefaultSecret
<1>4. AnalysisSecret(drawn + 1) # NoRef.name
  BY NamesDiffer
<1>5. \A n \in 1..(drawn + 1) : n \in 1..drawn \/ n = drawn + 1
  BY SMT
<1> QED
  BY <1>1, <1>2, <1>3, <1>4, <1>5, NamesMade

(* The names drawn so far include those drawn before. *)
LEMMA NamesGrow ==
    ASSUME drawn \in Nat, drawn' \in {drawn, drawn + 1}
    PROVE  /\ drawn' \in Nat /\ drawn <= drawn' /\ OfAnalyses \subseteq OfAnalyses'
           /\ OfAnalyses' \subseteq OfAnalyses \cup {AnalysisSecret(drawn + 1)}
<1>1. drawn' \in Nat /\ drawn <= drawn' /\ 1..drawn \subseteq 1..drawn'
  BY SMT
<1>2. \A n \in 1..drawn' : n \in 1..drawn \/ n = drawn + 1
  BY SMT
<1> QED
  BY <1>1, <1>2 DEF OfAnalyses, AnalysisSecret

(* A question keeps its key while another key is drawn for a job. *)
LEMMA QuestionKept ==
    ASSUME drawn \in Nat, drawn' \in {drawn, drawn + 1}, dataRoot' = dataRoot, NEW w, QuestionWell(w),
           \A i \in DOMAIN work' : work'[i].own =>
               \/ work'[i].ai.name = AnalysisSecret(drawn + 1)
               \/ i \in DOMAIN work /\ work[i].own /\ work'[i].ai = work[i].ai
    PROVE  QuestionWell(w)'
<1>1. RefersTo(w.temporary, {DefaultSecret} \cup OfAnalyses)
  BY DEF QuestionWell
<1>2. RefersTo(w.temporary, {DefaultSecret} \cup OfAnalyses)'
  BY <1>1, NamesGrow DEF RefersTo, DefaultSecret
<1>3. w.temporary.name # AnalysisSecret(drawn + 1)
  BY <1>1, NextNameIsNew DEF RefersTo
<1>4. w.temporary.name \in OfAnalyses' => w.temporary.name \in OfAnalyses
  BY <1>3, NamesGrow
<1> QED
  BY <1>2, <1>3, <1>4 DEF QuestionWell

(* A job or schedule is added. *)
LEMMA WorkGrows ==
    ASSUME WorkWell, drawn' \in {drawn, drawn + 1}, NEW new \in Submissions,
           work' = Append(work, new), SubmissionWell(new)',
           \A i \in DOMAIN work : work[i].own /\ work[i].ai.name \in secretFiles => work[i].ai.name \in secretFiles'
    PROVE  /\ WorkWell' /\ Len(work) + 1 \in DOMAIN work' /\ work'[Len(work) + 1] = new
           /\ \A i \in DOMAIN work : i \in DOMAIN work' /\ work'[i] = work[i]
           /\ \A i \in DOMAIN work' : i \in DOMAIN work \/ work'[i] = new
<1>1. work \in Seq(Submissions) /\ drawn \in Nat
  BY DEF WorkWell
<1>2. /\ work' \in Seq(Submissions) /\ Len(work) + 1 \in DOMAIN work' /\ work'[Len(work) + 1] = new
      /\ \A i \in DOMAIN work : i \in DOMAIN work' /\ work'[i] = work[i]
      /\ \A i \in DOMAIN work' : i \in DOMAIN work \/ i = Len(work) + 1
  BY <1>1
<1>3. ASSUME NEW i \in DOMAIN work
      PROVE  SubmissionWell(work[i])'
  <2>1. SubmissionWell(work[i])
    BY DEF WorkWell
  <2> QED
    BY <1>1, <2>1, NamesGrow DEF SubmissionWell, RefersTo, DefaultSecret
<1>4. ASSUME NEW i \in DOMAIN work'
      PROVE  SubmissionWell(work[i])'
  BY <1>2, <1>3, <1>4
<1> QED
  BY <1>1, <1>2, <1>4, NamesGrow DEF WorkWell

(* What a form for a scan refers to: its own new file, or what the         *)
(* settings say.                                                           *)
LEMMA AnalysisRefMade ==
    ASSUME SettingsWell, drawn \in Nat, NEW entered \in KeyFields
    PROVE  /\ entered = "key" => /\ AnalysisRef(entered).type = "file" /\ AnalysisRef(entered).root = dataRoot
                                 /\ AnalysisRef(entered).name = AnalysisSecret(drawn + 1)
                                 /\ RefersTo(AnalysisRef(entered), {AnalysisSecret(drawn + 1)})
           /\ entered # "key" => RefersTo(AnalysisRef(entered), {DefaultSecret})
           /\ AnalysisRef(entered) \in Refs
           /\ Created(entered) \in {AnalysisRef(entered), NoRef}
           /\ entered = "key" => Created(entered) = AnalysisRef(entered)
<1>1. CASE entered = "key"
  <2>1. AnalysisRef(entered) = FileRef(AnalysisSecret(drawn + 1)) /\ Created(entered) = AnalysisRef(entered)
    BY <1>1 DEF AnalysisRef, Created
  <2> QED
    BY <1>1, <2>1, FileRefMade, NextNameIsNew DEF SettingsWell, RefersTo
<1>2. CASE entered = "env"
  <2>1. AnalysisRef(entered) = EnvRef /\ Created(entered) = NoRef
    BY <1>2 DEF AnalysisRef, Created
  <2> QED
    BY <1>2, <2>1, RefsMade
<1>3. CASE entered \notin {"key", "env"}
  <2>1. AnalysisRef(entered) = settingsRef /\ Created(entered) \in {AnalysisRef(entered), NoRef}
    BY <1>3 DEF AnalysisRef, Created
  <2> QED
    BY <1>3, <2>1 DEF SettingsWell, RefersTo
<1> QED
  BY <1>1, <1>2, <1>3

(* The files after a form: only its own and that of the settings change. *)
LEMMA FilesOfForms ==
    ASSUME SettingsWell, drawn \in Nat, NEW entered \in KeyFields,
           secretFiles' \in {FilesWith(entered), FilesWith(entered) \ Deletable(Created(entered))}
    PROVE  /\ \A name : name \notin {DefaultSecret, AnalysisSecret(drawn + 1)} => (name \in secretFiles <=> name \in secretFiles')
           /\ entered = "key" /\ secretFiles' = FilesWith(entered) => AnalysisSecret(drawn + 1) \in secretFiles'
           /\ entered = "key" /\ secretFiles' # FilesWith(entered) => AnalysisSecret(drawn + 1) \notin secretFiles'
<1>1. CASE entered = "key"
  <2>1. Deletable(Created(entered)) = {AnalysisSecret(drawn + 1)}
    BY <1>1, AnalysisRefMade DEF Deletable
  <2>2. FilesWith(entered) = secretFiles \cup {AnalysisSecret(drawn + 1)}
    BY <1>1 DEF FilesWith
  <2> QED
    BY <2>1, <2>2
<1>2. CASE entered # "key"
  <2>1. Deletable(Created(entered)) \subseteq {DefaultSecret}
    <3>1. RefersTo(Created(entered), {DefaultSecret})
      BY <1>2, AnalysisRefMade, RefsMade
    <3> QED
      BY <3>1 DEF RefersTo, Deletable
  <2>2. FilesWith(entered) = secretFiles
    BY <1>2 DEF FilesWith
  <2> QED
    BY <1>2, <2>1, <2>2
<1> QED
  BY <1>1, <1>2

(* What goes with any step that changes those two files. *)
LEMMA FormsKeepTheRest ==
    ASSUME ConsoleInv, UNCHANGED <<profiles, settingsRef, dataRoot, drawnIds>>,
           \A name : name \notin {DefaultSecret, AnalysisSecret(drawn + 1)} => (name \in secretFiles <=> name \in secretFiles')
    PROVE  /\ ProfilesWell' /\ OneProfilePerSource' /\ ProfilesKeepTheirKeys' /\ SettingsWell'
           /\ \A n \in 1..drawn : AnalysisSecret(n) \in secretFiles <=> AnalysisSecret(n) \in secretFiles'
           /\ \A i \in DOMAIN work : work[i].own /\ work[i].ai.name \in secretFiles => work[i].ai.name \in secretFiles'
<1>1. drawn \in Nat
  BY DEF ConsoleInv, WorkWell
<1>2. \A n \in 1..drawn : AnalysisSecret(n) \in OfAnalyses
  BY DEF OfAnalyses
<1>3. \A n \in 1..drawn : AnalysisSecret(n) \in secretFiles <=> AnalysisSecret(n) \in secretFiles'
  BY <1>1, <1>2, NextNameIsNew, NamesDiffer
<1>4. \A i \in DOMAIN work : work[i].own => work[i].ai.name \in OfAnalyses
  BY DEF ConsoleInv, WorkWell, SubmissionWell
<1>5. \A i \in DOMAIN work : work[i].own /\ work[i].ai.name \in secretFiles => work[i].ai.name \in secretFiles'
  BY <1>3, <1>4 DEF OfAnalyses
<1>6. ProfilesWell' /\ OneProfilePerSource' /\ ProfilesKeepTheirKeys'
  BY NamesDiffer, ProfilesStay, ProfileKeysStay DEF ConsoleInv, ProfilesWell
<1>7. SettingsWell'
  BY DEF ConsoleInv, SettingsWell, RefersTo, DefaultSecret
<1> QED
  BY <1>3, <1>5, <1>6, <1>7

(* A form for a scan is sent: a key of its own is kept when the job is     *)
(* made, and goes when the form is refused; a form sent before has no key  *)
(* of its own, for the keys would differ.                                  *)
LEMMA SubmittingKeeps ==
    ASSUME ConsoleInv, NEW mode \in Modes, NEW key \in SubmissionKeys, NEW entered \in KeyFields,
           NEW source \in [kind : {"local", "openwebui", "website"}, ref : Refs, consent : BOOLEAN],
           Submits(mode, key, source, entered)
    PROVE  ConsoleInv'
<1>1. PICK new : new = Submission(mode, key, source, entered)
  OBVIOUS
<1>2. PICK next : next = AnalysisSecret(drawn + 1)
  OBVIOUS
<1>3. /\ work' = IF Accepted(new) /\ Earlier(new) = {} THEN Append(work, new) ELSE work
      /\ secretFiles' = IF Accepted(new) THEN FilesWith(entered) ELSE FilesWith(entered) \ Deletable(Created(entered))
      /\ drawn' = IF entered = "key" THEN drawn + 1 ELSE drawn
      /\ UNCHANGED <<profiles, settingsRef, waiting, dataRoot, drawnIds, interrupted>>
  BY <1>1 DEF Submits, Draws
<1>4. /\ SettingsWell /\ WorkWell /\ drawn \in Nat /\ drawn' \in {drawn, drawn + 1}
      /\ secretFiles' \in {FilesWith(entered), FilesWith(entered) \ Deletable(Created(entered))}
  BY <1>3 DEF ConsoleInv, WorkWell
<1>5. /\ \A name : name \notin {DefaultSecret, next} => (name \in secretFiles <=> name \in secretFiles')
      /\ entered = "key" /\ Accepted(new) => next \in secretFiles'
  BY <1>2, <1>3, <1>4, FilesOfForms
<1>6. /\ ProfilesWell' /\ OneProfilePerSource' /\ ProfilesKeepTheirKeys' /\ SettingsWell'
      /\ \A n \in 1..drawn : AnalysisSecret(n) \in secretFiles <=> AnalysisSecret(n) \in secretFiles'
      /\ \A i \in DOMAIN work : work[i].own /\ work[i].ai.name \in secretFiles => work[i].ai.name \in secretFiles'
  BY <1>2, <1>3, <1>5, FormsKeepTheRest
<1>7. new \in Submissions /\ new.ai = AnalysisRef(entered) /\ (new.own <=> entered = "key")
  <2>1. AnalysisRef(entered) \in Refs
    BY <1>4, AnalysisRefMade
  <2> QED
    BY <1>1, <2>1 DEF Submission, Submissions
<1>8. ASSUME entered = "key", Accepted(new)
      PROVE  Earlier(new) = {}
  <2> SUFFICES ASSUME NEW i \in DOMAIN work, work[i].ai = new.ai
               PROVE  FALSE
    BY <1>8 DEF Accepted, SameRequest, Earlier
  <2>1. new.ai.name = next
    BY <1>2, <1>4, <1>7, <1>8, AnalysisRefMade
  <2>2. work[i].ai.name \in {DefaultSecret, NoRef.name} \cup OfAnalyses
    BY <1>4 DEF WorkWell, SubmissionWell, RefersTo
  <2> QED
    BY <1>2, <1>4, <2>1, <2>2, NextNameIsNew
<1>9. ASSUME Accepted(new)
      PROVE  SubmissionWell(new)'
  <2>1. CASE entered = "key"
    <3>1. next \in OfAnalyses'
      <4>1. drawn' = drawn + 1 /\ drawn + 1 \in 1..drawn'
        BY <1>3, <1>4, <2>1
      <4> QED
        BY <1>2, <4>1 DEF OfAnalyses, AnalysisSecret
    <3>2. new.ai.type = "file" /\ new.ai.name = next /\ new.ai \in Refs
      BY <1>2, <1>4, <1>7, <2>1, AnalysisRefMade
    <3> QED
      BY <1>5, <1>9, <2>1, <3>1, <3>2 DEF SubmissionWell, RefersTo
  <2>2. CASE entered # "key"
    <3>1. RefersTo(new.ai, {DefaultSecret}) /\ ~new.own
      BY <1>4, <1>7, <2>2, AnalysisRefMade
    <3> QED
      BY <3>1 DEF SubmissionWell, RefersTo, DefaultSecret
  <2> QED
    BY <2>1, <2>2
<1>10. /\ WorkWell'
       /\ \A i \in DOMAIN work : i \in DOMAIN work' /\ work'[i] = work[i]
       /\ \A i \in DOMAIN work' : i \in DOMAIN work \/ (work'[i] = new /\ Accepted(new))
       /\ Accepted(new) /\ Earlier(new) = {} => \E i \in DOMAIN work' : work'[i] = new
  <2>1. CASE Accepted(new) /\ Earlier(new) = {}
    <3>1. work' = Append(work, new)
      BY <1>3, <2>1
    <3> QED
      BY <1>4, <1>6, <1>7, <1>9, <2>1, <3>1, WorkGrows
  <2>2. CASE ~(Accepted(new) /\ Earlier(new) = {})
    BY <1>3, <1>4, <1>6, <2>2, WorkStays, NamesGrow
  <2> QED
    BY <2>1, <2>2
<1>11. ConnectWell' /\ TerminalWell'
  BY <1>3 DEF ConsoleInv, ConnectWell, TerminalWell, RowWell, RefersTo, SourceSecret
<1>12. QuestionsWell'
  <2>1. \A i \in DOMAIN work' : work'[i].own =>
            \/ work'[i].ai.name = AnalysisSecret(drawn + 1)
            \/ i \in DOMAIN work /\ work[i].own /\ work'[i].ai = work[i].ai
    BY <1>2, <1>4, <1>7, <1>10, AnalysisRefMade
  <2> SUFFICES ASSUME NEW w \in waiting, w.op = "models"
               PROVE  QuestionWell(w)'
    BY <1>3 DEF QuestionsWell
  <2>2. QuestionWell(w)
    BY DEF ConsoleInv, QuestionsWell
  <2> QED
    BY <1>3, <1>4, <2>1, <2>2, QuestionKept
<1>13. NoStrayKeys'
  <2> SUFFICES ASSUME ~interrupted, NEW n \in 1..drawn', AnalysisSecret(n) \in secretFiles'
               PROVE  \/ \E i \in DOMAIN work' : work'[i].ai.name = AnalysisSecret(n)
                      \/ \E w \in waiting' : w.op = "models" /\ w.temporary.name = AnalysisSecret(n)
    BY <1>3 DEF NoStrayKeys, AnalysisSecret
  <2>1. CASE n \in 1..drawn
    <3>1. \/ \E i \in DOMAIN work : work[i].ai.name = AnalysisSecret(n)
          \/ \E w \in waiting : w.op = "models" /\ w.temporary.name = AnalysisSecret(n)
      BY <1>6, <2>1 DEF ConsoleInv, NoStrayKeys
    <3> QED
      BY <1>3, <1>10, <3>1
  <2>2. CASE n \notin 1..drawn
    <3>1. entered = "key" /\ n = drawn + 1
      BY <1>3, <1>4, <2>2, NextNameIsNew
    <3>2. Accepted(new)
      <4>1. CASE ~Accepted(new)
        <5>1. secretFiles' = FilesWith(entered) \ {next}
          BY <1>2, <1>3, <1>4, <3>1, <4>1, AnalysisRefMade DEF Deletable
        <5> QED
          BY <1>2, <3>1, <5>1
      <4> QED
        BY <4>1
    <3>3. new.ai.name = AnalysisSecret(n)
      BY <1>4, <1>7, <3>1, AnalysisRefMade
    <3> QED
      BY <1>8, <1>10, <3>1, <3>2, <3>3
  <2> QED
    BY <2>1, <2>2
<1> QED
  BY <1>6, <1>10, <1>11, <1>12, <1>13 DEF ConsoleInv
-------------------------------------------------------------------------------
(* A question for models is asked: its key is held by the handler.         *)
LEMMA AskingKeeps ==
    ASSUME ConsoleInv, NEW entered \in KeyFields, BeginsModels(entered)
    PROVE  ConsoleInv'
<1>1. PICK w : w = [op |-> "models", id |-> 0, temporary |-> Created(entered)]
  OBVIOUS
<1>2. PICK next : next = AnalysisSecret(drawn + 1)
  OBVIOUS
<1>3. /\ secretFiles' = FilesWith(entered) /\ waiting' = waiting \cup {w}
      /\ drawn' = IF entered = "key" THEN drawn + 1 ELSE drawn
      /\ UNCHANGED <<profiles, settingsRef, work, dataRoot, drawnIds, interrupted>>
  BY <1>1 DEF BeginsModels, Draws
<1>4. SettingsWell /\ WorkWell /\ drawn \in Nat /\ drawn' \in {drawn, drawn + 1}
  BY <1>3 DEF ConsoleInv, WorkWell
<1>5. \A name : name \notin {DefaultSecret, next} => (name \in secretFiles <=> name \in secretFiles')
  BY <1>2, <1>3, <1>4, FilesOfForms
<1>6. /\ ProfilesWell' /\ OneProfilePerSource' /\ ProfilesKeepTheirKeys' /\ SettingsWell'
      /\ \A n \in 1..drawn : AnalysisSecret(n) \in secretFiles <=> AnalysisSecret(n) \in secretFiles'
      /\ \A i \in DOMAIN work : work[i].own /\ work[i].ai.name \in secretFiles => work[i].ai.name \in secretFiles'
  BY <1>2, <1>3, <1>5, FormsKeepTheRest
<1>7. WorkWell'
  BY <1>3, <1>4, <1>6, WorkStays, NamesGrow
<1>8. w.op = "models" /\ w.temporary = Created(entered)
  BY <1>1
<1>9. ConnectWell' /\ TerminalWell'
  BY <1>3, <1>8 DEF ConsoleInv, ConnectWell, TerminalWell, RowWell, RefersTo, SourceSecret
<1>10. QuestionWell(w)'
  <2>1. \A i \in DOMAIN work : work[i].own => work[i].ai.name \in OfAnalyses
    BY <1>4 DEF WorkWell, SubmissionWell
  <2>2. CASE entered = "key"
    <3>1. next \in OfAnalyses'
      <4>1. drawn' = drawn + 1 /\ drawn + 1 \in 1..drawn'
        BY <1>3, <1>4, <2>2
      <4> QED
        BY <1>2, <4>1 DEF OfAnalyses, AnalysisSecret
    <3>2. w.temporary.type = "file" /\ w.temporary.name = next /\ w.temporary.root = dataRoot /\ w.temporary \in Refs
      BY <1>2, <1>4, <1>8, <2>2, AnalysisRefMade
    <3>3. next \notin OfAnalyses
      BY <1>2, <1>4, NextNameIsNew
    <3> QED
      BY <1>3, <2>1, <3>1, <3>2, <3>3 DEF QuestionWell, RefersTo
  <2>3. CASE entered # "key"
    <3>1. RefersTo(w.temporary, {DefaultSecret})
      BY <1>4, <1>8, <2>3, AnalysisRefMade, RefsMade
    <3>2. w.temporary.name \notin OfAnalyses /\ OfAnalyses' = OfAnalyses
      BY <1>3, <2>3, <3>1, NamesDiffer DEF OfAnalyses, RefersTo, AnalysisSecret
    <3> QED
      BY <1>3, <2>1, <3>1, <3>2 DEF QuestionWell, RefersTo, DefaultSecret
  <2> QED
    BY <2>2, <2>3
<1>11. QuestionsWell'
  <2> SUFFICES ASSUME NEW v \in waiting, v.op = "models"
               PROVE  QuestionWell(v)'
    BY <1>3, <1>10 DEF QuestionsWell
  <2>1. QuestionWell(v)
    BY DEF ConsoleInv, QuestionsWell
  <2> QED
    BY <1>3, <1>4, <2>1, QuestionKept
<1>12. NoStrayKeys'
  <2> SUFFICES ASSUME ~interrupted, NEW n \in 1..drawn', AnalysisSecret(n) \in secretFiles'
               PROVE  \/ \E i \in DOMAIN work' : work'[i].ai.name = AnalysisSecret(n)
                      \/ \E v \in waiting' : v.op = "models" /\ v.temporary.name = AnalysisSecret(n)
    BY <1>3 DEF NoStrayKeys, AnalysisSecret
  <2>1. CASE n \in 1..drawn
    <3>1. \/ \E i \in DOMAIN work : work[i].ai.name = AnalysisSecret(n)
          \/ \E v \in waiting : v.op = "models" /\ v.temporary.name = AnalysisSecret(n)
      BY <1>6, <2>1 DEF ConsoleInv, NoStrayKeys
    <3> QED
      BY <1>3, <3>1
  <2>2. CASE n \notin 1..drawn
    <3>1. entered = "key" /\ n = drawn + 1
      BY <1>3, <1>4, <2>2, NextNameIsNew
    <3>2. w.temporary.name = AnalysisSecret(n)
      BY <1>4, <1>8, <3>1, AnalysisRefMade
    <3> QED
      BY <1>3, <1>8, <3>2
  <2> QED
    BY <2>1, <2>2
<1> QED
  BY <1>6, <1>7, <1>9, <1>11, <1>12 DEF ConsoleInv

(* The question is answered: what is removed is its own key, or that of    *)
(* the settings when a key of blanks was entered.                          *)
LEMMA AnsweredKeeps ==
    ASSUME ConsoleInv, NEW w \in waiting, EndsModels(w)
    PROVE  ConsoleInv'
<1>1. /\ w.op = "models" /\ waiting' = waiting \ {w} /\ secretFiles' = secretFiles \ Deletable(w.temporary)
      /\ UNCHANGED <<profiles, settingsRef, work, dataRoot, drawnIds, drawn, interrupted>>
  BY DEF EndsModels
<1>2. RefersTo(w.temporary, {DefaultSecret} \cup OfAnalyses) /\ QuestionWell(w) /\ WorkWell /\ drawn \in Nat
  BY <1>1 DEF ConsoleInv, QuestionsWell, QuestionWell, WorkWell
<1>3. Deletable(w.temporary) \subseteq {DefaultSecret} \cup OfAnalyses /\ Deletable(w.temporary) \subseteq {w.temporary.name}
  BY <1>2 DEF RefersTo, Deletable
<1>4. ProfilesWell' /\ OneProfilePerSource' /\ ProfilesKeepTheirKeys'
  <2>1. \A id \in Nat : SourceSecret(id) \notin {DefaultSecret} \cup OfAnalyses
    BY NamesDiffer DEF OfAnalyses
  <2> QED
    BY <1>1, <1>3, <2>1, ProfilesStay, ProfileKeysStay DEF ConsoleInv, ProfilesWell
<1>5. SettingsWell'
  BY <1>1 DEF ConsoleInv, SettingsWell, RefersTo, DefaultSecret
<1>6. WorkWell'
  <2>1. \A i \in DOMAIN work : work[i].own /\ work[i].ai.name \in secretFiles => work[i].ai.name \in secretFiles'
    BY <1>1, <1>2, <1>3 DEF QuestionWell
  <2> QED
    BY <1>1, <1>2, <2>1, WorkStays
<1>7. ConnectWell' /\ TerminalWell' /\ QuestionsWell'
  BY <1>1, HandlersStay DEF ConsoleInv
<1>8. NoStrayKeys'
  <2> SUFFICES ASSUME ~interrupted, NEW n \in 1..drawn, AnalysisSecret(n) \in secretFiles'
               PROVE  \/ \E i \in DOMAIN work : work[i].ai.name = AnalysisSecret(n)
                      \/ \E v \in waiting' : v.op = "models" /\ v.temporary.name = AnalysisSecret(n)
    BY <1>1 DEF NoStrayKeys, AnalysisSecret
  <2>1. \/ \E i \in DOMAIN work : work[i].ai.name = AnalysisSecret(n)
        \/ \E v \in waiting : v.op = "models" /\ v.temporary.name = AnalysisSecret(n)
    BY <1>1 DEF ConsoleInv, NoStrayKeys
  <2>2. w.temporary.name # AnalysisSecret(n)
    <3> SUFFICES ASSUME w.temporary.name = AnalysisSecret(n)
                 PROVE  FALSE
      OBVIOUS
    <3>1. w.temporary.name \in OfAnalyses /\ w.temporary.name # NoRef.name
      BY NamesDiffer DEF OfAnalyses
    <3>2. w.temporary.type = "file" /\ w.temporary.root = dataRoot
      BY <1>2, <3>1 DEF QuestionWell, RefersTo
    <3> QED
      BY <1>1, <3>2 DEF Deletable
  <2> QED
    BY <1>1, <2>1, <2>2
<1> QED
  BY <1>4, <1>5, <1>6, <1>7, <1>8 DEF ConsoleInv

(* A schedule is deleted: its row stays, and what it referred to.          *)
LEMMA UnschedulingKeeps ==
    ASSUME ConsoleInv, NEW i \in DOMAIN work, DeletesSchedule(i)
    PROVE  ConsoleInv'
<1>1. /\ work' = [work EXCEPT ![i].alive = FALSE]
      /\ UNCHANGED <<profiles, secretFiles, settingsRef, waiting, dataRoot, drawnIds, drawn, interrupted>>
  BY DEF DeletesSchedule
<1>2. work \in Seq(Submissions) /\ drawn \in Nat /\ drawn' \in Nat /\ drawn <= drawn'
  BY <1>1 DEF ConsoleInv, WorkWell
<1>3. PICK row : row = [work[i] EXCEPT !.alive = FALSE]
  OBVIOUS
<1>4. row \in Submissions /\ row.ai = work[i].ai /\ row.own = work[i].own
  <2>1. work[i] \in Submissions
    BY <1>2
  <2> QED
    BY <1>3, <2>1 DEF Submissions
<1>5. work' = [work EXCEPT ![i] = row]
  BY <1>1, <1>3
<1>6. /\ work' \in Seq(Submissions) /\ DOMAIN work' = DOMAIN work
      /\ \A j \in DOMAIN work : work'[j].ai = work[j].ai /\ work'[j].own = work[j].own
  BY <1>2, <1>4, <1>5
<1>7. WorkWell'
  <2>1. ASSUME NEW j \in DOMAIN work
        PROVE  SubmissionWell(work[j])'
    BY <1>1, <1>6 DEF ConsoleInv, WorkWell, SubmissionWell, RefersTo, OfAnalyses, DefaultSecret, AnalysisSecret
  <2> QED
    BY <1>1, <1>2, <1>6, <2>1 DEF WorkWell
<1>8. ProfilesWell' /\ OneProfilePerSource' /\ ProfilesKeepTheirKeys' /\ SettingsWell'
  BY <1>1, ProfilesStay, ProfileKeysStay DEF ConsoleInv, ProfilesWell, SettingsWell, RefersTo, DefaultSecret
<1>9. ConnectWell' /\ TerminalWell'
  BY <1>1 DEF ConsoleInv, ConnectWell, TerminalWell, RowWell, RefersTo, SourceSecret
<1>10. QuestionsWell'
  BY <1>1, <1>6 DEF ConsoleInv, QuestionsWell, QuestionWell, RefersTo, OfAnalyses, DefaultSecret, AnalysisSecret
<1>11. NoStrayKeys'
  BY <1>1, <1>6 DEF ConsoleInv, NoStrayKeys, AnalysisSecret
<1> QED
  BY <1>7, <1>8, <1>9, <1>10, <1>11 DEF ConsoleInv
-------------------------------------------------------------------------------
(* A crash: of what waits only the terminal is left, for it is a process   *)
(* of its own, and what it holds is as it was.                             *)
LEMMA CrashKeepsTerminal ==
    ASSUME ConsoleInv, Dies
    PROVE  ConnectWell' /\ TerminalWell' /\ QuestionsWell' /\ NoStrayKeys'
<1>1. waiting' \subseteq waiting /\ \A w \in waiting' : w.op = "terminal"
  BY DEF Dies
<1>2. ConnectWell' /\ TerminalWell' /\ QuestionsWell'
  BY <1>1 DEF ConsoleInv, ConnectWell, TerminalWell, QuestionsWell, RowWell, RefersTo, SourceSecret
<1> QED
  BY <1>2, KeysOfTheDead

(* The process dies in a handler that adds, deletes, submits or saves.     *)
LEMMA DyingKeeps ==
    ASSUME ConsoleInv, FaultSteps
    PROVE  ConsoleInv'
<1>1. CASE DiesAdding
  <2>1. /\ Dies /\ secretFiles' = secretFiles \cup {SourceSecret(NewId)} /\ drawnIds' = NewId
        /\ UNCHANGED <<profiles, settingsRef, work, dataRoot, drawn>>
    BY <1>1 DEF DiesAdding
  <2>2. NewId \in Nat
    BY DEF ConsoleInv, ProfilesWell, NewId
  <2>3. ProfilesWell' /\ OneProfilePerSource' /\ ProfilesKeepTheirKeys'
    BY <2>1, <2>2, ProfilesStay, ProfileKeysStay DEF ConsoleInv
  <2>4. SettingsWell' /\ WorkWell'
    BY <2>1, WorkStays DEF ConsoleInv, SettingsWell, WorkWell, RefersTo, DefaultSecret
  <2> QED
    BY <2>1, <2>3, <2>4, CrashKeepsTerminal DEF ConsoleInv
<1>2. ASSUME NEW id \in DOMAIN profiles, DiesDeleting(id)
      PROVE  ConsoleInv'
  <2>1. /\ Dies /\ profiles' = Removed(id)
        /\ UNCHANGED <<secretFiles, settingsRef, work, dataRoot, drawnIds, drawn>>
    BY <1>2 DEF DiesDeleting
  <2>2. /\ ProfilesWell' /\ OneProfilePerSource'
        /\ DOMAIN profiles' = DOMAIN profiles \ {id}
        /\ \A other \in DOMAIN profiles' : profiles'[other] = profiles[other]
    BY <2>1, RemovingKeeps DEF ConsoleInv
  <2>3. ProfilesKeepTheirKeys'
    BY <2>1, <2>2 DEF ConsoleInv, ProfilesKeepTheirKeys
  <2>4. SettingsWell' /\ WorkWell'
    BY <2>1, WorkStays DEF ConsoleInv, SettingsWell, WorkWell, RefersTo, DefaultSecret
  <2> QED
    BY <2>1, <2>2, <2>3, <2>4, CrashKeepsTerminal DEF ConsoleInv
<1>3. CASE DiesSubmitting
  <2>1. /\ Dies /\ secretFiles' = FilesWith("key") /\ drawn' = drawn + 1
        /\ UNCHANGED <<profiles, settingsRef, work, dataRoot, drawnIds>>
    BY <1>3 DEF DiesSubmitting, Draws
  <2>2. SettingsWell /\ WorkWell /\ drawn \in Nat /\ "key" \in KeyFields /\ drawn' \in {drawn, drawn + 1}
    BY <2>1 DEF ConsoleInv, WorkWell, KeyFields
  <2>3. \A name : name \notin {DefaultSecret, AnalysisSecret(drawn + 1)} => (name \in secretFiles <=> name \in secretFiles')
    BY <2>1, <2>2, FilesOfForms
  <2>4. /\ ProfilesWell' /\ OneProfilePerSource' /\ ProfilesKeepTheirKeys' /\ SettingsWell'
        /\ \A i \in DOMAIN work : work[i].own /\ work[i].ai.name \in secretFiles => work[i].ai.name \in secretFiles'
    BY <2>1, <2>3, FormsKeepTheRest
  <2>5. WorkWell'
    BY <2>1, <2>2, <2>4, WorkStays, NamesGrow
  <2> QED
    BY <2>1, <2>4, <2>5, CrashKeepsTerminal DEF ConsoleInv
<1>4. ASSUME NEW change \in {"key", "remove"}, DiesSaving(change)
      PROVE  ConsoleInv'
  <2>1. /\ Dies /\ secretFiles' = FilesOfSettings(change)
        /\ UNCHANGED <<profiles, settingsRef, work, dataRoot, drawnIds, drawn>>
    BY <1>4 DEF DiesSaving
  <2>2. SettingsWell /\ SettingsWell'
    BY <2>1 DEF ConsoleInv, SettingsWell, RefersTo, DefaultSecret
  <2>3. \A name : name # DefaultSecret => (name \in secretFiles <=> name \in secretFiles')
    BY <2>1, <2>2, SettingsFiles
  <2>4. ProfilesWell' /\ OneProfilePerSource' /\ ProfilesKeepTheirKeys' /\ WorkWell'
    BY <2>1, <2>3, OtherFilesKeep
  <2> QED
    BY <2>1, <2>2, <2>4, CrashKeepsTerminal DEF ConsoleInv
<1> QED
  BY <1>1, <1>2, <1>3, <1>4 DEF FaultSteps

(* The data is moved while nothing waits: the references stay as they are, *)
(* and hold where the data was.                                            *)
LEMMA MovingKeeps ==
    ASSUME ConsoleInv, NEW root \in Roots, MovesData(root)
    PROVE  ConsoleInv'
<1>1. /\ waiting' = {} /\ dataRoot' = root
      /\ UNCHANGED <<profiles, secretFiles, settingsRef, work, waiting, drawnIds, drawn, interrupted>>
  BY DEF MovesData
<1>2. ProfilesWell' /\ OneProfilePerSource' /\ ProfilesKeepTheirKeys' /\ SettingsWell'
  BY <1>1, ProfilesStay, ProfileKeysStay DEF ConsoleInv, ProfilesWell, SettingsWell, RefersTo, DefaultSecret
<1>3. WorkWell'
  BY <1>1, WorkStays DEF ConsoleInv, WorkWell
<1>4. ConnectWell' /\ TerminalWell' /\ QuestionsWell'
  BY <1>1 DEF ConnectWell, TerminalWell, QuestionsWell
<1>5. NoStrayKeys'
  BY <1>1, KeysStay DEF ConsoleInv
<1> QED
  BY <1>2, <1>3, <1>4, <1>5 DEF ConsoleInv
-------------------------------------------------------------------------------
(* Nothing is there at the start. *)
LEMMA ConsoleStarts == ConsoleInit => ConsoleInv
<1> SUFFICES ASSUME ConsoleInit
             PROVE  ConsoleInv
  OBVIOUS
<1>1. /\ profiles = <<>> /\ secretFiles = {} /\ settingsRef = NoRef /\ work = <<>> /\ waiting = {}
      /\ dataRoot = (CHOOSE root \in Roots : TRUE) /\ drawnIds = 0 /\ drawn = 0
  BY DEF ConsoleInit, ConsoleFresh
<1>2. DOMAIN profiles = {} /\ DOMAIN work = {} /\ work \in Seq(Submissions)
  BY <1>1
<1>3. ProfilesWell /\ WorkWell /\ ProfilesKeepTheirKeys /\ OneProfilePerSource
  BY <1>1, <1>2 DEF ProfilesWell, WorkWell, ProfilesKeepTheirKeys, OneProfilePerSource
<1>4. dataRoot \in Roots
  BY <1>1, RootsAssumption
<1>5. SettingsWell
  BY <1>1, <1>4, RefsMade DEF SettingsWell
<1>6. ConnectWell /\ TerminalWell /\ QuestionsWell
  BY <1>1 DEF ConnectWell, TerminalWell, QuestionsWell
<1>7. NoStrayKeys
  BY <1>1 DEF NoStrayKeys
<1> QED
  BY <1>3, <1>5, <1>6, <1>7 DEF ConsoleInv

(* A form that is sent keeps it. *)
LEMMA FormsKeep ==
    ASSUME ConsoleInv, FormSteps
    PROVE  ConsoleInv'
<1>1. ASSUME NEW k \in SourceKinds, NEW l \in Locations, NEW c \in {"none", "env", "key"}, AddsSource(k, l, c)
      PROVE  ConsoleInv'
  BY <1>1, AddingKeeps
<1>2. ASSUME NEW id \in DOMAIN profiles, NEW c \in {"env", "key"}, BeginsConnecting(id, c)
      PROVE  ConsoleInv'
  BY <1>2, BeginsConnectingKeeps
<1>3. ASSUME NEW id \in DOMAIN profiles, DeletesSource(id)
      PROVE  ConsoleInv'
  BY <1>3, DeletingKeeps
<1>4. ASSUME NEW l \in Locations, NEW c \in {"none", "env"}, TerminalLooks(l, c)
      PROVE  ConsoleInv'
  BY <1>4, LookingKeeps
<1>5. ASSUME NEW change \in {"keep", "remove", "key", "env", "blank"}, NEW fits \in BOOLEAN, SavesSettings(change, fits)
      PROVE  ConsoleInv'
  BY <1>5, SavingSettingsKeeps
<1>6. ASSUME NEW m \in Modes, NEW k \in SubmissionKeys, NEW e \in KeyFields, SubmitsLocal(m, k, e)
      PROVE  ConsoleInv'
  <2>1. PICK source : source = SourceOf("local", NoRef, FALSE)
    OBVIOUS
  <2>2. source \in [kind : {"local", "openwebui", "website"}, ref : Refs, consent : BOOLEAN]
    BY <2>1, RefsMade DEF SourceOf
  <2>3. Submits(m, k, source, e)
    BY <1>6, <2>1 DEF SubmitsLocal
  <2> QED
    BY <2>2, <2>3, SubmittingKeeps
<1>7. ASSUME NEW m \in Modes, NEW k \in SubmissionKeys, NEW id \in DOMAIN profiles, NEW e \in KeyFields,
             SubmitsOpenWebUI(m, k, id, TRUE, e)
      PROVE  ConsoleInv'
  <2>1. PICK source : source = SourceOf("openwebui", profiles[id].ref, TRUE)
    OBVIOUS
  <2>2. profiles[id].ref \in Refs
    BY DEF ConsoleInv, ProfilesWell, RowWell, RefersTo
  <2>3. source \in [kind : {"local", "openwebui", "website"}, ref : Refs, consent : BOOLEAN]
    BY <2>1, <2>2 DEF SourceOf
  <2>4. Submits(m, k, source, e)
    BY <1>7, <2>1 DEF SubmitsOpenWebUI
  <2> QED
    BY <2>3, <2>4, SubmittingKeeps
<1>8. ASSUME NEW m \in Modes, NEW k \in SubmissionKeys, NEW consent \in BOOLEAN, NEW e \in KeyFields,
             SubmitsWebsite(m, k, IF consent THEN EnvRef ELSE NoRef, consent, e)
      PROVE  ConsoleInv'
  <2>1. PICK ref : ref = IF consent THEN EnvRef ELSE NoRef
    OBVIOUS
  <2>2. PICK source : source = SourceOf("website", ref, consent)
    OBVIOUS
  <2>3. ref \in Refs
    BY <2>1, RefsMade
  <2>4. source \in [kind : {"local", "openwebui", "website"}, ref : Refs, consent : BOOLEAN]
    BY <2>2, <2>3 DEF SourceOf
  <2>5. Submits(m, k, source, e)
    BY <1>8, <2>1, <2>2 DEF SubmitsWebsite
  <2> QED
    BY <2>4, <2>5, SubmittingKeeps
<1>9. ASSUME NEW e \in KeyFields, BeginsModels(e)
      PROVE  ConsoleInv'
  BY <1>9, AskingKeeps
<1>10. ASSUME NEW i \in DOMAIN work, DeletesSchedule(i)
       PROVE  ConsoleInv'
  BY <1>10, UnschedulingKeeps
<1>11. ASSUME NEW root \in Roots, MovesData(root)
       PROVE  ConsoleInv'
  BY <1>11, MovingKeeps
<1> QED
  BY <1>1, <1>2, <1>3, <1>4, <1>5, <1>6, <1>7, <1>8, <1>9, <1>10, <1>11 DEF FormSteps

(* So does the second half of a handler, and a page. *)
LEMMA AnswersKeep ==
    ASSUME ConsoleInv, AnswerSteps
    PROVE  ConsoleInv'
BY EndsConnectingKeeps, InsertingKeeps, AnsweredKeeps, RenderingKeeps DEF AnswerSteps

(* And a step in which nothing of it changes. *)
LEMMA ConsoleStutters ==
    ASSUME ConsoleInv, UNCHANGED consoleVars
    PROVE  ConsoleInv'
<1>1. UNCHANGED <<profiles, secretFiles, settingsRef, work, waiting, dataRoot, drawnIds, drawn, interrupted>>
  BY DEF consoleVars
<1>2. ProfilesWell' /\ OneProfilePerSource' /\ ProfilesKeepTheirKeys' /\ SettingsWell'
  BY <1>1, ProfilesStay, ProfileKeysStay DEF ConsoleInv, ProfilesWell, SettingsWell, RefersTo, DefaultSecret
<1>3. WorkWell'
  BY <1>1, WorkStays DEF ConsoleInv, WorkWell
<1>4. ConnectWell' /\ TerminalWell' /\ QuestionsWell'
  BY <1>1, HandlersStay DEF ConsoleInv
<1>5. NoStrayKeys'
  BY <1>1, KeysStay DEF ConsoleInv
<1> QED
  BY <1>2, <1>3, <1>4, <1>5 DEF ConsoleInv

(* Credentials are kept with what was entered, for every number of         *)
(* profiles, jobs, handlers that overlap and places of the data: a profile *)
(* that refers to a key finds it, a job's own key is there when it runs, a *)
(* key nobody has is of a process that died, and two profiles the          *)
(* dashboard made are never of one source (web/dashboard.py,               *)
(* storage/machine_secrets.py, storage/source_repository.py).              *)
THEOREM CredentialsStay == ConsoleSpec => []CredentialsAreKept
<1>1. ConsoleInv /\ [ConsoleNext]_consoleVars => ConsoleInv'
  BY FormsKeep, AnswersKeep, DyingKeeps, ConsoleStutters DEF ConsoleNext
<1>2. ConsoleInv => CredentialsAreKept
  BY OwnKeysResolve DEF ConsoleInv, CredentialsAreKept
<1> QED
  BY <1>1, <1>2, ConsoleStarts, PTL DEF ConsoleSpec
-------------------------------------------------------------------------------
(***************************************************************************)
(* Installation, for every platform and any number of installers below     *)
(* NoPlace.                                                                *)
(***************************************************************************)

Registered == {"end", "run", "verify", "prune"}
Pointed == {"define", "command", "create"} \cup Registered
WindowsSteps == {"runtime", "pointer"} \cup Pointed \cup Over
OtherSteps == {"runtime", "define", "load", "restart"} \cup Over

(* The place an installer works at. *)
Place(i) == IF Windows THEN i ELSE 0

Installer == [kind : {"install", "update"}, step : WindowsSteps \cup OtherSteps, place : Nat]

InstallersWell ==
    /\ installers \in Seq(Installer)
    /\ Len(installers) <= MaxInstalls
    /\ \A i \in DOMAIN installers :
          /\ installers[i].place = Place(i)
          /\ installers[i].step \in (IF Windows THEN WindowsSteps ELSE OtherSteps)

Known == {Place(i) : i \in DOMAIN installers}

PlacesWell ==
    /\ DOMAIN places \subseteq Known
    /\ \A p \in DOMAIN places : places[p] \in [version : Nat, whole : BOOLEAN]
    /\ {pointer, task} \subseteq Known \cup {NoPlace}
    /\ commandThere => Windows

(* Without contention only the last installer is at work, and none while a *)
(* removal is waiting, which nothing registered survives.                  *)
Alone ==
    ~contended =>
        /\ \A i \in DOMAIN installers : i # Len(installers) \/ removing => installers[i].step \in Over
        /\ removing => task = NoPlace

Installed(i) == RuntimeWhole(i) /\ places[i].version = i

(* On Windows what is pointed at and what is registered is whole.  *)
Reaches ==
    /\ commandThere => RuntimeWhole(pointer)
    /\ task # NoPlace => RuntimeWhole(task)

(* The last installer has prepared its generation, then pointed at it,     *)
(* then registered it, and from then on nothing else is started.           *)
StepSound(i, step) ==
    /\ step = "runtime" => i \notin {pointer, task}
    /\ step \in {"pointer"} \cup Pointed => Installed(i)
    /\ step \in Pointed => pointer = i
    /\ step \in Registered => task = i
    /\ step = "done" => task = NoPlace \/ (task = i /\ Installed(i))
    /\ step \in {"run", "verify", "prune", "done"} => service = NotRunning \/ service.version = i

GenerationsSound ==
    ~contended /\ Windows =>
        Reaches /\ \A i \in DOMAIN installers : i = Len(installers) => StepSound(i, installers[i].step)

(* Elsewhere the one runtime is whole from the end of one installation on, *)
(* unless one failed.                                                      *)
NoneFailed == \A i \in DOMAIN installers : installers[i].step \notin {"failed", "dead"}
Needed == {"define", "load", "restart"}
RuntimeSound ==
    ~contended /\ ~Windows /\ NoneFailed =>
        ((task # NoPlace \/ \E i \in DOMAIN installers : installers[i].step \in Needed) => RuntimeWhole(0))

InstallationInv == InstallersWell /\ PlacesWell /\ Alone /\ GenerationsSound /\ RuntimeSound
-------------------------------------------------------------------------------
(* To changes one step and nothing else. *)
LEMMA Moved ==
    ASSUME InstallersWell, NEW i \in DOMAIN installers, NEW s \in WindowsSteps \cup OtherSteps, To(i, s),
           UNCHANGED system, s \in (IF Windows THEN WindowsSteps ELSE OtherSteps)
    PROVE  /\ InstallersWell'
           /\ DOMAIN installers' = DOMAIN installers /\ Len(installers') = Len(installers)
           /\ installers'[i].step = s
           /\ \A j \in DOMAIN installers : j # i => installers'[j] = installers[j]
           /\ \A j \in DOMAIN installers : Place(j)' = Place(j)
<1>1. installers \in Seq(Installer) /\ installers' = [installers EXCEPT ![i] = [installers[i] EXCEPT !.step = s]]
  BY DEF InstallersWell, To
<1>2. installers[i] \in Installer
  BY <1>1
<1>3. [installers[i] EXCEPT !.step = s] \in Installer
  BY <1>2 DEF Installer
<1>4. /\ installers' \in Seq(Installer) /\ DOMAIN installers' = DOMAIN installers /\ Len(installers') = Len(installers)
      /\ installers'[i] = [installers[i] EXCEPT !.step = s]
      /\ \A j \in DOMAIN installers : j # i => installers'[j] = installers[j]
  BY <1>1, <1>3
<1>5. installers'[i].step = s /\ installers'[i].place = installers[i].place
  BY <1>2, <1>4 DEF Installer
<1>6. \A j \in DOMAIN installers : Place(j)' = Place(j)
  BY DEF Place, Windows
<1> QED
  BY <1>4, <1>5, <1>6 DEF InstallersWell, Windows

(* Who is at work is the last, and nothing else is.                        *)
LEMMA TheLast ==
    ASSUME InstallationInv, ~contended, NEW i \in DOMAIN installers, installers[i].step \notin Over
    PROVE  /\ i = Len(installers) /\ ~removing
           /\ \A j \in DOMAIN installers : j # i => installers[j].step \in Over
BY DEF InstallationInv, Alone

(* A step of an installer keeps the invariant if what its new step claims  *)
(* is there.                                                               *)
LEMMA Advances ==
    ASSUME InstallationInv, NEW i \in DOMAIN installers, installers[i].step \notin Over,
           NEW s \in WindowsSteps \cup OtherSteps, s \in (IF Windows THEN WindowsSteps ELSE OtherSteps),
           To(i, s), UNCHANGED <<system, removing, contended>>,
           PlacesWell',
           ~contended /\ Windows /\ i = Len(installers) => Reaches' /\ StepSound(i, s)',
           ~contended /\ ~Windows /\ NoneFailed /\ s \notin {"failed", "dead"}
               => ((task' # NoPlace \/ s \in Needed) => RuntimeWhole(0)')
    PROVE  InstallationInv'
<1>1. /\ InstallersWell'
      /\ DOMAIN installers' = DOMAIN installers /\ Len(installers') = Len(installers)
      /\ installers'[i].step = s
      /\ \A j \in DOMAIN installers : j # i => installers'[j] = installers[j]
  BY Moved DEF InstallationInv
<1>2. ~contended => /\ i = Len(installers) /\ ~removing
                    /\ \A j \in DOMAIN installers : j # i => installers[j].step \in Over
  BY TheLast
<1>3. Alone'
  BY <1>1, <1>2 DEF Alone
<1>4. GenerationsSound'
  BY <1>1, <1>2 DEF GenerationsSound, Windows
<1>5. RuntimeSound'
  <2> SUFFICES ASSUME ~contended, ~Windows, NoneFailed',
                      task' # NoPlace \/ \E j \in DOMAIN installers : installers'[j].step \in Needed
               PROVE  RuntimeWhole(0)'
    BY <1>1 DEF RuntimeSound, Windows
  <2>1. s \notin {"failed", "dead"} /\ NoneFailed
    BY <1>1 DEF NoneFailed, Over
  <2>2. task' # NoPlace \/ s \in Needed
    BY <1>1, <1>2 DEF Over, Needed
  <2> QED
    BY <2>1, <2>2
<1> QED
  BY <1>1, <1>3, <1>4, <1>5 DEF InstallationInv

(* What an installer at work can rely on. *)
LEMMA Relies ==
    ASSUME InstallationInv, NEW i \in DOMAIN installers, installers[i].step \notin Over
    PROVE  /\ i \in Nat /\ PlaceOf(i) = Place(i) /\ Place(i) \in Known /\ i # NoPlace
           /\ ~contended /\ Windows => Reaches /\ StepSound(i, installers[i].step)
           /\ ~contended /\ ~Windows /\ NoneFailed
                => ((task # NoPlace \/ installers[i].step \in Needed) => RuntimeWhole(0))
<1>1. i \in 1..Len(installers) /\ Len(installers) <= MaxInstalls /\ Len(installers) \in Nat
  BY DEF InstallationInv, InstallersWell
<1>2. i \in Nat /\ i # NoPlace
  BY <1>1, InstallsAssumption
<1>3. PlaceOf(i) = Place(i) /\ Place(i) \in Known
  BY DEF InstallationInv, InstallersWell, PlaceOf, Known
<1>4. ~contended /\ Windows => Reaches /\ StepSound(i, installers[i].step)
  BY TheLast DEF InstallationInv, GenerationsSound
<1>5. ~contended /\ ~Windows /\ NoneFailed
        => ((task # NoPlace \/ installers[i].step \in Needed) => RuntimeWhole(0))
  BY DEF InstallationInv, RuntimeSound
<1> QED
  BY <1>2, <1>3, <1>4, <1>5

(* The places stay well as long as no other is used. *)
LEMMA SamePlaces ==
    ASSUME InstallationInv, NEW i \in DOMAIN installers, NEW s \in WindowsSteps \cup OtherSteps,
           s \in (IF Windows THEN WindowsSteps ELSE OtherSteps), To(i, s), UNCHANGED system,
           DOMAIN places' \subseteq Known,
           \A p \in DOMAIN places' : places'[p] \in [version : Nat, whole : BOOLEAN],
           {pointer', task'} \subseteq Known \cup {NoPlace}, commandThere' => Windows
    PROVE  PlacesWell'
<1>1. DOMAIN installers' = DOMAIN installers
  BY Moved DEF InstallationInv
<1>2. Known' = Known
  BY <1>1 DEF Known, Place, Windows
<1> QED
  BY <1>2 DEF PlacesWell, Windows

(* The steps of an installer, one after the other.                         *)

(* Its generation goes, which nothing points at yet; elsewhere it failed.  *)
LEMMA FailsUvKeeps ==
    ASSUME InstallationInv, NEW i \in DOMAIN installers, FailsUv(i)
    PROVE  InstallationInv'
<1> DEFINE s == "failed"
<1>1. /\ installers[i].step = "runtime" /\ installers[i].step \notin Over
      /\ To(i, s) /\ UNCHANGED <<system, removing, contended>>
  BY DEF FailsUv, At, Over
<1>2. s \in WindowsSteps \cup OtherSteps /\ s \in (IF Windows THEN WindowsSteps ELSE OtherSteps)
  BY <1>1 DEF InstallationInv, InstallersWell, WindowsSteps, OtherSteps, Pointed, Registered, Over
<1>3. /\ PlaceOf(i) = Place(i) /\ Place(i) \in Known /\ i # NoPlace /\ i \in Nat
      /\ ~contended /\ Windows => Reaches /\ StepSound(i, installers[i].step)
      /\ ~contended /\ ~Windows /\ NoneFailed
           => ((task # NoPlace \/ installers[i].step \in Needed) => RuntimeWhole(0))
  BY <1>1, Relies
<1>4. PlacesWell'
  <2>1. /\ DOMAIN places' \subseteq Known
        /\ \A p \in DOMAIN places' : places'[p] \in [version : Nat, whole : BOOLEAN]
        /\ {pointer', task'} \subseteq Known \cup {NoPlace}
        /\ commandThere' => Windows
    <3>1. {pointer', task'} \subseteq Known \cup {NoPlace} /\ (commandThere' => Windows)
      BY <1>1 DEF FailsUv, InstallationInv, PlacesWell
    <3>2. CASE places' = places \/ places' = Gone(PlaceOf(i))
      BY <3>1, <3>2 DEF InstallationInv, PlacesWell, Gone
    <3>3. CASE places' = [places EXCEPT ![PlaceOf(i)].whole = FALSE]
      <4>1. /\ DOMAIN places' = DOMAIN places
            /\ \A p \in DOMAIN places : \/ places'[p] = places[p]
                                       \/ places'[p] = [places[p] EXCEPT !.whole = FALSE]
        BY <3>3
      <4>2. \A p \in DOMAIN places : [places[p] EXCEPT !.whole = FALSE] \in [version : Nat, whole : BOOLEAN]
        BY DEF InstallationInv, PlacesWell
      <4> QED
        BY <3>1, <4>1, <4>2 DEF InstallationInv, PlacesWell
    <3> QED
      BY <3>2, <3>3 DEF FailsUv
  <2> HIDE DEF s
  <2> QED
    BY <1>1, <1>2, <2>1, SamePlaces
<1>5. ~contended /\ Windows /\ i = Len(installers) => Reaches' /\ StepSound(i, s)'
  BY <1>1, <1>3 DEF FailsUv, Reaches, StepSound, Installed, RuntimeWhole, Place, Pointed, Registered, Gone
<1>6. ~contended /\ ~Windows /\ NoneFailed /\ s \notin {"failed", "dead"}
        => ((task' # NoPlace \/ s \in Needed) => RuntimeWhole(0)')
  BY <1>1, <1>3 DEF FailsUv, Needed, RuntimeWhole, Place, Over
<1> HIDE DEF s
<1> QED
  BY <1>1, <1>2, <1>4, <1>5, <1>6, Advances

(* The runtime is whole now.                                               *)
LEMMA RunsUvKeeps ==
    ASSUME InstallationInv, NEW i \in DOMAIN installers, RunsUv(i)
    PROVE  InstallationInv'
<1>0. PICK s \in WindowsSteps \cup OtherSteps : s = StepAfterRuntime(i)
  BY DEF WindowsSteps, OtherSteps, Pointed, Registered, Over, StepAfterRuntime
<1>1. /\ installers[i].step = "runtime" /\ installers[i].step \notin Over
      /\ To(i, s) /\ UNCHANGED <<system, removing, contended>>
  BY <1>0 DEF RunsUv, At, Over
<1>2. s \in WindowsSteps \cup OtherSteps /\ s \in (IF Windows THEN WindowsSteps ELSE OtherSteps)
  BY <1>0, <1>1 DEF InstallationInv, InstallersWell, WindowsSteps, OtherSteps, Pointed, Registered, Over, StepAfterRuntime
<1>3. /\ PlaceOf(i) = Place(i) /\ Place(i) \in Known /\ i # NoPlace /\ i \in Nat
      /\ ~contended /\ Windows => Reaches /\ StepSound(i, installers[i].step)
      /\ ~contended /\ ~Windows /\ NoneFailed
           => ((task # NoPlace \/ installers[i].step \in Needed) => RuntimeWhole(0))
  BY <1>1, Relies
<1>4. PlacesWell'
  <2>1. /\ DOMAIN places' \subseteq Known
        /\ \A p \in DOMAIN places' : places'[p] \in [version : Nat, whole : BOOLEAN]
        /\ {pointer', task'} \subseteq Known \cup {NoPlace}
        /\ commandThere' => Windows
    BY <1>0, <1>1, <1>3 DEF RunsUv, InstallationInv, PlacesWell, With, Runtime
  <2> QED
    BY <1>1, <1>2, <2>1, SamePlaces
<1>5. ~contended /\ Windows /\ i = Len(installers) => Reaches' /\ StepSound(i, s)'
  BY <1>0, <1>1, <1>3 DEF RunsUv, Reaches, StepSound, Installed, RuntimeWhole, Place, Pointed, Registered, With, Runtime, StepAfterRuntime
<1>6. ~contended /\ ~Windows /\ NoneFailed /\ s \notin {"failed", "dead"}
        => ((task' # NoPlace \/ s \in Needed) => RuntimeWhole(0)')
  BY <1>0, <1>1, <1>3 DEF RunsUv, Needed, RuntimeWhole, Place, Over, With, Runtime, StepAfterRuntime
<1> QED
  BY <1>1, <1>2, <1>4, <1>5, <1>6, Advances

(* The pointer leads to what was installed whole.                          *)
LEMMA SetsPointerKeeps ==
    ASSUME InstallationInv, NEW i \in DOMAIN installers, SetsPointer(i)
    PROVE  InstallationInv'
<1>0. PICK s \in WindowsSteps \cup OtherSteps : s = (IF PlaceOf(i) \in DOMAIN places THEN "define" ELSE "failed")
  BY DEF WindowsSteps, OtherSteps, Pointed, Registered, Over
<1>1. /\ installers[i].step = "pointer" /\ installers[i].step \notin Over
      /\ To(i, s) /\ UNCHANGED <<system, removing, contended>>
  BY <1>0 DEF SetsPointer, At, Over
<1>2. s \in WindowsSteps \cup OtherSteps /\ s \in (IF Windows THEN WindowsSteps ELSE OtherSteps)
  BY <1>0, <1>1 DEF InstallationInv, InstallersWell, WindowsSteps, OtherSteps, Pointed, Registered, Over
<1>3. /\ PlaceOf(i) = Place(i) /\ Place(i) \in Known /\ i # NoPlace /\ i \in Nat
      /\ ~contended /\ Windows => Reaches /\ StepSound(i, installers[i].step)
      /\ ~contended /\ ~Windows /\ NoneFailed
           => ((task # NoPlace \/ installers[i].step \in Needed) => RuntimeWhole(0))
  BY <1>1, Relies
<1>4. PlacesWell'
  <2>1. /\ DOMAIN places' \subseteq Known
        /\ \A p \in DOMAIN places' : places'[p] \in [version : Nat, whole : BOOLEAN]
        /\ {pointer', task'} \subseteq Known \cup {NoPlace}
        /\ commandThere' => Windows
    BY <1>0, <1>1, <1>3 DEF SetsPointer, InstallationInv, PlacesWell
  <2> QED
    BY <1>1, <1>2, <2>1, SamePlaces
<1>5. ~contended /\ Windows /\ i = Len(installers) => Reaches' /\ StepSound(i, s)'
  BY <1>0, <1>1, <1>3 DEF SetsPointer, Reaches, StepSound, Installed, RuntimeWhole, Place, Pointed, Registered
<1>6. ~contended /\ ~Windows /\ NoneFailed /\ s \notin {"failed", "dead"}
        => ((task' # NoPlace \/ s \in Needed) => RuntimeWhole(0)')
  BY <1>0, <1>1, <1>3 DEF SetsPointer, Needed, RuntimeWhole, Place, Over, InstallationInv, InstallersWell, OtherSteps
<1> QED
  BY <1>1, <1>2, <1>4, <1>5, <1>6, Advances

(* The definition is what is registered next.                              *)
LEMMA DefinesKeeps ==
    ASSUME InstallationInv, NEW i \in DOMAIN installers, Defines(i)
    PROVE  InstallationInv'
<1>0. PICK s \in WindowsSteps \cup OtherSteps : s = (IF Windows THEN "command" ELSE "load")
  BY DEF WindowsSteps, OtherSteps, Pointed, Registered, Over
<1>1. /\ installers[i].step = "define" /\ installers[i].step \notin Over
      /\ To(i, s) /\ UNCHANGED <<system, removing, contended>>
  BY <1>0 DEF Defines, At, Over
<1>2. s \in WindowsSteps \cup OtherSteps /\ s \in (IF Windows THEN WindowsSteps ELSE OtherSteps)
  BY <1>0, <1>1 DEF InstallationInv, InstallersWell, WindowsSteps, OtherSteps, Pointed, Registered, Over
<1>3. /\ PlaceOf(i) = Place(i) /\ Place(i) \in Known /\ i # NoPlace /\ i \in Nat
      /\ ~contended /\ Windows => Reaches /\ StepSound(i, installers[i].step)
      /\ ~contended /\ ~Windows /\ NoneFailed
           => ((task # NoPlace \/ installers[i].step \in Needed) => RuntimeWhole(0))
  BY <1>1, Relies
<1>4. PlacesWell'
  <2>1. /\ DOMAIN places' \subseteq Known
        /\ \A p \in DOMAIN places' : places'[p] \in [version : Nat, whole : BOOLEAN]
        /\ {pointer', task'} \subseteq Known \cup {NoPlace}
        /\ commandThere' => Windows
    BY <1>0, <1>1, <1>3 DEF Defines, InstallationInv, PlacesWell
  <2> QED
    BY <1>1, <1>2, <2>1, SamePlaces
<1>5. ~contended /\ Windows /\ i = Len(installers) => Reaches' /\ StepSound(i, s)'
  BY <1>0, <1>1, <1>3 DEF Defines, Reaches, StepSound, Installed, RuntimeWhole, Place, Pointed, Registered
<1>6. ~contended /\ ~Windows /\ NoneFailed /\ s \notin {"failed", "dead"}
        => ((task' # NoPlace \/ s \in Needed) => RuntimeWhole(0)')
  BY <1>0, <1>1, <1>3 DEF Defines, Needed, RuntimeWhole, Place, Over
<1> QED
  BY <1>1, <1>2, <1>4, <1>5, <1>6, Advances

(* The command follows the pointer, which is set.                          *)
LEMMA InstallsCommandKeeps ==
    ASSUME InstallationInv, NEW i \in DOMAIN installers, InstallsCommand(i)
    PROVE  InstallationInv'
<1> DEFINE s == "create"
<1>1. /\ installers[i].step = "command" /\ installers[i].step \notin Over
      /\ To(i, s) /\ UNCHANGED <<system, removing, contended>>
  BY DEF InstallsCommand, At, Over
<1>2. s \in WindowsSteps \cup OtherSteps /\ s \in (IF Windows THEN WindowsSteps ELSE OtherSteps)
  BY <1>1 DEF InstallationInv, InstallersWell, WindowsSteps, OtherSteps, Pointed, Registered, Over
<1>3. /\ PlaceOf(i) = Place(i) /\ Place(i) \in Known /\ i # NoPlace /\ i \in Nat
      /\ ~contended /\ Windows => Reaches /\ StepSound(i, installers[i].step)
      /\ ~contended /\ ~Windows /\ NoneFailed
           => ((task # NoPlace \/ installers[i].step \in Needed) => RuntimeWhole(0))
  BY <1>1, Relies
<1>4. PlacesWell'
  <2>1. /\ DOMAIN places' \subseteq Known
        /\ \A p \in DOMAIN places' : places'[p] \in [version : Nat, whole : BOOLEAN]
        /\ {pointer', task'} \subseteq Known \cup {NoPlace}
        /\ commandThere' => Windows
    BY <1>1, <1>3 DEF InstallsCommand, InstallationInv, InstallersWell, OtherSteps, Over, PlacesWell
  <2> HIDE DEF s
  <2> QED
    BY <1>1, <1>2, <2>1, SamePlaces
<1>5. ~contended /\ Windows /\ i = Len(installers) => Reaches' /\ StepSound(i, s)'
  BY <1>1, <1>3 DEF InstallsCommand, Reaches, StepSound, Installed, RuntimeWhole, Place, Pointed, Registered
<1>6. ~contended /\ ~Windows /\ NoneFailed /\ s \notin {"failed", "dead"}
        => ((task' # NoPlace \/ s \in Needed) => RuntimeWhole(0)')
  BY <1>1, <1>3 DEF InstallsCommand, Needed, RuntimeWhole, Place, Over
<1> HIDE DEF s
<1> QED
  BY <1>1, <1>2, <1>4, <1>5, <1>6, Advances

(* What is registered is whole.                                            *)
LEMMA CreatesTaskKeeps ==
    ASSUME InstallationInv, NEW i \in DOMAIN installers, CreatesTask(i)
    PROVE  InstallationInv'
<1> DEFINE s == "end"
<1>1. /\ installers[i].step = "create" /\ installers[i].step \notin Over
      /\ To(i, s) /\ UNCHANGED <<system, removing, contended>>
  BY DEF CreatesTask, At, Over
<1>2. s \in WindowsSteps \cup OtherSteps /\ s \in (IF Windows THEN WindowsSteps ELSE OtherSteps)
  BY <1>1 DEF InstallationInv, InstallersWell, WindowsSteps, OtherSteps, Pointed, Registered, Over
<1>3. /\ PlaceOf(i) = Place(i) /\ Place(i) \in Known /\ i # NoPlace /\ i \in Nat
      /\ ~contended /\ Windows => Reaches /\ StepSound(i, installers[i].step)
      /\ ~contended /\ ~Windows /\ NoneFailed
           => ((task # NoPlace \/ installers[i].step \in Needed) => RuntimeWhole(0))
  BY <1>1, Relies
<1>4. PlacesWell'
  <2>1. /\ DOMAIN places' \subseteq Known
        /\ \A p \in DOMAIN places' : places'[p] \in [version : Nat, whole : BOOLEAN]
        /\ {pointer', task'} \subseteq Known \cup {NoPlace}
        /\ commandThere' => Windows
    BY <1>1, <1>3 DEF CreatesTask, InstallationInv, PlacesWell
  <2> HIDE DEF s
  <2> QED
    BY <1>1, <1>2, <2>1, SamePlaces
<1>5. ~contended /\ Windows /\ i = Len(installers) => Reaches' /\ StepSound(i, s)'
  BY <1>1, <1>3 DEF CreatesTask, Reaches, StepSound, Installed, RuntimeWhole, Place, Pointed, Registered
<1>6. ~contended /\ ~Windows /\ NoneFailed /\ s \notin {"failed", "dead"}
        => ((task' # NoPlace \/ s \in Needed) => RuntimeWhole(0)')
  BY <1>1, <1>3 DEF CreatesTask, Needed, RuntimeWhole, Place, Over, InstallationInv, InstallersWell, OtherSteps
<1> HIDE DEF s
<1> QED
  BY <1>1, <1>2, <1>4, <1>5, <1>6, Advances

(* The old service is gone.                                                *)
LEMMA EndsTaskKeeps ==
    ASSUME InstallationInv, NEW i \in DOMAIN installers, EndsTask(i)
    PROVE  InstallationInv'
<1> DEFINE s == "run"
<1>1. /\ installers[i].step = "end" /\ installers[i].step \notin Over
      /\ To(i, s) /\ UNCHANGED <<system, removing, contended>>
  BY DEF EndsTask, At, Over
<1>2. s \in WindowsSteps \cup OtherSteps /\ s \in (IF Windows THEN WindowsSteps ELSE OtherSteps)
  BY <1>1 DEF InstallationInv, InstallersWell, WindowsSteps, OtherSteps, Pointed, Registered, Over
<1>3. /\ PlaceOf(i) = Place(i) /\ Place(i) \in Known /\ i # NoPlace /\ i \in Nat
      /\ ~contended /\ Windows => Reaches /\ StepSound(i, installers[i].step)
      /\ ~contended /\ ~Windows /\ NoneFailed
           => ((task # NoPlace \/ installers[i].step \in Needed) => RuntimeWhole(0))
  BY <1>1, Relies
<1>4. PlacesWell'
  <2>1. /\ DOMAIN places' \subseteq Known
        /\ \A p \in DOMAIN places' : places'[p] \in [version : Nat, whole : BOOLEAN]
        /\ {pointer', task'} \subseteq Known \cup {NoPlace}
        /\ commandThere' => Windows
    BY <1>1, <1>3 DEF EndsTask, InstallationInv, PlacesWell
  <2> HIDE DEF s
  <2> QED
    BY <1>1, <1>2, <2>1, SamePlaces
<1>5. ~contended /\ Windows /\ i = Len(installers) => Reaches' /\ StepSound(i, s)'
  BY <1>1, <1>3 DEF EndsTask, Reaches, StepSound, Installed, RuntimeWhole, Place, Pointed, Registered
<1>6. ~contended /\ ~Windows /\ NoneFailed /\ s \notin {"failed", "dead"}
        => ((task' # NoPlace \/ s \in Needed) => RuntimeWhole(0)')
  BY <1>1, <1>3 DEF EndsTask, Needed, RuntimeWhole, Place, Over
<1> HIDE DEF s
<1> QED
  BY <1>1, <1>2, <1>4, <1>5, <1>6, Advances

(* The service that starts is the new one.                                 *)
LEMMA RunsTaskKeeps ==
    ASSUME InstallationInv, NEW i \in DOMAIN installers, RunsTask(i)
    PROVE  InstallationInv'
<1> DEFINE s == "verify"
<1>1. /\ installers[i].step = "run" /\ installers[i].step \notin Over
      /\ To(i, s) /\ UNCHANGED <<system, removing, contended>>
  BY DEF RunsTask, At, Over
<1>2. s \in WindowsSteps \cup OtherSteps /\ s \in (IF Windows THEN WindowsSteps ELSE OtherSteps)
  BY <1>1 DEF InstallationInv, InstallersWell, WindowsSteps, OtherSteps, Pointed, Registered, Over
<1>3. /\ PlaceOf(i) = Place(i) /\ Place(i) \in Known /\ i # NoPlace /\ i \in Nat
      /\ ~contended /\ Windows => Reaches /\ StepSound(i, installers[i].step)
      /\ ~contended /\ ~Windows /\ NoneFailed
           => ((task # NoPlace \/ installers[i].step \in Needed) => RuntimeWhole(0))
  BY <1>1, Relies
<1>4. PlacesWell'
  <2>1. /\ DOMAIN places' \subseteq Known
        /\ \A p \in DOMAIN places' : places'[p] \in [version : Nat, whole : BOOLEAN]
        /\ {pointer', task'} \subseteq Known \cup {NoPlace}
        /\ commandThere' => Windows
    BY <1>1, <1>3 DEF RunsTask, InstallationInv, PlacesWell
  <2> HIDE DEF s
  <2> QED
    BY <1>1, <1>2, <2>1, SamePlaces
<1>5. ~contended /\ Windows /\ i = Len(installers) => Reaches' /\ StepSound(i, s)'
  BY <1>1, <1>3 DEF RunsTask, Reaches, StepSound, Installed, RuntimeWhole, Place, Pointed, Registered, Started
<1>6. ~contended /\ ~Windows /\ NoneFailed /\ s \notin {"failed", "dead"}
        => ((task' # NoPlace \/ s \in Needed) => RuntimeWhole(0)')
  BY <1>1, <1>3 DEF RunsTask, Needed, RuntimeWhole, Place, Over
<1> HIDE DEF s
<1> QED
  BY <1>1, <1>2, <1>4, <1>5, <1>6, Advances

(* Nothing changes.                                                        *)
LEMMA VerifiesTaskKeeps ==
    ASSUME InstallationInv, NEW i \in DOMAIN installers, VerifiesTask(i)
    PROVE  InstallationInv'
<1> DEFINE s == "prune"
<1>1. /\ installers[i].step = "verify" /\ installers[i].step \notin Over
      /\ To(i, s) /\ UNCHANGED <<system, removing, contended>>
  BY DEF VerifiesTask, At, Over
<1>2. s \in WindowsSteps \cup OtherSteps /\ s \in (IF Windows THEN WindowsSteps ELSE OtherSteps)
  BY <1>1 DEF InstallationInv, InstallersWell, WindowsSteps, OtherSteps, Pointed, Registered, Over
<1>3. /\ PlaceOf(i) = Place(i) /\ Place(i) \in Known /\ i # NoPlace /\ i \in Nat
      /\ ~contended /\ Windows => Reaches /\ StepSound(i, installers[i].step)
      /\ ~contended /\ ~Windows /\ NoneFailed
           => ((task # NoPlace \/ installers[i].step \in Needed) => RuntimeWhole(0))
  BY <1>1, Relies
<1>4. PlacesWell'
  <2>1. /\ DOMAIN places' \subseteq Known
        /\ \A p \in DOMAIN places' : places'[p] \in [version : Nat, whole : BOOLEAN]
        /\ {pointer', task'} \subseteq Known \cup {NoPlace}
        /\ commandThere' => Windows
    BY <1>1, <1>3 DEF VerifiesTask, InstallationInv, PlacesWell
  <2> HIDE DEF s
  <2> QED
    BY <1>1, <1>2, <2>1, SamePlaces
<1>5. ~contended /\ Windows /\ i = Len(installers) => Reaches' /\ StepSound(i, s)'
  BY <1>1, <1>3 DEF VerifiesTask, Reaches, StepSound, Installed, RuntimeWhole, Place, Pointed, Registered
<1>6. ~contended /\ ~Windows /\ NoneFailed /\ s \notin {"failed", "dead"}
        => ((task' # NoPlace \/ s \in Needed) => RuntimeWhole(0)')
  BY <1>1, <1>3 DEF VerifiesTask, Needed, RuntimeWhole, Place, Over
<1> HIDE DEF s
<1> QED
  BY <1>1, <1>2, <1>4, <1>5, <1>6, Advances

(* What is pointed at and registered stays.                                *)
LEMMA FailsToRegisterKeeps ==
    ASSUME InstallationInv, NEW i \in DOMAIN installers, FailsToRegister(i)
    PROVE  InstallationInv'
<1> DEFINE s == "failed"
<1>1. /\ installers[i].step \in {"command", "create", "run", "verify"} /\ installers[i].step \notin Over
      /\ To(i, s) /\ UNCHANGED <<system, removing, contended>>
  BY DEF FailsToRegister, At, Over
<1>2. s \in WindowsSteps \cup OtherSteps /\ s \in (IF Windows THEN WindowsSteps ELSE OtherSteps)
  BY <1>1 DEF InstallationInv, InstallersWell, WindowsSteps, OtherSteps, Pointed, Registered, Over
<1>3. /\ PlaceOf(i) = Place(i) /\ Place(i) \in Known /\ i # NoPlace /\ i \in Nat
      /\ ~contended /\ Windows => Reaches /\ StepSound(i, installers[i].step)
      /\ ~contended /\ ~Windows /\ NoneFailed
           => ((task # NoPlace \/ installers[i].step \in Needed) => RuntimeWhole(0))
  BY <1>1, Relies
<1>4. PlacesWell'
  <2>1. /\ DOMAIN places' \subseteq Known
        /\ \A p \in DOMAIN places' : places'[p] \in [version : Nat, whole : BOOLEAN]
        /\ {pointer', task'} \subseteq Known \cup {NoPlace}
        /\ commandThere' => Windows
    BY <1>1, <1>3 DEF FailsToRegister, InstallationInv, PlacesWell
  <2> HIDE DEF s
  <2> QED
    BY <1>1, <1>2, <2>1, SamePlaces
<1>5. ~contended /\ Windows /\ i = Len(installers) => Reaches' /\ StepSound(i, s)'
  BY <1>1, <1>3 DEF FailsToRegister, Reaches, StepSound, Installed, RuntimeWhole, Place, Pointed, Registered
<1>6. ~contended /\ ~Windows /\ NoneFailed /\ s \notin {"failed", "dead"}
        => ((task' # NoPlace \/ s \in Needed) => RuntimeWhole(0)')
  BY <1>1, <1>3 DEF FailsToRegister, Needed, RuntimeWhole, Place, Over
<1> HIDE DEF s
<1> QED
  BY <1>1, <1>2, <1>4, <1>5, <1>6, Advances

(* What is pointed at and registered is kept.                              *)
LEMMA PrunesKeeps ==
    ASSUME InstallationInv, NEW i \in DOMAIN installers, Prunes(i)
    PROVE  InstallationInv'
<1> DEFINE s == "done"
<1>1. /\ installers[i].step = "prune" /\ installers[i].step \notin Over
      /\ To(i, s) /\ UNCHANGED <<system, removing, contended>>
  BY DEF Prunes, At, Over
<1>2. s \in WindowsSteps \cup OtherSteps /\ s \in (IF Windows THEN WindowsSteps ELSE OtherSteps)
  BY <1>1 DEF InstallationInv, InstallersWell, WindowsSteps, OtherSteps, Pointed, Registered, Over
<1>3. /\ PlaceOf(i) = Place(i) /\ Place(i) \in Known /\ i # NoPlace /\ i \in Nat
      /\ ~contended /\ Windows => Reaches /\ StepSound(i, installers[i].step)
      /\ ~contended /\ ~Windows /\ NoneFailed
           => ((task # NoPlace \/ installers[i].step \in Needed) => RuntimeWhole(0))
  BY <1>1, Relies
<1>4. PlacesWell'
  <2>1. /\ DOMAIN places' \subseteq Known
        /\ \A p \in DOMAIN places' : places'[p] \in [version : Nat, whole : BOOLEAN]
        /\ {pointer', task'} \subseteq Known \cup {NoPlace}
        /\ commandThere' => Windows
    <3>1. {pointer', task'} \subseteq Known \cup {NoPlace} /\ (commandThere' => Windows)
      BY <1>1 DEF Prunes, InstallationInv, PlacesWell
    <3>2. /\ DOMAIN places' \subseteq DOMAIN places
          /\ \A p \in DOMAIN places' : \/ places'[p] = places[p]
                                      \/ places'[p] = [places[p] EXCEPT !.whole = FALSE]
      BY DEF Prunes, Kept
    <3>3. \A p \in DOMAIN places : [places[p] EXCEPT !.whole = FALSE] \in [version : Nat, whole : BOOLEAN]
      BY DEF InstallationInv, PlacesWell
    <3> QED
      BY <3>1, <3>2, <3>3 DEF InstallationInv, PlacesWell
  <2> HIDE DEF s
  <2> QED
    BY <1>1, <1>2, <2>1, SamePlaces
<1>5. ~contended /\ Windows /\ i = Len(installers) => Reaches' /\ StepSound(i, s)'
  BY <1>1, <1>3 DEF Prunes, Reaches, StepSound, Installed, RuntimeWhole, Place, Pointed, Registered, Kept
<1>6. ~contended /\ ~Windows /\ NoneFailed /\ s \notin {"failed", "dead"}
        => ((task' # NoPlace \/ s \in Needed) => RuntimeWhole(0)')
  BY <1>1, <1>3 DEF Prunes, Needed, RuntimeWhole, Place, Over, Kept, InstallationInv, InstallersWell, OtherSteps
<1> HIDE DEF s
<1> QED
  BY <1>1, <1>2, <1>4, <1>5, <1>6, Advances

(* The runtime was installed before it is registered.                      *)
LEMMA LoadsServiceKeeps ==
    ASSUME InstallationInv, NEW i \in DOMAIN installers, LoadsService(i)
    PROVE  InstallationInv'
<1> DEFINE s == "done"
<1>1. /\ installers[i].step = "load" /\ installers[i].step \notin Over
      /\ To(i, s) /\ UNCHANGED <<system, removing, contended>>
  BY DEF LoadsService, At, Over
<1>2. s \in WindowsSteps \cup OtherSteps /\ s \in (IF Windows THEN WindowsSteps ELSE OtherSteps)
  BY <1>1 DEF InstallationInv, InstallersWell, WindowsSteps, OtherSteps, Pointed, Registered, Over
<1>3. /\ PlaceOf(i) = Place(i) /\ Place(i) \in Known /\ i # NoPlace /\ i \in Nat
      /\ ~contended /\ Windows => Reaches /\ StepSound(i, installers[i].step)
      /\ ~contended /\ ~Windows /\ NoneFailed
           => ((task # NoPlace \/ installers[i].step \in Needed) => RuntimeWhole(0))
  BY <1>1, Relies
<1>4. PlacesWell'
  <2>1. /\ DOMAIN places' \subseteq Known
        /\ \A p \in DOMAIN places' : places'[p] \in [version : Nat, whole : BOOLEAN]
        /\ {pointer', task'} \subseteq Known \cup {NoPlace}
        /\ commandThere' => Windows
    BY <1>1, <1>3 DEF LoadsService, InstallationInv, PlacesWell
  <2> HIDE DEF s
  <2> QED
    BY <1>1, <1>2, <2>1, SamePlaces
<1>5. ~contended /\ Windows /\ i = Len(installers) => Reaches' /\ StepSound(i, s)'
  BY <1>1, <1>3 DEF LoadsService, Reaches, StepSound, Installed, RuntimeWhole, Place, Pointed, Registered, InstallationInv, InstallersWell, WindowsSteps
<1>6. ~contended /\ ~Windows /\ NoneFailed /\ s \notin {"failed", "dead"}
        => ((task' # NoPlace \/ s \in Needed) => RuntimeWhole(0)')
  BY <1>1, <1>3 DEF LoadsService, Needed, RuntimeWhole, Place, Over
<1> HIDE DEF s
<1> QED
  BY <1>1, <1>2, <1>4, <1>5, <1>6, Advances

(* An installation failed.                                                 *)
LEMMA FailsToLoadKeeps ==
    ASSUME InstallationInv, NEW i \in DOMAIN installers, FailsToLoad(i)
    PROVE  InstallationInv'
<1> DEFINE s == "failed"
<1>1. /\ installers[i].step = "load" /\ installers[i].step \notin Over
      /\ To(i, s) /\ UNCHANGED <<system, removing, contended>>
  BY DEF FailsToLoad, At, Over
<1>2. s \in WindowsSteps \cup OtherSteps /\ s \in (IF Windows THEN WindowsSteps ELSE OtherSteps)
  BY <1>1 DEF InstallationInv, InstallersWell, WindowsSteps, OtherSteps, Pointed, Registered, Over
<1>3. /\ PlaceOf(i) = Place(i) /\ Place(i) \in Known /\ i # NoPlace /\ i \in Nat
      /\ ~contended /\ Windows => Reaches /\ StepSound(i, installers[i].step)
      /\ ~contended /\ ~Windows /\ NoneFailed
           => ((task # NoPlace \/ installers[i].step \in Needed) => RuntimeWhole(0))
  BY <1>1, Relies
<1>4. PlacesWell'
  <2>1. /\ DOMAIN places' \subseteq Known
        /\ \A p \in DOMAIN places' : places'[p] \in [version : Nat, whole : BOOLEAN]
        /\ {pointer', task'} \subseteq Known \cup {NoPlace}
        /\ commandThere' => Windows
    BY <1>1, <1>3 DEF FailsToLoad, InstallationInv, PlacesWell
  <2> HIDE DEF s
  <2> QED
    BY <1>1, <1>2, <2>1, SamePlaces
<1>5. ~contended /\ Windows /\ i = Len(installers) => Reaches' /\ StepSound(i, s)'
  BY <1>1, <1>3 DEF FailsToLoad, Reaches, StepSound, Installed, RuntimeWhole, Place, Pointed, Registered, InstallationInv, InstallersWell, WindowsSteps
<1>6. ~contended /\ ~Windows /\ NoneFailed /\ s \notin {"failed", "dead"}
        => ((task' # NoPlace \/ s \in Needed) => RuntimeWhole(0)')
  BY <1>1, <1>3 DEF FailsToLoad, Needed, RuntimeWhole, Place, Over
<1> HIDE DEF s
<1> QED
  BY <1>1, <1>2, <1>4, <1>5, <1>6, Advances

(* What is registered stays.                                               *)
LEMMA RestartsServiceKeeps ==
    ASSUME InstallationInv, NEW i \in DOMAIN installers, RestartsService(i)
    PROVE  InstallationInv'
<1> DEFINE s == "done"
<1>1. /\ installers[i].step = "restart" /\ installers[i].step \notin Over
      /\ To(i, s) /\ UNCHANGED <<system, removing, contended>>
  BY DEF RestartsService, At, Over
<1>2. s \in WindowsSteps \cup OtherSteps /\ s \in (IF Windows THEN WindowsSteps ELSE OtherSteps)
  BY <1>1 DEF InstallationInv, InstallersWell, WindowsSteps, OtherSteps, Pointed, Registered, Over
<1>3. /\ PlaceOf(i) = Place(i) /\ Place(i) \in Known /\ i # NoPlace /\ i \in Nat
      /\ ~contended /\ Windows => Reaches /\ StepSound(i, installers[i].step)
      /\ ~contended /\ ~Windows /\ NoneFailed
           => ((task # NoPlace \/ installers[i].step \in Needed) => RuntimeWhole(0))
  BY <1>1, Relies
<1>4. PlacesWell'
  <2>1. /\ DOMAIN places' \subseteq Known
        /\ \A p \in DOMAIN places' : places'[p] \in [version : Nat, whole : BOOLEAN]
        /\ {pointer', task'} \subseteq Known \cup {NoPlace}
        /\ commandThere' => Windows
    BY <1>1, <1>3 DEF RestartsService, InstallationInv, PlacesWell
  <2> HIDE DEF s
  <2> QED
    BY <1>1, <1>2, <2>1, SamePlaces
<1>5. ~contended /\ Windows /\ i = Len(installers) => Reaches' /\ StepSound(i, s)'
  BY <1>1, <1>3 DEF RestartsService, Reaches, StepSound, Installed, RuntimeWhole, Place, Pointed, Registered, InstallationInv, InstallersWell, WindowsSteps
<1>6. ~contended /\ ~Windows /\ NoneFailed /\ s \notin {"failed", "dead"}
        => ((task' # NoPlace \/ s \in Needed) => RuntimeWhole(0)')
  BY <1>1, <1>3 DEF RestartsService, Needed, RuntimeWhole, Place, Over
<1> HIDE DEF s
<1> QED
  BY <1>1, <1>2, <1>4, <1>5, <1>6, Advances

(* It damages only what nothing points at yet, or died elsewhere.          *)
LEMMA InstallerDiesKeeps ==
    ASSUME InstallationInv, NEW i \in DOMAIN installers, InstallerDies(i)
    PROVE  InstallationInv'
<1> DEFINE s == "dead"
<1>1. /\ installers[i].step \notin Over /\ installers[i].step \notin Over
      /\ To(i, s) /\ UNCHANGED <<system, removing, contended>>
  BY DEF InstallerDies, At, AtWork, Over
<1>2. s \in WindowsSteps \cup OtherSteps /\ s \in (IF Windows THEN WindowsSteps ELSE OtherSteps)
  BY <1>1 DEF InstallationInv, InstallersWell, WindowsSteps, OtherSteps, Pointed, Registered, Over
<1>3. /\ PlaceOf(i) = Place(i) /\ Place(i) \in Known /\ i # NoPlace /\ i \in Nat
      /\ ~contended /\ Windows => Reaches /\ StepSound(i, installers[i].step)
      /\ ~contended /\ ~Windows /\ NoneFailed
           => ((task # NoPlace \/ installers[i].step \in Needed) => RuntimeWhole(0))
  BY <1>1, Relies
<1>4. PlacesWell'
  <2>1. /\ DOMAIN places' \subseteq Known
        /\ \A p \in DOMAIN places' : places'[p] \in [version : Nat, whole : BOOLEAN]
        /\ {pointer', task'} \subseteq Known \cup {NoPlace}
        /\ commandThere' => Windows
    <3>1. {pointer', task'} \subseteq Known \cup {NoPlace} /\ (commandThere' => Windows)
      BY <1>1 DEF InstallerDies, InstallationInv, PlacesWell
    <3>2. CASE places' = places
      BY <3>1, <3>2 DEF InstallationInv, PlacesWell
    <3>3. CASE places' = [places EXCEPT ![PlaceOf(i)].whole = FALSE]
      <4>1. /\ DOMAIN places' = DOMAIN places
            /\ \A p \in DOMAIN places : \/ places'[p] = places[p]
                                       \/ places'[p] = [places[p] EXCEPT !.whole = FALSE]
        BY <3>3
      <4>2. \A p \in DOMAIN places : [places[p] EXCEPT !.whole = FALSE] \in [version : Nat, whole : BOOLEAN]
        BY DEF InstallationInv, PlacesWell
      <4> QED
        BY <3>1, <4>1, <4>2 DEF InstallationInv, PlacesWell
    <3> QED
      BY <3>2, <3>3 DEF InstallerDies
  <2> HIDE DEF s
  <2> QED
    BY <1>1, <1>2, <2>1, SamePlaces
<1>5. ~contended /\ Windows /\ i = Len(installers) => Reaches' /\ StepSound(i, s)'
  BY <1>1, <1>3 DEF InstallerDies, Reaches, StepSound, Installed, RuntimeWhole, Place, Pointed, Registered
<1>6. ~contended /\ ~Windows /\ NoneFailed /\ s \notin {"failed", "dead"}
        => ((task' # NoPlace \/ s \in Needed) => RuntimeWhole(0)')
  BY <1>1, <1>3 DEF InstallerDies, Needed, RuntimeWhole, Place, Over
<1> HIDE DEF s
<1> QED
  BY <1>1, <1>2, <1>4, <1>5, <1>6, Advances
-------------------------------------------------------------------------------
(* A new installer gets a place that nothing points at.                    *)
LEMMA BeginsKeeps ==
    ASSUME InstallationInv, NEW kind \in {"install", "update"}, BeginsInstalling(kind)
    PROVE  InstallationInv'
<1>0. PICK n \in Nat : n = Len(installers) + 1
  BY DEF InstallationInv, InstallersWell
<1> DEFINE new == [kind |-> kind, step |-> "runtime", place |-> Place(n)]
<1>1. /\ installers' = Append(installers, new) /\ n <= MaxInstalls
      /\ UNCHANGED <<system, pointer, commandThere, task, service, removing>>
      /\ contended' = (contended \/ AtWork # {} \/ removing)
      /\ places' = IF Place(n) \in DOMAIN places THEN places ELSE With(Place(n), Runtime(0, FALSE))
  BY <1>0 DEF BeginsInstalling, Place
<1>2. /\ installers \in Seq(Installer) /\ Len(installers) \in Nat /\ DOMAIN installers = 1..Len(installers)
      /\ n = Len(installers) + 1 /\ n # NoPlace
  BY <1>0, <1>1, InstallsAssumption DEF InstallationInv, InstallersWell
<1>3. new \in Installer
  BY <1>2 DEF Installer, Place, WindowsSteps
<1> HIDE DEF new
<1>4. /\ installers' \in Seq(Installer) /\ Len(installers') = n /\ DOMAIN installers' = 1..n
      /\ installers'[n] = new
      /\ \A i \in 1..Len(installers) : installers'[i] = installers[i]
  BY <1>1, <1>2, <1>3
<1>5. /\ installers'[n].step = "runtime" /\ installers'[n].place = Place(n)
      /\ DOMAIN installers' = DOMAIN installers \cup {n} /\ n \notin DOMAIN installers
      /\ \A i \in DOMAIN installers' : Place(i)' = Place(i)
  BY <1>1, <1>2, <1>4 DEF new, Place, Windows
<1>6. InstallersWell'
  <2>1. \A i \in DOMAIN installers' :
           /\ installers'[i].place = Place(i)
           /\ installers'[i].step \in (IF Windows THEN WindowsSteps ELSE OtherSteps)
    BY <1>2, <1>4, <1>5 DEF InstallationInv, InstallersWell, WindowsSteps, OtherSteps
  <2> QED
    BY <1>1, <1>4, <1>5, <2>1 DEF InstallersWell, Windows
<1>7. Known' = Known \cup {Place(n)}
  BY <1>5 DEF Known
<1>8. PlacesWell'
  BY <1>1, <1>7 DEF InstallationInv, PlacesWell, With, Runtime, Windows
<1>9. ~contended' => /\ ~contended /\ ~removing
                     /\ \A i \in DOMAIN installers : installers[i].step \in Over
  BY <1>1 DEF AtWork
<1>10. Alone'
  BY <1>1, <1>2, <1>4, <1>5, <1>9 DEF Alone
<1>11. GenerationsSound'
  <2> SUFFICES ASSUME ~contended', Windows'
               PROVE  Reaches' /\ StepSound(n, "runtime")'
    BY <1>2, <1>4, <1>5 DEF GenerationsSound
  <2>1. Windows /\ ~contended /\ Reaches
    BY <1>1, <1>9 DEF Windows, InstallationInv, GenerationsSound
  <2>2. n \notin Known
    BY <1>5, <2>1 DEF Known, Place
  <2>3. n \notin {pointer', task'}
    BY <1>1, <1>2, <2>2 DEF InstallationInv, PlacesWell
  <2>4. \A p \in DOMAIN places : RuntimeWhole(p) => RuntimeWhole(p)'
    BY <1>1 DEF RuntimeWhole, With
  <2>5. Reaches'
    BY <1>1, <2>1, <2>4 DEF Reaches, RuntimeWhole
  <2> QED
    BY <2>3, <2>5 DEF StepSound, Pointed, Registered
<1>12. RuntimeSound'
  <2> SUFFICES ASSUME ~contended', ~Windows', NoneFailed',
                      task' # NoPlace \/ \E i \in DOMAIN installers' : installers'[i].step \in Needed
               PROVE  RuntimeWhole(0)'
    BY DEF RuntimeSound
  <2>1. NoneFailed /\ ~contended /\ ~Windows
    BY <1>1, <1>2, <1>4, <1>5, <1>9 DEF NoneFailed, Windows
  <2>2. task # NoPlace
    BY <1>1, <1>2, <1>4, <1>5, <1>9 DEF Needed, Over
  <2>3. RuntimeWhole(0)
    BY <2>1, <2>2 DEF InstallationInv, RuntimeSound
  <2> QED
    BY <1>1, <2>1, <2>3 DEF RuntimeWhole, Place, With
<1> QED
  BY <1>6, <1>8, <1>10, <1>11, <1>12 DEF InstallationInv

(* Nothing is registered any more when runtimes are removed.               *)
LEMMA UninstallsKeeps ==
    ASSUME InstallationInv, Uninstalls
    PROVE  InstallationInv'
<1>1. /\ UNCHANGED <<system, pointer, installers>> /\ task' = NoPlace /\ service' = NotRunning
      /\ commandThere' = FALSE /\ (places' = places \/ places' = <<>>) /\ (Windows => places' = places)
      /\ contended' = (contended \/ AtWork # {})
  BY DEF Uninstalls
<1>2. InstallersWell'
  BY <1>1 DEF InstallationInv, InstallersWell, Place, Windows
<1>3. PlacesWell'
  <2>1. Known' = Known
    BY <1>1 DEF Known, Place, Windows
  <2> QED
    BY <1>1, <2>1 DEF InstallationInv, PlacesWell, Windows
<1>4. ~contended' => ~contended /\ \A i \in DOMAIN installers : installers[i].step \in Over
  BY <1>1 DEF AtWork
<1>5. Alone'
  BY <1>1, <1>4 DEF Alone
<1>6. GenerationsSound'
  BY <1>1, <1>4 DEF GenerationsSound, Reaches, StepSound, Pointed, Registered, Over, Windows
<1>7. RuntimeSound'
  BY <1>1, <1>4 DEF RuntimeSound, Needed, Over, Windows
<1> QED
  BY <1>2, <1>3, <1>5, <1>6, <1>7 DEF InstallationInv

(* The removal that waited finds nothing at work and nothing registered.   *)
LEMMA RemovesRuntimeKeeps ==
    ASSUME InstallationInv, RemovesRuntime
    PROVE  InstallationInv'
<1>1. /\ UNCHANGED <<system, installers, task, service, contended>> /\ removing /\ removing' = FALSE
      /\ commandThere' = FALSE /\ places' = <<>> /\ pointer' = NoPlace
  BY DEF RemovesRuntime
<1>2. ~contended => task = NoPlace /\ \A i \in DOMAIN installers : installers[i].step \in Over
  BY <1>1 DEF InstallationInv, Alone
<1>3. InstallersWell'
  BY <1>1 DEF InstallationInv, InstallersWell, Place, Windows
<1>4. PlacesWell'
  <2>1. Known' = Known
    BY <1>1 DEF Known, Place, Windows
  <2> QED
    BY <1>1, <2>1 DEF InstallationInv, PlacesWell, Windows
<1>5. Alone'
  BY <1>1, <1>2 DEF Alone
<1>6. GenerationsSound'
  <2> SUFFICES ASSUME ~contended, Windows PROVE GenerationsSound'
    BY <1>1 DEF GenerationsSound, Windows
  <2>1. \A i \in DOMAIN installers : i = Len(installers) => StepSound(i, installers[i].step)
    BY DEF InstallationInv, GenerationsSound
  <2> QED
    BY <1>1, <1>2, <2>1 DEF GenerationsSound, Reaches, StepSound, Pointed, Registered, Over, Windows
<1>7. RuntimeSound'
  BY <1>1, <1>2 DEF RuntimeSound, Needed, Over, Windows
<1> QED
  BY <1>3, <1>4, <1>5, <1>6, <1>7 DEF InstallationInv

(* The service manager starts what is registered.                          *)
LEMMA ServiceKeeps ==
    ASSUME InstallationInv, ServiceStops \/ ServiceStarts
    PROVE  InstallationInv'
<1>1. /\ UNCHANGED <<system, places, pointer, commandThere, task, installers, removing, contended>>
      /\ service' = NotRunning \/ (service' = Started(task) /\ task # NoPlace)
  BY DEF ServiceStops, ServiceStarts
<1>2. InstallersWell' /\ Alone' /\ RuntimeSound'
  BY <1>1 DEF InstallationInv, InstallersWell, Alone, RuntimeSound, NoneFailed, RuntimeWhole, Place, Windows
<1>3. PlacesWell'
  <2>1. Known' = Known
    BY <1>1 DEF Known, Place, Windows
  <2> QED
    BY <1>1, <2>1 DEF InstallationInv, PlacesWell, Windows
<1>4. GenerationsSound'
  BY <1>1 DEF InstallationInv, GenerationsSound, Reaches, StepSound, Installed, RuntimeWhole, Started, Pointed, Registered, Windows
<1> QED
  BY <1>2, <1>3, <1>4 DEF InstallationInv

(* Every step keeps the invariant.                                         *)
LEMMA InstallationInvInductive == InstallationInv /\ [InstallationNext]_installationVars => InstallationInv'
<1> SUFFICES ASSUME InstallationInv, [InstallationNext]_installationVars PROVE InstallationInv'
  OBVIOUS
<1>1. ASSUME NEW i \in DOMAIN installers,
             \/ FailsUv(i) \/ RunsUv(i) \/ SetsPointer(i) \/ Defines(i) \/ InstallsCommand(i) \/ CreatesTask(i)
             \/ EndsTask(i) \/ RunsTask(i) \/ VerifiesTask(i) \/ FailsToRegister(i) \/ Prunes(i)
             \/ LoadsService(i) \/ FailsToLoad(i) \/ RestartsService(i) \/ InstallerDies(i)
      PROVE  InstallationInv'
  BY <1>1, FailsUvKeeps, RunsUvKeeps, SetsPointerKeeps, DefinesKeeps, InstallsCommandKeeps, CreatesTaskKeeps,
     EndsTaskKeeps, RunsTaskKeeps, VerifiesTaskKeeps, FailsToRegisterKeeps, PrunesKeeps,
     LoadsServiceKeeps, FailsToLoadKeeps, RestartsServiceKeeps, InstallerDiesKeeps
<1>2. CASE UNCHANGED installationVars
  <2>1. UNCHANGED <<system, places, pointer, commandThere, task, service, installers, removing, contended>>
    BY <1>2 DEF installationVars
  <2>2. Known' = Known
    BY <2>1 DEF Known, Place, Windows
  <2> QED
    BY <2>1, <2>2 DEF InstallationInv, InstallersWell, PlacesWell, Alone, GenerationsSound, RuntimeSound, NoneFailed,
                      Reaches, StepSound, Installed, RuntimeWhole, Place, Windows
<1> QED
  BY <1>1, <1>2, BeginsKeeps, UninstallsKeeps, RemovesRuntimeKeeps, ServiceKeeps DEF InstallationNext

(* For every platform and any number of installers: updates one after the  *)
(* other, failed or broken off at any command, leave a service that starts *)
(* and a command that works, and after success the service is the new one  *)
(* (host_service.py, cli.py).                                              *)
THEOREM UpdatesStaySafe == InstallationSpec => []UpdatesAreSafe
<1>1. InstallationInit => InstallationInv
  BY InstallsAssumption DEF InstallationInit, InstallationFresh, InstallationInv, InstallersWell, PlacesWell, Alone,
     GenerationsSound, RuntimeSound, Reaches
<1>2. ASSUME InstallationInv PROVE UpdatesAreSafe
  <2>1. ServiceCanStart
    <3>1. task # NoPlace /\ ~Windows => task = 0
      BY <1>2 DEF InstallationInv, PlacesWell, Known, Place
    <3> QED
      BY <1>2, <3>1 DEF ServiceCanStart, InstallationInv, GenerationsSound, RuntimeSound, NoneFailed, Reaches
  <2>2. CommandReachesRuntime
    BY <1>2 DEF CommandReachesRuntime, InstallationInv, PlacesWell, GenerationsSound, Reaches
  <2>3. ReportsWhatRuns
    BY <1>2 DEF ReportsWhatRuns, InstallationInv, GenerationsSound, StepSound, At
  <2> QED
    BY <2>1, <2>2, <2>3 DEF UpdatesAreSafe
<1> QED
  BY <1>1, <1>2, InstallationInvInductive, PTL DEF InstallationSpec
===============================================================================
