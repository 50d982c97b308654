---------------------------- MODULE AuthProofs -----------------------------
(***************************************************************************)
(* Proofs about AuthSessions: revocation, the age of a session, the reset  *)
(* token and the login limiter, for any number of calls, any clock and any *)
(* settings.                                                               *)
(***************************************************************************)
EXTENDS AuthSessions, FiniteSetTheorems, SequenceTheorems, WellFoundedInduction, TLAPS

-----------------------------------------------------------------------------
\* The inductive invariants.

Reading   == {"won", "gate", "check", "issue"}   \* has read a version
Resetting == {"validate", "update", "clear"}     \* has read the row

(* No token is ahead of the row, and one that has seen a revocation is     *)
(* behind it.                                                              *)
Current(s) == s.sv <= user.sv /\ (s.dead => s.sv < user.sv)

CurrentCall(x) == IF x.pc \in Reading THEN Current(x.claims) ELSE ~x.claims.dead

RevokedInv ==
    /\ \A s \in sessions \cup pendings : Current(s)
    /\ \A c \in Calls : CurrentCall(calls[c])

(* A chain of refreshes keeps the time of its login.                       *)
SameLogin(x) == x.auth_time = x.login

Young(s) == deploy.max_age > 0 => s.exp <= s.login + deploy.max_age + TokenExpiry

SameLoginCall(x) == x.pc \in {"check", "issue"} => SameLogin(x.claims)

AgeInv ==
    /\ \A s \in sessions : SameLogin(s) /\ Young(s)
    /\ \A c \in Calls : SameLoginCall(calls[c])

(* Reset tokens: the one on record and those that calls have found exist.  *)
TokensMade ==
    /\ user.token \in 0 .. Len(used)
    /\ \A c \in Calls : calls[c].pc \in Resetting => calls[c].seen.token \in 1 .. Len(used)

(* On SQLite a transaction that is not stale has the row as it is, one     *)
(* that has written holds the lock and is not stale, and the token on      *)
(* record has not been used.                                               *)
ResetCall(c, x) ==
    /\ x.pc \in Resetting /\ ~x.stale => x.seen = user
    /\ x.pc \in {"update", "clear"} => ~x.seen.locked
    /\ x.pc = "clear" => writer = c /\ ~x.stale

UsedOnce ==
    /\ user.token # 0 => used[user.token] = 0
    /\ \A t \in 1 .. Len(used) : used[t] <= 1

ResetInv == Sqlite => UsedOnce /\ \A c \in Calls : ResetCall(c, calls[c])

(* The limiter keeps its times in order.                                   *)
LogSorted ==
    \A i \in DOMAIN log : log[i] <= now /\ \A j \in 1 .. i : log[j] <= log[i]

-----------------------------------------------------------------------------
\* What the limiter keeps.

(* A set of natural numbers that is not empty has a least element.         *)
LEMMA NatMin ==
    ASSUME NEW T \in SUBSET Nat, T # {}
    PROVE  \E m \in T : \A k \in T : m <= k
<1> DEFINE R == OpToRel(<, Nat)
<1>1. IsWellFoundedOn(R, Nat)
  BY NatLessThanWellFounded
<1>2. \E x \in T : \A y \in T : ~ (<<y, x>> \in R)
  <2> HIDE DEF R
  <2> QED BY <1>1, WFMin
<1>3. \A x, y \in Nat : <<y, x>> \in R <=> y < x
  BY DEF OpToRel
<1> HIDE DEF R
<1>4. PICK m \in T : \A y \in T : ~ (<<y, m>> \in R)
  BY <1>2
<1>5. ASSUME NEW k \in T PROVE m <= k
  <2>1. k \in Nat /\ m \in Nat
    OBVIOUS
  <2>2. ~(k < m)
    BY <1>3, <1>4, <2>1
  <2> QED BY <2>1, <2>2
<1> QED
  BY <1>5

(* A set of positions that is closed downwards is an initial interval.     *)
LEMMA Initial ==
    ASSUME NEW n \in Nat, NEW K \in SUBSET (1 .. n),
           \A i \in K : \A j \in 1 .. i : j \in K
    PROVE  /\ Cardinality(K) \in 0 .. n
           /\ K = 1 .. Cardinality(K)
<1>1. CASE K = {}
  BY <1>1, FS_EmptySet
<1>2. CASE K # {}
  <2> DEFINE T == {i \in Nat : \E k \in K : i = n - k}
  <2>1. \E m \in T : \A k \in T : m <= k
    <3>1. \A k \in K : k \in 1 .. n /\ n - k \in Nat
      OBVIOUS
    <3>2. T \in SUBSET Nat /\ T # {}
      BY <1>2, <3>1
    <3> HIDE DEF T
    <3> QED BY <3>2, NatMin
  <2>2. PICK m \in K : \A i \in K : i <= m
    <3>1. PICK t \in T : \A k \in T : t <= k
      BY <2>1
    <3>2. PICK m \in K : t = n - m
      BY <3>1
    <3>3. ASSUME NEW i \in K PROVE i <= m
      <4>1. i \in 1 .. n /\ m \in 1 .. n
        OBVIOUS
      <4>2. n - i \in T
        BY <4>1
      <4> QED BY <3>1, <3>2, <4>1, <4>2
    <3> QED BY <3>3
  <2>3. m \in 1 .. n /\ \A i \in K : i \in 1 .. n
    OBVIOUS
  <2>4. ASSUME NEW i \in K PROVE i \in 1 .. m
    <3>1. i \in 1 .. n /\ i <= m
      BY <2>2
    <3> QED BY <2>3, <3>1
  <2>5. K = 1 .. m
    BY <2>4
  <2>6. Cardinality(1 .. m) = m
    BY <2>3, FS_Interval
  <2> QED BY <2>3, <2>5, <2>6
<1> QED BY <1>1, <1>2

(* Recent is what is left of the log, and nothing in it is past.           *)
LEMMA RecentFacts ==
    ASSUME AuthTypeOK, LogSorted
    PROVE  /\ Cardinality(Past) \in 0 .. Len(log)
           /\ Past = 1 .. Cardinality(Past)
           /\ Recent \in Seq(0 .. MaxTime)
           /\ Len(Recent) = Len(log) - Cardinality(Past)
           /\ \A i \in 1 .. Len(Recent) :
                 Recent[i] = log[Cardinality(Past) + i] /\ now - Recent[i] < Window
<1>1. /\ Len(log) \in Nat /\ DOMAIN log = 1 .. Len(log)
      /\ now \in Nat /\ \A i \in 1 .. Len(log) : log[i] \in 0 .. MaxTime /\ log[i] \in Nat
  BY AuthAssumption DEF AuthTypeOK
<1>2. Past \in SUBSET (1 .. Len(log))
  BY <1>1 DEF Past
<1>3. ASSUME NEW i \in Past, NEW j \in 1 .. i PROVE j \in Past
  <2>1. i \in 1 .. Len(log) /\ now - log[i] >= Window
    BY <1>1, <1>3 DEF Past
  <2>2. \A a \in 1 .. Len(log) : \A b \in 1 .. a : log[b] <= log[a]
    BY <1>1 DEF LogSorted
  <2>3. i \in Nat /\ j \in 1 .. Len(log)
    BY <1>1, <1>3, <2>1
  <2>4. log[j] <= log[i]
    BY <1>3, <2>1, <2>2
  <2> QED
    BY <1>1, <2>1, <2>3, <2>4, AuthAssumption DEF Past
<1>4. Cardinality(Past) \in 0 .. Len(log) /\ Past = 1 .. Cardinality(Past)
  <2> HIDE DEF Past
  <2> QED
    BY <1>1, <1>2, <1>3, Initial
<1> DEFINE k == Cardinality(Past)
<1>5. /\ Recent \in Seq(0 .. MaxTime)
      /\ Len(Recent) = Len(log) - k
      /\ \A i \in 1 .. Len(log) - k : Recent[i] = log[k + i]
  <2> HIDE DEF k
  <2>1. k \in Nat /\ k <= Len(log) /\ Recent = SubSeq(log, k + 1, Len(log))
    BY <1>1, <1>4 DEF k, Recent
  <2>2. \A i \in k + 1 .. Len(log) : log[i] \in 0 .. MaxTime
    BY <1>1, <2>1
  <2>3. k + 1 \in Int /\ Len(log) \in Int
    BY <1>1, <2>1
  <2>4. /\ SubSeq(log, k + 1, Len(log)) \in Seq(0 .. MaxTime)
        /\ Len(SubSeq(log, k + 1, Len(log))) =
              IF k + 1 <= Len(log) THEN Len(log) - (k + 1) + 1 ELSE 0
        /\ \A i \in 1 .. Len(log) - (k + 1) + 1 :
              SubSeq(log, k + 1, Len(log))[i] = log[k + 1 + i - 1]
    BY <2>2, <2>3, SubSeqProperties
  <2>5. Len(Recent) = Len(log) - k
    <3>1. Len(Recent) = IF k + 1 <= Len(log) THEN Len(log) - (k + 1) + 1 ELSE 0
      BY <2>1, <2>4, Zenon
    <3>2. Len(log) \in Nat /\ k \in Nat /\ k <= Len(log)
      BY <1>1, <2>1
    <3> QED
      BY <3>1, <3>2
  <2>6. ASSUME NEW i \in 1 .. Len(log) - k PROVE Recent[i] = log[k + i]
    <3>1. i \in 1 .. Len(log) - (k + 1) + 1 /\ k + 1 + i - 1 = k + i
      BY <1>1, <2>1, <2>6
    <3> QED
      BY <2>1, <2>4, <3>1
  <2> QED
    BY <2>1, <2>4, <2>5, <2>6
<1>6. ASSUME NEW i \in 1 .. Len(Recent) PROVE now - Recent[i] < Window
  <2>1. k + i \in 1 .. Len(log) /\ k + i \notin 1 .. k /\ Recent[i] = log[k + i]
    BY <1>1, <1>4, <1>5
  <2>2. ~(now - log[k + i] >= Window)
    BY <1>1, <1>4, <2>1 DEF Past
  <2> QED
    BY <1>1, <2>1, <2>2, AuthAssumption
<1> QED
  BY <1>4, <1>5, <1>6

(* A log of which nothing is past is its own recent part.                  *)
LEMMA AllRecent ==
    ASSUME AuthTypeOK, LogSorted,
           \A i \in 1 .. Len(log) : now - log[i] < Window
    PROVE  Len(Recent) = Len(log)
<1>1. /\ DOMAIN log = 1 .. Len(log) /\ now \in Nat
      /\ \A i \in 1 .. Len(log) : log[i] \in Nat
  BY AuthAssumption DEF AuthTypeOK
<1>2. Past = {}
  BY <1>1, AuthAssumption DEF Past
<1>3. Cardinality(Past) = 0
  BY <1>2, FS_EmptySet
<1> QED
  BY <1>3, RecentFacts DEF AuthTypeOK

-----------------------------------------------------------------------------
\* Types.

LEMMA NoCallType == NoCall \in Call /\ NoRow \in Row /\ NoClaims \in Claims
  BY DEF NoCall, Call, NoRow, Row, NoClaims, Claims, Pcs

(* Commits and revocations change two flags of a call and one of a token.  *)
LEMMA AgedFacts ==
    ASSUME NEW cs \in [Calls -> Call]
    PROVE  /\ Aged(cs) \in [Calls -> Call]
           /\ \A c \in Calls :
                 /\ Aged(cs)[c].pc = cs[c].pc
                 /\ Aged(cs)[c].seen = cs[c].seen
                 /\ Aged(cs)[c].claims = cs[c].claims
                 /\ Aged(cs)[c].stale = (cs[c].stale \/ cs[c].pc \in Resetting)
<1>1. ASSUME NEW c \in Calls
      PROVE  /\ Aged(cs)[c] \in Call
             /\ Aged(cs)[c].pc = cs[c].pc
             /\ Aged(cs)[c].seen = cs[c].seen
             /\ Aged(cs)[c].claims = cs[c].claims
             /\ Aged(cs)[c].stale = (cs[c].stale \/ cs[c].pc \in Resetting)
  <2>1. cs[c] \in Call
    OBVIOUS
  <2>2. Aged(cs)[c] = [cs[c] EXCEPT !.stale = @ \/ cs[c].pc \in Resetting]
    BY DEF Aged, Resetting
  <2> QED
    BY <2>1, <2>2 DEF Call
<1>2. Aged(cs) = [c \in Calls |-> Aged(cs)[c]]
  BY DEF Aged
<1> QED
  BY <1>1, <1>2

LEMMA BuriedFacts ==
    ASSUME NEW cs \in [Calls -> Call]
    PROVE  /\ Buried(cs) \in [Calls -> Call]
           /\ \A c \in Calls :
                 /\ Buried(cs)[c].pc = cs[c].pc
                 /\ Buried(cs)[c].seen = cs[c].seen
                 /\ Buried(cs)[c].stale = cs[c].stale
                 /\ Buried(cs)[c].claims.sv = cs[c].claims.sv
                 /\ Buried(cs)[c].claims.auth_time = cs[c].claims.auth_time
                 /\ Buried(cs)[c].claims.login = cs[c].claims.login
                 /\ Buried(cs)[c].claims.dead = (cs[c].claims.dead \/ cs[c].pc \in Reading)
<1>1. ASSUME NEW c \in Calls
      PROVE  /\ Buried(cs)[c] \in Call
             /\ Buried(cs)[c].pc = cs[c].pc
             /\ Buried(cs)[c].seen = cs[c].seen
             /\ Buried(cs)[c].stale = cs[c].stale
             /\ Buried(cs)[c].claims.sv = cs[c].claims.sv
             /\ Buried(cs)[c].claims.auth_time = cs[c].claims.auth_time
             /\ Buried(cs)[c].claims.login = cs[c].claims.login
             /\ Buried(cs)[c].claims.dead = (cs[c].claims.dead \/ cs[c].pc \in Reading)
  <2>1. cs[c] \in Call /\ cs[c].claims \in Claims
    BY DEF Call
  <2> DEFINE d == cs[c].claims.dead \/ cs[c].pc \in Reading
             claims == [cs[c].claims EXCEPT !.dead = d]
  <2>2. Buried(cs)[c] = [cs[c] EXCEPT !.claims = claims]
    BY DEF Buried, Reading
  <2>3. d \in BOOLEAN
    OBVIOUS
  <2>4. /\ claims \in Claims
        /\ claims.sv = cs[c].claims.sv
        /\ claims.auth_time = cs[c].claims.auth_time
        /\ claims.login = cs[c].claims.login
        /\ claims.dead = d
    <3> HIDE DEF d
    <3> QED
      BY <2>1, <2>3 DEF Claims
  <2>5. /\ Buried(cs)[c] \in Call
        /\ Buried(cs)[c].pc = cs[c].pc
        /\ Buried(cs)[c].seen = cs[c].seen
        /\ Buried(cs)[c].stale = cs[c].stale
        /\ Buried(cs)[c].claims = claims
    <3> HIDE DEF claims
    <3> QED
      BY <2>1, <2>2, <2>4 DEF Call
  <2> QED
    BY <2>4, <2>5
<1>2. Buried(cs) = [c \in Calls |-> Buried(cs)[c]]
  BY DEF Buried
<1> QED
  BY <1>1, <1>2

LEMMA DeadFacts ==
    ASSUME NEW T \in SUBSET Claims
    PROVE  /\ Dead(T) \subseteq Claims
           /\ \A s \in Dead(T) : s.dead /\ \E t \in T :
                 s.sv = t.sv /\ s.auth_time = t.auth_time /\ s.login = t.login /\ s.exp = t.exp
<1>1. ASSUME NEW t \in T
      PROVE  LET s == [t EXCEPT !.dead = TRUE]
             IN  /\ s \in Claims /\ s.dead
                 /\ s.sv = t.sv /\ s.auth_time = t.auth_time /\ s.login = t.login /\ s.exp = t.exp
  BY DEF Claims
<1> QED
  BY <1>1 DEF Dead

(* What a revocation leaves.                                               *)
LEMMA RevokeFacts ==
    ASSUME AuthTypeOK, NEW cs \in [Calls -> Call], NEW u \in Row, Revoke(u, cs)
    PROVE  /\ user' \in Row
           /\ calls' \in [Calls -> Call]
           /\ sessions' \subseteq Claims
           /\ pendings' \subseteq Claims
           /\ \A c \in Calls :
                 /\ calls'[c].pc = cs[c].pc
                 /\ calls'[c].seen = cs[c].seen
                 /\ calls'[c].stale = (cs[c].stale \/ cs[c].pc \in Resetting)
                 /\ calls'[c].claims.sv = cs[c].claims.sv
                 /\ calls'[c].claims.auth_time = cs[c].claims.auth_time
                 /\ calls'[c].claims.login = cs[c].claims.login
                 /\ calls'[c].claims.dead = (cs[c].claims.dead \/ cs[c].pc \in Reading)
<1>1. calls' = Buried(Aged(cs)) /\ Aged(cs) \in [Calls -> Call]
  BY AgedFacts DEF Revoke
<1>2. sessions' \subseteq Claims /\ pendings' \subseteq Claims
  BY DeadFacts DEF Revoke, AuthTypeOK
<1> QED
  BY <1>1, <1>2, AgedFacts, BuriedFacts DEF Revoke

TypeInv == AuthTypeOK /\ LogSorted /\ TokensMade

LEMMA TokenType ==
    ASSUME AuthTypeOK, NEW sv \in Nat, NEW a \in Nat, NEW l \in Nat, NEW d \in BOOLEAN
    PROVE  /\ Token(sv, a, l, d) \in Claims
           /\ [Token(sv, a, l, d) EXCEPT !.exp = now + PendingExpiry] \in Claims
<1>1. now \in Nat /\ now + TokenExpiry \in Nat /\ now + PendingExpiry \in Nat
  BY AuthAssumption DEF AuthTypeOK
<1>2. Token(sv, a, l, d) \in Claims
  BY <1>1 DEF Token, Claims
<1> QED
  BY <1>1, <1>2 DEF Claims

(* A step of call c that touches neither the row nor the clock nor the     *)
(* tokens made.                                                            *)
LEMMA OwnStep ==
    ASSUME TypeInv, NEW c \in Calls, NEW new \in Call,
           calls' = [calls EXCEPT ![c] = new],
           new.pc \in Resetting => new.seen.token \in 1 .. Len(used),
           UNCHANGED <<deploy, now, user, used>>,
           writer' \in Calls \cup {None}, left' \in [Ops -> Nat],
           sessions' \subseteq Claims, pendings' \subseteq Claims,
           log' \in Seq(0 .. MaxTime), LogSorted'
    PROVE  TypeInv'
  BY DEF TypeInv, AuthTypeOK, TokensMade

(* The same for a step that only sends c elsewhere, or ends it.            *)
LEMMA OwnMove ==
    ASSUME TypeInv, NEW c \in Calls,
           \/ End(c)
           \/ \E pc \in Pcs : Go(c, pc) /\ (pc \in Resetting => calls[c].pc \in Resetting),
           UNCHANGED <<deploy, now, user, used>>,
           writer' \in Calls \cup {None}, left' \in [Ops -> Nat],
           sessions' \subseteq Claims, pendings' \subseteq Claims,
           log' \in Seq(0 .. MaxTime), LogSorted'
    PROVE  TypeInv'
<1>1. CASE End(c)
  <2>1. calls' = [calls EXCEPT ![c] = NoCall] /\ NoCall.pc \notin Resetting
    BY <1>1 DEF End, NoCall, Resetting
  <2> QED
    BY <2>1, NoCallType, OwnStep
<1>2. ASSUME NEW pc \in Pcs, Go(c, pc), pc \in Resetting => calls[c].pc \in Resetting
      PROVE  TypeInv'
  <2> DEFINE new == [calls[c] EXCEPT !.pc = pc]
  <2>1. calls \in [Calls -> Call] /\ calls[c] \in Call
    BY DEF TypeInv, AuthTypeOK
  <2>2. new \in Call /\ new.pc = pc /\ new.seen = calls[c].seen
    BY <2>1 DEF Call
  <2>3. calls' = [calls EXCEPT ![c] = new]
    BY <1>2, <2>1 DEF Go
  <2>4. new.pc \in Resetting => new.seen.token \in 1 .. Len(used)
    BY <1>2, <2>2 DEF TypeInv, TokensMade
  <2> HIDE DEF new
  <2> QED
    BY <2>2, <2>3, <2>4, OwnStep
<1> QED
  BY <1>1, <1>2

(* What is left of a log in order is in order.                             *)
LEMMA RecentSorted ==
    ASSUME AuthTypeOK, LogSorted
    PROVE  \A i \in 1 .. Len(Recent) :
              Recent[i] <= now /\ \A j \in 1 .. i : Recent[j] <= Recent[i]
<1> DEFINE k == Cardinality(Past)
<1>1. /\ k \in Nat /\ Len(Recent) = Len(log) - k
      /\ \A i \in 1 .. Len(Recent) : Recent[i] = log[k + i]
  BY RecentFacts
<1> HIDE DEF k
<1>2. DOMAIN log = 1 .. Len(log) /\ Len(log) \in Nat
  BY DEF AuthTypeOK
<1>3. ASSUME NEW i \in 1 .. Len(Recent)
      PROVE  Recent[i] <= now /\ \A j \in 1 .. i : Recent[j] <= Recent[i]
  <2>1. k + i \in DOMAIN log /\ Recent[i] = log[k + i]
    BY <1>1, <1>2
  <2>2. ASSUME NEW j \in 1 .. i PROVE Recent[j] <= Recent[i]
    <3>1. j \in 1 .. Len(Recent) /\ k + j \in 1 .. (k + i)
      BY <1>1, <1>2
    <3> QED
      BY <1>1, <2>1, <3>1 DEF LogSorted
  <2> QED
    BY <2>1, <2>2 DEF LogSorted
<1> QED
  BY <1>3

(* What a spent operation leaves.                                          *)
LEMMA SpendType ==
    ASSUME left \in [Ops -> Nat], NEW op \in Ops, Spend(op)
    PROVE  left' \in [Ops -> Nat]
<1>1. left[op] - 1 \in Nat
  BY DEF Spend
<1> QED
  BY <1>1 DEF Spend

LEMMA LoginTypes ==
    ASSUME TypeInv, NEW c \in Calls, LoginStep(c)
    PROVE  TypeInv'
<1>0. /\ calls \in [Calls -> Call] /\ calls[c] \in Call /\ calls[c].claims \in Claims
      /\ log \in Seq(0 .. MaxTime) /\ user \in Row /\ now \in 0 .. MaxTime /\ now \in Nat
      /\ AuthTypeOK /\ LogSorted /\ TokensMade
      /\ sessions \subseteq Claims /\ pendings \subseteq Claims
      /\ left \in [Ops -> Nat] /\ writer \in Calls \cup {None}
  BY AuthAssumption DEF TypeInv, AuthTypeOK, Call
<1>1. ASSUME UNCHANGED <<now, log>> PROVE LogSorted'
  BY <1>0, <1>1 DEF LogSorted
<1>2. ASSUME log' = Recent, now' = now PROVE LogSorted' /\ log' \in Seq(0 .. MaxTime)
  <2>1. Recent \in Seq(0 .. MaxTime) /\ DOMAIN Recent = 1 .. Len(Recent)
    BY <1>0, RecentFacts
  <2> QED
    BY <1>0, <1>2, <2>1, RecentSorted DEF LogSorted
<1>3. CASE \E grpc \in BOOLEAN, pw \in {-1, user.pw} : LoginBegin(c, grpc, pw)
  <2>1. PICK grpc \in BOOLEAN, pw \in {-1, user.pw} : LoginBegin(c, grpc, pw)
    BY <1>3
  <2> DEFINE new == [NoCall EXCEPT !.pc = "hash", !.grpc = grpc, !.pw = pw]
  <2>2. pw \in Nat \cup {-1}
    BY <1>0 DEF Row
  <2>3. new \in Call /\ new.pc \notin Resetting
    BY <2>1, <2>2, NoCallType DEF Call, Pcs, Resetting
  <2>4. left' \in [Ops -> Nat]
    BY <1>0, <2>1, SpendType DEF LoginBegin, Ops
  <2>5. /\ calls' = [calls EXCEPT ![c] = new] /\ log' = Recent
        /\ UNCHANGED <<deploy, now, user, writer, sessions, pendings, used>>
    BY <2>1 DEF LoginBegin
  <2>6. LogSorted' /\ log' \in Seq(0 .. MaxTime)
    BY <1>2, <2>5
  <2> HIDE DEF new
  <2> QED
    BY <1>0, <2>3, <2>4, <2>5, <2>6, OwnStep
<1>4. CASE VerifyPassword(c) \/ LoginIsLocked(c) \/ LoginError(c)
  <2>1. UNCHANGED <<deploy, now, user, writer, sessions, pendings, log, used, left>>
    BY <1>4 DEF VerifyPassword, LoginIsLocked, LoginError
  <2>2. End(c) \/ \E pc \in Pcs : Go(c, pc) /\ (pc \in Resetting => calls[c].pc \in Resetting)
    BY <1>4 DEF VerifyPassword, LoginIsLocked, LoginError, Pcs, Resetting
  <2> QED
    BY <1>0, <1>1, <2>1, <2>2, OwnMove
<1>5. CASE get_session_version(c)
  <2> DEFINE new == [calls[c] EXCEPT !.pc = "won", !.claims.sv = user.sv]
  <2>1. new \in Call /\ new.pc \notin Resetting
    BY <1>0 DEF Call, Claims, Row, Pcs, Resetting
  <2>2. calls' = [calls EXCEPT ![c] = new]
    BY <1>0, <1>5 DEF get_session_version
  <2> HIDE DEF new
  <2> QED
    BY <1>0, <1>1, <1>5, <2>1, <2>2, OwnStep DEF get_session_version
<1>6. ASSUME log' = <<>> PROVE LogSorted' /\ log' \in Seq(0 .. MaxTime)
  BY <1>6 DEF LogSorted
<1>7. /\ Token(calls[c].claims.sv, now, now, calls[c].claims.dead) \in Claims
      /\ [Token(calls[c].claims.sv, now, now, calls[c].claims.dead)
             EXCEPT !.exp = now + PendingExpiry] \in Claims
  <2>1. calls[c].claims.sv \in Nat /\ calls[c].claims.dead \in BOOLEAN
    BY <1>0 DEF Claims
  <2> QED
    BY <1>0, <2>1, TokenType
<1>8. CASE login_impl(c)
  <2>1. sessions' \subseteq Claims
    BY <1>0, <1>7, <1>8 DEF login_impl
  <2> QED
    BY <1>0, <1>6, <1>8, <2>1, OwnMove DEF login_impl
<1>9. CASE login_action(c)
  BY <1>0, <1>6, <1>9, OwnMove DEF login_action, Pcs, Resetting
<1>10. CASE build_session_response(c)
  <2>1. sessions' \subseteq Claims /\ pendings' \subseteq Claims
    BY <1>0, <1>7, <1>10 DEF build_session_response
  <2> QED
    BY <1>0, <1>1, <1>10, <2>1, OwnMove DEF build_session_response
<1>11. CASE record_failure(c)
  <2>1. log' = Append(Recent, now)
    BY <1>11 DEF record_failure
  <2>2. /\ Recent \in Seq(0 .. MaxTime) /\ Len(Recent) \in Nat
        /\ \A i \in 1 .. Len(Recent) : Recent[i] \in Nat
    BY <1>0, RecentFacts, AuthAssumption
  <2>3. /\ log' \in Seq(0 .. MaxTime) /\ Len(log') = Len(Recent) + 1
        /\ DOMAIN log' = 1 .. Len(log')
        /\ \A i \in 1 .. Len(Recent) : log'[i] = Recent[i]
        /\ log'[Len(Recent) + 1] = now
    BY <1>0, <2>1, <2>2, AppendProperties
  <2>4. ASSUME NEW i \in DOMAIN log', NEW j \in 1 .. i PROVE log'[i] <= now /\ log'[j] <= log'[i]
    <3>1. CASE i \in 1 .. Len(Recent)
      <4>1. j \in 1 .. Len(Recent)
        BY <2>2, <3>1
      <4>2. Recent[i] <= now /\ Recent[j] <= Recent[i]
        BY <1>0, <3>1, RecentSorted
      <4> QED
        BY <2>3, <3>1, <4>1, <4>2
    <3>2. CASE i = Len(Recent) + 1
      <4>1. log'[i] = now
        BY <2>3, <3>2
      <4>2. CASE j \in 1 .. Len(Recent)
        <5>1. Recent[j] <= now
          BY <1>0, <4>2, RecentSorted
        <5> QED
          BY <1>0, <2>3, <4>1, <4>2, <5>1
      <4>3. CASE j = Len(Recent) + 1
        BY <1>0, <2>3, <4>1, <4>3
      <4> QED
        BY <2>2, <3>2, <4>2, <4>3
    <3> QED
      BY <2>2, <2>3, <3>1, <3>2
  <2>5. now' = now
    BY <1>11 DEF record_failure
  <2>6. ASSUME NEW i \in DOMAIN log' PROVE log'[i] <= now
    <3>1. i \in 1 .. i
      BY <2>2, <2>3
    <3> QED
      BY <2>4, <3>1
  <2>7. LogSorted'
    BY <2>4, <2>5, <2>6 DEF LogSorted
  <2> QED
    BY <1>0, <1>11, <2>3, <2>7, OwnMove DEF record_failure
<1> QED
  BY <1>3, <1>4, <1>5, <1>8, <1>9, <1>10, <1>11 DEF LoginStep

LEMMA RefreshTypes ==
    ASSUME TypeInv, NEW c \in Calls, RefreshStep(c)
    PROVE  TypeInv'
<1>0. /\ calls[c] \in Call /\ calls[c].claims \in Claims /\ AuthTypeOK
      /\ sessions \subseteq Claims /\ pendings \subseteq Claims
      /\ left \in [Ops -> Nat] /\ writer \in Calls \cup {None} /\ log \in Seq(0 .. MaxTime)
  BY DEF TypeInv, AuthTypeOK, Call
<1>1. UNCHANGED <<deploy, now, user, writer, pendings, log, used>>
  BY DEF RefreshStep, RefreshBegin, check_session_status, RefreshFails, session_refresh
<1>2. LogSorted'
  BY <1>1 DEF TypeInv, LogSorted
<1>3. CASE \E s \in sessions : RefreshBegin(c, s)
  <2>1. PICK s \in sessions : RefreshBegin(c, s)
    BY <1>3
  <2> DEFINE new == [NoCall EXCEPT !.pc = "check", !.claims = s]
  <2>2. new \in Call /\ new.pc \notin Resetting
    BY <1>0, NoCallType DEF Call, Pcs, Resetting
  <2>3. left' \in [Ops -> Nat]
    BY <1>0, <2>1, SpendType DEF RefreshBegin, Ops
  <2>4. calls' = [calls EXCEPT ![c] = new] /\ UNCHANGED sessions
    BY <2>1 DEF RefreshBegin
  <2> HIDE DEF new
  <2> QED
    BY <1>0, <1>1, <1>2, <2>2, <2>3, <2>4, OwnStep
<1>4. CASE check_session_status(c) \/ RefreshFails(c)
  <2>1. UNCHANGED <<sessions, left>>
    BY <1>4 DEF check_session_status, RefreshFails
  <2>2. End(c) \/ \E pc \in Pcs : Go(c, pc) /\ (pc \in Resetting => calls[c].pc \in Resetting)
    BY <1>4 DEF check_session_status, RefreshFails, Pcs, Resetting
  <2> QED
    BY <1>0, <1>1, <1>2, <2>1, <2>2, OwnMove
<1>5. CASE session_refresh(c)
  <2>1. /\ calls[c].claims.sv \in Nat /\ calls[c].claims.dead \in BOOLEAN
        /\ calls[c].claims.auth_time \in Nat /\ calls[c].claims.login \in Nat
    BY <1>0 DEF Claims
  <2>2. Refreshed(calls[c].claims) \in Claims
    BY <1>0, <2>1, TokenType DEF Refreshed
  <2>3. sessions' \subseteq Claims /\ UNCHANGED left /\ End(c)
    BY <1>0, <1>5, <2>2 DEF session_refresh
  <2> QED
    BY <1>0, <1>1, <1>2, <2>3, OwnMove
<1> QED
  BY <1>3, <1>4, <1>5 DEF RefreshStep

(* A step that writes the row; it may make a reset token and end a call.   *)
LEMMA RowStep ==
    ASSUME TypeInv, calls' \in [Calls -> Call],
           \A c \in Calls : calls'[c].pc \in Resetting =>
                               calls[c].pc \in Resetting /\ calls'[c].seen = calls[c].seen,
           user' \in Row, used' \in Seq(Nat), Len(used') >= Len(used),
           user'.token \in 0 .. Len(used'),
           UNCHANGED <<deploy, now, log>>,
           writer' \in Calls \cup {None}, left' \in [Ops -> Nat],
           sessions' \subseteq Claims, pendings' \subseteq Claims
    PROVE  TypeInv'
<1>1. LogSorted'
  BY DEF TypeInv, LogSorted
<1>2. AuthTypeOK'
  BY DEF TypeInv, AuthTypeOK
<1>3. ASSUME NEW c \in Calls, calls'[c].pc \in Resetting
      PROVE  calls'[c].seen.token \in 1 .. Len(used')
  <2>1. calls'[c].seen.token \in 1 .. Len(used)
    BY <1>3 DEF TypeInv, TokensMade
  <2>2. Len(used) \in Nat /\ Len(used') \in Nat
    BY <1>2 DEF TypeInv, AuthTypeOK
  <2> QED
    BY <2>1, <2>2
<1> QED
  BY <1>1, <1>2, <1>3 DEF TypeInv, TokensMade

(* The rows that the operations write.                                     *)
LEMMA RowTypes ==
    ASSUME TypeInv
    PROVE  /\ Bumped(user) \in Row /\ Bumped(user).token = user.token
           /\ Bumped(user).sv = user.sv + 1
           /\ ResetRow \in Row /\ ResetRow.token = 0 /\ ResetRow.sv = user.sv + 1
           /\ [Bumped(user) EXCEPT !.pw = @ + 1] \in Row
           /\ [Bumped(user) EXCEPT !.pw = @ + 1].token = user.token
           /\ [Bumped(user) EXCEPT !.pw = @ + 1].sv = user.sv + 1
<1>1. user \in Row /\ user.sv + 1 \in Nat /\ user.pw + 1 \in Nat
  BY DEF TypeInv, AuthTypeOK, Row
<1>2. Bumped(user) \in Row /\ Bumped(user).token = user.token /\ Bumped(user).pw = user.pw
      /\ Bumped(user).sv = user.sv + 1
  BY <1>1 DEF Bumped, Row
<1> HIDE DEF Bumped
<1> QED
  BY <1>1, <1>2 DEF ResetRow, Row

(* A call that ends, with the others as they were.                         *)
LEMMA Ended ==
    ASSUME TypeInv, NEW c \in Calls
    PROVE  LET cs == [calls EXCEPT ![c] = NoCall]
           IN  /\ cs \in [Calls -> Call]
               /\ cs[c] = NoCall /\ NoCall.pc = "idle" /\ ~NoCall.claims.dead
               /\ \A d \in Calls : d # c => cs[d] = calls[d]
  BY NoCallType DEF TypeInv, AuthTypeOK, NoCall, NoClaims

LEMMA ResetTypes ==
    ASSUME TypeInv, NEW c \in Calls, ResetStep(c)
    PROVE  TypeInv'
<1>0. /\ calls \in [Calls -> Call] /\ calls[c] \in Call /\ AuthTypeOK /\ user \in Row
      /\ sessions \subseteq Claims /\ pendings \subseteq Claims /\ used \in Seq(Nat)
      /\ Len(used) \in Nat /\ user.token \in 0 .. Len(used)
      /\ left \in [Ops -> Nat] /\ writer \in Calls \cup {None} /\ log \in Seq(0 .. MaxTime)
  BY DEF TypeInv, AuthTypeOK, TokensMade
<1>1. UNCHANGED <<deploy, now, log>>
  BY DEF ResetStep, ResetBegin, RejectLocked, RejectExpired, HashPassword, update_password,
         consume_reset_token, ResetFails
<1>2. LogSorted'
  BY <1>1 DEF TypeInv, LogSorted
<1>3. CASE \E grpc \in BOOLEAN, t \in 1..Len(used) : ResetBegin(c, grpc, t)
  <2>1. PICK grpc \in BOOLEAN, t \in 1..Len(used) : ResetBegin(c, grpc, t)
    BY <1>3
  <2> DEFINE new == [NoCall EXCEPT !.pc = "validate", !.grpc = grpc, !.seen = user]
  <2>2. new \in Call /\ new.seen = user
    BY <1>0, NoCallType DEF Call, Pcs
  <2>3. left' \in [Ops -> Nat]
    BY <1>0, <2>1, SpendType DEF ResetBegin, Ops
  <2>4. /\ calls' = [calls EXCEPT ![c] = new] /\ UNCHANGED <<user, sessions, pendings, used>>
        /\ user.token \in 1 .. Len(used) /\ writer' \in {writer, c}
    BY <2>1 DEF ResetBegin
  <2> HIDE DEF new
  <2> QED
    BY <1>0, <1>1, <1>2, <2>2, <2>3, <2>4, OwnStep
<1>4. CASE \/ RejectLocked(c) \/ HashPassword(c) \/ update_password(c) \/ ResetFails(c)
           \/ RejectExpired(c) /\ calls[c].grpc
  <2>1. UNCHANGED <<user, sessions, pendings, used, left>> /\ writer' \in Calls \cup {None}
    BY <1>0, <1>4
    DEF RejectLocked, HashPassword, update_password, ResetFails, RejectExpired, Released
  <2>2. End(c) \/ \E pc \in Pcs : Go(c, pc) /\ (pc \in Resetting => calls[c].pc \in Resetting)
    BY <1>4
    DEF RejectLocked, HashPassword, update_password, ResetFails, RejectExpired, Pcs, Resetting, At
  <2> QED
    BY <1>0, <1>1, <1>2, <2>1, <2>2, OwnMove
<1>5. CASE RejectExpired(c) /\ ~calls[c].grpc
  <2> DEFINE cs == [calls EXCEPT ![c] = NoCall]
  <2>1. /\ calls' = Aged(cs) /\ user' = [user EXCEPT !.token = 0, !.exp = 0]
        /\ UNCHANGED <<sessions, pendings, used, left>> /\ writer' \in Calls \cup {None}
    BY <1>0, <1>5 DEF RejectExpired, Released
  <2>2. user' \in Row /\ user'.token = 0
    BY <1>0, <2>1 DEF Row
  <2>3. /\ cs \in [Calls -> Call] /\ cs[c].pc = "idle"
        /\ \A d \in Calls : d # c => cs[d] = calls[d]
    BY Ended
  <2> HIDE DEF cs
  <2>4. /\ calls' \in [Calls -> Call]
        /\ \A d \in Calls : calls'[d].pc \in Resetting =>
                               calls[d].pc \in Resetting /\ calls'[d].seen = calls[d].seen
    BY <2>1, <2>3, AgedFacts DEF Resetting
  <2> QED
    BY <1>0, <1>1, <2>1, <2>2, <2>4, RowStep
<1>6. CASE consume_reset_token(c)
  <2> DEFINE cs == [calls EXCEPT ![c] = NoCall]
             t == calls[c].seen.token
  <2>1. /\ Revoke(ResetRow, cs) /\ UNCHANGED left /\ writer' = None
        /\ used' = [used EXCEPT ![t] = @ + 1] /\ user' = ResetRow
    BY <1>6 DEF consume_reset_token, Revoke
  <2>2. /\ cs \in [Calls -> Call] /\ cs[c].pc = "idle"
        /\ \A d \in Calls : d # c => cs[d] = calls[d]
    BY Ended
  <2> HIDE DEF cs
  <2>3. user' \in Row /\ user'.token = 0
    BY <2>1, RowTypes
  <2>4. /\ calls' \in [Calls -> Call] /\ sessions' \subseteq Claims /\ pendings' \subseteq Claims
        /\ \A d \in Calls : calls'[d].pc = cs[d].pc /\ calls'[d].seen = cs[d].seen
    BY <1>0, <2>1, <2>2, RowTypes, RevokeFacts
  <2>5. \A d \in Calls : calls'[d].pc \in Resetting =>
                            calls[d].pc \in Resetting /\ calls'[d].seen = calls[d].seen
    BY <2>2, <2>4 DEF Resetting
  <2>6. t \in 1 .. Len(used)
    BY <1>6 DEF consume_reset_token, At, Resetting, TypeInv, TokensMade
  <2> HIDE DEF t
  <2>7. used[t] + 1 \in Nat
    BY <1>0, <2>6
  <2>8. used' \in Seq(Nat) /\ Len(used') = Len(used)
    BY <1>0, <2>1, <2>6, <2>7, ExceptSeq
  <2> QED
    BY <1>0, <1>1, <2>1, <2>3, <2>4, <2>5, <2>8, RowStep
<1> QED
  BY <1>3, <1>4, <1>5, <1>6 DEF ResetStep

LEMMA LockTypes ==
    ASSUME TypeInv, NEW c \in Calls, LockStep(c)
    PROVE  TypeInv'
<1>0. /\ calls \in [Calls -> Call] /\ calls[c] \in Call /\ AuthTypeOK /\ user \in Row
      /\ sessions \subseteq Claims /\ pendings \subseteq Claims /\ used \in Seq(Nat)
      /\ Len(used) \in Nat /\ user.token \in 0 .. Len(used)
      /\ left \in [Ops -> Nat] /\ writer \in Calls \cup {None} /\ log \in Seq(0 .. MaxTime)
  BY DEF TypeInv, AuthTypeOK, TokensMade
<1>1. UNCHANGED <<deploy, now, writer, log, used>>
  BY DEF LockStep, lock_user, bump_session_version, LockFails
<1>2. LogSorted'
  BY <1>1 DEF TypeInv, LogSorted
<1>3. CASE lock_user(c)
  <2> DEFINE new == [NoCall EXCEPT !.pc = "bump"]
             cs  == [calls EXCEPT ![c] = new]
  <2>1. new \in Call /\ new.pc \notin Resetting
    BY NoCallType DEF Call, Pcs, Resetting
  <2>2. /\ calls' = Aged(cs) /\ user' = [user EXCEPT !.locked = TRUE]
        /\ UNCHANGED <<sessions, pendings>> /\ left' \in [Ops -> Nat]
    BY <1>0, <1>3, SpendType DEF lock_user, Ops
  <2> HIDE DEF new
  <2>3. cs \in [Calls -> Call] /\ \A d \in Calls : cs[d] = IF d = c THEN new ELSE calls[d]
    BY <1>0, <2>1
  <2> HIDE DEF cs
  <2>4. /\ calls' \in [Calls -> Call]
        /\ \A d \in Calls : calls'[d].pc \in Resetting =>
                               calls[d].pc \in Resetting /\ calls'[d].seen = calls[d].seen
    BY <2>1, <2>2, <2>3, AgedFacts
  <2>5. user' \in Row /\ user'.token = user.token
    BY <1>0, <2>2 DEF Row
  <2> QED
    BY <1>0, <1>1, <2>2, <2>4, <2>5, RowStep
<1>4. CASE bump_session_version(c)
  <2> DEFINE cs == [calls EXCEPT ![c] = NoCall]
  <2>1. Revoke(Bumped(user), cs) /\ user' = Bumped(user) /\ UNCHANGED left
    BY <1>4 DEF bump_session_version, LockedRow, Revoke
  <2>2. /\ cs \in [Calls -> Call] /\ cs[c].pc = "idle"
        /\ \A d \in Calls : d # c => cs[d] = calls[d]
    BY Ended
  <2> HIDE DEF cs
  <2>3. /\ calls' \in [Calls -> Call] /\ sessions' \subseteq Claims /\ pendings' \subseteq Claims
        /\ \A d \in Calls : calls'[d].pc = cs[d].pc /\ calls'[d].seen = cs[d].seen
    BY <1>0, <2>1, <2>2, RowTypes, RevokeFacts
  <2>4. \A d \in Calls : calls'[d].pc \in Resetting =>
                            calls[d].pc \in Resetting /\ calls'[d].seen = calls[d].seen
    BY <2>2, <2>3 DEF Resetting
  <2>5. user' \in Row /\ user'.token = user.token
    BY <2>1, RowTypes
  <2> QED
    BY <1>0, <1>1, <2>1, <2>3, <2>4, <2>5, RowStep
<1>5. CASE LockFails(c)
  <2>1. UNCHANGED <<user, sessions, pendings, left>> /\ End(c)
    BY <1>5 DEF LockFails
  <2> QED
    BY <1>0, <1>1, <1>2, <2>1, OwnMove
<1> QED
  BY <1>3, <1>4, <1>5 DEF LockStep

LEMMA OtherTypes ==
    ASSUME TypeInv,
           \/ \E p \in pendings : verify_mfa_action(p)
           \/ \E s \in sessions : logout_action(s)
           \/ generate_reset_token
           \/ unlock_user
           \/ persist_update
           \/ Tick
    PROVE  TypeInv'
<1>0. /\ calls \in [Calls -> Call] /\ AuthTypeOK /\ user \in Row /\ now \in Nat
      /\ sessions \subseteq Claims /\ pendings \subseteq Claims /\ used \in Seq(Nat)
      /\ Len(used) \in Nat /\ user.token \in 0 .. Len(used)
      /\ left \in [Ops -> Nat] /\ writer \in Calls \cup {None} /\ log \in Seq(0 .. MaxTime)
  BY AuthAssumption DEF TypeInv, AuthTypeOK, TokensMade
<1>1. ASSUME NEW p \in pendings, verify_mfa_action(p) PROVE TypeInv'
  <2>1. p.sv \in Nat /\ p.dead \in BOOLEAN
    BY <1>0 DEF Claims
  <2>2. Token(p.sv, now, now, p.dead) \in Claims
    BY <1>0, <2>1, TokenType
  <2>3. /\ sessions' \subseteq Claims
        /\ UNCHANGED <<deploy, now, user, writer, calls, pendings, log, used, left>>
    BY <1>0, <1>1, <2>2 DEF verify_mfa_action
  <2> QED
    BY <1>0, <2>3, RowStep
<1>2. ASSUME NEW u \in Row, u.token = user.token, Revoke(u, calls), left' \in [Ops -> Nat],
             UNCHANGED <<deploy, now, writer, log, used>>
      PROVE  TypeInv'
  <2>1. user' = u
    BY <1>2 DEF Revoke
  <2>2. /\ calls' \in [Calls -> Call] /\ sessions' \subseteq Claims /\ pendings' \subseteq Claims
        /\ \A d \in Calls : calls'[d].pc = calls[d].pc /\ calls'[d].seen = calls[d].seen
    BY <1>0, <1>2, RevokeFacts
  <2> QED
    BY <1>0, <1>2, <2>1, <2>2, RowStep
<1>3. ASSUME NEW s \in sessions, logout_action(s) PROVE TypeInv'
  <2>1. /\ Revoke(Bumped(user), calls) /\ UNCHANGED <<deploy, now, writer, log, used>>
        /\ left' \in [Ops -> Nat]
    BY <1>0, <1>3, SpendType DEF logout_action, Ops
  <2> QED
    BY <1>2, <2>1, RowTypes
<1>4. CASE persist_update
  <2>1. /\ Revoke([Bumped(user) EXCEPT !.pw = @ + 1], calls)
        /\ UNCHANGED <<deploy, now, writer, log, used>>
        /\ left' \in [Ops -> Nat]
    BY <1>0, <1>4, SpendType DEF persist_update, Ops
  <2> QED
    BY <1>2, <2>1, RowTypes
<1>5. CASE unlock_user
  <2>1. /\ user' = [user EXCEPT !.locked = FALSE] /\ calls' = Aged(calls)
        /\ UNCHANGED <<deploy, now, writer, sessions, pendings, log, used>>
        /\ left' \in [Ops -> Nat]
    BY <1>0, <1>5, SpendType DEF unlock_user, Ops
  <2>2. user' \in Row /\ user'.token = user.token
    BY <1>0, <2>1 DEF Row
  <2>3. /\ calls' \in [Calls -> Call]
        /\ \A d \in Calls : calls'[d].pc = calls[d].pc /\ calls'[d].seen = calls[d].seen
    BY <1>0, <2>1, AgedFacts
  <2> QED
    BY <1>0, <2>1, <2>2, <2>3, RowStep
<1>6. CASE generate_reset_token
  <2>1. /\ user' = [user EXCEPT !.token = Len(used) + 1, !.exp = now + ResetExpiry]
        /\ calls' = Aged(calls) /\ used' = Append(used, 0)
        /\ UNCHANGED <<deploy, now, writer, sessions, pendings, log>>
        /\ left' \in [Ops -> Nat]
    BY <1>0, <1>6, SpendType DEF generate_reset_token, Ops
  <2>2. used' \in Seq(Nat) /\ Len(used') = Len(used) + 1
    BY <1>0, <2>1, AppendProperties
  <2>3. now + ResetExpiry \in Nat /\ Len(used) + 1 \in Nat
    BY <1>0, AuthAssumption
  <2>4. user' \in Row /\ user'.token = Len(used) + 1
    BY <1>0, <2>1, <2>3 DEF Row
  <2>5. /\ calls' \in [Calls -> Call]
        /\ \A d \in Calls : calls'[d].pc = calls[d].pc /\ calls'[d].seen = calls[d].seen
    BY <1>0, <2>1, AgedFacts
  <2>6. Len(used') >= Len(used) /\ user'.token \in 0 .. Len(used')
    BY <1>0, <2>2, <2>4
  <2> QED
    BY <1>0, <2>1, <2>2, <2>4, <2>5, <2>6, RowStep
<1>7. CASE Tick
  <2>1. /\ now' = now + 1 /\ now' \in 0 .. MaxTime
        /\ sessions' \subseteq Claims /\ pendings' \subseteq Claims
        /\ UNCHANGED <<deploy, user, writer, calls, log, used, left>>
    BY <1>0, <1>7, AuthAssumption DEF Tick
  <2>2. \A i \in DOMAIN log : log[i] <= now => log[i] <= now'
    BY <1>0, <2>1, AuthAssumption
  <2>3. LogSorted'
    BY <2>1, <2>2 DEF TypeInv, LogSorted
  <2>4. AuthTypeOK'
    BY <2>1 DEF TypeInv, AuthTypeOK
  <2> QED
    BY <2>1, <2>3, <2>4 DEF TypeInv, TokensMade
<1> QED
  BY <1>1, <1>3, <1>4, <1>5, <1>6, <1>7

LEMMA TypeStep ==
    ASSUME TypeInv, [Next]_vars
    PROVE  TypeInv'
<1>1. CASE UNCHANGED vars
  BY <1>1 DEF vars, TypeInv, AuthTypeOK, LogSorted, TokensMade
<1>2. CASE Next
  BY <1>2, LoginTypes, RefreshTypes, ResetTypes, LockTypes, OtherTypes DEF Next
<1> QED
  BY <1>1, <1>2

LEMMA TypeInit ==
    ASSUME Init
    PROVE  TypeInv
<1>1. AuthTypeOK
  BY NoCallType, AuthAssumption DEF Init, AuthTypeOK
<1>2. LogSorted
  BY DEF Init, LogSorted
<1>3. TokensMade
  BY DEF Init, TokensMade, NoRow, NoCall, Resetting
<1> QED
  BY <1>1, <1>2, <1>3 DEF TypeInv

(* Every variable keeps its type, and the times the limiter keeps stay in  *)
(* order, whatever calls overlap.                                          *)
THEOREM AuthTypeCorrect == Spec => []TypeInv
  BY TypeInit, TypeStep, PTL DEF Spec

-----------------------------------------------------------------------------
\* Revocation.

(* A step of one call that leaves the version alone.                       *)
LEMMA RevokedOwn ==
    ASSUME TypeInv, RevokedInv, NEW c \in Calls, NEW new \in Call, CurrentCall(new),
           calls' = [calls EXCEPT ![c] = new], user'.sv = user.sv,
           \A s \in sessions' \cup pendings' : s \in sessions \cup pendings \/ Current(s)
    PROVE  RevokedInv'
<1>1. calls \in [Calls -> Call]
  BY DEF TypeInv, AuthTypeOK
<1>2. \A s : Current(s) => Current(s)'
  BY DEF Current
<1>3. ASSUME NEW d \in Calls PROVE CurrentCall(calls[d])'
  <2>1. calls'[d] \in {calls[d], new}
    BY <1>1
  <2> QED
    BY <2>1 DEF RevokedInv, CurrentCall, Current
<1> QED
  BY <1>2, <1>3 DEF RevokedInv, Current

(* A call that ends or moves on in what it has read.                       *)
LEMMA RevokedMove ==
    ASSUME TypeInv, RevokedInv, NEW c \in Calls,
           \/ End(c)
           \/ \E pc \in Pcs : Go(c, pc) /\ (pc \in Reading <=> calls[c].pc \in Reading),
           user'.sv = user.sv,
           \A s \in sessions' \cup pendings' : s \in sessions \cup pendings \/ Current(s)
    PROVE  RevokedInv'
<1>1. CASE End(c)
  <2>1. calls' = [calls EXCEPT ![c] = NoCall] /\ CurrentCall(NoCall)
    BY <1>1 DEF End, NoCall, NoClaims, CurrentCall, Reading
  <2> QED
    BY <2>1, NoCallType, RevokedOwn
<1>2. ASSUME NEW pc \in Pcs, Go(c, pc), pc \in Reading <=> calls[c].pc \in Reading
      PROVE  RevokedInv'
  <2> DEFINE new == [calls[c] EXCEPT !.pc = pc]
  <2>1. calls \in [Calls -> Call] /\ calls[c] \in Call
    BY DEF TypeInv, AuthTypeOK
  <2>2. new \in Call /\ new.pc = pc /\ new.claims = calls[c].claims
    BY <2>1 DEF Call
  <2>3. calls' = [calls EXCEPT ![c] = new]
    BY <1>2, <2>1 DEF Go
  <2>4. CurrentCall(new)
    BY <1>2, <2>2 DEF RevokedInv, CurrentCall
  <2> HIDE DEF new
  <2> QED
    BY <2>2, <2>3, <2>4, RevokedOwn
<1> QED
  BY <1>1, <1>2

(* A commit that leaves the version alone.                                 *)
LEMMA RevokedAged ==
    ASSUME TypeInv, RevokedInv, NEW cs \in [Calls -> Call], \A d \in Calls : CurrentCall(cs[d]),
           calls' = Aged(cs), user'.sv = user.sv, UNCHANGED <<sessions, pendings>>
    PROVE  RevokedInv'
<1>1. ASSUME NEW d \in Calls PROVE CurrentCall(calls[d])'
  <2>1. calls'[d].pc = cs[d].pc /\ calls'[d].claims = cs[d].claims
    BY AgedFacts
  <2> QED
    BY <2>1 DEF CurrentCall, Current
<1> QED
  BY <1>1 DEF RevokedInv, Current

(* A commit that bumps the version: every token falls behind.              *)
LEMMA RevokedRevoke ==
    ASSUME TypeInv, RevokedInv, NEW cs \in [Calls -> Call], \A d \in Calls : CurrentCall(cs[d]),
           NEW u \in Row, u.sv = user.sv + 1, Revoke(u, cs)
    PROVE  RevokedInv'
<1>0. /\ AuthTypeOK /\ sessions \subseteq Claims /\ pendings \subseteq Claims
      /\ user.sv \in Nat /\ user'.sv = user.sv + 1
  BY DEF TypeInv, AuthTypeOK, Row, Revoke
<1>1. ASSUME NEW d \in Calls PROVE CurrentCall(calls[d])'
  <2>1. /\ calls'[d].pc = cs[d].pc /\ calls'[d].claims.sv = cs[d].claims.sv
        /\ calls'[d].claims.dead = (cs[d].claims.dead \/ cs[d].pc \in Reading)
    BY <1>0, RevokeFacts
  <2>2. CASE cs[d].pc \in Reading
    <3>1. cs[d].claims.sv \in Nat /\ cs[d].claims.sv <= user.sv
      BY <2>2 DEF CurrentCall, Current, Call, Claims
    <3>2. calls'[d].claims.sv < user'.sv /\ calls'[d].claims.sv <= user'.sv
      BY <1>0, <2>1, <3>1
    <3> QED
      BY <2>1, <2>2, <3>2 DEF CurrentCall, Current
  <2>3. CASE cs[d].pc \notin Reading
    BY <2>1, <2>3 DEF CurrentCall
  <2> QED
    BY <2>2, <2>3
<1>2. ASSUME NEW T \in SUBSET Claims, \A t \in T : Current(t), NEW s \in Dead(T)
      PROVE  Current(s)'
  <2>1. PICK t \in T : s.sv = t.sv
    BY <1>2, DeadFacts
  <2>2. t.sv \in Nat /\ t.sv <= user.sv
    BY <1>2 DEF Claims, Current
  <2>3. s.sv < user'.sv /\ s.sv <= user'.sv
    BY <1>0, <2>1, <2>2
  <2> QED
    BY <2>3 DEF Current
<1>3. sessions' = Dead(sessions) /\ pendings' = Dead(pendings)
  BY DEF Revoke
<1>4. (\A s \in sessions : Current(s)) /\ (\A p \in pendings : Current(p))
  BY DEF RevokedInv
<1>5. (\A s \in Dead(sessions) : Current(s)') /\ (\A p \in Dead(pendings) : Current(p)')
  BY <1>0, <1>2, <1>4
<1> QED
  BY <1>1, <1>3, <1>5 DEF RevokedInv

(* A token made from version sv, live or dead.                             *)
LEMMA TokenCurrent ==
    ASSUME NEW x, Current(x), NEW a, NEW l
    PROVE  /\ Current(Token(x.sv, a, l, x.dead))
           /\ Current([Token(x.sv, a, l, x.dead) EXCEPT !.exp = now + PendingExpiry])
  BY DEF Current, Token

LEMMA RevokedCallStep ==
    ASSUME TypeInv, RevokedInv, NEW c \in Calls,
           LoginStep(c) \/ RefreshStep(c) \/ ResetStep(c) \/ LockStep(c)
    PROVE  RevokedInv'
<1>0. /\ calls \in [Calls -> Call] /\ calls[c] \in Call /\ calls[c].claims \in Claims
      /\ user \in Row /\ user.sv \in Nat
      /\ \A d \in Calls : CurrentCall(calls[d])
      /\ \A s \in sessions \cup pendings : Current(s)
  BY DEF TypeInv, AuthTypeOK, Call, Row, RevokedInv
<1>1. CASE \/ VerifyPassword(c) \/ LoginIsLocked(c) \/ LoginError(c) \/ record_failure(c)
           \/ login_action(c) \/ check_session_status(c) \/ RefreshFails(c) \/ RejectLocked(c)
           \/ HashPassword(c) \/ update_password(c) \/ ResetFails(c) \/ LockFails(c)
           \/ RejectExpired(c) /\ calls[c].grpc
  <2>1. UNCHANGED <<user, sessions, pendings>>
    BY <1>1 DEF VerifyPassword, LoginIsLocked, LoginError, record_failure, login_action,
         check_session_status, RefreshFails, RejectLocked, HashPassword, update_password,
         ResetFails, LockFails, RejectExpired
  <2>2. End(c) \/ \E pc \in Pcs : Go(c, pc) /\ (pc \in Reading <=> calls[c].pc \in Reading)
    BY <1>1 DEF VerifyPassword, LoginIsLocked, LoginError, record_failure, login_action,
         check_session_status, RefreshFails, RejectLocked, HashPassword, update_password,
         ResetFails, LockFails, RejectExpired, At, Pcs, Reading
  <2> QED
    BY <2>1, <2>2, RevokedMove
<1>3. ASSUME NEW grpc \in BOOLEAN, NEW pw \in {-1, user.pw}, LoginBegin(c, grpc, pw)
      PROVE  RevokedInv'
  <2> DEFINE new == [NoCall EXCEPT !.pc = "hash", !.grpc = grpc, !.pw = pw]
  <2>1. pw \in Nat \cup {-1}
    BY <1>0 DEF Row
  <2>2. new \in Call /\ new.pc = "hash" /\ new.claims = NoClaims
    BY <2>1, NoCallType DEF Call, Pcs, NoCall
  <2>3. calls' = [calls EXCEPT ![c] = new] /\ UNCHANGED <<user, sessions, pendings>>
    BY <1>3 DEF LoginBegin
  <2> HIDE DEF new
  <2>4. CurrentCall(new)
    BY <2>2 DEF CurrentCall, Reading, NoClaims
  <2> QED
    BY <2>2, <2>3, <2>4, RevokedOwn
<1>4. CASE get_session_version(c)
  <2> DEFINE claims == [calls[c].claims EXCEPT !.sv = user.sv]
             new == [calls[c] EXCEPT !.pc = "won", !.claims = claims]
  <2>1. claims \in Claims /\ claims.sv = user.sv /\ claims.dead = calls[c].claims.dead
    BY <1>0 DEF Claims
  <2>2. ~calls[c].claims.dead
    BY <1>0, <1>4 DEF get_session_version, At, CurrentCall, Reading
  <2>3. calls' = [calls EXCEPT ![c] = new] /\ UNCHANGED <<user, sessions, pendings>>
    BY <1>0, <1>4 DEF get_session_version
  <2> HIDE DEF claims
  <2>4. new \in Call /\ new.claims = claims
    BY <1>0, <2>1 DEF Call, Pcs
  <2>5. Current(claims)
    BY <1>0, <2>1, <2>2 DEF Current
  <2>6. CurrentCall(new)
    BY <2>1, <2>2, <2>4, <2>5 DEF CurrentCall
  <2> HIDE DEF new
  <2> QED
    BY <2>3, <2>4, <2>6, RevokedOwn
<1>5. CASE login_impl(c) \/ build_session_response(c)
  <2>1. Current(calls[c].claims)
    BY <1>0, <1>5 DEF login_impl, build_session_response, At, CurrentCall, Reading
  <2>2. /\ Current(Token(calls[c].claims.sv, now, now, calls[c].claims.dead))
        /\ Current([Token(calls[c].claims.sv, now, now, calls[c].claims.dead)
                      EXCEPT !.exp = now + PendingExpiry])
    BY <2>1, TokenCurrent
  <2>3. End(c) /\ UNCHANGED user
    BY <1>5 DEF login_impl, build_session_response
  <2>4. \A s \in sessions' \cup pendings' : s \in sessions \cup pendings \/ Current(s)
    BY <1>5, <2>2 DEF login_impl, build_session_response
  <2> QED
    BY <2>3, <2>4, RevokedMove
<1>6. ASSUME NEW s \in sessions, RefreshBegin(c, s)
      PROVE  RevokedInv'
  <2> DEFINE new == [NoCall EXCEPT !.pc = "check", !.claims = s]
  <2>1. s \in Claims
    BY DEF TypeInv, AuthTypeOK
  <2>2. new \in Call /\ new.claims = s /\ new.pc = "check"
    BY <2>1, NoCallType DEF Call, Pcs
  <2>3. calls' = [calls EXCEPT ![c] = new] /\ UNCHANGED <<user, sessions, pendings>>
    BY <1>6 DEF RefreshBegin
  <2>4. CurrentCall(new)
    BY <1>0, <2>2 DEF CurrentCall, Reading
  <2> HIDE DEF new
  <2> QED
    BY <2>2, <2>3, <2>4, RevokedOwn
<1>7. CASE session_refresh(c)
  <2>1. Current(calls[c].claims)
    BY <1>0, <1>7 DEF session_refresh, At, CurrentCall, Reading
  <2>2. Current(Refreshed(calls[c].claims))
    BY <2>1, TokenCurrent DEF Refreshed
  <2>3. End(c) /\ UNCHANGED user
    BY <1>7 DEF session_refresh
  <2>4. \A s \in sessions' \cup pendings' : s \in sessions \cup pendings \/ Current(s)
    BY <1>7, <2>2 DEF session_refresh
  <2> QED
    BY <2>3, <2>4, RevokedMove
<1>8. ASSUME NEW grpc \in BOOLEAN, NEW t \in 1..Len(used), ResetBegin(c, grpc, t)
      PROVE  RevokedInv'
  <2> DEFINE new == [NoCall EXCEPT !.pc = "validate", !.grpc = grpc, !.seen = user]
  <2>1. new \in Call /\ new.pc = "validate" /\ new.claims = NoClaims
    BY <1>0, NoCallType DEF Call, Pcs, NoCall
  <2>2. calls' = [calls EXCEPT ![c] = new] /\ UNCHANGED <<user, sessions, pendings>>
    BY <1>8 DEF ResetBegin
  <2> HIDE DEF new
  <2>3. CurrentCall(new)
    BY <2>1 DEF CurrentCall, Reading, NoClaims
  <2> QED
    BY <2>1, <2>2, <2>3, RevokedOwn
<1>9. LET cs == [calls EXCEPT ![c] = NoCall]
      IN  cs \in [Calls -> Call] /\ \A d \in Calls : CurrentCall(cs[d])
  BY <1>0, Ended DEF CurrentCall, Reading
<1>10. CASE RejectExpired(c) /\ ~calls[c].grpc
  <2>1. user' = [user EXCEPT !.token = 0, !.exp = 0] /\ UNCHANGED <<sessions, pendings>>
        /\ calls' = Aged([calls EXCEPT ![c] = NoCall])
    BY <1>10 DEF RejectExpired
  <2>2. user'.sv = user.sv
    BY <1>0, <2>1 DEF Row
  <2> QED
    BY <1>9, <2>1, <2>2, RevokedAged
<1>11. CASE consume_reset_token(c)
  <2>1. Revoke(ResetRow, [calls EXCEPT ![c] = NoCall])
    BY <1>11 DEF consume_reset_token
  <2>2. ResetRow \in Row /\ ResetRow.sv = user.sv + 1
    BY RowTypes
  <2> HIDE DEF ResetRow
  <2> QED
    BY <1>9, <2>1, <2>2, RevokedRevoke
<1>12. CASE lock_user(c)
  <2> DEFINE new == [NoCall EXCEPT !.pc = "bump"]
             cs  == [calls EXCEPT ![c] = new]
  <2>1. new \in Call /\ new.pc = "bump" /\ new.claims = NoClaims
    BY NoCallType DEF Call, Pcs, NoCall
  <2>2. CurrentCall(new)
    BY <2>1 DEF CurrentCall, Reading, NoClaims
  <2>3. /\ calls' = Aged(cs) /\ user' = [user EXCEPT !.locked = TRUE]
        /\ UNCHANGED <<sessions, pendings>>
    BY <1>12 DEF lock_user
  <2>4. user'.sv = user.sv
    BY <1>0, <2>3 DEF Row
  <2> HIDE DEF new
  <2>5. cs \in [Calls -> Call] /\ \A d \in Calls : CurrentCall(cs[d])
    BY <1>0, <2>1, <2>2
  <2> HIDE DEF cs
  <2> QED
    BY <2>3, <2>4, <2>5, RevokedAged
<1>13. CASE bump_session_version(c)
  BY <1>9, <1>13, RowTypes, RevokedRevoke DEF bump_session_version, LockedRow
<1> QED
  BY <1>1, <1>3, <1>4, <1>5, <1>6, <1>7, <1>8, <1>10, <1>11, <1>12, <1>13
  DEF LoginStep, RefreshStep, ResetStep, LockStep

LEMMA RevokedStep ==
    ASSUME TypeInv, RevokedInv, [Next]_vars
    PROVE  RevokedInv'
<1>0. /\ calls \in [Calls -> Call] /\ user \in Row
      /\ \A d \in Calls : CurrentCall(calls[d])
      /\ \A s \in sessions \cup pendings : Current(s)
  BY DEF TypeInv, AuthTypeOK, RevokedInv
<1>1. CASE UNCHANGED vars
  BY <1>1 DEF vars, RevokedInv, CurrentCall, Current
<1>2. ASSUME NEW p \in pendings, verify_mfa_action(p) PROVE RevokedInv'
  <2>1. Current(Token(p.sv, now, now, p.dead))
    BY <1>0, TokenCurrent
  <2> QED
    BY <1>0, <1>2, <2>1 DEF verify_mfa_action, RevokedInv, CurrentCall, Current
<1>3. ASSUME NEW s \in sessions, logout_action(s) PROVE RevokedInv'
  BY <1>0, <1>3, RowTypes, RevokedRevoke DEF logout_action
<1>4. CASE persist_update
  <2> DEFINE u == [Bumped(user) EXCEPT !.pw = @ + 1]
  <2>1. Revoke(u, calls) /\ u \in Row /\ u.sv = user.sv + 1
    BY <1>4, RowTypes DEF persist_update
  <2> HIDE DEF u
  <2> QED
    BY <1>0, <2>1, RevokedRevoke
<1>5. CASE generate_reset_token \/ unlock_user
  <2>1. calls' = Aged(calls) /\ UNCHANGED <<sessions, pendings>>
    BY <1>5 DEF generate_reset_token, unlock_user
  <2>2. user'.sv = user.sv
    BY <1>0, <1>5 DEF generate_reset_token, unlock_user, Row
  <2> QED
    BY <1>0, <2>1, <2>2, RevokedAged
<1>6. CASE Tick
  <2>1. sessions' \subseteq sessions /\ pendings' \subseteq pendings /\ UNCHANGED <<user, calls>>
    BY <1>6 DEF Tick
  <2> QED
    BY <1>0, <2>1 DEF RevokedInv, CurrentCall, Current
<1> QED
  BY <1>1, <1>2, <1>3, <1>4, <1>5, <1>6, RevokedCallStep DEF Next

(* A token that has seen a lock, a logout, a reset or a password change is *)
(* never accepted again, nor is one derived from it by a refresh, an MFA   *)
(* code or a login that had already read the version (lock_user,           *)
(* session_refresh, consume_reset_token).                                  *)
THEOREM RevokedStaysOutHolds == Spec => []RevokedStaysOut
<1>1. ASSUME Init PROVE RevokedInv
  BY <1>1 DEF Init, RevokedInv, CurrentCall, Reading, NoCall, NoClaims
<1>2. ASSUME TypeInv, RevokedInv PROVE RevokedStaysOut
  <2>1. sessions \subseteq Claims /\ user.sv \in Nat
    BY <1>2 DEF TypeInv, AuthTypeOK, Row
  <2>2. \A s \in sessions : s.sv \in Nat /\ Current(s)
    BY <1>2, <2>1 DEF Claims, RevokedInv
  <2> QED
    BY <2>1, <2>2 DEF RevokedStaysOut, resolve_token, Current
<1> QED
  BY <1>1, <1>2, RevokedStep, AuthTypeCorrect, PTL DEF Spec

-----------------------------------------------------------------------------
\* The age of a session.

(* A step of one call.                                                     *)
LEMMA AgeOwn ==
    ASSUME TypeInv, AgeInv, NEW c \in Calls, NEW new, SameLoginCall(new),
           calls' = [calls EXCEPT ![c] = new], UNCHANGED deploy,
           \A s \in sessions' : s \in sessions \/ (SameLogin(s) /\ Young(s))
    PROVE  AgeInv'
<1>1. calls \in [Calls -> Call]
  BY DEF TypeInv, AuthTypeOK
<1>2. \A s : (SameLogin(s) => SameLogin(s)') /\ (Young(s) => Young(s)')
  BY DEF SameLogin, Young
<1>3. ASSUME NEW d \in Calls PROVE SameLoginCall(calls[d])'
  <2>1. calls'[d] \in {calls[d], new}
    BY <1>1
  <2> QED
    BY <2>1 DEF AgeInv, SameLoginCall, SameLogin
<1> QED
  BY <1>2, <1>3 DEF AgeInv

LEMMA AgeMove ==
    ASSUME TypeInv, AgeInv, NEW c \in Calls,
           \/ End(c)
           \/ \E pc \in Pcs : Go(c, pc) /\ (pc \in {"check", "issue"} => calls[c].pc = "check"),
           UNCHANGED deploy,
           \A s \in sessions' : s \in sessions \/ (SameLogin(s) /\ Young(s))
    PROVE  AgeInv'
<1>1. CASE End(c)
  <2>1. calls' = [calls EXCEPT ![c] = NoCall] /\ SameLoginCall(NoCall)
    BY <1>1 DEF End, NoCall, SameLoginCall
  <2> QED
    BY <2>1, AgeOwn
<1>2. ASSUME NEW pc \in Pcs, Go(c, pc), pc \in {"check", "issue"} => calls[c].pc = "check"
      PROVE  AgeInv'
  <2> DEFINE new == [calls[c] EXCEPT !.pc = pc]
  <2>1. calls \in [Calls -> Call] /\ calls[c] \in Call
    BY DEF TypeInv, AuthTypeOK
  <2>2. new.pc = pc /\ new.claims = calls[c].claims
    BY <2>1 DEF Call
  <2>3. calls' = [calls EXCEPT ![c] = new]
    BY <1>2, <2>1 DEF Go
  <2>4. SameLoginCall(new)
    BY <1>2, <2>2 DEF AgeInv, SameLoginCall
  <2> HIDE DEF new
  <2> QED
    BY <2>3, <2>4, AgeOwn
<1> QED
  BY <1>1, <1>2

(* A commit: the tokens and what calls have read keep their times.         *)
LEMMA AgeCommit ==
    ASSUME TypeInv, AgeInv, NEW cs \in [Calls -> Call], \A d \in Calls : SameLoginCall(cs[d]),
           \/ calls' = Aged(cs) /\ UNCHANGED sessions
           \/ \E u \in Row : Revoke(u, cs),
           UNCHANGED deploy
    PROVE  AgeInv'
<1>0. AuthTypeOK /\ sessions \subseteq Claims
  BY DEF TypeInv, AuthTypeOK
<1>1. ASSUME NEW d \in Calls PROVE SameLoginCall(calls[d])'
  <2>1. /\ calls'[d].pc = cs[d].pc
        /\ calls'[d].claims.auth_time = cs[d].claims.auth_time
        /\ calls'[d].claims.login = cs[d].claims.login
    BY <1>0, AgedFacts, RevokeFacts
  <2> QED
    BY <2>1 DEF SameLoginCall, SameLogin
<1>2. ASSUME NEW s \in sessions' PROVE SameLogin(s)' /\ Young(s)'
  <2>1. sessions' = sessions \/ sessions' = Dead(sessions)
    BY DEF Revoke
  <2>2. PICK t \in sessions : s.auth_time = t.auth_time /\ s.login = t.login /\ s.exp = t.exp
    BY <1>0, <1>2, <2>1, DeadFacts
  <2> QED
    BY <2>2 DEF AgeInv, SameLogin, Young
<1> QED
  BY <1>1, <1>2 DEF AgeInv

(* A token of a login now, and of a refresh that is not too old.           *)
LEMMA YoungToken ==
    ASSUME TypeInv, NEW sv, NEW a \in Nat, NEW dead,
           deploy.max_age > 0 => now - a <= deploy.max_age
    PROVE  SameLogin(Token(sv, a, a, dead)) /\ Young(Token(sv, a, a, dead))
<1>1. now \in Nat /\ deploy.max_age \in Nat /\ TokenExpiry \in Nat
  BY AuthAssumption DEF TypeInv, AuthTypeOK
<1>2. deploy.max_age > 0 => now + TokenExpiry <= a + deploy.max_age + TokenExpiry
  BY <1>1
<1> QED
  BY <1>2 DEF SameLogin, Young, Token

LEMMA AgeStep ==
    ASSUME TypeInv, AgeInv, [Next]_vars
    PROVE  AgeInv'
<1>0. /\ calls \in [Calls -> Call] /\ now \in Nat /\ sessions \subseteq Claims
      /\ deploy.max_age \in Nat /\ user \in Row
      /\ \A d \in Calls : SameLoginCall(calls[d])
  BY AuthAssumption DEF TypeInv, AuthTypeOK, AgeInv
<1>1. CASE UNCHANGED vars
  BY <1>1 DEF vars, AgeInv, SameLogin, Young, SameLoginCall
<1>2. \A sv, dead : SameLogin(Token(sv, now, now, dead)) /\ Young(Token(sv, now, now, dead))
  <2>1. now - now <= deploy.max_age
    BY <1>0
  <2> QED
    BY <1>0, <2>1, YoungToken
<1>3. ASSUME NEW c \in Calls, LoginStep(c) PROVE AgeInv'
  <2>1. UNCHANGED deploy
    BY <1>3 DEF LoginStep, LoginBegin, VerifyPassword, LoginIsLocked, get_session_version,
         login_impl, login_action, build_session_response, record_failure, LoginError
  <2>2. \A s \in sessions' : s \in sessions \/ (SameLogin(s) /\ Young(s))
    BY <1>2, <1>3 DEF LoginStep, LoginBegin, VerifyPassword, LoginIsLocked, get_session_version,
         login_impl, login_action, build_session_response, record_failure, LoginError
  <2>3. CASE \E grpc \in BOOLEAN, pw \in {-1, user.pw} : LoginBegin(c, grpc, pw)
    <3>1. PICK grpc \in BOOLEAN, pw \in {-1, user.pw} : LoginBegin(c, grpc, pw)
      BY <2>3
    <3> DEFINE new == [NoCall EXCEPT !.pc = "hash", !.grpc = grpc, !.pw = pw]
    <3>2. calls' = [calls EXCEPT ![c] = new] /\ SameLoginCall(new)
      BY <3>1 DEF LoginBegin, SameLoginCall, NoCall
    <3> HIDE DEF new
    <3> QED
      BY <2>1, <2>2, <3>2, AgeOwn
  <2>4. CASE get_session_version(c)
    <3> DEFINE new == [calls[c] EXCEPT !.pc = "won", !.claims.sv = user.sv]
    <3>1. calls' = [calls EXCEPT ![c] = new] /\ SameLoginCall(new)
      BY <1>0, <2>4 DEF get_session_version, SameLoginCall, Call
    <3> HIDE DEF new
    <3> QED
      BY <2>1, <2>2, <3>1, AgeOwn
  <2>5. CASE \/ VerifyPassword(c) \/ LoginIsLocked(c) \/ LoginError(c) \/ record_failure(c)
             \/ login_impl(c) \/ login_action(c) \/ build_session_response(c)
    <3>1. End(c) \/ \E pc \in Pcs : Go(c, pc) /\ (pc \in {"check", "issue"} => calls[c].pc = "check")
      BY <2>5 DEF VerifyPassword, LoginIsLocked, LoginError, record_failure, login_impl,
           login_action, build_session_response, Pcs
    <3> QED
      BY <2>1, <2>2, <3>1, AgeMove
  <2> QED
    BY <1>3, <2>3, <2>4, <2>5 DEF LoginStep
<1>4. ASSUME NEW c \in Calls, RefreshStep(c) PROVE AgeInv'
  <2>1. CASE \E s \in sessions : RefreshBegin(c, s)
    <3>1. PICK s \in sessions : RefreshBegin(c, s)
      BY <2>1
    <3> DEFINE new == [NoCall EXCEPT !.pc = "check", !.claims = s]
    <3>2. calls' = [calls EXCEPT ![c] = new] /\ UNCHANGED <<deploy, sessions>>
      BY <3>1 DEF RefreshBegin
    <3>3. SameLoginCall(new)
      BY DEF AgeInv, SameLoginCall, NoCall
    <3> HIDE DEF new
    <3> QED
      BY <3>2, <3>3, AgeOwn
  <2>2. CASE check_session_status(c) \/ RefreshFails(c)
    <3>1. End(c) \/ \E pc \in Pcs : Go(c, pc) /\ (pc \in {"check", "issue"} => calls[c].pc = "check")
      BY <2>2 DEF check_session_status, RefreshFails, At, Pcs
    <3> QED
      BY <2>2, <3>1, AgeMove DEF check_session_status, RefreshFails
  <2>3. CASE session_refresh(c)
    <3> DEFINE s == calls[c].claims
    <3>1. s \in Claims /\ s.auth_time \in Nat /\ SameLogin(s)
      BY <1>0, <2>3 DEF session_refresh, At, SameLoginCall, Call, Claims
    <3>2. ASSUME ~TooOld(s) PROVE SameLogin(Refreshed(s)) /\ Young(Refreshed(s))
      <4>1. deploy.max_age > 0 => now - s.auth_time <= deploy.max_age
        BY <1>0, <3>1, <3>2 DEF TooOld
      <4>2. Refreshed(s) = Token(s.sv, s.auth_time, s.auth_time, s.dead)
        BY <3>1 DEF Refreshed, SameLogin
      <4> HIDE DEF s
      <4> QED
        BY <3>1, <4>1, <4>2, YoungToken
    <3>3. /\ UNCHANGED deploy /\ End(c)
          /\ sessions' = IF TooOld(s) THEN sessions ELSE sessions \cup {Refreshed(s)}
      BY <2>3 DEF session_refresh
    <3> HIDE DEF s
    <3> QED
      BY <3>2, <3>3, AgeMove
  <2> QED
    BY <1>4, <2>1, <2>2, <2>3 DEF RefreshStep
<1>5. ASSUME NEW c \in Calls
      PROVE  LET cs == [calls EXCEPT ![c] = NoCall]
             IN  cs \in [Calls -> Call] /\ \A d \in Calls : SameLoginCall(cs[d])
  BY <1>0, Ended DEF SameLoginCall
<1>6. ASSUME NEW c \in Calls, ResetStep(c) PROVE AgeInv'
  <2>1. CASE \E grpc \in BOOLEAN, t \in 1..Len(used) : ResetBegin(c, grpc, t)
    <3>1. PICK grpc \in BOOLEAN, t \in 1..Len(used) : ResetBegin(c, grpc, t)
      BY <2>1
    <3> DEFINE new == [NoCall EXCEPT !.pc = "validate", !.grpc = grpc, !.seen = user]
    <3>2. calls' = [calls EXCEPT ![c] = new] /\ SameLoginCall(new) /\ UNCHANGED <<deploy, sessions>>
      BY <3>1 DEF ResetBegin, SameLoginCall, NoCall
    <3> HIDE DEF new
    <3> QED
      BY <3>2, AgeOwn
  <2>2. CASE \/ RejectLocked(c) \/ HashPassword(c) \/ update_password(c) \/ ResetFails(c)
             \/ RejectExpired(c) /\ calls[c].grpc
    <3>1. End(c) \/ \E pc \in Pcs : Go(c, pc) /\ (pc \in {"check", "issue"} => calls[c].pc = "check")
      BY <2>2 DEF RejectLocked, HashPassword, update_password, ResetFails, RejectExpired, Pcs
    <3>2. UNCHANGED <<deploy, sessions>>
      BY <2>2 DEF RejectLocked, HashPassword, update_password, ResetFails, RejectExpired
    <3> QED
      BY <3>1, <3>2, AgeMove
  <2>3. CASE RejectExpired(c) /\ ~calls[c].grpc
    <3>1. calls' = Aged([calls EXCEPT ![c] = NoCall]) /\ UNCHANGED <<deploy, sessions>>
      BY <2>3 DEF RejectExpired
    <3> QED
      BY <1>5, <3>1, AgeCommit
  <2>4. CASE consume_reset_token(c)
    <3>1. /\ UNCHANGED deploy
          /\ \E u \in Row : Revoke(u, [calls EXCEPT ![c] = NoCall])
      BY <2>4, RowTypes DEF consume_reset_token
    <3> QED
      BY <1>5, <3>1, AgeCommit
  <2> QED
    BY <1>6, <2>1, <2>2, <2>3, <2>4 DEF ResetStep
<1>7. ASSUME NEW c \in Calls, LockStep(c) PROVE AgeInv'
  <2>1. CASE lock_user(c)
    <3> DEFINE new == [NoCall EXCEPT !.pc = "bump"]
               cs  == [calls EXCEPT ![c] = new]
    <3>1. calls' = Aged(cs) /\ UNCHANGED <<deploy, sessions>>
      BY <2>1 DEF lock_user
    <3>2. new \in Call /\ SameLoginCall(new)
      BY NoCallType DEF Call, Pcs, SameLoginCall
    <3> HIDE DEF new
    <3>3. cs \in [Calls -> Call] /\ \A d \in Calls : SameLoginCall(cs[d])
      BY <1>0, <3>2
    <3> HIDE DEF cs
    <3> QED
      BY <3>1, <3>3, AgeCommit
  <2>2. CASE bump_session_version(c)
    <3>1. /\ UNCHANGED deploy
          /\ \E u \in Row : Revoke(u, [calls EXCEPT ![c] = NoCall])
      BY <2>2, RowTypes DEF bump_session_version, LockedRow
    <3> QED
      BY <1>5, <3>1, AgeCommit
  <2>3. CASE LockFails(c)
    BY <2>3, AgeMove DEF LockFails
  <2> QED
    BY <1>7, <2>1, <2>2, <2>3 DEF LockStep
<1>8. ASSUME NEW p \in pendings, verify_mfa_action(p) PROVE AgeInv'
  <2>1. /\ sessions' = sessions \cup {Token(p.sv, now, now, p.dead)} /\ UNCHANGED <<deploy, calls>>
    BY <1>8 DEF verify_mfa_action
  <2> QED
    BY <1>0, <1>2, <2>1 DEF AgeInv, SameLogin, Young, SameLoginCall
<1>9. CASE (\E s \in sessions : logout_action(s)) \/ persist_update
  <2>1. UNCHANGED deploy /\ \E u \in Row : Revoke(u, calls)
    BY <1>9, RowTypes DEF logout_action, persist_update
  <2> QED
    BY <1>0, <2>1, AgeCommit
<1>10. CASE generate_reset_token \/ unlock_user
  <2>1. calls' = Aged(calls) /\ UNCHANGED <<deploy, sessions>>
    BY <1>10 DEF generate_reset_token, unlock_user
  <2> QED
    BY <1>0, <2>1, AgeCommit
<1>11. CASE Tick
  <2>1. sessions' \subseteq sessions /\ UNCHANGED <<deploy, calls>>
    BY <1>11 DEF Tick
  <2> QED
    BY <2>1 DEF AgeInv, SameLogin, Young, SameLoginCall
<1> QED
  BY <1>1, <1>3, <1>4, <1>6, <1>7, <1>8, <1>9, <1>10, <1>11 DEF Next

(* No chain of refreshes carries a session past the absolute age and one   *)
(* token life after the login it began with, for any settings              *)
(* (resolve_original_auth_time).                                           *)
THEOREM SessionAgeCappedHolds == Spec => []SessionAgeCapped
<1>1. ASSUME Init PROVE AgeInv
  BY <1>1 DEF Init, AgeInv, SameLoginCall, NoCall
<1>2. ASSUME AgeInv PROVE SessionAgeCapped
  BY <1>2 DEF AgeInv, SessionAgeCapped, Young
<1> QED
  BY <1>1, <1>2, AgeStep, AuthTypeCorrect, PTL DEF Spec

-----------------------------------------------------------------------------
\* Reset tokens.

(* A step of one call that writes neither the row nor the tokens: no other *)
(* transaction loses the lock.                                             *)
LEMMA ResetOwn ==
    ASSUME TypeInv, ResetInv, NEW c \in Calls, NEW new,
           Sqlite => ResetCall(c, new)',
           calls' = [calls EXCEPT ![c] = new],
           Sqlite => writer' = writer \/ writer \in {None, c},
           UNCHANGED <<deploy, user, used>>
    PROVE  ResetInv'
<1>0. calls \in [Calls -> Call] /\ (Sqlite' <=> Sqlite)
  BY DEF TypeInv, AuthTypeOK, Sqlite
<1>1. UsedOnce => UsedOnce'
  BY DEF UsedOnce
<1>2. ASSUME Sqlite, NEW d \in Calls PROVE ResetCall(d, calls[d])'
  <2>1. CASE d = c
    BY <1>0, <1>2, <2>1 DEF ResetCall
  <2>2. CASE d # c
    <3>1. calls'[d] = calls[d] /\ ResetCall(d, calls[d]) /\ d # None
      BY <1>0, <1>2, <2>2, AuthAssumption DEF ResetInv
    <3>2. calls[d].pc = "clear" => writer' = d
      BY <1>2, <2>2, <3>1 DEF ResetCall
    <3> QED
      BY <3>1, <3>2 DEF ResetCall
  <2> QED
    BY <2>1, <2>2
<1> QED
  BY <1>0, <1>1, <1>2 DEF ResetInv

(* A call that ends, or that is not a reset.                               *)
LEMMA ResetElsewhere ==
    ASSUME TypeInv, ResetInv, NEW c \in Calls, NEW new, new.pc \notin Resetting,
           calls' = [calls EXCEPT ![c] = new],
           Sqlite => writer' = writer \/ writer \in {None, c},
           UNCHANGED <<deploy, user, used>>
    PROVE  ResetInv'
<1>1. ResetCall(c, new)'
  BY DEF ResetCall, Resetting
<1> QED
  BY <1>1, ResetOwn

LEMMA ResetMove ==
    ASSUME TypeInv, ResetInv, NEW c \in Calls,
           End(c) \/ \E pc \in Pcs \ Resetting : Go(c, pc),
           Sqlite => writer' = writer \/ writer \in {None, c},
           UNCHANGED <<deploy, user, used>>
    PROVE  ResetInv'
<1>1. CASE End(c)
  BY <1>1, ResetElsewhere DEF End, NoCall, Resetting
<1>2. ASSUME NEW pc \in Pcs \ Resetting, Go(c, pc) PROVE ResetInv'
  <2> DEFINE new == [calls[c] EXCEPT !.pc = pc]
  <2>1. calls \in [Calls -> Call] /\ calls[c] \in Call
    BY DEF TypeInv, AuthTypeOK
  <2>2. new.pc = pc
    BY <2>1 DEF Call
  <2>3. calls' = [calls EXCEPT ![c] = new]
    BY <1>2, <2>1 DEF Go
  <2> HIDE DEF new
  <2> QED
    BY <1>2, <2>2, <2>3, ResetElsewhere
<1> QED
  BY <1>1, <1>2

(* A commit, while no other transaction has written: all are stale now.    *)
LEMMA ResetCommit ==
    ASSUME TypeInv, ResetInv, NEW cs \in [Calls -> Call],
           \A d \in Calls : cs[d].pc \in Resetting => cs[d] = calls[d],
           \A d \in Calls : /\ calls'[d].pc = cs[d].pc /\ calls'[d].seen = cs[d].seen
                            /\ calls'[d].stale = (cs[d].stale \/ cs[d].pc \in Resetting),
           Sqlite => UsedOnce' /\ \A d \in Calls : cs[d].pc # "clear",
           UNCHANGED deploy
    PROVE  ResetInv'
<1>0. Sqlite' <=> Sqlite
  BY DEF Sqlite
<1>1. ASSUME Sqlite, NEW d \in Calls PROVE ResetCall(d, calls[d])'
  <2>1. /\ calls'[d].pc = cs[d].pc /\ calls'[d].seen = cs[d].seen
        /\ calls'[d].stale = (cs[d].stale \/ cs[d].pc \in Resetting) /\ cs[d].pc # "clear"
    BY <1>1
  <2>2. cs[d].pc = "update" => ~cs[d].seen.locked
    BY <1>1 DEF ResetInv, ResetCall, Resetting
  <2> QED
    BY <2>1, <2>2 DEF ResetCall
<1> QED
  BY <1>0, <1>1 DEF ResetInv

(* While the lock is free, or held by a call that has not written, no call *)
(* has.                                                                    *)
LEMMA NoneWritten ==
    ASSUME ResetInv, Sqlite, NEW c \in Calls, writer \in {None, c}, calls[c].pc # "clear",
           NEW d \in Calls
    PROVE  calls[d].pc # "clear"
  BY AuthAssumption DEF ResetInv, ResetCall

LEMMA ResetCallStep ==
    ASSUME TypeInv, ResetInv, NEW c \in Calls,
           LoginStep(c) \/ RefreshStep(c) \/ ResetStep(c) \/ LockStep(c)
    PROVE  ResetInv'
<1>0. /\ calls \in [Calls -> Call] /\ calls[c] \in Call /\ user \in Row /\ AuthTypeOK
      /\ used \in Seq(Nat) /\ (Sqlite => UsedOnce /\ ResetCall(c, calls[c]))
  BY DEF TypeInv, AuthTypeOK, ResetInv
<1>1. CASE \/ VerifyPassword(c) \/ LoginIsLocked(c) \/ LoginError(c) \/ record_failure(c)
           \/ login_impl(c) \/ login_action(c) \/ build_session_response(c)
           \/ check_session_status(c) \/ RefreshFails(c) \/ session_refresh(c)
           \/ RejectLocked(c) \/ ResetFails(c) \/ LockFails(c) \/ (RejectExpired(c) /\ calls[c].grpc)
  <2>1. UNCHANGED <<deploy, user, used>> /\ (writer' = writer \/ writer = c)
    BY <1>1 DEF VerifyPassword, LoginIsLocked, LoginError, record_failure, login_impl,
         login_action, build_session_response, check_session_status, RefreshFails,
         session_refresh, RejectLocked, ResetFails, LockFails, RejectExpired, Released
  <2>2. End(c) \/ \E pc \in Pcs \ Resetting : Go(c, pc)
    BY <1>1 DEF VerifyPassword, LoginIsLocked, LoginError, record_failure, login_impl,
         login_action, build_session_response, check_session_status, RefreshFails,
         session_refresh, RejectLocked, ResetFails, LockFails, RejectExpired, Pcs, Resetting
  <2> QED
    BY <2>1, <2>2, ResetMove
<1>2. ASSUME NEW grpc \in BOOLEAN, NEW pw \in {-1, user.pw}, LoginBegin(c, grpc, pw)
      PROVE  ResetInv'
  <2> DEFINE new == [NoCall EXCEPT !.pc = "hash", !.grpc = grpc, !.pw = pw]
  <2>1. calls' = [calls EXCEPT ![c] = new] /\ UNCHANGED <<deploy, user, used, writer>>
    BY <1>2 DEF LoginBegin
  <2>2. new.pc \notin Resetting
    BY DEF NoCall, Resetting
  <2> HIDE DEF new
  <2> QED
    BY <2>1, <2>2, ResetElsewhere
<1>3. CASE get_session_version(c)
  <2> DEFINE new == [calls[c] EXCEPT !.pc = "won", !.claims.sv = user.sv]
  <2>1. calls' = [calls EXCEPT ![c] = new] /\ UNCHANGED <<deploy, user, used, writer>>
    BY <1>0, <1>3 DEF get_session_version
  <2>2. new.pc \notin Resetting
    BY <1>0 DEF Call, Resetting
  <2> HIDE DEF new
  <2> QED
    BY <2>1, <2>2, ResetElsewhere
<1>4. ASSUME NEW s \in sessions, RefreshBegin(c, s) PROVE ResetInv'
  <2> DEFINE new == [NoCall EXCEPT !.pc = "check", !.claims = s]
  <2>1. calls' = [calls EXCEPT ![c] = new] /\ UNCHANGED <<deploy, user, used, writer>>
    BY <1>4 DEF RefreshBegin
  <2>2. new.pc \notin Resetting
    BY DEF NoCall, Resetting
  <2> HIDE DEF new
  <2> QED
    BY <2>1, <2>2, ResetElsewhere
<1>5. ASSUME NEW grpc \in BOOLEAN, NEW t \in 1..Len(used), ResetBegin(c, grpc, t)
      PROVE  ResetInv'
  <2>0. PICK new : new = [NoCall EXCEPT !.pc = "validate", !.grpc = grpc, !.seen = user]
    OBVIOUS
  <2>1. /\ calls' = [calls EXCEPT ![c] = new] /\ UNCHANGED <<deploy, user, used>>
        /\ (Sqlite => writer' = writer \/ writer = None)
    BY <1>5, <2>0 DEF ResetBegin
  <2>2. new.pc = "validate" /\ new.seen = user
    BY <2>0 DEF NoCall
  <2>3. ResetCall(c, new)'
    BY <2>1, <2>2 DEF ResetCall
  <2> QED
    BY <2>1, <2>3, ResetOwn
<1>6. CASE HashPassword(c) \/ update_password(c)
  <2>1. PICK pc : pc = IF HashPassword(c) THEN "update" ELSE "clear"
    OBVIOUS
  <2>2. PICK new : new = [calls[c] EXCEPT !.pc = pc]
    OBVIOUS
  <2>3. UNCHANGED <<deploy, user, used>> /\ calls' = [calls EXCEPT ![c] = new]
    BY <1>0, <1>6, <2>1, <2>2 DEF HashPassword, update_password, Go
  <2>4. new.pc = pc /\ new.seen = calls[c].seen /\ new.stale = calls[c].stale
    BY <1>0, <2>2 DEF Call
  <2>5. ASSUME Sqlite PROVE ResetCall(c, new)'
    <3>1. calls[c].pc \in Resetting
      BY <1>6 DEF HashPassword, update_password, At, Resetting
    <3>2. new.pc \in Resetting /\ ~new.stale => new.seen = user
      BY <1>0, <2>4, <2>5, <3>1 DEF ResetCall
    <3>3. ~new.seen.locked
      BY <1>0, <1>6, <2>4, <2>5 DEF HashPassword, update_password, At, SeenLocked, ResetCall
    <3>4. new.pc = "clear" => writer' = c /\ ~new.stale
      BY <1>6, <2>1, <2>4, <2>5 DEF update_password, CanWrite
    <3> QED
      BY <2>3, <3>2, <3>3, <3>4 DEF ResetCall
  <2>6. writer' = writer \/ writer \in {None, c}
    BY <1>6 DEF HashPassword, update_password, CanWrite
  <2> QED
    BY <2>3, <2>5, <2>6, ResetOwn
<1> DEFINE cs == [calls EXCEPT ![c] = NoCall]
<1>7. /\ cs \in [Calls -> Call] /\ cs[c].pc = "idle"
      /\ \A d \in Calls : cs[d].pc \in Resetting => cs[d] = calls[d]
      /\ \A d \in Calls : d # c => cs[d] = calls[d]
  BY Ended DEF Resetting
<1>8. CASE RejectExpired(c) /\ ~calls[c].grpc
  <2>1. /\ user' = [user EXCEPT !.token = 0, !.exp = 0] /\ UNCHANGED <<deploy, used>>
        /\ calls' = Aged(cs) /\ CanWrite(c) /\ calls[c].pc = "validate"
    BY <1>8 DEF RejectExpired, At
  <2> HIDE DEF cs
  <2>2. Sqlite => \A d \in Calls : cs[d].pc # "clear"
    BY <1>7, <2>1, NoneWritten DEF CanWrite
  <2>3. user'.token = 0
    BY <1>0, <2>1 DEF Row
  <2>4. Sqlite => UsedOnce'
    BY <1>0, <2>1, <2>3 DEF UsedOnce
  <2>5. \A d \in Calls : /\ calls'[d].pc = cs[d].pc /\ calls'[d].seen = cs[d].seen
                         /\ calls'[d].stale = (cs[d].stale \/ cs[d].pc \in Resetting)
    BY <1>7, <2>1, AgedFacts
  <2> QED
    BY <1>7, <2>1, <2>2, <2>4, <2>5, ResetCommit
<1>9. CASE consume_reset_token(c)
  <2> DEFINE t == calls[c].seen.token
  <2>1. /\ Revoke(ResetRow, cs) /\ user' = ResetRow /\ UNCHANGED deploy
        /\ used' = [used EXCEPT ![t] = @ + 1] /\ calls[c].pc = "clear"
    BY <1>9 DEF consume_reset_token, Revoke, At
  <2> HIDE DEF cs
  <2>2. Sqlite => \A d \in Calls : cs[d].pc # "clear"
    BY <1>7, <2>1 DEF ResetInv, ResetCall
  <2>3. user'.token = 0
    BY <2>1, RowTypes
  <2>4. \A d \in Calls : /\ calls'[d].pc = cs[d].pc /\ calls'[d].seen = cs[d].seen
                         /\ calls'[d].stale = (cs[d].stale \/ cs[d].pc \in Resetting)
    BY <1>0, <1>7, <2>1, RowTypes, RevokeFacts
  <2>5. t \in 1 .. Len(used)
    BY <2>1 DEF TypeInv, TokensMade, Resetting
  <2>6. Sqlite => t = user.token
    BY <1>0, <2>1 DEF ResetCall, Resetting
  <2>7. ASSUME Sqlite PROVE UsedOnce'
    <3>1. used[t] = 0
      BY <1>0, <2>5, <2>6, <2>7 DEF UsedOnce
    <3> HIDE DEF t
    <3>2. /\ Len(used') = Len(used) /\ used'[t] = 1
          /\ \A n \in 1 .. Len(used) : n # t => used'[n] = used[n]
      BY <1>0, <2>1, <2>5, <3>1, ExceptSeq
    <3>3. \A n \in 1 .. Len(used) : used'[n] <= 1
      BY <1>0, <2>7, <3>2 DEF UsedOnce
    <3> QED
      BY <2>3, <3>2, <3>3 DEF UsedOnce
  <2> QED
    BY <1>7, <2>1, <2>2, <2>4, <2>7, ResetCommit
<1>10. CASE bump_session_version(c)
  <2>1. /\ Revoke(Bumped(user), cs) /\ user' = Bumped(user) /\ UNCHANGED <<deploy, used>>
        /\ writer = None /\ calls[c].pc = "bump"
    BY <1>10 DEF bump_session_version, LockedRow, Revoke, At
  <2> HIDE DEF cs
  <2>2. Sqlite => \A d \in Calls : cs[d].pc # "clear"
    BY <1>7, <2>1, NoneWritten
  <2>3. user'.token = user.token
    BY <2>1, RowTypes
  <2>4. Sqlite => UsedOnce'
    BY <1>0, <2>1, <2>3 DEF UsedOnce
  <2>5. \A d \in Calls : /\ calls'[d].pc = cs[d].pc /\ calls'[d].seen = cs[d].seen
                         /\ calls'[d].stale = (cs[d].stale \/ cs[d].pc \in Resetting)
    BY <1>0, <1>7, <2>1, RowTypes, RevokeFacts
  <2> QED
    BY <1>7, <2>1, <2>2, <2>4, <2>5, ResetCommit
<1>11. CASE lock_user(c)
  <2> DEFINE new == [NoCall EXCEPT !.pc = "bump"]
             ls  == [calls EXCEPT ![c] = new]
  <2>1. new \in Call /\ new.pc = "bump"
    BY NoCallType DEF Call, Pcs
  <2>2. /\ calls' = Aged(ls) /\ user' = [user EXCEPT !.locked = TRUE]
        /\ UNCHANGED <<deploy, used>> /\ writer = None /\ calls[c].pc = "idle"
    BY <1>11 DEF lock_user, Idle
  <2>3. user'.token = user.token
    BY <1>0, <2>2 DEF Row
  <2> HIDE DEF new
  <2>4. /\ ls \in [Calls -> Call] /\ ls[c].pc = "bump"
        /\ \A d \in Calls : d # c => ls[d] = calls[d]
    BY <1>0, <2>1
  <2> HIDE DEF ls
  <2>5. \A d \in Calls : ls[d].pc \in Resetting => ls[d] = calls[d]
    BY <2>4 DEF Resetting
  <2>6. Sqlite => \A d \in Calls : ls[d].pc # "clear"
    BY <2>2, <2>4, NoneWritten
  <2>7. Sqlite => UsedOnce'
    BY <1>0, <2>2, <2>3 DEF UsedOnce
  <2>8. \A d \in Calls : /\ calls'[d].pc = ls[d].pc /\ calls'[d].seen = ls[d].seen
                         /\ calls'[d].stale = (ls[d].stale \/ ls[d].pc \in Resetting)
    BY <2>2, <2>4, AgedFacts
  <2> QED
    BY <2>2, <2>4, <2>5, <2>6, <2>7, <2>8, ResetCommit
<1> QED
  BY <1>1, <1>2, <1>3, <1>4, <1>5, <1>6, <1>8, <1>9, <1>10, <1>11
  DEF LoginStep, RefreshStep, ResetStep, LockStep

LEMMA ResetInvStep ==
    ASSUME TypeInv, ResetInv, [Next]_vars
    PROVE  ResetInv'
<1>0. /\ calls \in [Calls -> Call] /\ user \in Row /\ used \in Seq(Nat) /\ AuthTypeOK
      /\ Len(used) \in Nat /\ user.token \in 0 .. Len(used) /\ (Sqlite => UsedOnce)
  BY DEF TypeInv, AuthTypeOK, TokensMade, ResetInv
<1>1. CASE UNCHANGED vars \/ (\E p \in pendings : verify_mfa_action(p)) \/ Tick
  <2>1. UNCHANGED <<deploy, user, writer, calls, used>>
    BY <1>1 DEF vars, verify_mfa_action, Tick
  <2> QED
    BY <2>1 DEF ResetInv, Sqlite, UsedOnce, ResetCall
<1>2. ASSUME Sqlite, writer = None, NEW d \in Calls PROVE calls[d].pc # "clear"
  BY <1>2, AuthAssumption DEF ResetInv, ResetCall
<1>3. CASE (\E s \in sessions : logout_action(s)) \/ persist_update
  <2>1. /\ UNCHANGED <<deploy, used>> /\ writer = None
        /\ \E u \in Row : Revoke(u, calls) /\ u.token = user.token
    BY <1>3, RowTypes DEF logout_action, persist_update
  <2>2. user'.token = user.token
    BY <2>1 DEF Revoke
  <2>3. \A d \in Calls : /\ calls'[d].pc = calls[d].pc /\ calls'[d].seen = calls[d].seen
                         /\ calls'[d].stale = (calls[d].stale \/ calls[d].pc \in Resetting)
    BY <1>0, <2>1, RevokeFacts
  <2>4. Sqlite => UsedOnce'
    BY <1>0, <2>1, <2>2 DEF UsedOnce
  <2> QED
    BY <1>0, <1>2, <2>1, <2>3, <2>4, ResetCommit
<1>4. CASE generate_reset_token \/ unlock_user
  <2>1. calls' = Aged(calls) /\ UNCHANGED deploy /\ writer = None
    BY <1>4 DEF generate_reset_token, unlock_user
  <2>2. \A d \in Calls : /\ calls'[d].pc = calls[d].pc /\ calls'[d].seen = calls[d].seen
                         /\ calls'[d].stale = (calls[d].stale \/ calls[d].pc \in Resetting)
    BY <1>0, <2>1, AgedFacts
  <2>3. ASSUME Sqlite, unlock_user PROVE UsedOnce'
    <3>1. user'.token = user.token /\ used' = used
      BY <1>0, <2>3 DEF unlock_user, Row
    <3> QED
      BY <1>0, <2>3, <3>1 DEF UsedOnce
  <2>4. ASSUME Sqlite, generate_reset_token PROVE UsedOnce'
    <3>1. user'.token = Len(used) + 1 /\ used' = Append(used, 0)
      BY <1>0, <2>4 DEF generate_reset_token, Row
    <3>2. /\ Len(used') = Len(used) + 1 /\ used'[Len(used) + 1] = 0
          /\ \A n \in 1 .. Len(used) : used'[n] = used[n]
      BY <1>0, <3>1, AppendProperties
    <3>3. ASSUME NEW n \in 1 .. Len(used') PROVE used'[n] <= 1
      <4>1. n \in 1 .. Len(used) \/ n = Len(used) + 1
        BY <1>0, <3>2
      <4> QED
        BY <1>0, <2>4, <3>2, <4>1 DEF UsedOnce
    <3> QED
      BY <3>1, <3>2, <3>3 DEF UsedOnce
  <2> QED
    BY <1>0, <1>2, <1>4, <2>1, <2>2, <2>3, <2>4, ResetCommit
<1> QED
  BY <1>1, <1>3, <1>4, ResetCallStep DEF Next

LEMMA ResetInit ==
    ASSUME Init
    PROVE  ResetInv
  BY DEF Init, ResetInv, ResetCall, UsedOnce, Resetting, NoCall, NoRow

(* On SQLite a reset token sets a password at most once, whichever of its  *)
(* uses overlap and however many tokens are made (consume_reset_token).    *)
THEOREM TokenOnceHolds == Spec => []TokenOnce
<1>1. ASSUME ResetInv PROVE TokenOnce
  BY <1>1 DEF ResetInv, UsedOnce, TokenOnce
<1> QED
  BY <1>1, ResetInit, ResetInvStep, AuthTypeCorrect, PTL DEF Spec

(* On SQLite a reset commits only while the account is not locked and the  *)
(* token is the one on record, although it checked both before the hash    *)
(* (consume_reset_token).                                                  *)
THEOREM ResetIsCurrentHolds == Spec => ResetIsCurrent
<1>1. ASSUME TypeInv, ResetInv, [Next]_vars
      PROVE  [\A t \in 1..Len(used) :
                  Sqlite /\ used'[t] # used[t] => ~user.locked /\ user.token = t]_vars
  <2>1. SUFFICES ASSUME Next, NEW t \in 1 .. Len(used), Sqlite, used'[t] # used[t]
                 PROVE  ~user.locked /\ user.token = t
    BY <1>1
  <2>2. used \in Seq(Nat)
    BY <1>1 DEF TypeInv, AuthTypeOK
  <2>3. used' # Append(used, 0)
    BY <2>1, <2>2, AppendProperties
  <2>4. \E c \in Calls : consume_reset_token(c)
    BY <2>1, <2>3 DEF Next, LoginStep, RefreshStep, ResetStep, LockStep, verify_mfa_action,
         logout_action, generate_reset_token, unlock_user, persist_update, Tick, LoginBegin,
         VerifyPassword, LoginIsLocked, get_session_version, login_impl, login_action,
         build_session_response, record_failure, LoginError, RefreshBegin,
         check_session_status, RefreshFails, session_refresh, ResetBegin, RejectLocked,
         RejectExpired, HashPassword, update_password, ResetFails, lock_user,
         bump_session_version, LockFails
  <2>5. PICK c \in Calls : consume_reset_token(c)
    BY <2>4
  <2>6. calls[c].pc = "clear" /\ used' = [used EXCEPT ![calls[c].seen.token] = @ + 1]
    BY <2>5 DEF consume_reset_token, At
  <2>7. ~calls[c].stale /\ calls[c].seen = user /\ ~calls[c].seen.locked
    BY <1>1, <2>1, <2>6 DEF ResetInv, ResetCall, Resetting
  <2> QED
    BY <2>1, <2>2, <2>6, <2>7
<1> QED
  BY <1>1, ResetInit, ResetInvStep, AuthTypeCorrect, PTL DEF Spec, ResetIsCurrent

-----------------------------------------------------------------------------
\* The login limiter.

(* The facts about Recent as formulas, to be used in the next state too.   *)
LEMMA RecentLen ==
    TypeInv => /\ Len(Recent) = Len(log) - Cardinality(Past)
               /\ Cardinality(Past) \in 0 .. Len(log) /\ Len(log) \in Nat
               /\ Past \subseteq 1 .. Len(log)
  BY RecentFacts DEF TypeInv, AuthTypeOK, Past

LEMMA RecentAll ==
    TypeInv /\ (\A i \in 1 .. Len(log) : now - log[i] < Window) => Len(Recent) = Len(log)
  BY AllRecent DEF TypeInv

LEMMA RecentNext ==
    ASSUME TypeInv'
    PROVE  /\ Len(Recent') = Len(log') - Cardinality(Past')
           /\ Cardinality(Past') \in 0 .. Len(log') /\ Len(log') \in Nat
           /\ Past' \subseteq 1 .. Len(log')
           /\ (\A i \in 1 .. Len(log') : now' - log'[i] < Window) => Len(Recent') = Len(log')
<1>1. (TypeInv => /\ Len(Recent) = Len(log) - Cardinality(Past)
                  /\ Cardinality(Past) \in 0 .. Len(log) /\ Len(log) \in Nat
                  /\ Past \subseteq 1 .. Len(log))'
  BY RecentLen, PTL
<1>2. (TypeInv /\ (\A i \in 1 .. Len(log) : now - log[i] < Window) => Len(Recent) = Len(log))'
  BY RecentAll, PTL
<1> QED
  BY <1>1, <1>2

(* The calls there are bound those the limiter has admitted.               *)
LEMMA AdmittedBound ==
    ASSUME NEW A \in SUBSET Calls, NEW B \in SUBSET A
    PROVE  /\ IsFiniteSet(A) /\ Cardinality(A) \in Nat /\ Cardinality(Calls) \in Nat
           /\ Cardinality(A) <= Cardinality(Calls)
           /\ Cardinality(B) \in Nat /\ Cardinality(B) <= Cardinality(A)
<1>1. IsFiniteSet(Calls)
  BY AuthAssumption
<1>2. IsFiniteSet(A) /\ Cardinality(A) <= Cardinality(Calls)
  BY <1>1, FS_Subset
<1>3. IsFiniteSet(B) /\ Cardinality(B) <= Cardinality(A)
  BY <1>2, FS_Subset
<1> QED
  BY <1>1, <1>2, <1>3, FS_CardinalityType

(* A step after which no more is counted and no more is admitted.          *)
LEMMA FewerAttempts ==
    ASSUME TypeInv, TypeInv', AttemptsBounded,
           Len(Recent') <= Len(Recent), Admitted' \subseteq Admitted
    PROVE  AttemptsBounded'
<1>1. Len(Recent) \in Nat
  BY RecentLen
<1>2. Len(Recent') \in Nat
  BY RecentNext
<1>3. Admitted \in SUBSET Calls
  BY DEF Admitted
<1>4. /\ Cardinality(Admitted) \in Nat /\ Cardinality(Calls) \in Nat
      /\ Cardinality(Admitted') \in Nat /\ Cardinality(Admitted') <= Cardinality(Admitted)
  BY <1>3, AdmittedBound
<1>5. Len(Recent) + Cardinality(Admitted) < MaxAttempts + Cardinality(Calls)
  BY DEF AttemptsBounded
<1>6. Len(Recent') + Cardinality(Admitted') < MaxAttempts + Cardinality(Calls)
  BY <1>1, <1>2, <1>4, <1>5, AuthAssumption
<1> QED
  BY <1>6 DEF AttemptsBounded

(* A step that leaves the limiter alone, or clears it, and admits no call. *)
LEMMA QuietAttempts ==
    ASSUME TypeInv, TypeInv', AttemptsBounded, UNCHANGED now, log' = log \/ log' = <<>>,
           \A d \in Calls : calls'[d].pc \in {"hash", "locked", "failed"} =>
                               calls[d].pc \in {"hash", "locked", "failed"}
    PROVE  AttemptsBounded'
<1>1. Len(Recent) \in Nat
  BY RecentLen
<1>2. Len(Recent') <= Len(Recent)
  <2>1. CASE log' = log
    BY <1>1, <2>1 DEF Recent, Past
  <2>2. CASE log' = <<>>
    <3>1. Len(log') = 0
      BY <2>2
    <3> QED
      BY <1>1, <3>1, RecentNext
  <2> QED
    BY <2>1, <2>2
<1>3. Admitted' \subseteq Admitted
  BY DEF Admitted
<1> QED
  BY <1>2, <1>3, FewerAttempts

LEMMA QuietMove ==
    ASSUME TypeInv, TypeInv', AttemptsBounded, NEW c \in Calls,
           \/ End(c)
           \/ \E pc \in Pcs : /\ Go(c, pc)
                              /\ pc \in {"hash", "locked", "failed"} =>
                                    calls[c].pc \in {"hash", "locked", "failed"},
           UNCHANGED now, log' = log \/ log' = <<>>
    PROVE  AttemptsBounded'
<1>1. calls \in [Calls -> Call]
  BY DEF TypeInv, AuthTypeOK
<1>2. ASSUME NEW d \in Calls, calls'[d].pc \in {"hash", "locked", "failed"}
      PROVE  calls[d].pc \in {"hash", "locked", "failed"}
  <2>1. CASE End(c)
    BY <1>1, <1>2, <2>1 DEF End, NoCall
  <2>2. ASSUME NEW pc \in Pcs, Go(c, pc),
               pc \in {"hash", "locked", "failed"} => calls[c].pc \in {"hash", "locked", "failed"}
        PROVE  calls[d].pc \in {"hash", "locked", "failed"}
    <3>1. calls'[d].pc = IF d = c THEN pc ELSE calls[d].pc
      BY <1>1, <2>2 DEF Go, Call
    <3> QED
      BY <1>2, <2>2, <3>1
  <2> QED
    BY <2>1, <2>2
<1> QED
  BY <1>2, QuietAttempts

LEMMA AttemptsStep ==
    ASSUME TypeInv, TypeInv', AttemptsBounded, [Next]_vars
    PROVE  AttemptsBounded'
<1>0. /\ calls \in [Calls -> Call] /\ now \in Nat /\ user \in Row /\ AuthTypeOK /\ LogSorted
      /\ Len(Recent) \in Nat
  BY RecentLen, AuthAssumption DEF TypeInv, AuthTypeOK
<1>1. CASE UNCHANGED vars \/ (\E p \in pendings : verify_mfa_action(p))
  <2>1. UNCHANGED <<now, log, calls>>
    BY <1>1 DEF vars, verify_mfa_action
  <2> QED
    BY <2>1, QuietAttempts
<1>2. ASSUME NEW c \in Calls, NEW grpc \in BOOLEAN, NEW pw \in {-1, user.pw}, LoginBegin(c, grpc, pw)
      PROVE  AttemptsBounded'
  <2>1. log' = Recent /\ now' = now /\ ~(Len(Recent) >= MaxAttempts)
    BY <1>2 DEF LoginBegin, is_blocked
  <2>2. \A i \in 1 .. Len(Recent) : now - Recent[i] < Window
    BY <1>0, RecentFacts
  <2>3. Len(Recent') = Len(Recent)
    BY <2>1, <2>2, RecentNext
  <2>4. Admitted' \in SUBSET Calls
    BY DEF Admitted
  <2>5. /\ Cardinality(Admitted') \in Nat /\ Cardinality(Calls) \in Nat
        /\ Cardinality(Admitted') <= Cardinality(Calls)
    BY <2>4, AdmittedBound
  <2>6. Len(Recent') + Cardinality(Admitted') < MaxAttempts + Cardinality(Calls)
    <3>1. Len(Recent') \in Nat /\ Len(Recent') < MaxAttempts
      BY <1>0, <2>1, <2>3, AuthAssumption
    <3> QED
      BY <2>5, <3>1, AuthAssumption
  <2> QED
    BY <2>6 DEF AttemptsBounded
<1>3. ASSUME NEW c \in Calls, record_failure(c) PROVE AttemptsBounded'
  <2>1. log' = Append(Recent, now) /\ now' = now /\ End(c) /\ calls[c].pc = "failed"
    BY <1>3 DEF record_failure, At
  <2>2. /\ Recent \in Seq(0 .. MaxTime)
        /\ \A i \in 1 .. Len(Recent) : now - Recent[i] < Window
    BY <1>0, RecentFacts
  <2>3. now \in 0 .. MaxTime
    BY DEF TypeInv, AuthTypeOK
  <2>4. /\ Len(log') = Len(Recent) + 1 /\ log'[Len(Recent) + 1] = now
        /\ \A i \in 1 .. Len(Recent) : log'[i] = Recent[i]
    BY <2>1, <2>2, <2>3, AppendProperties
  <2>5. ASSUME NEW i \in 1 .. Len(log') PROVE now' - log'[i] < Window
    <3>1. i \in 1 .. Len(Recent) \/ i = Len(Recent) + 1
      BY <1>0, <2>4
    <3>2. now - now < Window
      BY <1>0, AuthAssumption
    <3> QED
      BY <2>1, <2>2, <2>4, <3>1, <3>2
  <2>6. Len(Recent') = Len(Recent) + 1
    BY <2>4, <2>5, RecentNext
  <2>7. Admitted' = Admitted \ {c} /\ c \in Admitted /\ Admitted \in SUBSET Calls
    <3>1. \A d \in Calls : calls'[d] = IF d = c THEN NoCall ELSE calls[d]
      BY <1>0, <2>1 DEF End
    <3>2. NoCall.pc = "idle"
      BY DEF NoCall
    <3> QED
      BY <2>1, <3>1, <3>2 DEF Admitted
  <2>8. IsFiniteSet(Admitted) /\ Cardinality(Admitted) \in Nat /\ Cardinality(Calls) \in Nat
    BY <2>7, AdmittedBound
  <2>9. Cardinality(Admitted') = Cardinality(Admitted) - 1
    BY <2>7, <2>8, FS_RemoveElement
  <2>10. Len(Recent) + Cardinality(Admitted) < MaxAttempts + Cardinality(Calls)
    BY DEF AttemptsBounded
  <2>11. Len(Recent') + Cardinality(Admitted') < MaxAttempts + Cardinality(Calls)
    BY <1>0, <2>6, <2>8, <2>9, <2>10, AuthAssumption
  <2> QED
    BY <2>11 DEF AttemptsBounded
<1>4. ASSUME NEW c \in Calls,
             \/ VerifyPassword(c) \/ LoginIsLocked(c) \/ LoginError(c) \/ login_impl(c)
             \/ login_action(c) \/ build_session_response(c) \/ check_session_status(c)
             \/ RefreshFails(c) \/ session_refresh(c) \/ RejectLocked(c) \/ HashPassword(c)
             \/ update_password(c) \/ ResetFails(c) \/ LockFails(c)
             \/ (RejectExpired(c) /\ calls[c].grpc)
      PROVE  AttemptsBounded'
  <2>1. UNCHANGED now /\ (log' = log \/ log' = <<>>)
    BY <1>4 DEF VerifyPassword, LoginIsLocked, LoginError, login_impl, login_action,
         build_session_response, check_session_status, RefreshFails, session_refresh,
         RejectLocked, HashPassword, update_password, ResetFails, LockFails, RejectExpired
  <2>2. \/ End(c)
        \/ \E pc \in Pcs : /\ Go(c, pc)
                           /\ pc \in {"hash", "locked", "failed"} =>
                                 calls[c].pc \in {"hash", "locked", "failed"}
    BY <1>4 DEF VerifyPassword, LoginIsLocked, LoginError, login_impl, login_action,
         build_session_response, check_session_status, RefreshFails, session_refresh,
         RejectLocked, HashPassword, update_password, ResetFails, LockFails, RejectExpired,
         At, Pcs
  <2> QED
    BY <2>1, <2>2, QuietMove
<1>5. ASSUME NEW c \in Calls, NEW new, new.pc \notin {"hash", "locked", "failed"},
             calls' = [calls EXCEPT ![c] = new], UNCHANGED <<now, log>>
      PROVE  AttemptsBounded'
  <2>1. \A d \in Calls : calls'[d] = IF d = c THEN new ELSE calls[d]
    BY <1>0, <1>5
  <2> QED
    BY <1>5, <2>1, QuietAttempts
<1>6. ASSUME NEW c \in Calls,
             \/ get_session_version(c)
             \/ \E s \in sessions : RefreshBegin(c, s)
             \/ \E grpc \in BOOLEAN, t \in 1..Len(used) : ResetBegin(c, grpc, t)
      PROVE  AttemptsBounded'
  <2>1. CASE get_session_version(c)
    <3> DEFINE new == [calls[c] EXCEPT !.pc = "won", !.claims.sv = user.sv]
    <3>1. calls' = [calls EXCEPT ![c] = new] /\ UNCHANGED <<now, log>> /\ new.pc = "won"
      BY <1>0, <2>1 DEF get_session_version, Call
    <3> HIDE DEF new
    <3> QED
      BY <1>5, <3>1
  <2>2. ASSUME NEW s \in sessions, RefreshBegin(c, s) PROVE AttemptsBounded'
    <3> DEFINE new == [NoCall EXCEPT !.pc = "check", !.claims = s]
    <3>1. calls' = [calls EXCEPT ![c] = new] /\ UNCHANGED <<now, log>> /\ new.pc = "check"
      BY <2>2 DEF RefreshBegin, NoCall
    <3> HIDE DEF new
    <3> QED
      BY <1>5, <3>1
  <2>3. ASSUME NEW grpc \in BOOLEAN, NEW t \in 1..Len(used), ResetBegin(c, grpc, t)
        PROVE  AttemptsBounded'
    <3> DEFINE new == [NoCall EXCEPT !.pc = "validate", !.grpc = grpc, !.seen = user]
    <3>1. calls' = [calls EXCEPT ![c] = new] /\ UNCHANGED <<now, log>> /\ new.pc = "validate"
      BY <2>3 DEF ResetBegin, NoCall
    <3> HIDE DEF new
    <3> QED
      BY <1>5, <3>1
  <2> QED
    BY <1>6, <2>1, <2>2, <2>3
<1>7. ASSUME NEW cs \in [Calls -> Call],
             \A d \in Calls : cs[d].pc \in {"hash", "locked", "failed"} => cs[d] = calls[d],
             calls' = Aged(cs) \/ (\E u \in Row : Revoke(u, cs)), UNCHANGED <<now, log>>
      PROVE  AttemptsBounded'
  <2>1. \A d \in Calls : calls'[d].pc = cs[d].pc
    BY <1>0, <1>7, AgedFacts, RevokeFacts
  <2> QED
    BY <1>7, <2>1, QuietAttempts
<1>8. ASSUME NEW c \in Calls,
             \/ (RejectExpired(c) /\ ~calls[c].grpc)
             \/ consume_reset_token(c) \/ bump_session_version(c)
      PROVE  AttemptsBounded'
  <2> DEFINE cs == [calls EXCEPT ![c] = NoCall]
  <2>1. /\ cs \in [Calls -> Call]
        /\ \A d \in Calls : cs[d].pc \in {"hash", "locked", "failed"} => cs[d] = calls[d]
    BY Ended
  <2>2. (calls' = Aged(cs) \/ (\E u \in Row : Revoke(u, cs))) /\ UNCHANGED <<now, log>>
    BY <1>8, RowTypes DEF RejectExpired, consume_reset_token, bump_session_version, LockedRow
  <2> HIDE DEF cs
  <2> QED
    BY <1>7, <2>1, <2>2
<1>9. ASSUME NEW c \in Calls, lock_user(c) PROVE AttemptsBounded'
  <2> DEFINE new == [NoCall EXCEPT !.pc = "bump"]
             cs  == [calls EXCEPT ![c] = new]
  <2>1. new \in Call /\ new.pc = "bump"
    BY NoCallType DEF Call, Pcs
  <2>2. calls' = Aged(cs) /\ UNCHANGED <<now, log>>
    BY <1>9 DEF lock_user
  <2> HIDE DEF new
  <2>3. /\ cs \in [Calls -> Call]
        /\ \A d \in Calls : cs[d].pc \in {"hash", "locked", "failed"} => cs[d] = calls[d]
    BY <1>0, <2>1
  <2> HIDE DEF cs
  <2> QED
    BY <1>7, <2>2, <2>3
<1>10. CASE \/ (\E s \in sessions : logout_action(s)) \/ persist_update
            \/ generate_reset_token \/ unlock_user
  <2>1. (calls' = Aged(calls) \/ (\E u \in Row : Revoke(u, calls))) /\ UNCHANGED <<now, log>>
    BY <1>10, RowTypes DEF logout_action, persist_update, generate_reset_token, unlock_user
  <2> QED
    BY <1>0, <1>7, <2>1
<1>11. CASE Tick
  <2>1. now' = now + 1 /\ log' = log /\ calls' = calls
    BY <1>11 DEF Tick
  <2>2. DOMAIN log = 1 .. Len(log) /\ \A i \in 1 .. Len(log) : log[i] \in Nat
    BY AuthAssumption DEF TypeInv, AuthTypeOK
  <2>3. Past \subseteq Past'
    BY <1>0, <2>1, <2>2, AuthAssumption DEF Past
  <2>4. /\ Len(Recent) = Len(log) - Cardinality(Past) /\ Len(log) \in Nat
        /\ Cardinality(Past) \in Nat
    BY RecentLen
  <2>5. /\ Len(Recent') = Len(log) - Cardinality(Past') /\ Past' \subseteq 1 .. Len(log)
        /\ Cardinality(Past') \in Nat
    BY <2>1, RecentNext
  <2>6. IsFiniteSet(Past')
    <3>1. IsFiniteSet(1 .. Len(log))
      BY <2>4, FS_Interval
    <3> QED
      BY <2>5, <3>1, FS_Subset
  <2>7. Cardinality(Past) <= Cardinality(Past')
    BY <2>3, <2>6, FS_Subset
  <2>8. Len(Recent') <= Len(Recent)
    BY <2>4, <2>5, <2>7
  <2>9. Admitted' \subseteq Admitted
    BY <2>1 DEF Admitted
  <2> QED
    BY <2>8, <2>9, FewerAttempts
<1> QED
  BY <1>1, <1>2, <1>3, <1>4, <1>6, <1>8, <1>9, <1>10, <1>11
  DEF Next, LoginStep, RefreshStep, ResetStep, LockStep

(* In a window the limiter counts and admits fewer failures than the limit *)
(* and the number of calls, although it checks before the password is      *)
(* verified and records after (login_action, LoginRateLimiter).            *)
THEOREM AttemptsBoundedHolds == Spec => []AttemptsBounded
<1>1. ASSUME Init PROVE AttemptsBounded
  <2>1. TypeInv
    BY <1>1, TypeInit
  <2>2. Len(Recent) = 0
    <3>1. Len(log) = 0
      BY <1>1 DEF Init
    <3> QED
      BY <2>1, <3>1, RecentLen
  <2>3. Admitted = {}
    BY <1>1 DEF Init, Admitted, NoCall
  <2>4. Cardinality(Admitted) = 0
    BY <2>3, FS_EmptySet
  <2>5. Cardinality(Calls) \in Nat
    BY AuthAssumption, FS_CardinalityType
  <2>6. 0 + 0 < MaxAttempts + Cardinality(Calls)
    BY <2>5, AuthAssumption
  <2> QED
    BY <2>2, <2>4, <2>6 DEF AttemptsBounded
<1> QED
  BY <1>1, AttemptsStep, AuthTypeCorrect, PTL DEF Spec

=============================================================================
