------------------------- MODULE RateLimiter_proofs -------------------------
(***************************************************************************)
(* Proofs about RateLimiter: whatever the quota, the window and the keys,  *)
(* the limiter never lets more than two quotas through within one window's *)
(* length, refuses nobody who has not used up the quota, and promises no   *)
(* wait that does not help.                                                *)
(***************************************************************************)
EXTENDS RateLimiter, TLAPS

-----------------------------------------------------------------------------
(* Facts about the constants and about a log that grows by one.            *)

LEMMA QuotaType == Quota \in Nat \ {0} /\ Quota >= Max /\ (Max > 0 => Quota = Max)
  BY RateLimiterAssumption DEF Quota

LEMMA Pushed ==
  ASSUME NEW S, NEW s \in Seq(S), NEW e \in S
  PROVE  /\ Append(s, e) \in Seq(S)
         /\ Len(s) \in Nat /\ Len(Append(s, e)) = Len(s) + 1
         /\ DOMAIN s = 1..Len(s)
         /\ DOMAIN Append(s, e) = 1..(Len(s) + 1)
         /\ \A i \in 1..Len(s) : s[i] \in S /\ Append(s, e)[i] = s[i]
         /\ Append(s, e)[Len(s) + 1] = e
  OBVIOUS

LEMMA Elements ==
  ASSUME NEW S, NEW s \in Seq(S)
  PROVE  Len(s) \in Nat /\ DOMAIN s = 1..Len(s) /\ \A i \in 1..Len(s) : s[i] \in S
  OBVIOUS

\* What TypeOK says about one key.
LEMMA KeyType ==
  ASSUME TypeOK, NEW k \in Keys
  PROVE  /\ now \in Int /\ now >= 0
         /\ entries[k].count \in Int /\ entries[k].windowEnd \in Int
         /\ Len(log[k]) \in Nat /\ Len(first[k]) = Len(log[k])
         /\ DOMAIN log[k] = 1..Len(log[k])
         /\ DOMAIN first[k] = 1..Len(log[k])
         /\ \A i \in 1..Len(log[k]) : log[k][i] \in Int /\ first[k][i] \in Nat \ {0}
  <1>1. log[k] \in Seq(0..MaxTime) /\ first[k] \in Seq(Nat \ {0})
    BY DEF TypeOK
  <1>2. Len(first[k]) = Len(log[k])
    BY DEF TypeOK
  <1>3. now \in Int /\ now >= 0
    BY RateLimiterAssumption DEF TypeOK
  <1>4. entries[k].count \in Int /\ entries[k].windowEnd \in Int
    <2>1. entries[k] \in [count : 0..Quota, windowEnd : Int]
      BY DEF TypeOK
    <2> QED
      BY <2>1, QuotaType
  <1>5. \A i \in 1..Len(log[k]) : log[k][i] \in 0..MaxTime
    BY <1>1, Elements
  <1>6. \A i \in 1..Len(log[k]) : first[k][i] \in Nat \ {0}
    BY <1>1, <1>2, Elements
  <1>7. /\ Len(log[k]) \in Nat /\ DOMAIN log[k] = 1..Len(log[k])
        /\ DOMAIN first[k] = 1..Len(log[k])
    BY <1>1, <1>2, Elements
  <1> QED
    BY <1>2, <1>3, <1>4, <1>5, <1>6, <1>7, RateLimiterAssumption

\* What a grant to k does to the state.
LEMMA GrantEffect ==
  ASSUME TypeOK, NEW k \in Keys, NEW entry, NEW opener \in Nat \ {0},
         Grant(k, entry, opener)
  PROVE  /\ now' = now
         /\ entries'[k] = entry
         /\ Len(log'[k]) = Len(log[k]) + 1
         /\ DOMAIN log'[k] = 1..(Len(log[k]) + 1)
         /\ \A i \in 1..Len(log[k]) :
              log'[k][i] = log[k][i] /\ first'[k][i] = first[k][i]
         /\ log'[k][Len(log[k]) + 1] = now
         /\ first'[k][Len(log[k]) + 1] = opener
         /\ reply'[k] = [what |-> "served", at |-> now]
         /\ \A j \in Keys \ {k} : /\ log'[j] = log[j] /\ first'[j] = first[j]
                                  /\ entries'[j] = entries[j] /\ reply'[j] = reply[j]
  <1>1. log[k] \in Seq(0..MaxTime) /\ first[k] \in Seq(Nat \ {0}) /\ now \in 0..MaxTime
    BY DEF TypeOK
  <1>2. Len(first[k]) = Len(log[k])
    BY DEF TypeOK
  <1>3. /\ log \in [Keys -> Seq(0..MaxTime)] /\ first \in [Keys -> Seq(Nat \ {0})]
        /\ DOMAIN entries = Keys /\ DOMAIN reply = Keys
    BY DEF TypeOK
  <1>4. log'[k] = Append(log[k], now) /\ first'[k] = Append(first[k], opener)
    BY <1>3 DEF Grant
  <1>5. /\ now' = now /\ entries'[k] = entry
        /\ reply'[k] = [what |-> "served", at |-> now]
        /\ \A j \in Keys \ {k} : /\ log'[j] = log[j] /\ first'[j] = first[j]
                                 /\ entries'[j] = entries[j] /\ reply'[j] = reply[j]
    BY <1>3 DEF Grant
  <1>6. /\ Len(log'[k]) = Len(log[k]) + 1
        /\ DOMAIN log'[k] = 1..(Len(log[k]) + 1)
        /\ \A i \in 1..Len(log[k]) : log'[k][i] = log[k][i]
        /\ log'[k][Len(log[k]) + 1] = now
    BY <1>1, <1>4, Pushed
  <1>7. /\ \A i \in 1..Len(first[k]) : first'[k][i] = first[k][i]
        /\ first'[k][Len(first[k]) + 1] = opener
    BY <1>1, <1>4, Pushed
  <1> QED
    BY <1>2, <1>5, <1>6, <1>7

-----------------------------------------------------------------------------
(* Type correctness.                                                       *)

LEMMA GrantType ==
  ASSUME TypeOK, NEW k \in Keys, NEW entry \in [count : 0..Quota, windowEnd : Int],
         NEW opener \in Nat \ {0}, Grant(k, entry, opener)
  PROVE  TypeOK'
  <1>1. now' \in 0..MaxTime
    BY DEF TypeOK, Grant
  <1>2. entries' \in [Keys -> [count : 0..Quota, windowEnd : Int]]
    BY DEF TypeOK, Grant
  <1>3. reply' \in [Keys -> [what : {"none", "served", "limited"}, at : 0..MaxTime]]
    BY DEF TypeOK, Grant
  <1>4. log' \in [Keys -> Seq(0..MaxTime)]
    BY DEF TypeOK, Grant
  <1>5. first' \in [Keys -> Seq(Nat \ {0})]
    BY DEF TypeOK, Grant
  <1>6. \A j \in Keys : Len(first'[j]) = Len(log'[j])
    <2> SUFFICES ASSUME NEW j \in Keys PROVE Len(first'[j]) = Len(log'[j])
      OBVIOUS
    <2>1. Len(first[j]) = Len(log[j]) /\ first[j] \in Seq(Nat \ {0}) /\ log[j] \in Seq(0..MaxTime)
      BY DEF TypeOK
    <2>2. now \in 0..MaxTime
      BY DEF TypeOK
    <2>3. CASE j # k
      BY <2>1, <2>3, GrantEffect
    <2>4. CASE j = k
      <3>1. log'[k] = Append(log[k], now) /\ first'[k] = Append(first[k], opener)
        BY DEF TypeOK, Grant
      <3> QED
        BY <2>1, <2>2, <2>4, <3>1
    <2> QED
      BY <2>3, <2>4
  <1> QED
    BY <1>1, <1>2, <1>3, <1>4, <1>5, <1>6 DEF TypeOK

\* In a key's window there is a first request.
LEMMA Opened ==
  ASSUME TypeOK, NEW k \in Keys, EntryInv(k), ~Over(k)
  PROVE  Len(log[k]) >= 1 /\ first[k][Len(log[k])] \in Nat \ {0}
  <1>1. Len(log[k]) # 0
    BY KeyType DEF EntryInv, Over
  <1> QED
    BY <1>1, KeyType

\* The entry of Open, and that of Count.
LEMMA NewEntries ==
  ASSUME TypeOK, NEW k \in Keys
  PROVE  /\ [count |-> 1, windowEnd |-> now + Window] \in [count : 0..Quota, windowEnd : Int]
         /\ entries[k].count < Max =>
              [entries[k] EXCEPT !.count = @ + 1] \in [count : 0..Quota, windowEnd : Int]
  <1>1. entries[k] \in [count : 0..Quota, windowEnd : Int] /\ now \in Int
    BY KeyType DEF TypeOK
  <1>2. Window \in Int /\ Max \in Nat
    BY RateLimiterAssumption
  <1> QED
    BY <1>1, <1>2, QuotaType

LEMMA InitType == Init => TypeOK
  BY RateLimiterAssumption, QuotaType DEF Init, TypeOK

LEMMA NextType ==
  ASSUME TypeOK, IInv, [Next]_vars
  PROVE  TypeOK'
  <1>1. CASE Tick
    BY <1>1, RateLimiterAssumption DEF Tick, TypeOK
  <1>2. ASSUME NEW k \in Keys, Open(k) PROVE TypeOK'
    <2>1. Len(log[k]) + 1 \in Nat \ {0}
      BY KeyType
    <2> QED
      BY <1>2, <2>1, NewEntries, GrantType DEF Open
  <1>3. ASSUME NEW k \in Keys, Count(k) PROVE TypeOK'
    <2>1. first[k][Len(log[k])] \in Nat \ {0}
      BY <1>3, Opened DEF Count, IInv
    <2> QED
      BY <1>3, <2>1, NewEntries, GrantType DEF Count
  <1>4. ASSUME NEW k \in Keys, Refuse(k) PROVE TypeOK'
    BY <1>4 DEF Refuse, TypeOK
  <1>5. CASE UNCHANGED vars
    BY <1>5 DEF vars, TypeOK
  <1> QED
    BY <1>1, <1>2, <1>3, <1>4, <1>5 DEF Next, Allow
-----------------------------------------------------------------------------
(* The inductive invariant.                                                *)

KeyInv(k) == LogInv(k) /\ FirstInv(k) /\ ApartInv(k) /\ EntryInv(k)

LEMMA InitIInv == Init => IInv
  <1> SUFFICES ASSUME Init, NEW k \in Keys PROVE KeyInv(k)
    BY DEF IInv, KeyInv
  <1>1. log[k] = <<>> /\ entries[k] = [count |-> 0, windowEnd |-> -1]
    BY DEF Init
  <1>2. Len(log[k]) = 0 /\ DOMAIN log[k] = {}
    BY <1>1
  <1> QED
    BY <1>1, <1>2 DEF KeyInv, LogInv, FirstInv, ApartInv, EntryInv

\* A request that opens a window.
LEMMA OpenInv ==
  ASSUME TypeOK, NEW k \in Keys, KeyInv(k), Open(k)
  PROVE  KeyInv(k)'
  <1> DEFINE n == Len(log[k])
  <1> DEFINE L == log[k]
  <1> DEFINE F == first[k]
  <1>t. n \in Nat /\ DOMAIN L = 1..n /\ now \in Int /\ Window \in Nat \ {0}
    BY KeyType, RateLimiterAssumption
  <1>e. \A i \in 1..n : L[i] \in Int /\ F[i] \in Nat \ {0}
    BY KeyType
  <1>q. Quota \in Nat \ {0}
    BY QuotaType
  <1>g. /\ now' = now
        /\ entries'[k] = [count |-> 1, windowEnd |-> now + Window]
        /\ Len(log'[k]) = n + 1 /\ DOMAIN log'[k] = 1..(n + 1)
        /\ \A i \in 1..n : log'[k][i] = L[i] /\ first'[k][i] = F[i]
        /\ log'[k][n + 1] = now /\ first'[k][n + 1] = n + 1
    <2>1. n + 1 \in Nat \ {0}
      BY <1>t
    <2> QED
      BY <2>1, GrantEffect DEF Open
  <1>i. /\ \A i, j \in 1..n : i <= j => L[i] <= L[j]
        /\ \A i \in 1..n : L[i] <= now
        /\ \A i \in 1..n : F[i] <= i /\ i < F[i] + Quota /\ F[F[i]] = F[i]
        /\ \A i, j \in 1..n : i <= j => F[j] = F[i] \/ F[j] > i
        /\ \A i, j \in 1..n : F[i] < F[j] => L[F[j]] > L[F[i]] + Window
    BY <1>t DEF KeyInv, LogInv, FirstInv, ApartInv
  <1>o. n > 0 => now > L[F[n]] + Window
    BY <1>t DEF KeyInv, EntryInv, Open, Over
  <1> HIDE DEF n, L, F
  <1>1. LogInv(k)'
    <2> SUFFICES ASSUME NEW i \in 1..(n + 1), NEW j \in 1..(n + 1), i <= j
                 PROVE  log'[k][i] <= log'[k][j] /\ log'[k][i] <= now'
      BY <1>t, <1>g DEF LogInv
    <2>1. CASE j \in 1..n
      BY <2>1, <1>t, <1>g, <1>i
    <2>2. CASE j = n + 1
      BY <2>2, <1>t, <1>g, <1>i
    <2> QED
      BY <2>1, <2>2, <1>t
  <1>2. FirstInv(k)'
    <2>1. \A i \in 1..(n + 1) :
            /\ first'[k][i] <= i /\ i < first'[k][i] + Quota
            /\ first'[k][first'[k][i]] = first'[k][i]
      <3> SUFFICES ASSUME NEW i \in 1..(n + 1)
                   PROVE  /\ first'[k][i] <= i /\ i < first'[k][i] + Quota
                          /\ first'[k][first'[k][i]] = first'[k][i]
        OBVIOUS
      <3>1. CASE i = n + 1
        BY <3>1, <1>t, <1>g, <1>q
      <3>2. CASE i \in 1..n
        <4>1. F[i] \in 1..n
          BY <3>2, <1>t, <1>e, <1>i
        <4> QED
          BY <3>2, <4>1, <1>g, <1>i
      <3> QED
        BY <3>1, <3>2, <1>t
    <2>2. \A i, j \in 1..(n + 1) :
            i <= j => first'[k][j] = first'[k][i] \/ first'[k][j] > i
      <3> SUFFICES ASSUME NEW i \in 1..(n + 1), NEW j \in 1..(n + 1), i <= j
                   PROVE  first'[k][j] = first'[k][i] \/ first'[k][j] > i
        OBVIOUS
      <3>1. CASE j = n + 1
        BY <3>1, <1>t, <1>g
      <3>2. CASE j \in 1..n
        BY <3>2, <1>t, <1>g, <1>i
      <3> QED
        BY <3>1, <3>2, <1>t
    <2> QED
      BY <2>1, <2>2, <1>g DEF FirstInv
  <1>3. ApartInv(k)'
    <2> SUFFICES ASSUME NEW i \in 1..(n + 1), NEW j \in 1..(n + 1),
                        first'[k][i] < first'[k][j]
                 PROVE  log'[k][first'[k][j]] > log'[k][first'[k][i]] + Window
      BY <1>g DEF ApartInv
    <2>1. CASE i \in 1..n /\ j \in 1..n
      <3>1. F[i] \in 1..n /\ F[j] \in 1..n
        BY <2>1, <1>t, <1>e, <1>i
      <3> QED
        BY SMTT(60), <2>1, <3>1, <1>g, <1>i
    <2>2. CASE i \in 1..n /\ j = n + 1
      <3>1. F[i] \in 1..n /\ F[n] \in 1..n /\ n \in 1..n
        BY <2>2, <1>t, <1>e, <1>i
      <3>2. F[i] <= F[n]
        BY <2>2, <3>1, <1>t, <1>e, <1>i
      <3>3. L[F[i]] <= L[F[n]] /\ now > L[F[n]] + Window
        BY <3>1, <3>2, <1>t, <1>i, <1>o
      <3>4. L[F[i]] \in Int /\ L[F[n]] \in Int
        BY <3>1, <1>e
      <3>5. log'[k][first'[k][i]] = L[F[i]] /\ log'[k][first'[k][j]] = now
        BY <2>2, <3>1, <1>g
      <3> QED
        BY <3>3, <3>4, <3>5, <1>t
    <2>3. CASE i = n + 1
      <3>1. CASE j = n + 1
        BY <2>3, <3>1, <1>t, <1>g
      <3>2. CASE j \in 1..n
        <4>1. first'[k][j] <= j /\ first'[k][j] \in Int /\ first'[k][i] = n + 1
          BY <2>3, <3>2, <1>g, <1>i, <1>e
        <4> QED
          BY <4>1, <3>2, <1>t
      <3> QED
        BY <3>1, <3>2, <1>t
    <2> QED
      BY <2>1, <2>2, <2>3, <1>t
  <1>4. EntryInv(k)'
    BY <1>t, <1>g DEF EntryInv
  <1> QED
    BY <1>1, <1>2, <1>3, <1>4 DEF KeyInv

\* A request counted in the window that is open.
LEMMA CountInv ==
  ASSUME TypeOK, NEW k \in Keys, KeyInv(k), Count(k)
  PROVE  KeyInv(k)'
  <1> DEFINE n == Len(log[k])
  <1> DEFINE L == log[k]
  <1> DEFINE F == first[k]
  <1>t. n \in Nat \ {0} /\ DOMAIN L = 1..n /\ now \in Int /\ n \in 1..n
    BY KeyType, Opened DEF KeyInv, Count
  <1>e. \A i \in 1..n : L[i] \in Int /\ F[i] \in Nat \ {0}
    BY KeyType
  <1>q. Quota \in Nat \ {0} /\ Max \in Nat /\ Quota >= Max /\ Window \in Int
    BY QuotaType, RateLimiterAssumption
  <1>c. entries[k].count \in Int /\ entries[k].count < Max
    BY KeyType DEF Count
  <1>g. /\ now' = now
        /\ entries'[k] = [entries[k] EXCEPT !.count = @ + 1]
        /\ Len(log'[k]) = n + 1 /\ DOMAIN log'[k] = 1..(n + 1)
        /\ \A i \in 1..n : log'[k][i] = L[i] /\ first'[k][i] = F[i]
        /\ log'[k][n + 1] = now /\ first'[k][n + 1] = F[n]
    <2>1. F[n] \in Nat \ {0}
      BY <1>t, <1>e
    <2> QED
      BY <2>1, GrantEffect DEF Count
  <1>i. /\ \A i, j \in 1..n : i <= j => L[i] <= L[j]
        /\ \A i \in 1..n : L[i] <= now
        /\ \A i \in 1..n : F[i] <= i /\ i < F[i] + Quota /\ F[F[i]] = F[i]
        /\ \A i, j \in 1..n : i <= j => F[j] = F[i] \/ F[j] > i
        /\ \A i, j \in 1..n : F[i] < F[j] => L[F[j]] > L[F[i]] + Window
    BY <1>t DEF KeyInv, LogInv, FirstInv, ApartInv
  <1>o. /\ entries[k].count = n - F[n] + 1
        /\ entries[k].windowEnd = L[F[n]] + Window
    BY <1>t DEF KeyInv, EntryInv
  <1>n. entries'[k].count = entries[k].count + 1 /\ entries'[k].windowEnd = entries[k].windowEnd
    <2>1. entries[k] \in [count : 0..Quota, windowEnd : Int]
      BY DEF TypeOK
    <2> QED
      BY <2>1, <1>g
  <1> HIDE DEF n, L, F
  <1>f. F[n] \in 1..n /\ F[F[n]] = F[n] /\ n + 1 < F[n] + Quota
    <2>1. F[n] \in Int /\ F[n] >= 1 /\ F[n] <= n /\ F[F[n]] = F[n] /\ n \in Int
      BY <1>t, <1>e, <1>i
    <2>2. n - F[n] + 1 < Max
      BY <1>c, <1>o
    <2> QED
      BY <2>1, <2>2, <1>q
  <1>1. LogInv(k)'
    <2> SUFFICES ASSUME NEW i \in 1..(n + 1), NEW j \in 1..(n + 1), i <= j
                 PROVE  log'[k][i] <= log'[k][j] /\ log'[k][i] <= now'
      BY <1>t, <1>g DEF LogInv
    <2>1. CASE j \in 1..n
      BY <2>1, <1>t, <1>g, <1>i
    <2>2. CASE j = n + 1
      BY <2>2, <1>t, <1>g, <1>i
    <2> QED
      BY <2>1, <2>2, <1>t
  <1>2. FirstInv(k)'
    <2>1. \A i \in 1..(n + 1) :
            /\ first'[k][i] <= i /\ i < first'[k][i] + Quota
            /\ first'[k][first'[k][i]] = first'[k][i]
      <3> SUFFICES ASSUME NEW i \in 1..(n + 1)
                   PROVE  /\ first'[k][i] <= i /\ i < first'[k][i] + Quota
                          /\ first'[k][first'[k][i]] = first'[k][i]
        OBVIOUS
      <3>1. CASE i = n + 1
        BY <3>1, <1>t, <1>g, <1>f
      <3>2. CASE i \in 1..n
        <4>1. F[i] \in 1..n
          BY <3>2, <1>t, <1>e, <1>i
        <4> QED
          BY <3>2, <4>1, <1>g, <1>i
      <3> QED
        BY <3>1, <3>2, <1>t
    <2>2. \A i, j \in 1..(n + 1) :
            i <= j => first'[k][j] = first'[k][i] \/ first'[k][j] > i
      <3> SUFFICES ASSUME NEW i \in 1..(n + 1), NEW j \in 1..(n + 1), i <= j
                   PROVE  first'[k][j] = first'[k][i] \/ first'[k][j] > i
        OBVIOUS
      <3>1. CASE i = n + 1
        BY <3>1, <1>t, <1>g
      <3>2. CASE i \in 1..n /\ j = n + 1
        BY <3>2, <1>t, <1>g, <1>i
      <3>3. CASE j \in 1..n
        BY <3>3, <1>t, <1>g, <1>i
      <3> QED
        BY <3>1, <3>2, <3>3, <1>t
    <2> QED
      BY <2>1, <2>2, <1>g DEF FirstInv
  <1>3. ApartInv(k)'
    \* The openers are the old ones: that of n + 1 is that of n.
    <2>1. \A i \in 1..(n + 1) : \E m \in 1..n : first'[k][i] = F[m]
      <3> SUFFICES ASSUME NEW i \in 1..(n + 1)
                   PROVE  \E m \in 1..n : first'[k][i] = F[m]
        OBVIOUS
      <3>1. CASE i = n + 1
        BY <3>1, <1>t, <1>g
      <3>2. CASE i \in 1..n
        BY <3>2, <1>g
      <3> QED
        BY <3>1, <3>2, <1>t
    <2>2. \A m \in 1..n : F[m] \in 1..n /\ log'[k][F[m]] = L[F[m]]
      BY <1>t, <1>e, <1>i, <1>g
    <2> SUFFICES ASSUME NEW i \in 1..(n + 1), NEW j \in 1..(n + 1),
                        first'[k][i] < first'[k][j]
                 PROVE  log'[k][first'[k][j]] > log'[k][first'[k][i]] + Window
      BY <1>g DEF ApartInv
    <2>3. PICK a \in 1..n : first'[k][i] = F[a]
      BY <2>1
    <2>4. PICK b \in 1..n : first'[k][j] = F[b]
      BY <2>1
    <2>5. L[F[b]] > L[F[a]] + Window
      BY <2>3, <2>4, <1>i
    <2> QED
      BY <2>2, <2>3, <2>4, <2>5
  <1>4. EntryInv(k)'
    <2>1. log'[k][F[n]] = L[F[n]]
      BY <1>f, <1>g
    <2> QED
      BY <2>1, <1>t, <1>e, <1>f, <1>g, <1>n, <1>o DEF EntryInv
  <1> QED
    BY <1>1, <1>2, <1>3, <1>4 DEF KeyInv

\* What does not touch the log and the entry of a key keeps its invariant.
LEMMA KeyKept ==
  ASSUME TypeOK, NEW k \in Keys, KeyInv(k), now' \in Int, now' >= now,
         log'[k] = log[k], first'[k] = first[k], entries'[k] = entries[k]
  PROVE  KeyInv(k)'
  <1>1. LogInv(k)'
    <2>1. /\ now \in Int
          /\ \A i \in DOMAIN log[k] : log[k][i] \in Int /\ log[k][i] <= now
      BY KeyType DEF KeyInv, LogInv
    <2>2. \A i \in DOMAIN log[k] : log[k][i] <= now'
      BY <2>1
    <2> QED
      BY <2>2 DEF KeyInv, LogInv
  <1> QED
    BY <1>1 DEF KeyInv, FirstInv, ApartInv, EntryInv

LEMMA NextIInv ==
  ASSUME TypeOK, IInv, [Next]_vars
  PROVE  IInv'
  <1> SUFFICES ASSUME NEW k \in Keys PROVE KeyInv(k)'
    BY DEF IInv, KeyInv
  <1>1. KeyInv(k)
    BY DEF IInv, KeyInv
  <1>2. now \in Int /\ now + 1 \in Int /\ now + 1 >= now /\ now >= now
    BY KeyType
  <1>3. CASE Tick
    BY <1>1, <1>2, <1>3, KeyKept DEF Tick
  <1>4. ASSUME NEW j \in Keys, j # k, Allow(j) PROVE KeyInv(k)'
    <2>1. Len(log[j]) + 1 \in Nat \ {0}
      BY KeyType
    <2>2. Count(j) => first[j][Len(log[j])] \in Nat \ {0}
      BY Opened DEF Count, IInv
    <2>3. /\ now' = now /\ log'[k] = log[k] /\ first'[k] = first[k]
          /\ entries'[k] = entries[k]
      <3>1. CASE Open(j)
        BY <1>4, <2>1, <3>1, GrantEffect DEF Open
      <3>2. CASE Count(j)
        BY <1>4, <2>2, <3>2, GrantEffect DEF Count
      <3>3. CASE Refuse(j)
        BY <3>3 DEF Refuse
      <3> QED
        BY <1>4, <3>1, <3>2, <3>3 DEF Allow
    <2> QED
      BY <1>1, <1>2, <2>3, KeyKept
  <1>5. CASE Open(k)
    BY <1>1, <1>5, OpenInv
  <1>6. CASE Count(k)
    BY <1>1, <1>6, CountInv
  <1>7. CASE Refuse(k)
    BY <1>1, <1>2, <1>7, KeyKept DEF Refuse
  <1>8. CASE UNCHANGED vars
    BY <1>1, <1>2, <1>8, KeyKept DEF vars
  <1> QED
    BY <1>3, <1>4, <1>5, <1>6, <1>7, <1>8 DEF Next, Allow

\* Type correctness and the shape of the log, for every quota and window.
LEMMA Inductive == Spec => [](TypeOK /\ IInv)
  <1>1. Init => TypeOK /\ IInv
    BY InitType, InitIInv
  <1>2. TypeOK /\ IInv /\ [Next]_vars => (TypeOK /\ IInv)'
    BY NextType, NextIInv
  <1> QED
    BY <1>1, <1>2, PTL DEF Spec

\* TypeOK, for every quota, window and set of keys.
THEOREM TypeCorrect == Spec => []TypeOK
  BY Inductive, PTL

-----------------------------------------------------------------------------
(* What the limiter promises.                                              *)

\* Of 2 * Quota + 1 requests in a row, some window opens after the first and
\* another one opens after that, not later than the last.
LEMMA TwoQuotas == TypeOK /\ IInv => AtMostTwoQuotas
  <1> SUFFICES ASSUME TypeOK, IInv, NEW k \in Keys, NEW i \in DOMAIN log[k],
                      i + 2 * Quota \in DOMAIN log[k]
               PROVE  log[k][i + 2 * Quota] > log[k][i] + Window
    BY DEF AtMostTwoQuotas
  <1> DEFINE n == Len(log[k])
  <1> DEFINE L == log[k]
  <1> DEFINE F == first[k]
  <1>t. n \in Nat /\ DOMAIN L = 1..n /\ Window \in Int /\ Quota \in Nat \ {0}
    BY KeyType, QuotaType, RateLimiterAssumption
  <1>e. \A m \in 1..n : L[m] \in Int /\ F[m] \in Nat \ {0}
    BY KeyType
  <1>i. /\ \A l, m \in 1..n : l <= m => L[l] <= L[m]
        /\ \A m \in 1..n : F[m] <= m /\ m < F[m] + Quota
        /\ \A l, m \in 1..n : F[l] < F[m] => L[F[m]] > L[F[l]] + Window
    BY <1>t DEF IInv, LogInv, FirstInv, ApartInv
  <1>r. i \in 1..n /\ i + 2 * Quota \in 1..n
    BY <1>t
  <1> HIDE DEF n, L, F
  <1>1. PICK c \in 1..n : c = i + 2 * Quota
    BY <1>r
  <1>2. PICK a \in 1..n : a = i + Quota /\ c = a + Quota
    BY <1>1, <1>t, <1>r
  <1>3. F[a] \in 1..n /\ i < F[a] /\ F[a] <= a
    <2>1. F[a] \in Int /\ F[a] >= 1 /\ F[a] <= a /\ a < F[a] + Quota
      BY <1>e, <1>i
    <2> QED
      BY <2>1, <1>2, <1>r, <1>t
  <1>4. F[c] \in 1..n /\ a < F[c] /\ F[c] <= c
    <2>1. F[c] \in Int /\ F[c] >= 1 /\ F[c] <= c /\ c < F[c] + Quota
      BY <1>e, <1>i
    <2> QED
      BY <2>1, <1>2, <1>t
  <1>5. L[F[c]] > L[F[a]] + Window
    <2>1. F[a] < F[c]
      BY <1>3, <1>4, <1>t
    <2> QED
      BY <2>1, <1>i
  <1>6. L[i] <= L[F[a]] /\ L[F[c]] <= L[c]
    BY <1>3, <1>4, <1>i, <1>r
  <1>7. L[i] \in Int /\ L[c] \in Int /\ L[F[a]] \in Int /\ L[F[c]] \in Int
    BY <1>3, <1>4, <1>e, <1>r
  <1>8. L[c] > L[i] + Window
    BY SMTT(60), <1>5, <1>6, <1>7, <1>t
  <1> QED
    BY <1>1, <1>8 DEF L

\* No two quotas and one request ever pass within a window's length.
THEOREM NeverMoreThanTwoQuotas == Spec => []AtMostTwoQuotas
  BY Inductive, TwoQuotas, PTL

\* What a refusal says, as long as it is the last answer.
RefusedInv(k) ==
  reply[k].what = "limited" =>
    /\ reply[k].at \in Int
    /\ Len(log[k]) >= Quota
    /\ log[k][Len(log[k]) - Quota + 1] >= reply[k].at - Window
    /\ entries[k].windowEnd <= reply[k].at + Window

LEMMA RefuseInv ==
  ASSUME TypeOK, NEW k \in Keys, KeyInv(k), Refuse(k)
  PROVE  RefusedInv(k)'
  <1> DEFINE n == Len(log[k])
  <1> DEFINE L == log[k]
  <1> DEFINE F == first[k]
  <1>t. n \in Nat /\ DOMAIN L = 1..n /\ now \in Int /\ now >= 0
    BY KeyType
  <1>q. Window \in Int /\ Max \in Nat /\ Quota \in Nat \ {0} /\ (Max > 0 => Quota = Max)
        /\ (Max = 0 => Quota = 1)
    BY QuotaType, RateLimiterAssumption DEF Quota
  <1>e. \A i \in 1..n : L[i] \in Int /\ F[i] \in Nat \ {0}
    BY KeyType
  <1>g. /\ log'[k] = L /\ entries'[k] = entries[k]
        /\ reply'[k] = [what |-> "limited", at |-> now]
    BY DEF Refuse, TypeOK
  <1>o. /\ n \in 1..n
        /\ n - F[n] + 1 >= Max
        /\ entries[k].windowEnd = L[F[n]] + Window
        /\ now <= L[F[n]] + Window
    <2>1. n \in 1..n
      BY <1>t, Opened DEF KeyInv, Refuse
    <2>2. entries[k].count = n - F[n] + 1 /\ entries[k].windowEnd = L[F[n]] + Window
      BY <2>1, <1>t DEF KeyInv, EntryInv
    <2>3. entries[k].windowEnd \in Int /\ ~(now > entries[k].windowEnd)
          /\ entries[k].count >= Max
      BY KeyType DEF Refuse, Over
    <2>4. now <= entries[k].windowEnd
      BY <2>3, <1>t
    <2> QED
      BY <2>1, <2>2, <2>3, <2>4
  <1>i. /\ \A i, j \in 1..n : i <= j => L[i] <= L[j]
        /\ \A i \in 1..n : L[i] <= now
        /\ \A i \in 1..n : F[i] <= i
    BY <1>t DEF KeyInv, LogInv, FirstInv
  <1> HIDE DEF n, L, F
  <1>1. F[n] \in 1..n /\ F[n] <= n - Quota + 1
    BY <1>t, <1>q, <1>e, <1>o, <1>i
  <1>2. n >= Quota /\ n - Quota + 1 \in 1..n
    BY <1>1, <1>t, <1>q
  <1>3. L[F[n]] <= L[n - Quota + 1] /\ L[F[n]] <= now
    BY <1>1, <1>2, <1>i
  <1>4. L[n - Quota + 1] >= now - Window /\ L[F[n]] + Window <= now + Window
    BY SMTT(60), <1>1, <1>2, <1>3, <1>e, <1>o, <1>t, <1>q
  <1> QED
    BY <1>2, <1>4, <1>g, <1>o, <1>t DEF RefusedInv, n, L

LEMMA RefusedNext ==
  ASSUME TypeOK, IInv, \A k \in Keys : RefusedInv(k), [Next]_vars
  PROVE  (\A k \in Keys : RefusedInv(k))'
  <1> SUFFICES ASSUME NEW k \in Keys PROVE RefusedInv(k)'
    OBVIOUS
  <1>1. RefusedInv(k) /\ KeyInv(k)
    BY DEF IInv, KeyInv
  <1>2. CASE Tick
    BY <1>1, <1>2 DEF Tick, RefusedInv
  <1>3. ASSUME NEW j \in Keys, j # k, Allow(j) PROVE RefusedInv(k)'
    <2>1. log'[k] = log[k] /\ entries'[k] = entries[k] /\ reply'[k] = reply[k]
      BY <1>3 DEF Allow, Open, Count, Refuse, Grant, TypeOK
    <2> QED
      BY <1>1, <2>1 DEF RefusedInv
  <1>4. CASE Open(k) \/ Count(k)
    <2>1. reply'[k].what = "served"
      BY <1>4 DEF Open, Count, Grant, TypeOK
    <2> QED
      BY <2>1 DEF RefusedInv
  <1>5. CASE Refuse(k)
    BY <1>1, <1>5, RefuseInv
  <1>6. CASE UNCHANGED vars
    BY <1>1, <1>6 DEF vars, RefusedInv
  <1> QED
    BY <1>2, <1>3, <1>4, <1>5, <1>6 DEF Next, Allow

LEMMA AlwaysRefused == Spec => [](TypeOK /\ \A k \in Keys : RefusedInv(k))
  <1>1. Init => \A k \in Keys : RefusedInv(k)
    BY DEF Init, RefusedInv
  <1>2. TypeOK /\ IInv /\ (\A k \in Keys : RefusedInv(k)) /\ [Next]_vars
          => (\A k \in Keys : RefusedInv(k))'
    BY RefusedNext
  <1> QED
    BY <1>1, <1>2, Inductive, PTL DEF Spec

\* A refusal means that the quota is used up.
THEOREM NoUnjustRefusal == Spec => []RefusedOnlyOverQuota
  <1>1. (TypeOK /\ \A k \in Keys : RefusedInv(k)) => RefusedOnlyOverQuota
    BY DEF RefusedInv, RefusedOnlyOverQuota
  <1> QED
    BY <1>1, AlwaysRefused, PTL

\* Waiting as long as Retry-After asks is enough.
THEOREM RetryAfterHonest == Spec => []RetryAfterSuffices
  <1>1. (TypeOK /\ \A k \in Keys : RefusedInv(k)) => RetryAfterSuffices
    <2> SUFFICES ASSUME TypeOK, NEW k \in Keys, RefusedInv(k),
                        reply[k].what = "limited", now > reply[k].at + Window
                 PROVE  now > entries[k].windowEnd
      BY DEF RetryAfterSuffices, Over
    <2>1. now \in Int /\ entries[k].windowEnd \in Int /\ Window \in Int
      BY KeyType, RateLimiterAssumption
    <2> QED
      BY <2>1 DEF RefusedInv
  <1> QED
    BY <1>1, AlwaysRefused, PTL

=============================================================================
