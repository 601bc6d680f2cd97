----------------------------- MODULE PureProofs -----------------------------
(***************************************************************************)
(* Proofs about the pure functions: the glob matcher, the address behind   *)
(* trusted proxies and `to sse`, for arguments of every length.  A loop or *)
(* a recursion of the code is a recursive function of the model; that it   *)
(* has a solution, and what holds after k of its steps, is proved by       *)
(* induction with a set for the property.                                  *)
(***************************************************************************)
EXTENDS PureCalls, WellFoundedInduction, SequenceTheorems, TLAPS

(* A set of naturals that is not empty has a least member. *)
LEMMA LeastNat ==
  ASSUME NEW T, T \subseteq Nat, T # {}
  PROVE  \E n \in T : \A m \in T : n <= m
<1> DEFINE R == OpToRel(<, Nat)
<1>1. IsWellFoundedOn(R, Nat)
  BY NatLessThanWellFounded
<1>2. \A x, y \in Nat : <<x, y>> \in R <=> x < y
  BY DEF OpToRel
<1> HIDE DEF R
<1>3. \E x \in T : \A y \in T : ~(<<y, x>> \in R)
  BY <1>1, WFMin
<1>4. PICK x \in T : \A y \in T : ~(<<y, x>> \in R)
  BY <1>3
<1>5. \A y \in T : ~(y < x)
  BY <1>2, <1>4
<1> QED
  BY <1>5

(* A set that has 0, and n + 1 with every n, has every natural: with a set for
   the property, an induction that takes no operator as a parameter. *)
LEMMA SetInduction ==
  ASSUME NEW T, 0 \in T, \A n \in Nat : n \in T => n + 1 \in T
  PROVE  Nat \subseteq T
<1> DEFINE B == {n \in Nat : n \notin T}
<1> SUFFICES ASSUME B # {} PROVE FALSE
  OBVIOUS
<1>1. PICK n \in B : \A m \in B : n <= m
  BY LeastNat
<1>2. n # 0 /\ n - 1 \in Nat
  BY <1>1
<1>3. n - 1 \in T
  BY <1>1, <1>2
<1> QED
  BY <1>1, <1>2, <1>3

(* f is computed from s0 by N steps that stay in S. *)
Iterates(f, S, s0, N, step) ==
  f \in [0..N -> S] /\ f[0] = s0 /\ \A k \in 1..N : f[k] = step[k][f[k - 1]]

(* A definition by recursion over 0..N whose steps stay in a set S has a
   solution: the recursive function it defines is not an arbitrary value. *)
LEMMA RecursionExists ==
  ASSUME NEW S, NEW s0 \in S, NEW N \in Nat, NEW step \in [1..N -> [S -> S]]
  PROVE  \E f : Iterates(f, S, s0, N, step)
<1> DEFINE Solves(f, n) == f[0] = s0 /\ \A k \in 1..n : f[k] = step[k][f[k - 1]]
           T == {n \in Nat : n <= N => \E f \in [0..n -> S] : Solves(f, n)}
<1>1. 0 \in T
  <2>1. [k \in 0..0 |-> s0] \in [0..0 -> S] /\ Solves([k \in 0..0 |-> s0], 0)
    OBVIOUS
  <2> QED
    BY <2>1
<1>2. ASSUME NEW n \in Nat, n \in T  PROVE n + 1 \in T
  <2> SUFFICES ASSUME n + 1 <= N  PROVE \E f \in [0..(n + 1) -> S] : Solves(f, n + 1)
    OBVIOUS
  <2>1. PICK f \in [0..n -> S] : Solves(f, n)
    BY <1>2
  <2> DEFINE g == [k \in 0..(n + 1) |-> IF k = n + 1 THEN step[n + 1][f[n]] ELSE f[k]]
  <2>2. step[n + 1] \in [S -> S] /\ f[n] \in S
    OBVIOUS
  <2>3. g \in [0..(n + 1) -> S]
    BY <2>2
  <2>4. g[0] = s0
    BY <2>1
  <2>5. ASSUME NEW k \in 1..(n + 1)  PROVE g[k] = step[k][g[k - 1]]
    <3>1. CASE k = n + 1
      <4>1. g[k] = step[n + 1][f[n]] /\ g[k - 1] = f[n]
        BY <3>1
      <4> QED
        BY <3>1, <4>1
    <3>2. CASE k # n + 1
      <4>1. k \in 1..n
        BY <3>2
      <4>2. g[k] = f[k] /\ g[k - 1] = f[k - 1]
        BY <4>1
      <4> QED
        BY <2>1, <4>1, <4>2
    <3> QED
      BY <3>1, <3>2
  <2> HIDE DEF g
  <2>6. Solves(g, n + 1)
    BY <2>4, <2>5
  <2> QED
    BY <2>3, <2>6
<1> HIDE DEF T
<1>3. N \in T
  BY <1>1, <1>2, SetInduction
<1> QED
  BY <1>3 DEF T, Iterates

-----------------------------------------------------------------------------
(* What the loop over X-Forwarded-For holds after the k entries furthest to
   the right: the last untrusted address among them; without one, the address
   among them that is furthest to the left; without any, the peer's. *)
Passed(xff, trusted, i) == xff[i] = Junk \/ xff[i] \in trusted

ScannedTo(xff, remote, trusted, k, st) ==
  LET seen == (Len(xff) + 1 - k)..Len(xff)
  IN  \/ /\ st.found
         /\ \E i \in seen : /\ ~Passed(xff, trusted, i) /\ st.ip = xff[i]
                            /\ \A j \in (i + 1)..Len(xff) : Passed(xff, trusted, j)
      \/ /\ ~st.found
         /\ \A j \in seen : Passed(xff, trusted, j)
         /\ \/ st.ip = remote /\ \A j \in seen : xff[j] = Junk
            \/ \E i \in seen : /\ xff[i] # Junk /\ st.ip = xff[i]
                               /\ \A j \in (Len(xff) + 1 - k)..(i - 1) : xff[j] = Junk

ScanState(A) == [ip : A, found : BOOLEAN]

(* One entry of the loop keeps that. *)
LEMMA ScanRightStep ==
  ASSUME NEW A, NEW xff \in Seq(A), NEW remote \in A, NEW trusted, NEW k \in 1..Len(xff),
         NEW st \in ScanState(A), ScannedTo(xff, remote, trusted, k - 1, st)
  PROVE  ScannedTo(xff, remote, trusted, k, ScanRight(trusted, xff[Len(xff) + 1 - k], st))
<1> DEFINE n == Len(xff)
           e == n + 1 - k
           new == ScanRight(trusted, xff[e], st)
           old == (e + 1)..n
           seen == e..n
<1>1. n \in Nat /\ e \in 1..n /\ n + 1 - (k - 1) = e + 1
  OBVIOUS
<1>2. seen = old \cup {e}
  BY <1>1
<1>3. \/ /\ st.found
         /\ \E i \in old : /\ ~Passed(xff, trusted, i) /\ st.ip = xff[i]
                           /\ \A j \in (i + 1)..n : Passed(xff, trusted, j)
      \/ /\ ~st.found
         /\ \A j \in old : Passed(xff, trusted, j)
         /\ \/ st.ip = remote /\ \A j \in old : xff[j] = Junk
            \/ \E i \in old : /\ xff[i] # Junk /\ st.ip = xff[i]
                              /\ \A j \in (e + 1)..(i - 1) : xff[j] = Junk
  BY <1>1 DEF ScannedTo
<1> SUFFICES
      \/ /\ new.found
         /\ \E i \in seen : /\ ~Passed(xff, trusted, i) /\ new.ip = xff[i]
                            /\ \A j \in (i + 1)..n : Passed(xff, trusted, j)
      \/ /\ ~new.found
         /\ \A j \in seen : Passed(xff, trusted, j)
         /\ \/ new.ip = remote /\ \A j \in seen : xff[j] = Junk
            \/ \E i \in seen : /\ xff[i] # Junk /\ new.ip = xff[i]
                               /\ \A j \in e..(i - 1) : xff[j] = Junk
  BY DEF ScannedTo
<1>4. CASE st.found
  <2>1. new = st
    BY <1>4 DEF ScanRight
  <2> QED
    BY <1>2, <1>3, <1>4, <2>1
<1>5. CASE ~st.found /\ xff[e] = Junk
  <2>1. new = st
    BY <1>5 DEF ScanRight
  <2>2. \A j \in seen : Passed(xff, trusted, j)
    BY <1>2, <1>3, <1>5 DEF Passed
  <2>3. CASE st.ip = remote /\ \A j \in old : xff[j] = Junk
    BY <1>2, <1>5, <2>1, <2>2, <2>3
  <2>4. CASE \E i \in old : /\ xff[i] # Junk /\ st.ip = xff[i]
                            /\ \A j \in (e + 1)..(i - 1) : xff[j] = Junk
    <3>1. PICK i \in old : /\ xff[i] # Junk /\ st.ip = xff[i]
                           /\ \A j \in (e + 1)..(i - 1) : xff[j] = Junk
      BY <2>4
    <3>2. \A j \in e..(i - 1) : j = e \/ j \in (e + 1)..(i - 1)
      BY <1>1
    <3>3. \A j \in e..(i - 1) : xff[j] = Junk
      BY <1>5, <3>1, <3>2
    <3>4. i \in seen
      BY <1>2
    <3> QED
      BY <1>5, <2>1, <2>2, <3>1, <3>3, <3>4
  <2> QED
    BY <1>3, <1>5, <2>3, <2>4
<1>6. CASE ~st.found /\ xff[e] # Junk
  <2>1. new = [ip |-> xff[e], found |-> xff[e] \notin trusted]
    BY <1>6 DEF ScanRight
  <2>2. e \in seen /\ e..(e - 1) = {}
    BY <1>1
  <2>3. new.ip = xff[e] /\ (new.found <=> xff[e] \notin trusted)
    <3> HIDE DEF new, e
    <3>1. new.ip = xff[e]
      BY <2>1
    <3>2. new.found = (xff[e] \notin trusted)
      BY <2>1, Zenon
    <3> QED
      BY <3>1, <3>2
  <2>4. \A j \in old : Passed(xff, trusted, j)
    BY <1>3, <1>6
  <2>5. CASE xff[e] \in trusted
    <3>1. \A j \in seen : Passed(xff, trusted, j)
      BY <1>2, <2>4, <2>5 DEF Passed
    <3> HIDE DEF new, seen, e
    <3> QED
      BY <1>6, <2>2, <2>3, <2>5, <3>1
  <2>6. CASE xff[e] \notin trusted
    <3>1. ~Passed(xff, trusted, e)
      BY <1>6, <2>6 DEF Passed
    <3> HIDE DEF new, seen
    <3> QED
      BY <2>2, <2>3, <2>4, <2>6, <3>1
  <2> QED
    BY <2>5, <2>6
<1> QED
  BY <1>4, <1>5, <1>6

(* The loop computes it for the whole header. *)
LEMMA ScanHeaderScans ==
  ASSUME NEW A, NEW xff \in Seq(A), NEW remote \in A, NEW trusted
  PROVE  \E st \in ScanState(A) : /\ ScannedTo(xff, remote, trusted, Len(xff), st)
                                  /\ ScanHeader(xff, remote, trusted) = st.ip
<1> DEFINE n == Len(xff)
           s0 == [ip |-> remote, found |-> FALSE]
           Loop(st) == [k \in 0..n |-> IF k = 0 THEN s0 ELSE ScanRight(trusted, xff[n + 1 - k], st[k - 1])]
           step == [k \in 1..n |-> [st \in ScanState(A) |-> ScanRight(trusted, xff[n + 1 - k], st)]]
           scan == CHOOSE st : st = Loop(st)
<1>1. n \in Nat /\ s0 \in ScanState(A)
  BY DEF ScanState
<1>2. \A k \in 1..n, st \in ScanState(A) : ScanRight(trusted, xff[n + 1 - k], st) \in ScanState(A)
  <2> SUFFICES ASSUME NEW k \in 1..n, NEW st \in ScanState(A)
               PROVE  ScanRight(trusted, xff[n + 1 - k], st) \in ScanState(A)
    OBVIOUS
  <2>1. n + 1 - k \in 1..n
    BY <1>1
  <2>2. xff[n + 1 - k] \in A
    BY <2>1
  <2> QED
    BY <2>2 DEF ScanRight, ScanState
<1>3. step \in [1..n -> [ScanState(A) -> ScanState(A)]]
  BY <1>2
<1>4. PICK f : Iterates(f, ScanState(A), s0, n, step)
  BY <1>1, <1>3, RecursionExists, Zenon
<1>5. /\ f \in [0..n -> ScanState(A)] /\ f[0] = s0
      /\ \A k \in 1..n : f[k] = step[k][f[k - 1]]
  BY <1>4 DEF Iterates
<1>6. f = Loop(f)
  <2>1. \A k \in 1..n : k - 1 \in 0..n /\ f[k - 1] \in ScanState(A)
    BY <1>1, <1>5
  <2>2. \A k \in 1..n : f[k] = ScanRight(trusted, xff[n + 1 - k], f[k - 1])
    BY <1>5, <2>1
  <2>3. \A k \in 0..n : f[k] = Loop(f)[k]
    BY <1>1, <1>5, <2>2
  <2> QED
    BY <1>5, <2>3
<1>7. scan = Loop(scan)
  BY <1>6
<1>8. ScanHeader(xff, remote, trusted) = scan[n].ip
  BY DEF ScanHeader
<1> HIDE DEF scan
<1>9. scan[0] = s0 /\ \A k \in 1..n : scan[k] = ScanRight(trusted, xff[n + 1 - k], scan[k - 1])
  <2>1. 0 \in 0..n /\ \A k \in 1..n : k \in 0..n /\ k # 0
    BY <1>1
  <2>2. \A k \in 0..n : scan[k] = IF k = 0 THEN s0 ELSE ScanRight(trusted, xff[n + 1 - k], scan[k - 1])
    BY <1>7, Zenon
  <2> QED
    BY <2>1, <2>2
<1> DEFINE T == {k \in Nat : k <= n => scan[k] \in ScanState(A) /\ ScannedTo(xff, remote, trusted, k, scan[k])}
<1>10. 0 \in T
  <2>1. ScannedTo(xff, remote, trusted, 0, s0)
    BY <1>1 DEF ScannedTo
  <2> QED
    BY <1>1, <1>9, <2>1
<1>11. ASSUME NEW k \in Nat, k \in T  PROVE k + 1 \in T
  <2> SUFFICES ASSUME k + 1 <= n
               PROVE  scan[k + 1] \in ScanState(A) /\ ScannedTo(xff, remote, trusted, k + 1, scan[k + 1])
    OBVIOUS
  <2>1. k + 1 \in 1..n /\ (k + 1) - 1 = k
    BY <1>1
  <2>2. scan[k] \in ScanState(A) /\ ScannedTo(xff, remote, trusted, k, scan[k])
    BY <1>11, <2>1
  <2>3. scan[k + 1] = ScanRight(trusted, xff[n + 1 - (k + 1)], scan[k])
    BY <1>9, <2>1
  <2>4. scan[k + 1] \in ScanState(A)
    BY <1>2, <2>1, <2>2, <2>3
  <2>5. ScannedTo(xff, remote, trusted, k + 1, ScanRight(trusted, xff[n + 1 - (k + 1)], scan[k]))
    BY <2>1, <2>2, ScanRightStep
  <2> QED
    BY <2>3, <2>4, <2>5
<1> HIDE DEF T
<1>12. n \in T
  BY <1>1, <1>10, <1>11, SetInduction
<1> QED
  BY <1>8, <1>12 DEF T

(* What the loop answers, by position.  Where every entry is trusted it follows
   "use leftmost IP from XFF" in its body, not the function's doc comment. *)
ScanAnswer(xff, remote, trusted) ==
  IF Untrusted(xff, trusted) # {} THEN ClientOf(xff, trusted)
  ELSE IF Valid(xff) # {} THEN xff[CHOOSE i \in Valid(xff) : \A j \in Valid(xff) : i <= j]
  ELSE remote

(* For a header of any length and any set of trusted addresses, the loop of
   resolve_trusted_ip answers the address furthest to the right that no
   trusted proxy has, then the one furthest to the left, then the peer's. *)
THEOREM ScanHeaderIsClient ==
  ASSUME NEW A, NEW xff \in Seq(A), NEW remote \in A, NEW trusted
  PROVE  ScanHeader(xff, remote, trusted) = ScanAnswer(xff, remote, trusted)
<1> DEFINE n == Len(xff)
           valid == {i \in 1..n : xff[i] # Junk}
           outside == {i \in valid : xff[i] \notin trusted}
           last == CHOOSE i \in outside : \A j \in outside : j <= i
           first == CHOOSE i \in valid : \A j \in valid : i <= j
<1>1. PICK st \in ScanState(A) : /\ ScannedTo(xff, remote, trusted, n, st)
                                 /\ ScanHeader(xff, remote, trusted) = st.ip
  BY ScanHeaderScans
<1>2. n \in Nat /\ n + 1 - n = 1
  OBVIOUS
<1>3. \/ /\ st.found
         /\ \E i \in 1..n : /\ ~Passed(xff, trusted, i) /\ st.ip = xff[i]
                            /\ \A j \in (i + 1)..n : Passed(xff, trusted, j)
      \/ /\ ~st.found
         /\ \A j \in 1..n : Passed(xff, trusted, j)
         /\ \/ st.ip = remote /\ \A j \in 1..n : xff[j] = Junk
            \/ \E i \in 1..n : /\ xff[i] # Junk /\ st.ip = xff[i]
                               /\ \A j \in 1..(i - 1) : xff[j] = Junk
  BY <1>1, <1>2 DEF ScannedTo
<1>4. ScanAnswer(xff, remote, trusted) =
        IF outside # {} THEN xff[last] ELSE IF valid # {} THEN xff[first] ELSE remote
  BY DEF ScanAnswer, ClientOf, Untrusted, Valid
<1>5. \A j \in 1..n : j \in outside <=> ~Passed(xff, trusted, j)
  BY DEF Passed
<1> HIDE DEF n, last, first
<1>6. ASSUME NEW i \in 1..n, ~Passed(xff, trusted, i), st.ip = xff[i],
             \A j \in (i + 1)..n : Passed(xff, trusted, j)
      PROVE  st.ip = ScanAnswer(xff, remote, trusted)
  <2>1. i \in outside
    BY <1>5, <1>6
  <2> HIDE DEF outside
  <2>2. outside \subseteq 1..n
    BY DEF outside
  <2>3. \A j \in outside : j <= i
    <3> SUFFICES ASSUME NEW j \in outside, ~(j <= i)  PROVE FALSE
      OBVIOUS
    <3>1. j \in (i + 1)..n /\ j \in 1..n
      BY <1>2, <2>2
    <3> QED
      BY <1>5, <1>6, <3>1
  <2>4. last \in outside /\ \A j \in outside : j <= last
    BY <2>1, <2>3 DEF last
  <2>5. last = i
    <3>1. last <= i /\ i <= last /\ last \in Nat /\ i \in Nat
      BY <1>2, <2>1, <2>2, <2>3, <2>4
    <3> QED
      BY <3>1
  <2> QED
    BY <1>4, <1>6, <2>1, <2>5
<1>7. ASSUME \A j \in 1..n : Passed(xff, trusted, j)  PROVE outside = {}
  BY <1>5, <1>7
<1>8. ASSUME outside = {}, NEW i \in 1..n, xff[i] # Junk, st.ip = xff[i],
             \A j \in 1..(i - 1) : xff[j] = Junk
      PROVE  st.ip = ScanAnswer(xff, remote, trusted)
  <2>1. i \in valid
    BY <1>8
  <2> HIDE DEF outside
  <2>2. \A j \in valid : i <= j
    <3> SUFFICES ASSUME NEW j \in valid, ~(i <= j)  PROVE FALSE
      OBVIOUS
    <3>1. j \in 1..n
      OBVIOUS
    <3>2. j \in 1..(i - 1)
      BY <1>2, <3>1
    <3> QED
      BY <1>8, <3>2
  <2>3. valid \subseteq 1..n
    OBVIOUS
  <2> HIDE DEF valid
  <2>4. first \in valid /\ \A j \in valid : first <= j
    BY <2>1, <2>2 DEF first
  <2>5. first = i
    <3>1. first <= i /\ i <= first /\ first \in Nat /\ i \in Nat
      BY <1>2, <2>1, <2>2, <2>3, <2>4
    <3> QED
      BY <3>1
  <2> QED
    BY <1>4, <1>8, <2>1, <2>5
<1>9. ASSUME \A j \in 1..n : xff[j] = Junk  PROVE outside = {} /\ valid = {}
  BY <1>9
<1> HIDE DEF valid, outside
<1>10. st.ip = ScanAnswer(xff, remote, trusted)
  <2>1. CASE st.found
    BY <1>3, <1>6, <2>1
  <2>2. CASE ~st.found
    <3>1. outside = {}
      BY <1>3, <1>7, <2>2
    <3>2. CASE st.ip = remote /\ \A j \in 1..n : xff[j] = Junk
      BY <1>4, <1>9, <3>2
    <3> QED
      BY <1>3, <1>8, <2>2, <3>1, <3>2
  <2> QED
    BY <2>1, <2>2
<1> QED
  BY <1>1, <1>10

-----------------------------------------------------------------------------
(* The calls that are made: arguments of a bounded size. *)
LEMMA BoundedSeqIsSeq ==
  ASSUME NEW S, NEW n \in Nat, NEW s \in BoundedSeq(S, n)
  PROVE  s \in Seq(S)
<1>1. PICK m \in 0..n : s \in [1..m -> S]
  BY DEF BoundedSeq, SeqOf
<1> QED
  BY <1>1, SeqDef

Resolves ==
  {c \in [fn : {"resolve"}, xff : BoundedSeq(Ips \cup {Junk}, MaxHops) \cup {NoHeader, NotText},
          remote : Ips \cup {None}, trusted : SUBSET Ips, proxies : BOOLEAN] :
     ~c.proxies => c.trusted = {}}

(* resolve_trusted_ip on every one of them. *)
LEMMA ResolveTrustedIpIsClient ==
  ASSUME MaxHops \in Nat, NEW c \in Resolves
  PROVE  LET ip == ResolveTrustedIp(c.xff, c.remote, c.proxies, c.trusted)
             believed == c.proxies /\ c.remote \in c.trusted \cup {None}
         IN  ip = IF ~believed \/ c.xff = NoHeader THEN c.remote
                  ELSE IF c.xff = NotText THEN None
                  ELSE ScanAnswer(c.xff, c.remote, c.trusted)
<1> DEFINE believed == c.proxies /\ c.remote \in c.trusted \cup {None}
           A == Ips \cup {Junk, None}
<1>1. c.remote \in A
  BY DEF Resolves
<1>2. NoHeader # NotText
  BY DEF NoHeader, NotText
<1>3. ASSUME c.xff # NoHeader, c.xff # NotText
      PROVE  ScanHeader(c.xff, c.remote, c.trusted) = ScanAnswer(c.xff, c.remote, c.trusted)
  <2>1. c.xff \in BoundedSeq(Ips \cup {Junk}, MaxHops)
    BY <1>3 DEF Resolves
  <2>2. c.xff \in Seq(Ips \cup {Junk})
    BY <2>1, BoundedSeqIsSeq
  <2>3. c.xff \in Seq(A)
    BY <2>2
  <2> QED
    BY <1>1, <2>3, ScanHeaderIsClient
<1> QED
  BY <1>2, <1>3 DEF ResolveTrustedIp

-----------------------------------------------------------------------------
(* Cutting a string.  R[i][a] is where the i-th piece may end that starts
   after a characters; Reach(R, n, k) is where k pieces may end. *)
Cuts(R, n, k, cut) ==
  /\ cut \in [0..k -> 0..n] /\ cut[0] = 0
  /\ \A i \in 1..k : cut[i] \in R[i][cut[i - 1]]

Reach(R, n, k) == {c \in 0..n : \E cut : Cuts(R, n, k, cut) /\ cut[k] = c}

Image(r, X) == UNION {r[a] : a \in X}

(* No piece reaches the start alone. *)
LEMMA ReachZero ==
  ASSUME NEW R, NEW n \in Nat
  PROVE  Reach(R, n, 0) = {0}
<1>1. 0 \in 0..n
  OBVIOUS
<1> DEFINE cut == [i \in 0..0 |-> 0]
<1>2. Cuts(R, n, 0, cut) /\ cut[0] = 0
  BY <1>1 DEF Cuts
<1>3. \A d : Cuts(R, n, 0, d) => d[0] = 0
  BY DEF Cuts
<1> HIDE DEF cut
<1> QED
  BY <1>1, <1>2, <1>3 DEF Reach

(* One more piece ends where it may end from what the others reach. *)
LEMMA ReachStep ==
  ASSUME NEW n \in Nat, NEW k \in Nat, NEW R, R[k + 1] \in [0..n -> SUBSET (0..n)]
  PROVE  Reach(R, n, k + 1) = Image(R[k + 1], Reach(R, n, k))
<1>1. ASSUME NEW c \in Reach(R, n, k + 1)  PROVE c \in Image(R[k + 1], Reach(R, n, k))
  <2>1. PICK cut : Cuts(R, n, k + 1, cut) /\ cut[k + 1] = c
    BY DEF Reach
  <2> DEFINE d == [i \in 0..k |-> cut[i]]
  <2>2. cut \in [0..(k + 1) -> 0..n] /\ cut[0] = 0
    BY <2>1 DEF Cuts
  <2>3. \A i \in 1..(k + 1) : cut[i] \in R[i][cut[i - 1]]
    BY <2>1 DEF Cuts
  <2>4. \A i \in 0..k : i \in 0..(k + 1)
    OBVIOUS
  <2>5. d \in [0..k -> 0..n] /\ d[0] = 0 /\ d[k] = cut[k]
    BY <2>2, <2>4
  <2>6. \A i \in 1..k : d[i] \in R[i][d[i - 1]]
    <3> SUFFICES ASSUME NEW i \in 1..k  PROVE d[i] \in R[i][d[i - 1]]
      OBVIOUS
    <3>1. d[i] = cut[i] /\ d[i - 1] = cut[i - 1] /\ i \in 1..(k + 1)
      OBVIOUS
    <3> QED
      BY <2>3, <3>1
  <2>7. Cuts(R, n, k, d)
    BY <2>5, <2>6 DEF Cuts
  <2>8. cut[k] \in 0..n /\ k + 1 \in 1..(k + 1) /\ (k + 1) - 1 = k
    BY <2>2
  <2> HIDE DEF d
  <2>9. cut[k] \in Reach(R, n, k)
    BY <2>5, <2>7, <2>8 DEF Reach
  <2>10. c \in R[k + 1][cut[k]]
    BY <2>1, <2>3, <2>8
  <2> QED
    BY <2>9, <2>10 DEF Image
<1>2. ASSUME NEW c \in Image(R[k + 1], Reach(R, n, k))  PROVE c \in Reach(R, n, k + 1)
  <2>1. PICK a \in Reach(R, n, k) : c \in R[k + 1][a]
    BY DEF Image
  <2>2. a \in 0..n
    BY DEF Reach
  <2>3. c \in 0..n
    BY <2>1, <2>2
  <2>4. PICK cut : Cuts(R, n, k, cut) /\ cut[k] = a
    BY DEF Reach
  <2> DEFINE d == [i \in 0..(k + 1) |-> IF i = k + 1 THEN c ELSE cut[i]]
  <2>5. cut \in [0..k -> 0..n] /\ cut[0] = 0
    BY <2>4 DEF Cuts
  <2>6. \A i \in 1..k : cut[i] \in R[i][cut[i - 1]]
    BY <2>4 DEF Cuts
  <2>7. \A i \in 0..(k + 1) : i = k + 1 \/ i \in 0..k
    OBVIOUS
  <2>8. d \in [0..(k + 1) -> 0..n] /\ d[0] = 0 /\ d[k + 1] = c
    BY <2>3, <2>5, <2>7
  <2>9. \A i \in 1..(k + 1) : d[i] \in R[i][d[i - 1]]
    <3> SUFFICES ASSUME NEW i \in 1..(k + 1)  PROVE d[i] \in R[i][d[i - 1]]
      OBVIOUS
    <3>1. CASE i = k + 1
      <4>1. d[i] = c /\ d[i - 1] = cut[k]
        BY <3>1
      <4> QED
        BY <2>1, <2>4, <3>1, <4>1
    <3>2. CASE i # k + 1
      <4>1. i \in 1..k /\ d[i] = cut[i] /\ d[i - 1] = cut[i - 1]
        BY <3>2
      <4> QED
        BY <2>6, <4>1
    <3> QED
      BY <3>1, <3>2
  <2>10. Cuts(R, n, k + 1, d)
    BY <2>8, <2>9 DEF Cuts
  <2> HIDE DEF d
  <2> QED
    BY <2>3, <2>8, <2>10 DEF Reach
<1> QED
  BY <1>1, <1>2

(* What k pieces reach depends on the first k relations alone. *)
LEMMA ReachSame ==
  ASSUME NEW n \in Nat, NEW k \in Nat, NEW R, NEW Q, \A i \in 1..k : R[i] = Q[i]
  PROVE  Reach(R, n, k) = Reach(Q, n, k)
<1>1. \A cut : Cuts(R, n, k, cut) <=> Cuts(Q, n, k, cut)
  BY DEF Cuts
<1> QED
  BY <1>1 DEF Reach

-----------------------------------------------------------------------------
(* Where a character of a pattern, or a part of a matcher, may end in s. *)
CharEnds(ch, s) ==
  [a \in 0..Len(s) |-> {b \in 0..Len(s) : IF ch = "*" THEN a <= b ELSE b = a + 1 /\ s[b] = ch}]

PartEnds(part, s) ==
  [a \in 0..Len(s) |-> {b \in 0..Len(s) :
     IF part = Star THEN a <= b
     ELSE b = a + Len(part) /\ \A x \in 1..Len(part) : s[a + x] = part[x]}]

CharRel(pattern, s) == [i \in 1..Len(pattern) |-> CharEnds(pattern[i], s)]
PartRel(parts, s) == [i \in 1..Len(parts) |-> PartEnds(parts[i], s)]

After(parts, s) == Reach(PartRel(parts, s), Len(s), Len(parts))

(* A pattern means the strings its characters can reach the end of. *)
LEMMA MeansReach ==
  ASSUME NEW C, NEW p \in Seq(C), NEW s \in Seq(C)
  PROVE  GlobMeans(p, s) <=> Len(s) \in Reach(CharRel(p, s), Len(s), Len(p))
<1> DEFINE n == Len(s)
           k == Len(p)
           Fits(cut) == \A i \in 1..k : IF p[i] = "*" THEN cut[i - 1] <= cut[i]
                                        ELSE cut[i] = cut[i - 1] + 1 /\ s[cut[i]] = p[i]
<1>1. n \in Nat /\ k \in Nat
  OBVIOUS
<1>2. ASSUME NEW cut \in [0..k -> 0..n], NEW i \in 1..k
      PROVE  cut[i] \in CharRel(p, s)[i][cut[i - 1]] <=>
               IF p[i] = "*" THEN cut[i - 1] <= cut[i]
               ELSE cut[i] = cut[i - 1] + 1 /\ s[cut[i]] = p[i]
  <2>1. i \in 0..k /\ i - 1 \in 0..k
    BY <1>1
  <2>2. cut[i] \in 0..n /\ cut[i - 1] \in 0..n
    BY <2>1
  <2>3. CharRel(p, s)[i] = CharEnds(p[i], s)
    BY DEF CharRel
  <2> QED
    BY <2>2, <2>3 DEF CharEnds
<1>3. \A cut \in [0..k -> 0..n] : cut[0] = 0 => (Cuts(CharRel(p, s), n, k, cut) <=> Fits(cut))
  BY <1>2 DEF Cuts
<1>4. \A cut : Cuts(CharRel(p, s), n, k, cut) => cut \in [0..k -> 0..n] /\ cut[0] = 0
  BY DEF Cuts
<1>5. n \in Reach(CharRel(p, s), n, k) <=> \E cut : Cuts(CharRel(p, s), n, k, cut) /\ cut[k] = n
  BY <1>1 DEF Reach
<1>6. GlobMeans(p, s) <=> \E cut \in [0..k -> 0..n] : cut[0] = 0 /\ cut[k] = n /\ Fits(cut)
  BY DEF GlobMeans
<1> HIDE DEF Fits, n, k
<1>7. (\E cut : Cuts(CharRel(p, s), n, k, cut) /\ cut[k] = n) <=>
        \E cut \in [0..k -> 0..n] : cut[0] = 0 /\ cut[k] = n /\ Fits(cut)
  BY <1>3, <1>4, Zenon
<1> QED
  BY <1>5, <1>6, <1>7 DEF n, k

(* Ends are positions of the string. *)
LEMMA CharEndsType ==
  ASSUME NEW C, NEW s \in Seq(C), NEW ch
  PROVE  CharEnds(ch, s) \in [0..Len(s) -> SUBSET (0..Len(s))]
BY DEF CharEnds

(* So are those of a part, *)
LEMMA PartEndsType ==
  ASSUME NEW C, NEW s \in Seq(C), NEW part
  PROVE  PartEnds(part, s) \in [0..Len(s) -> SUBSET (0..Len(s))]
BY DEF PartEnds

(* of any number of parts, *)
LEMMA AfterType ==
  ASSUME NEW s, NEW parts
  PROVE  After(parts, s) \subseteq 0..Len(s)
BY DEF After, Reach

(* and no part reaches the start alone. *)
LEMMA AfterEmpty ==
  ASSUME NEW C, NEW s \in Seq(C)
  PROVE  After(<<>>, s) = {0}
<1>1. Len(s) \in Nat /\ Len(<<>>) = 0
  OBVIOUS
<1> QED
  BY <1>1, ReachZero DEF After

(* One more part takes what the others reached one part further. *)
LEMMA AfterAppend ==
  ASSUME NEW C, NEW s \in Seq(C), NEW D, NEW parts \in Seq(D), NEW part \in D
  PROVE  After(Append(parts, part), s) = Image(PartEnds(part, s), After(parts, s))
<1> DEFINE n == Len(s)
           k == Len(parts)
           longer == Append(parts, part)
           R == PartRel(longer, s)
           Q == PartRel(parts, s)
<1>1. n \in Nat /\ k \in Nat /\ Len(longer) = k + 1
  OBVIOUS
<1>2. longer[k + 1] = part /\ \A i \in 1..k : longer[i] = parts[i]
  OBVIOUS
<1>3. R[k + 1] = PartEnds(part, s)
  BY <1>1, <1>2 DEF PartRel
<1>4. \A i \in 1..k : R[i] = Q[i]
  BY <1>1, <1>2 DEF PartRel
<1>5. R[k + 1] \in [0..n -> SUBSET (0..n)]
  BY <1>3, PartEndsType
<1>6. After(longer, s) = Reach(R, n, k + 1) /\ After(parts, s) = Reach(Q, n, k)
  BY <1>1 DEF After
<1> HIDE DEF R, Q, n, k, longer
<1>7. Reach(R, n, k + 1) = Image(R[k + 1], Reach(R, n, k))
  BY <1>1, <1>5, ReachStep
<1>8. Reach(R, n, k) = Reach(Q, n, k)
  BY <1>1, <1>4, ReachSame
<1> QED
  BY <1>3, <1>6, <1>7, <1>8 DEF longer

(* The empty literal moves nothing; a literal is its characters one by one;
   a star that follows a star adds nothing. *)
LEMMA EmptyPartStays ==
  ASSUME NEW C, NEW s \in Seq(C), NEW X, X \subseteq 0..Len(s)
  PROVE  Image(PartEnds(<<>>, s), X) = X
<1>1. <<>> # Star /\ Len(<<>>) = 0
  BY DEF Star
<1>2. \A a \in 0..Len(s) : PartEnds(<<>>, s)[a] = {a}
  BY <1>1 DEF PartEnds
<1>3. \A c : c \in Image(PartEnds(<<>>, s), X) <=> \E a \in X : c \in PartEnds(<<>>, s)[a]
  BY DEF Image
<1>4. \A c : c \in Image(PartEnds(<<>>, s), X) <=> \E a \in X : c \in {a}
  BY <1>2, <1>3
<1> QED
  BY <1>4

(* A literal that is one character longer ends where that character does. *)
LEMMA LongerLiteral ==
  ASSUME NEW C, NEW s \in Seq(C), NEW D, "*" \notin D, NEW buf \in Seq(D), NEW ch \in D,
         NEW X \in SUBSET (0..Len(s))
  PROVE  Image(PartEnds(Append(buf, ch), s), X) = Image(CharEnds(ch, s), Image(PartEnds(buf, s), X))
<1> DEFINE n == Len(s)
           m == Len(buf)
           longer == Append(buf, ch)
<1>1. n \in Nat /\ m \in Nat /\ Len(longer) = m + 1
  OBVIOUS
<1>2. longer[m + 1] = ch /\ \A x \in 1..m : longer[x] = buf[x]
  OBVIOUS
<1>3. buf # Star
  <2>1. \A x \in 1..Len(buf) : buf[x] # "*"
    OBVIOUS
  <2> QED
    BY <2>1 DEF Star
<1>4. longer # Star
  <2>1. longer[m + 1] # "*" /\ m + 1 \in 1..Len(longer)
    BY <1>1, <1>2
  <2>2. Len(Star) = 1 /\ Star[1] = "*"
    BY DEF Star
  <2> SUFFICES ASSUME longer = Star  PROVE FALSE
    OBVIOUS
  <2>3. m + 1 = 1
    BY <1>1, <2>2
  <2> QED
    BY <2>1, <2>2, <2>3
<1>5. ASSUME NEW a \in 0..n, NEW b \in 0..n
      PROVE  b \in PartEnds(buf, s)[a] <=> b = a + m /\ \A x \in 1..m : s[a + x] = buf[x]
  BY <1>3 DEF PartEnds
<1>6. ASSUME NEW a \in 0..n, NEW c \in 0..n
      PROVE  c \in PartEnds(longer, s)[a] <=>
               c = a + (m + 1) /\ \A x \in 1..(m + 1) : s[a + x] = longer[x]
  BY <1>1, <1>4 DEF PartEnds
<1>7. ASSUME NEW b \in 0..n, NEW c \in 0..n
      PROVE  c \in CharEnds(ch, s)[b] <=> c = b + 1 /\ s[c] = ch
  BY DEF CharEnds
<1>8. PartEnds(buf, s) \in [0..n -> SUBSET (0..n)] /\ PartEnds(longer, s) \in [0..n -> SUBSET (0..n)]
      /\ CharEnds(ch, s) \in [0..n -> SUBSET (0..n)]
  BY PartEndsType, CharEndsType
<1> HIDE DEF n, m, longer
<1>9. ASSUME NEW a \in 0..n, NEW c \in 0..n
      PROVE  c \in PartEnds(longer, s)[a] <=> \E b \in 0..n : b \in PartEnds(buf, s)[a] /\ c \in CharEnds(ch, s)[b]
  <2>1. ASSUME c \in PartEnds(longer, s)[a]
        PROVE  \E b \in 0..n : b \in PartEnds(buf, s)[a] /\ c \in CharEnds(ch, s)[b]
    <3>1. c = a + (m + 1) /\ \A x \in 1..(m + 1) : s[a + x] = longer[x]
      BY <1>6, <2>1
    <3>2. a + m \in 0..n /\ c = (a + m) + 1 /\ m + 1 \in 1..(m + 1)
      BY <1>1, <3>1
    <3>3. \A x \in 1..m : x \in 1..(m + 1)
      BY <1>1
    <3>4. a + m \in PartEnds(buf, s)[a]
      BY <1>2, <1>5, <3>1, <3>2, <3>3
    <3>5. s[c] = ch
      BY <1>2, <3>1, <3>2
    <3> QED
      BY <1>7, <3>2, <3>4, <3>5
  <2>2. ASSUME NEW b \in 0..n, b \in PartEnds(buf, s)[a], c \in CharEnds(ch, s)[b]
        PROVE  c \in PartEnds(longer, s)[a]
    <3>1. b = a + m /\ \A x \in 1..m : s[a + x] = buf[x]
      BY <1>5, <2>2
    <3>2. c = b + 1 /\ s[c] = ch
      BY <1>7, <2>2
    <3>3. c = a + (m + 1)
      BY <1>1, <3>1, <3>2
    <3>4. \A x \in 1..(m + 1) : x = m + 1 \/ x \in 1..m
      BY <1>1
    <3>5. \A x \in 1..(m + 1) : s[a + x] = longer[x]
      BY <1>2, <3>1, <3>2, <3>3, <3>4
    <3> QED
      BY <1>6, <3>3, <3>5
  <2> QED
    BY <2>1, <2>2
<1>10. X \subseteq 0..n
  BY DEF n
<1>11. ASSUME NEW c  PROVE c \in Image(PartEnds(longer, s), X) <=>
                             c \in Image(CharEnds(ch, s), Image(PartEnds(buf, s), X))
  <2>1. c \in Image(PartEnds(longer, s), X) <=> \E a \in X : c \in PartEnds(longer, s)[a]
    BY DEF Image
  <2>2. c \in Image(CharEnds(ch, s), Image(PartEnds(buf, s), X)) <=>
          \E a \in X : \E b \in PartEnds(buf, s)[a] : c \in CharEnds(ch, s)[b]
    BY DEF Image
  <2>3. ASSUME NEW a \in X, c \in PartEnds(longer, s)[a]
        PROVE  \E b \in PartEnds(buf, s)[a] : c \in CharEnds(ch, s)[b]
    <3>1. a \in 0..n /\ c \in 0..n
      BY <1>8, <1>10, <2>3
    <3> QED
      BY <1>9, <2>3, <3>1
  <2>4. ASSUME NEW a \in X, NEW b \in PartEnds(buf, s)[a], c \in CharEnds(ch, s)[b]
        PROVE  c \in PartEnds(longer, s)[a]
    <3>1. a \in 0..n /\ b \in 0..n
      BY <1>8, <1>10
    <3>2. c \in 0..n
      BY <1>8, <2>4, <3>1
    <3> QED
      BY <1>9, <2>4, <3>1, <3>2
  <2> QED
    BY <2>1, <2>2, <2>3, <2>4
<1> QED
  BY <1>11 DEF longer

(* A star is a part of its own. *)
LEMMA StarPart ==
  ASSUME NEW s
  PROVE  PartEnds(Star, s) = CharEnds("*", s)
BY DEF PartEnds, CharEnds

(* Two stars in a row reach what one does. *)
LEMMA StarTwice ==
  ASSUME NEW C, NEW s \in Seq(C), NEW X, X \subseteq 0..Len(s)
  PROVE  Image(CharEnds("*", s), Image(CharEnds("*", s), X)) = Image(CharEnds("*", s), X)
<1> DEFINE n == Len(s)
<1>1. \A a \in 0..n : CharEnds("*", s)[a] = {b \in 0..n : a <= b}
  BY DEF CharEnds
<1>2. n \in Nat
  OBVIOUS
<1> HIDE DEF n
<1>3. X \subseteq 0..n
  BY DEF n
<1>4. \A c : c \in Image(CharEnds("*", s), X) <=> c \in 0..n /\ \E a \in X : a <= c
  BY <1>1, <1>3 DEF Image
<1> DEFINE Y == Image(CharEnds("*", s), X)
<1>5. Y \subseteq 0..n
  BY <1>4
<1> HIDE DEF Y
<1>6. \A c : c \in Image(CharEnds("*", s), Y) <=> c \in 0..n /\ \E a \in Y : a <= c
  BY <1>1, <1>5 DEF Image
<1>7. ASSUME NEW c \in 0..n, NEW b \in Y, b <= c  PROVE \E a \in X : a <= c
  <2>1. PICK a \in X : a <= b
    BY <1>4 DEF Y
  <2>2. a \in 0..n /\ b \in 0..n
    BY <1>3, <1>5
  <2> QED
    BY <1>2, <1>7, <2>1, <2>2
<1>8. ASSUME NEW c \in 0..n, NEW a \in X, a <= c  PROVE \E b \in Y : b <= c
  <2>1. c \in Y
    BY <1>4, <1>8 DEF Y
  <2> QED
    BY <1>2, <2>1
<1>9. \A c : c \in Image(CharEnds("*", s), Y) <=> c \in Y
  BY <1>4, <1>6, <1>7, <1>8 DEF Y
<1> QED
  BY <1>9 DEF Y

-----------------------------------------------------------------------------
(* The parser.  After some characters, what its parts and then the literal in
   hand reach is what those characters reach. *)
ParseState(C) == [parts : Seq(Seq(C)), buf : Seq(C \ {"*"})]

Full(st, s) == Image(PartEnds(st.buf, s), After(st.parts, s))

(* Pushing the buffer as a part changes nothing that is reached. *)
LEMMA CloseFull ==
  ASSUME NEW C, NEW s \in Seq(C), NEW st \in ParseState(C)
  PROVE  /\ Close(st) \in ParseState(C) /\ Close(st).buf = <<>>
         /\ After(Close(st).parts, s) = Full(st, s)
<1>1. st.parts \in Seq(Seq(C)) /\ st.buf \in Seq(C \ {"*"}) /\ st.buf \in Seq(C)
  BY DEF ParseState
<1>2. CASE st.buf = <<>>
  <2>1. Close(st) = st
    BY <1>2 DEF Close
  <2>2. After(st.parts, s) \subseteq 0..Len(s)
    BY AfterType
  <2>3. Full(st, s) = After(st.parts, s)
    BY <1>2, <2>2, EmptyPartStays DEF Full
  <2> QED
    BY <1>2, <2>1, <2>3
<1>3. CASE st.buf # <<>>
  <2>1. Close(st) = [parts |-> Append(st.parts, st.buf), buf |-> <<>>]
    BY <1>3 DEF Close
  <2>2. Append(st.parts, st.buf) \in Seq(Seq(C)) /\ <<>> \in Seq(C \ {"*"})
    BY <1>1
  <2>3. After(Append(st.parts, st.buf), s) = Full(st, s)
    BY <1>1, AfterAppend DEF Full
  <2> QED
    BY <2>1, <2>2, <2>3 DEF ParseState
<1> QED
  BY <1>2, <1>3

(* One character of the pattern takes what is reached that character further. *)
LEMMA ScanFull ==
  ASSUME NEW C, "*" \in C, NEW s \in Seq(C), NEW st \in ParseState(C), NEW ch \in C
  PROVE  /\ Scan(st, ch) \in ParseState(C)
         /\ Full(Scan(st, ch), s) = Image(CharEnds(ch, s), Full(st, s))
<1>1. st.parts \in Seq(Seq(C)) /\ st.buf \in Seq(C \ {"*"})
  BY DEF ParseState
<1>2. CASE ch # "*"
  <2>1. Scan(st, ch) = [parts |-> st.parts, buf |-> Append(st.buf, ch)]
    BY <1>2 DEF Scan, ParseState
  <2>2. Append(st.buf, ch) \in Seq(C \ {"*"})
    BY <1>1, <1>2
  <2>3. After(st.parts, s) \subseteq 0..Len(s)
    BY AfterType
  <2>4. Image(PartEnds(Append(st.buf, ch), s), After(st.parts, s)) = Image(CharEnds(ch, s), Full(st, s))
    <3> DEFINE X == After(st.parts, s)
               b == st.buf
               D == C \ {"*"}
    <3>1. "*" \notin D /\ b \in Seq(D) /\ ch \in D /\ X \in SUBSET (0..Len(s))
      BY <1>1, <1>2, <2>3
    <3>2. Full(st, s) = Image(PartEnds(b, s), X)
      BY DEF Full
    <3> HIDE DEF X, b, D
    <3>3. Image(PartEnds(Append(b, ch), s), X) = Image(CharEnds(ch, s), Image(PartEnds(b, s), X))
      BY <3>1, LongerLiteral
    <3> QED
      BY <3>2, <3>3 DEF X, b
  <2> QED
    BY <1>1, <2>1, <2>2, <2>4 DEF ParseState, Full
<1>3. CASE ch = "*"
  <2> DEFINE c == Close(st)
             X == After(c.parts, s)
  <2>1. c \in ParseState(C) /\ c.buf = <<>> /\ X = Full(st, s)
    BY CloseFull
  <2>2. Scan(st, ch) = IF c.parts # <<>> /\ Last(c.parts) = Star THEN c
                       ELSE [c EXCEPT !.parts = Append(@, Star)]
    BY <1>3 DEF Scan
  <2> HIDE DEF c
  <2>3. c.parts \in Seq(Seq(C)) /\ Star \in Seq(C)
    BY <2>1 DEF ParseState, Star
  <2>4. CASE c.parts # <<>> /\ Last(c.parts) = Star
    <3> DEFINE front == SubSeq(c.parts, 1, Len(c.parts) - 1)
               W == After(front, s)
    <3>1. front \in Seq(Seq(C)) /\ c.parts = Append(front, Star)
      <4>1. c.parts \in Seq(Seq(C)) /\ c.parts # <<>> /\ Len(c.parts) \in Nat /\ Len(c.parts) # 0
        BY <2>3, <2>4
      <4>2. front \in Seq(Seq(C)) /\ Len(front) = Len(c.parts) - 1
        BY <4>1
      <4>3. \A i \in 1..(Len(c.parts) - 1) : front[i] = c.parts[i]
        BY <4>1
      <4>4. c.parts[Len(c.parts)] = Star
        BY <2>4 DEF Last
      <4>5. Append(front, Star) \in Seq(Seq(C)) /\ Len(Append(front, Star)) = Len(c.parts)
        BY <2>3, <4>1, <4>2
      <4>6. \A i \in 1..Len(c.parts) : Append(front, Star)[i] = c.parts[i]
        BY <4>1, <4>2, <4>3, <4>4
      <4> HIDE DEF front
      <4> QED
        BY <4>1, <4>2, <4>5, <4>6, SeqEqual
    <3>2. X = Image(CharEnds("*", s), W)
      BY <2>3, <3>1, AfterAppend, StarPart
    <3>3. W \subseteq 0..Len(s) /\ X \subseteq 0..Len(s)
      BY AfterType
    <3>4. Image(CharEnds("*", s), X) = X
      BY <3>2, <3>3, StarTwice
    <3>5. Scan(st, ch) = c
      BY <2>2, <2>4
    <3>6. Full(c, s) = X
      BY <2>1, <3>3, EmptyPartStays DEF Full
    <3> QED
      BY <1>3, <2>1, <3>4, <3>5, <3>6
  <2>5. CASE ~(c.parts # <<>> /\ Last(c.parts) = Star)
    <3> DEFINE longer == Append(c.parts, Star)
    <3>1. Scan(st, ch) = [c EXCEPT !.parts = longer]
      BY <2>2, <2>5
    <3>2. Scan(st, ch) = [parts |-> longer, buf |-> <<>>]
      BY <2>1, <3>1 DEF ParseState
    <3>3. longer \in Seq(Seq(C)) /\ <<>> \in Seq(C \ {"*"})
      BY <2>3
    <3>4. After(longer, s) = Image(CharEnds("*", s), X)
      BY <2>3, AfterAppend, StarPart
    <3>5. After(longer, s) \subseteq 0..Len(s)
      BY AfterType
    <3> HIDE DEF longer
    <3>6. Full(Scan(st, ch), s) = After(longer, s)
      BY <3>2, <3>5, EmptyPartStays DEF Full
    <3> QED
      BY <1>3, <2>1, <3>2, <3>3, <3>4, <3>6 DEF ParseState
  <2> QED
    BY <2>4, <2>5
<1> QED
  BY <1>2, <1>3

(* GlobMatcher::new: the parts reach what the pattern's characters reach. *)
LEMMA NewReaches ==
  ASSUME NEW C, "*" \in C, NEW p \in Seq(C), NEW s \in Seq(C)
  PROVE  /\ GlobMatcherNew(p) \in Seq(Seq(C))
         /\ After(GlobMatcherNew(p), s) = Reach(CharRel(p, s), Len(s), Len(p))
<1> DEFINE n == Len(p)
           s0 == [parts |-> <<>>, buf |-> <<>>]
           Loop(st) == [k \in 0..n |-> IF k = 0 THEN s0 ELSE Scan(st[k - 1], p[k])]
           step == [k \in 1..n |-> [st \in ParseState(C) |-> Scan(st, p[k])]]
           scan == CHOOSE st : st = Loop(st)
           Prefix(k) == Reach(CharRel(p, s), Len(s), k)
<1>1. n \in Nat /\ s0 \in ParseState(C) /\ Len(s) \in Nat
  BY DEF ParseState
<1>2. \A k \in 1..n, st \in ParseState(C) : Scan(st, p[k]) \in ParseState(C)
  <2>1. \A k \in 1..n : p[k] \in C
    OBVIOUS
  <2> QED
    BY <2>1, ScanFull
<1>3. step \in [1..n -> [ParseState(C) -> ParseState(C)]]
  BY <1>2
<1>4. PICK f : Iterates(f, ParseState(C), s0, n, step)
  BY <1>1, <1>3, RecursionExists, Zenon
<1>5. /\ f \in [0..n -> ParseState(C)] /\ f[0] = s0
      /\ \A k \in 1..n : f[k] = step[k][f[k - 1]]
  BY <1>4 DEF Iterates
<1>6. f = Loop(f)
  <2>1. \A k \in 1..n : k - 1 \in 0..n /\ f[k - 1] \in ParseState(C)
    BY <1>1, <1>5
  <2>2. \A k \in 1..n : f[k] = Scan(f[k - 1], p[k])
    BY <1>5, <2>1
  <2>3. \A k \in 0..n : f[k] = Loop(f)[k]
    BY <1>1, <1>5, <2>2
  <2> QED
    BY <1>5, <2>3
<1>7. scan = Loop(scan)
  BY <1>6
<1>8. GlobMatcherNew(p) = Close(scan[n]).parts
  BY DEF GlobMatcherNew
<1> HIDE DEF scan
<1>9. scan[0] = s0 /\ \A k \in 1..n : scan[k] = Scan(scan[k - 1], p[k])
  <2>1. 0 \in 0..n /\ \A k \in 1..n : k \in 0..n /\ k # 0
    BY <1>1
  <2>2. \A k \in 0..n : scan[k] = IF k = 0 THEN s0 ELSE Scan(scan[k - 1], p[k])
    BY <1>7, Zenon
  <2> QED
    BY <2>1, <2>2
<1> DEFINE T == {k \in Nat : k <= n => scan[k] \in ParseState(C) /\ Full(scan[k], s) = Prefix(k)}
<1>10. 0 \in T
  <2>1. Full(s0, s) = After(<<>>, s)
    BY AfterType, EmptyPartStays DEF Full
  <2>2. Full(s0, s) = {0} /\ Prefix(0) = {0}
    BY <1>1, <2>1, AfterEmpty, ReachZero
  <2> QED
    BY <1>1, <1>9, <2>2
<1>11. ASSUME NEW k \in Nat, k \in T  PROVE k + 1 \in T
  <2> SUFFICES ASSUME k + 1 <= n
               PROVE  scan[k + 1] \in ParseState(C) /\ Full(scan[k + 1], s) = Prefix(k + 1)
    OBVIOUS
  <2>1. k + 1 \in 1..n /\ (k + 1) - 1 = k
    BY <1>1
  <2>2. scan[k] \in ParseState(C) /\ Full(scan[k], s) = Prefix(k)
    BY <1>11, <2>1
  <2>3. scan[k + 1] = Scan(scan[k], p[k + 1]) /\ p[k + 1] \in C
    BY <1>9, <2>1
  <2>4. scan[k + 1] \in ParseState(C) /\ Full(scan[k + 1], s) = Image(CharEnds(p[k + 1], s), Prefix(k))
    BY <2>2, <2>3, ScanFull
  <2>5. CharRel(p, s)[k + 1] = CharEnds(p[k + 1], s)
    BY <2>1 DEF CharRel
  <2>6. CharRel(p, s)[k + 1] \in [0..Len(s) -> SUBSET (0..Len(s))]
    BY <2>5, CharEndsType
  <2>7. Prefix(k + 1) = Image(CharRel(p, s)[k + 1], Prefix(k))
    BY <1>1, <2>6, ReachStep
  <2> QED
    BY <2>4, <2>5, <2>7
<1> HIDE DEF T
<1>12. n \in T
  BY <1>1, <1>10, <1>11, SetInduction
<1>13. scan[n] \in ParseState(C) /\ Full(scan[n], s) = Prefix(n)
  BY <1>1, <1>12 DEF T
<1>14. Close(scan[n]) \in ParseState(C) /\ After(Close(scan[n]).parts, s) = Prefix(n)
  BY <1>13, CloseFull
<1> QED
  BY <1>8, <1>14 DEF ParseState

-----------------------------------------------------------------------------
(* The matcher.  Row i of match_parts, from the row below it. *)
MatchRow(parts, s, i, row) ==
  [j \in 1..(Len(s) + 1) |->
     IF i > Len(parts) THEN j > Len(s)
     ELSE IF parts[i] = Star THEN i = Len(parts) \/ \E k \in j..(Len(s) + 1) : row[k]
     ELSE IsPrefix(parts[i], SubSeq(s, j, Len(s))) /\ row[j + Len(parts[i])]]

Rows(s) == [1..(Len(s) + 1) -> BOOLEAN]

(* A row of the table has one answer for every rest of the string. *)
LEMMA MatchRowType ==
  ASSUME NEW C, NEW s \in Seq(C), NEW parts \in Seq(Seq(C)), NEW i \in Nat, NEW row
  PROVE  MatchRow(parts, s, i, row) \in Rows(s)
<1> DEFINE Cell(j) ==
             IF i > Len(parts) THEN j > Len(s)
             ELSE IF parts[i] = Star THEN i = Len(parts) \/ \E k \in j..(Len(s) + 1) : row[k]
             ELSE IsPrefix(parts[i], SubSeq(s, j, Len(s))) /\ row[j + Len(parts[i])]
<1>1. ASSUME NEW j \in 1..(Len(s) + 1)  PROVE Cell(j) \in BOOLEAN
  <2>1. CASE i > Len(parts)
    BY <2>1
  <2>2. CASE ~(i > Len(parts)) /\ parts[i] = Star
    BY <2>2, Zenon
  <2>3. CASE ~(i > Len(parts)) /\ parts[i] # Star
    BY <2>3, Zenon
  <2> QED
    BY <2>1, <2>2, <2>3
<1>2. MatchRow(parts, s, i, row) = [j \in 1..(Len(s) + 1) |-> Cell(j)]
  BY DEF MatchRow
<1> HIDE DEF Cell
<1> QED
  BY <1>1, <1>2 DEF Rows

MatchTable(m, parts, s) ==
  \A i \in 1..(Len(parts) + 1) : m[i] = MatchRow(parts, s, i, m[i + 1])

(* match_parts is the first entry of rows that follow one another. *)
LEMMA MatchRows ==
  ASSUME NEW C, NEW s \in Seq(C), NEW parts \in Seq(Seq(C))
  PROVE  \E m : MatchParts(parts, s) = m[1][1] /\ MatchTable(m, parts, s)
<1> DEFINE n == Len(parts)
           s0 == MatchRow(parts, s, n + 1, <<>>)
           step == [k \in 1..n |-> [row \in Rows(s) |-> MatchRow(parts, s, n + 1 - k, row)]]
           Loop(m) == [i \in 1..(n + 1) |-> MatchRow(parts, s, i, m[i + 1])]
           rows == CHOOSE m : m = Loop(m)
<1>1. n \in Nat
  OBVIOUS
<1>2. s0 \in Rows(s)
  BY <1>1, MatchRowType
<1>3. step \in [1..n -> [Rows(s) -> Rows(s)]]
  <2>1. \A k \in 1..n : n + 1 - k \in Nat
    BY <1>1
  <2>2. \A k \in 1..n, row \in Rows(s) : MatchRow(parts, s, n + 1 - k, row) \in Rows(s)
    BY <2>1, MatchRowType
  <2> QED
    BY <2>2
<1>4. PICK f : Iterates(f, Rows(s), s0, n, step)
  BY <1>1, <1>2, <1>3, RecursionExists, Zenon
<1>5. /\ f \in [0..n -> Rows(s)] /\ f[0] = s0
      /\ \A k \in 1..n : f[k] = step[k][f[k - 1]]
  BY <1>4 DEF Iterates
<1>6. \A k \in 1..n : f[k] = MatchRow(parts, s, n + 1 - k, f[k - 1])
  <2> SUFFICES ASSUME NEW k \in 1..n
               PROVE  f[k] = MatchRow(parts, s, n + 1 - k, f[k - 1])
    OBVIOUS
  <2>1. k - 1 \in 0..n
    BY <1>1
  <2> DEFINE row == f[k - 1]
  <2>2. row \in Rows(s)
    BY <1>5, <2>1, Zenon
  <2>3. f[k] = step[k][row]
    BY <1>5
  <2> HIDE DEF row
  <2>4. step[k][row] = MatchRow(parts, s, n + 1 - k, row)
    BY <2>2
  <2> QED
    BY <2>3, <2>4 DEF row
<1> DEFINE m == [i \in 1..(n + 1) |-> f[n + 1 - i]]
<1>7. \A i \in 1..(n + 1) : m[i] = MatchRow(parts, s, i, m[i + 1])
  <2> SUFFICES ASSUME NEW i \in 1..(n + 1)  PROVE m[i] = MatchRow(parts, s, i, m[i + 1])
    OBVIOUS
  <2>1. CASE i = n + 1
    <3>1. m[i] = s0
      BY <1>1, <1>5, <2>1
    <3>2. n + 1 > Len(parts)
      OBVIOUS
    <3>3. \A row : MatchRow(parts, s, n + 1, row) = [j \in 1..(Len(s) + 1) |-> j > Len(s)]
      BY <3>2 DEF MatchRow
    <3> QED
      BY <2>1, <3>1, <3>3
  <2>2. CASE i # n + 1
    <3>1. n + 1 - i \in 1..n /\ n + 1 - (n + 1 - i) = i /\ (n + 1 - i) - 1 = n + 1 - (i + 1) /\ i + 1 \in 1..(n + 1)
      BY <1>1, <2>2
    <3>2. m[i] = f[n + 1 - i] /\ m[i + 1] = f[n + 1 - (i + 1)]
      BY <3>1
    <3> HIDE DEF m, n
    <3> QED
      BY <1>6, <3>1, <3>2
  <2> QED
    BY <2>1, <2>2
<1> HIDE DEF m
<1>8. m = Loop(m)
  <2>1. m = [i \in 1..(n + 1) |-> m[i]]
    BY DEF m
  <2> QED
    BY <1>7, <2>1
<1>9. rows = Loop(rows)
  BY <1>8
<1>10. MatchParts(parts, s) = rows[1][1]
  BY DEF MatchParts, MatchRow
<1> HIDE DEF rows
<1>11. \A i \in 1..(n + 1) : rows[i] = MatchRow(parts, s, i, rows[i + 1])
  BY <1>9, Zenon
<1> QED
  BY <1>10, <1>11, Zenon DEF MatchTable

(* A literal comes first in the rest of a string iff its characters are there. *)
LEMMA PrefixOfRest ==
  ASSUME NEW C, NEW s \in Seq(C), NEW part \in Seq(C), NEW c \in 0..Len(s)
  PROVE  IsPrefix(part, SubSeq(s, c + 1, Len(s))) <=>
           c + Len(part) <= Len(s) /\ \A x \in 1..Len(part) : s[c + x] = part[x]
<1> DEFINE n == Len(s)
           l == Len(part)
           rest == SubSeq(s, c + 1, n)
<1>1. n \in Nat /\ l \in Nat /\ c \in Nat /\ c <= n
  OBVIOUS
<1>2. rest \in Seq(C) /\ Len(rest) = n - c
  BY <1>1
<1>3. \A x \in 1..(n - c) : rest[x] = s[c + x]
  BY <1>1
<1>4. SubSeq(part, 1, l) = part
  BY <1>1
<1>5. IsPrefix(part, rest) <=> l <= Len(rest) /\ SubSeq(part, 1, l) = SubSeq(rest, 1, l)
  BY DEF IsPrefix
<1> HIDE DEF rest, n, l
<1>6. l <= Len(rest) <=> c + l <= n
  BY <1>1, <1>2
<1>7. ASSUME c + l <= n
      PROVE  part = SubSeq(rest, 1, l) <=> \A x \in 1..l : s[c + x] = part[x]
  <2> DEFINE top == SubSeq(rest, 1, l)
  <2>1. l <= Len(rest) /\ l \in Nat
    BY <1>1, <1>6, <1>7
  <2>2. top \in Seq(C) /\ Len(top) = l
    BY <1>2, <2>1
  <2>3. \A x \in 1..l : top[x] = rest[x] /\ x \in 1..(n - c)
    BY <1>1, <1>2, <2>1
  <2>4. \A x \in 1..l : top[x] = s[c + x]
    BY <1>3, <2>3
  <2> HIDE DEF top
  <2>5. part \in Seq(C) /\ Len(part) = l
    BY DEF l
  <2>6. (\A x \in 1..l : part[x] = top[x]) => part = top
    BY <2>2, <2>5, SeqEqual
  <2>7. part = top <=> \A x \in 1..l : s[c + x] = part[x]
    BY <2>4, <2>6
  <2> QED
    BY <2>7 DEF top
<1>8. IsPrefix(part, rest) <=> c + l <= n /\ \A x \in 1..l : s[c + x] = part[x]
  BY <1>4, <1>5, <1>6, <1>7
<1> QED
  BY <1>8 DEF rest, n, l

(* One part of match_parts: it matches here iff it may end somewhere from
   where the parts after it match. *)
LEMMA MatchOnePart ==
  ASSUME NEW C, NEW s \in Seq(C), NEW parts \in Seq(Seq(C)), NEW m,
         MatchTable(m, parts, s),
         NEW i \in 1..Len(parts), NEW c \in 0..Len(s)
  PROVE  m[i][c + 1] <=> \E b \in PartEnds(parts[i], s)[c] : m[i + 1][b + 1]
<1> DEFINE n == Len(s)
           part == parts[i]
           row == m[i + 1]
<1>1. n \in Nat /\ c + 1 \in 1..(n + 1) /\ Len(parts) \in Nat /\ i \in 1..(Len(parts) + 1) /\ ~(i > Len(parts))
  OBVIOUS
<1>2. part \in Seq(C) /\ Len(part) \in Nat
  OBVIOUS
<1>3. m[i] = MatchRow(parts, s, i, row)
  BY <1>1 DEF MatchTable
<1>4. m[i][c + 1] <=> IF part = Star THEN i = Len(parts) \/ \E k \in (c + 1)..(n + 1) : row[k]
                      ELSE IsPrefix(part, SubSeq(s, c + 1, n)) /\ row[(c + 1) + Len(part)]
  BY <1>1, <1>3 DEF MatchRow
<1>5. ASSUME part = Star, NEW b \in 0..n  PROVE b \in PartEnds(part, s)[c] <=> c <= b
  BY <1>5 DEF PartEnds
<1>6. PartEnds(part, s)[c] \subseteq 0..n
  BY PartEndsType
<1>7. CASE part = Star /\ i = Len(parts)
  <2>1. n \in 0..n /\ c <= n
    BY <1>1
  <2>2. n \in PartEnds(part, s)[c]
    BY <1>5, <1>7, <2>1
  <2>3. i + 1 \in 1..(Len(parts) + 1) /\ i + 1 > Len(parts) /\ n + 1 \in 1..(n + 1) /\ n + 1 > n
    BY <1>1, <1>7
  <2>4. row = MatchRow(parts, s, i + 1, m[i + 2])
    <3>1. (i + 1) + 1 = i + 2
      OBVIOUS
    <3> QED
      BY <2>3, <3>1 DEF MatchTable
  <2>5. row[n + 1] <=> n + 1 > n
    BY <2>3, <2>4 DEF MatchRow
  <2> HIDE DEF n, row, part
  <2>6. m[i][c + 1]
    BY <1>4, <1>7
  <2>7. \E b \in PartEnds(part, s)[c] : row[b + 1]
    BY <2>2, <2>3, <2>5
  <2> QED
    BY <2>6, <2>7 DEF row, part
<1>8. CASE part = Star /\ i # Len(parts)
  <2> HIDE DEF n, row, part
  <2>1. m[i][c + 1] <=> \E k \in (c + 1)..(n + 1) : row[k]
    BY <1>4, <1>8
  <2>2. ASSUME NEW k \in (c + 1)..(n + 1), row[k]
        PROVE  \E b \in PartEnds(part, s)[c] : row[b + 1]
    <3>1. c \in 0..n
      BY DEF n
    <3>2. k - 1 \in 0..n /\ c <= k - 1 /\ (k - 1) + 1 = k
      BY <1>1, <3>1
    <3>3. k - 1 \in PartEnds(part, s)[c]
      BY <1>5, <1>8, <3>2
    <3> QED
      BY <2>2, <3>2, <3>3
  <2>3. ASSUME NEW b \in PartEnds(part, s)[c], row[b + 1]
        PROVE  \E k \in (c + 1)..(n + 1) : row[k]
    <3>1. b \in 0..n
      BY <1>6
    <3>2. c <= b /\ c \in 0..n
      BY <1>5, <1>8, <3>1 DEF n
    <3>3. b + 1 \in (c + 1)..(n + 1)
      BY <1>1, <3>1, <3>2
    <3> QED
      BY <2>3, <3>3
  <2> QED
    BY <2>1, <2>2, <2>3 DEF row, part
<1>9. CASE part # Star
  <2> DEFINE l == Len(part)
             Here == \A x \in 1..l : s[c + x] = part[x]
  <2>1. IsPrefix(part, SubSeq(s, c + 1, n)) <=> c + l <= n /\ Here
    <3> HIDE DEF part
    <3> QED
      BY <1>2, PrefixOfRest
  <2>2. \A b \in 0..n : b \in PartEnds(part, s)[c] <=> b = c + l /\ Here
    BY <1>9 DEF PartEnds
  <2>3. l \in Nat /\ c \in Nat /\ (c + 1) + l = (c + l) + 1
    <3>1. l \in Nat /\ c \in Nat
      BY <1>2
    <3> HIDE DEF l
    <3> QED
      BY <3>1
  <2> HIDE DEF n, row, part, l, Here
  <2>4. m[i][c + 1] <=> c + l <= n /\ Here /\ row[(c + l) + 1]
    BY <1>4, <1>9, <2>1, <2>3 DEF l
  <2>5. c + l <= n => c + l \in 0..n
    BY <1>1, <2>3
  <2>6. ASSUME m[i][c + 1]  PROVE \E b \in PartEnds(part, s)[c] : row[b + 1]
    BY <2>2, <2>4, <2>5, <2>6
  <2>7. ASSUME NEW b \in PartEnds(part, s)[c], row[b + 1]  PROVE m[i][c + 1]
    <3>1. b \in 0..n
      BY <1>6
    <3>2. b = c + l /\ Here
      BY <2>2, <3>1
    <3>3. c + l <= n
      BY <1>1, <3>1, <3>2
    <3> QED
      BY <2>4, <2>7, <3>2, <3>3
  <2> QED
    BY <2>6, <2>7 DEF row, part
<1> QED
  BY <1>7, <1>8, <1>9

(* match_parts accepts the strings its parts reach the end of. *)
LEMMA MatchReaches ==
  ASSUME NEW C, NEW s \in Seq(C), NEW parts \in Seq(Seq(C))
  PROVE  MatchParts(parts, s) <=> Len(s) \in After(parts, s)
<1> DEFINE n == Len(s)
           p == Len(parts)
           G(k) == Reach(PartRel(parts, s), n, k)
<1>1. PICK m : MatchParts(parts, s) = m[1][1] /\ MatchTable(m, parts, s)
  BY MatchRows
<1>2. n \in Nat /\ p \in Nat
  OBVIOUS
<1> DEFINE T == {k \in Nat : k <= p => ((\E c \in G(k) : m[k + 1][c + 1]) <=> m[1][1])}
<1>3. 0 \in T
  <2>1. G(0) = {0}
    BY <1>2, ReachZero
  <2> HIDE DEF G
  <2>2. 0 + 1 = 1
    OBVIOUS
  <2>3. (\E c \in G(0) : m[0 + 1][c + 1]) <=> m[1][1]
    BY <2>1, <2>2, Zenon
  <2> QED
    BY <2>3
<1>4. ASSUME NEW k \in Nat, k \in T  PROVE k + 1 \in T
  <2> SUFFICES ASSUME k + 1 <= p
               PROVE  (\E c \in G(k + 1) : m[(k + 1) + 1][c + 1]) <=> m[1][1]
    OBVIOUS
  <2>1. k + 1 \in 1..p /\ k <= p
    BY <1>2
  <2>2. (\E c \in G(k) : m[k + 1][c + 1]) <=> m[1][1]
    BY <1>4, <2>1
  <2> DEFINE r == PartRel(parts, s)[k + 1]
  <2>3. r = PartEnds(parts[k + 1], s)
    BY <2>1 DEF PartRel
  <2>4. r \in [0..n -> SUBSET (0..n)]
    BY <2>3, PartEndsType
  <2>5. G(k + 1) = Image(r, G(k))
    BY <1>2, <2>4, ReachStep
  <2>6. G(k) \subseteq 0..n
    BY DEF Reach
  <2>7. \A c \in 0..n : m[k + 1][c + 1] <=> \E b \in r[c] : m[(k + 1) + 1][b + 1]
    <3> SUFFICES ASSUME NEW c \in 0..n
                 PROVE  m[k + 1][c + 1] <=> \E b \in r[c] : m[(k + 1) + 1][b + 1]
      OBVIOUS
    <3> DEFINE i == k + 1
    <3>1. i \in 1..Len(parts) /\ c \in 0..Len(s)
      BY <2>1
    <3> HIDE DEF i
    <3>2. m[i][c + 1] <=> \E b \in PartEnds(parts[i], s)[c] : m[i + 1][b + 1]
      BY <1>1, <3>1, MatchOnePart
    <3> QED
      BY <2>3, <3>2 DEF i
  <2> HIDE DEF G, r
  <2>8. \A b : b \in G(k + 1) <=> \E c \in G(k) : b \in r[c]
    BY <2>5 DEF Image
  <2>9. (\E c \in G(k) : m[k + 1][c + 1]) <=> \E c \in G(k) : \E b \in r[c] : m[(k + 1) + 1][b + 1]
    BY <2>6, <2>7
  <2>10. (\E c \in G(k) : \E b \in r[c] : m[(k + 1) + 1][b + 1]) <=> \E b \in G(k + 1) : m[(k + 1) + 1][b + 1]
    BY <2>8, Zenon
  <2> QED
    BY <2>2, <2>9, <2>10
<1> HIDE DEF T
<1>5. p \in T
  BY <1>2, <1>3, <1>4, SetInduction
<1>6. (\E c \in G(p) : m[p + 1][c + 1]) <=> m[1][1]
  BY <1>2, <1>5 DEF T
<1>7. \A c \in 0..n : m[p + 1][c + 1] <=> c = n
  <2>1. m[p + 1] = MatchRow(parts, s, p + 1, m[p + 2])
    <3>1. p + 1 \in 1..(p + 1) /\ (p + 1) + 1 = p + 2
      BY <1>2
    <3> QED
      BY <1>1, <3>1 DEF MatchTable
  <2>2. p + 1 > Len(parts)
    BY <1>2
  <2>3. MatchRow(parts, s, p + 1, m[p + 2]) = [j \in 1..(n + 1) |-> j > n]
    BY <2>2 DEF MatchRow
  <2> HIDE DEF n
  <2>4. \A c \in 0..n : c + 1 \in 1..(n + 1) /\ (c + 1 > n <=> c = n)
    BY <1>2
  <2> QED
    BY <2>1, <2>3, <2>4
<1>8. G(p) \subseteq 0..n /\ G(p) = After(parts, s)
  BY DEF Reach, After
<1> HIDE DEF G, n
<1>9. (\E c \in G(p) : m[p + 1][c + 1]) <=> n \in G(p)
  BY <1>7, <1>8
<1> QED
  BY <1>1, <1>6, <1>8, <1>9 DEF n

(* `.bus sub`'s matcher accepts exactly the topics its pattern means, for
   patterns and topics of any length: merging stars, cutting the pattern into
   parts and backtracking over every rest of the topic lose and add nothing. *)
THEOREM GlobMatchesMeans ==
  ASSUME NEW C, "*" \in C, NEW p \in Seq(C), NEW s \in Seq(C)
  PROVE  GlobMatches(p, s) <=> GlobMeans(p, s)
<1> DEFINE parts == GlobMatcherNew(p)
<1>1. parts \in Seq(Seq(C)) /\ After(parts, s) = Reach(CharRel(p, s), Len(s), Len(p))
  BY NewReaches
<1>2. GlobMatches(p, s) = MatchParts(parts, s)
  BY DEF GlobMatches
<1> HIDE DEF parts
<1>3. MatchParts(parts, s) <=> Len(s) \in After(parts, s)
  BY <1>1, MatchReaches
<1>4. GlobMeans(p, s) <=> Len(s) \in Reach(CharRel(p, s), Len(s), Len(p))
  BY MeansReach
<1> QED
  BY <1>1, <1>2, <1>3, <1>4

-----------------------------------------------------------------------------
(* Concatenation: f[k] is what the first k pieces are together. *)
FlatTable(f, ss, E) ==
  /\ f \in [0..Len(ss) -> Seq(E)] /\ f[0] = <<>>
  /\ \A k \in 1..Len(ss) : f[k] = f[k - 1] \o ss[k]

(* The recursion of FlattenSeq has a solution, and this is it. *)
LEMMA FlattenTable ==
  ASSUME NEW E, NEW ss \in Seq(Seq(E))
  PROVE  \E f : FlatTable(f, ss, E) /\ FlattenSeq(ss) = f[Len(ss)]
<1> DEFINE n == Len(ss)
           step == [k \in 1..n |-> [acc \in Seq(E) |-> acc \o ss[k]]]
           Loop(g) == [i \in 1..n |-> IF i = 1 THEN ss[i] ELSE g[i - 1] \o ss[i]]
           flat == CHOOSE g : g = Loop(g)
<1>1. n \in Nat /\ <<>> \in Seq(E) /\ \A k \in 1..n : ss[k] \in Seq(E)
  OBVIOUS
<1>2. step \in [1..n -> [Seq(E) -> Seq(E)]]
  <2>1. \A k \in 1..n, acc \in Seq(E) : acc \o ss[k] \in Seq(E)
    BY <1>1
  <2> QED
    BY <2>1
<1>3. PICK f : Iterates(f, Seq(E), <<>>, n, step)
  BY <1>1, <1>2, RecursionExists, Zenon
<1>4. /\ f \in [0..n -> Seq(E)] /\ f[0] = <<>>
      /\ \A k \in 1..n : f[k] = step[k][f[k - 1]]
  BY <1>3 DEF Iterates
<1>5. \A k \in 1..n : k - 1 \in 0..n /\ f[k - 1] \in Seq(E) /\ f[k] = f[k - 1] \o ss[k]
  <2> SUFFICES ASSUME NEW k \in 1..n
               PROVE  k - 1 \in 0..n /\ f[k - 1] \in Seq(E) /\ f[k] = f[k - 1] \o ss[k]
    OBVIOUS
  <2>1. k - 1 \in 0..n
    BY <1>1
  <2>2. f[k - 1] \in Seq(E)
    BY <1>4, <2>1
  <2> QED
    BY <1>4, <2>1, <2>2
<1>6. FlatTable(f, ss, E)
  BY <1>4, <1>5 DEF FlatTable
<1> DEFINE g == [i \in 1..n |-> f[i]]
<1>7. g = Loop(g)
  <2>1. \A i \in 1..n : g[i] = IF i = 1 THEN ss[i] ELSE g[i - 1] \o ss[i]
    <3> SUFFICES ASSUME NEW i \in 1..n  PROVE g[i] = IF i = 1 THEN ss[i] ELSE g[i - 1] \o ss[i]
      OBVIOUS
    <3>1. CASE i = 1
      <4>1. f[1] = <<>> \o ss[1]
        <5>1. 1 \in 1..n
          BY <3>1
        <5>2. f[1] = f[1 - 1] \o ss[1]
          BY <1>5, <5>1, Zenon
        <5>3. 1 - 1 = 0
          OBVIOUS
        <5> QED
          BY <1>4, <5>2, <5>3, Zenon
      <4> QED
        BY <1>1, <3>1, <4>1, ConcatEmptySeq
    <3>2. CASE i # 1
      <4>1. i - 1 \in 1..n
        BY <3>2
      <4> QED
        BY <1>5, <3>2, <4>1
    <3> QED
      BY <3>1, <3>2
  <2>2. g = [i \in 1..n |-> g[i]]
    OBVIOUS
  <2> HIDE DEF g
  <2> QED
    BY <2>1, <2>2
<1>8. flat = Loop(flat)
  <2> HIDE DEF g
  <2> QED
    BY <1>7
<1> HIDE DEF flat
<1>9. \A i \in 1..n : flat[i] = IF i = 1 THEN ss[i] ELSE flat[i - 1] \o ss[i]
  BY <1>8, Zenon
<1> DEFINE T == {k \in Nat : k + 1 <= n => flat[k + 1] = f[k + 1]}
<1>10. 0 \in T
  <2> SUFFICES ASSUME 0 + 1 <= n  PROVE flat[0 + 1] = f[0 + 1]
    OBVIOUS
  <2>1. 1 \in 1..n
    BY <1>1
  <2>2. f[1] = f[0] \o ss[1]
    <3>1. f[1] = f[1 - 1] \o ss[1]
      BY <1>5, <2>1, Zenon
    <3>2. 1 - 1 = 0
      OBVIOUS
    <3> QED
      BY <3>1, <3>2, Zenon
  <2> QED
    BY <1>1, <1>4, <1>9, <2>1, <2>2, ConcatEmptySeq
<1>11. ASSUME NEW k \in Nat, k \in T  PROVE k + 1 \in T
  <2> SUFFICES ASSUME (k + 1) + 1 <= n  PROVE flat[(k + 1) + 1] = f[(k + 1) + 1]
    OBVIOUS
  <2> DEFINE i == (k + 1) + 1
  <2>1. i \in 1..n /\ i # 1 /\ i - 1 = k + 1 /\ k + 1 <= n
    BY <1>1
  <2>2. flat[k + 1] = f[k + 1]
    BY <1>11, <2>1
  <2> HIDE DEF i
  <2>3. flat[i] = flat[i - 1] \o ss[i] /\ f[i] = f[i - 1] \o ss[i]
    BY <1>5, <1>9, <2>1
  <2>4. flat[i] = f[i]
    BY <2>1, <2>2, <2>3
  <2> QED
    BY <2>4 DEF i
<1> HIDE DEF T
<1>12. Nat \subseteq T
  BY <1>10, <1>11, SetInduction
<1>13. FlattenSeq(ss) = f[n]
  <2>1. CASE n = 0
    <3>1. ss = <<>>
      BY <2>1
    <3> QED
      BY <1>4, <2>1, <3>1 DEF FlattenSeq
  <2>2. CASE n # 0
    <3>1. FlattenSeq(ss) = flat[n]
      BY <2>2 DEF FlattenSeq, flat
    <3>2. n - 1 \in Nat /\ (n - 1) + 1 = n
      BY <1>1, <2>2
    <3>3. n - 1 \in T
      BY <1>12, <3>2
    <3> QED
      BY <3>1, <3>2, <3>3 DEF T
  <2> QED
    BY <2>1, <2>2
<1> QED
  BY <1>6, <1>13

(* Pieces that agree are the same together. *)
LEMMA FlatTableSame ==
  ASSUME NEW E, NEW ss \in Seq(Seq(E)), NEW tt \in Seq(Seq(E)), NEW f, NEW g,
         FlatTable(f, ss, E), FlatTable(g, tt, E),
         NEW n \in 0..Len(ss), n <= Len(tt), \A k \in 1..n : ss[k] = tt[k]
  PROVE  f[n] = g[n]
<1> DEFINE T == {k \in Nat : k <= n => f[k] = g[k]}
<1>1. 0 \in T
  BY DEF FlatTable
<1>2. ASSUME NEW k \in Nat, k \in T  PROVE k + 1 \in T
  <2> SUFFICES ASSUME k + 1 <= n  PROVE f[k + 1] = g[k + 1]
    OBVIOUS
  <2>1. k + 1 \in 1..Len(ss) /\ k + 1 \in 1..Len(tt) /\ k + 1 \in 1..n /\ (k + 1) - 1 = k /\ k <= n
    OBVIOUS
  <2>2. f[k + 1] = f[k] \o ss[k + 1]
    BY <2>1 DEF FlatTable
  <2>3. g[k + 1] = g[k] \o tt[k + 1]
    BY <2>1 DEF FlatTable
  <2> QED
    BY <1>2, <2>1, <2>2, <2>3
<1> HIDE DEF T
<1>3. n \in Nat
  OBVIOUS
<1>4. n \in T
  BY <1>1, <1>2, <1>3, SetInduction
<1> QED
  BY <1>4 DEF T

(* No piece, nothing. *)
LEMMA FlattenEmpty == FlattenSeq(<<>>) = <<>>
BY DEF FlattenSeq

(* Pieces over E are a sequence over E together. *)
LEMMA FlattenType ==
  ASSUME NEW E, NEW ss \in Seq(Seq(E))
  PROVE  FlattenSeq(ss) \in Seq(E)
<1>1. PICK f : FlatTable(f, ss, E) /\ FlattenSeq(ss) = f[Len(ss)]
  BY FlattenTable
<1>2. Len(ss) \in 0..Len(ss)
  OBVIOUS
<1> QED
  BY <1>1, <1>2 DEF FlatTable

(* One more piece comes last. *)
LEMMA FlattenAppend ==
  ASSUME NEW E, NEW ss \in Seq(Seq(E)), NEW t \in Seq(E)
  PROVE  FlattenSeq(Append(ss, t)) = FlattenSeq(ss) \o t
<1> DEFINE n == Len(ss)
           tt == Append(ss, t)
<1>1. n \in Nat /\ tt \in Seq(Seq(E)) /\ Len(tt) = n + 1
  OBVIOUS
<1>2. tt[n + 1] = t /\ \A k \in 1..n : ss[k] = tt[k]
  OBVIOUS
<1>3. PICK f : FlatTable(f, ss, E) /\ FlattenSeq(ss) = f[n]
  BY FlattenTable
<1> HIDE DEF tt
<1>4. PICK g : FlatTable(g, tt, E) /\ FlattenSeq(tt) = g[Len(tt)]
  BY <1>1, FlattenTable
<1>5. n \in 0..n /\ n <= Len(tt)
  BY <1>1
<1>6. f[n] = g[n]
  <2> HIDE DEF n
  <2>1. n \in 0..Len(ss)
    BY <1>5 DEF n
  <2> QED
    BY <1>1, <1>2, <1>3, <1>4, <1>5, <2>1, FlatTableSame
<1>7. g[n + 1] = g[n] \o tt[n + 1]
  <2>1. n + 1 \in 1..Len(tt) /\ (n + 1) - 1 = n
    BY <1>1
  <2> QED
    BY <1>4, <2>1 DEF FlatTable
<1>8. FlattenSeq(tt) = FlattenSeq(ss) \o t
  BY <1>1, <1>2, <1>3, <1>4, <1>6, <1>7
<1> QED
  BY <1>8 DEF tt

(* A function on 1..n is a sequence; one more argument is one more element. *)
LEMMA MapIsSeq ==
  ASSUME NEW S, NEW n \in Nat, NEW h \in [1..n -> S]
  PROVE  h \in Seq(S) /\ Len(h) = n
<1>1. h \in Seq(S)
  BY SeqDef
<1>2. DOMAIN h = 1..n /\ DOMAIN h = 1..Len(h) /\ Len(h) \in Nat
  BY <1>1
<1> QED
  BY <1>1, <1>2

(* Two such functions that agree on 1..n differ by the last element. *)
LEMMA MapAppend ==
  ASSUME NEW S, NEW n \in Nat, NEW h \in [1..n -> S], NEW g \in [1..(n + 1) -> S],
         \A k \in 1..n : g[k] = h[k]
  PROVE  g = Append(h, g[n + 1])
<1> DEFINE a == Append(h, g[n + 1])
<1>1. h \in Seq(S) /\ Len(h) = n
  BY MapIsSeq
<1>2. n + 1 \in Nat /\ n + 1 \in 1..(n + 1)
  OBVIOUS
<1>3. g \in Seq(S) /\ Len(g) = n + 1 /\ g[n + 1] \in S
  BY <1>2, MapIsSeq
<1>4. a \in Seq(S) /\ Len(a) = n + 1
  BY <1>1, <1>3
<1>5. \A k \in 1..(n + 1) : g[k] = a[k]
  <2> SUFFICES ASSUME NEW k \in 1..(n + 1)  PROVE g[k] = a[k]
    OBVIOUS
  <2>1. CASE k = n + 1
    BY <1>1, <1>3, <2>1
  <2>2. CASE k # n + 1
    <3>1. k \in 1..n
      BY <2>2
    <3>2. a[k] = h[k]
      BY <1>1, <1>3, <3>1
    <3> QED
      BY <3>1, <3>2
  <2> QED
    BY <2>1, <2>2
<1> HIDE DEF a
<1>6. g = a
  BY <1>3, <1>4, <1>5, SeqEqual
<1> QED
  BY <1>6 DEF a

(* Concatenation may be regrouped. *)
Regroups(x, y, z) == (x \o y) \o z = x \o (y \o z)

(* Concatenation is associative. *)
LEMMA Regroup ==
  ASSUME NEW S, NEW x \in Seq(S), NEW y \in Seq(S), NEW z \in Seq(S)
  PROVE  Regroups(x, y, z)
BY ConcatAssociative DEF Regroups

(* What is appended to the second of two sequences is appended to both. *)
LEMMA ConcatAppend ==
  ASSUME NEW S, NEW s \in Seq(S), NEW t \in Seq(S), NEW e \in S
  PROVE  s \o Append(t, e) = Append(s \o t, e)
<1>1. <<e>> \in Seq(S) /\ s \o t \in Seq(S)
  OBVIOUS
<1>2. Append(t, e) = t \o <<e>> /\ Append(s \o t, e) = (s \o t) \o <<e>>
  BY <1>1, AppendIsConcat
<1>3. s \o (t \o <<e>>) = (s \o t) \o <<e>>
  BY <1>1, ConcatAssociative
<1> QED
  BY <1>2, <1>3

-----------------------------------------------------------------------------
(* Texts with an LF after each, piece by piece. *)
LEMMA EndedEmpty == Ended(<<>>) = <<>>
<1> DEFINE h == [k \in 1..Len(<<>>) |-> Append(<<>>[k], "LF")]
<1>1. 1..Len(<<>>) = 1..0 /\ 1..0 = {}
  OBVIOUS
<1>2. h \in [1..0 -> {}]
  BY <1>1
<1>3. h \in Seq({}) /\ Len(h) = 0
  <2> HIDE DEF h
  <2>1. 0 \in Nat
    OBVIOUS
  <2> QED
    BY <1>2, <2>1, MapIsSeq
<1>4. h = <<>>
  <2> HIDE DEF h
  <2> QED
    BY <1>3, EmptySeq
<1>5. Ended(<<>>) = FlattenSeq(h)
  BY DEF Ended
<1> QED
  BY <1>4, <1>5, FlattenEmpty, Zenon

(* One more text, with its LF, comes last. *)
LEMMA EndedAppend ==
  ASSUME NEW E, "LF" \in E, NEW ts \in Seq(Seq(E)), NEW t \in Seq(E)
  PROVE  Ended(Append(ts, t)) = Ended(ts) \o Append(t, "LF")
<1> DEFINE n == Len(ts)
           us == Append(ts, t)
           h == [k \in 1..n |-> Append(ts[k], "LF")]
           g == [k \in 1..(n + 1) |-> Append(us[k], "LF")]
<1>1. n \in Nat /\ us \in Seq(Seq(E)) /\ Len(us) = n + 1
  OBVIOUS
<1>2. us[n + 1] = t /\ \A k \in 1..n : us[k] = ts[k]
  OBVIOUS
<1>3. \A k \in 1..n : ts[k] \in Seq(E)
  OBVIOUS
<1> HIDE DEF us
<1>4. \A k \in 1..(n + 1) : us[k] \in Seq(E)
  BY <1>1
<1>5. h \in [1..n -> Seq(E)] /\ g \in [1..(n + 1) -> Seq(E)]
  BY <1>3, <1>4
<1>6. \A k \in 1..n : g[k] = h[k]
  <2> SUFFICES ASSUME NEW k \in 1..n  PROVE g[k] = h[k]
    OBVIOUS
  <2>1. k \in 1..(n + 1) /\ us[k] = ts[k]
    BY <1>1, <1>2
  <2> QED
    BY <2>1
<1>7. g[n + 1] = Append(t, "LF") /\ Append(t, "LF") \in Seq(E)
  BY <1>1, <1>2
<1>8. Ended(ts) = FlattenSeq(h) /\ Ended(us) = FlattenSeq(g)
  BY <1>1 DEF Ended
<1> HIDE DEF g, h, n
<1>9. g = Append(h, Append(t, "LF"))
  BY <1>1, <1>5, <1>6, <1>7, MapAppend
<1>10. h \in Seq(Seq(E))
  BY <1>1, <1>5, MapIsSeq
<1>11. FlattenSeq(g) = FlattenSeq(h) \o Append(t, "LF")
  BY <1>7, <1>9, <1>10, FlattenAppend
<1> QED
  BY <1>8, <1>11 DEF us

(* Texts over E are characters of E together. *)
LEMMA EndedType ==
  ASSUME NEW E, "LF" \in E, NEW ts \in Seq(Seq(E))
  PROVE  Ended(ts) \in Seq(E)
<1> DEFINE h == [k \in 1..Len(ts) |-> Append(ts[k], "LF")]
<1>1. h \in [1..Len(ts) -> Seq(E)] /\ Len(ts) \in Nat
  OBVIOUS
<1>2. Ended(ts) = FlattenSeq(h)
  BY DEF Ended
<1> HIDE DEF h
<1>3. h \in Seq(Seq(E))
  BY <1>1, MapIsSeq
<1> QED
  BY <1>2, <1>3, FlattenType

(* Two lists of texts are read one after the other. *)
LEMMA EndedConcat ==
  ASSUME NEW E, "LF" \in E, NEW ts \in Seq(Seq(E)), NEW us \in Seq(Seq(E))
  PROVE  Ended(ts \o us) = Ended(ts) \o Ended(us)
<1> DEFINE T == {n \in Nat : \A v \in Seq(Seq(E)) : Len(v) = n => Ended(ts \o v) = Ended(ts) \o Ended(v)}
<1>1. Ended(ts) \in Seq(E)
  BY EndedType
<1>2. 0 \in T
  <2> SUFFICES ASSUME NEW v \in Seq(Seq(E)), Len(v) = 0
               PROVE  Ended(ts \o v) = Ended(ts) \o Ended(v)
    OBVIOUS
  <2>1. v = <<>>
    OBVIOUS
  <2>2. ts \o <<>> = ts /\ Ended(ts) \o <<>> = Ended(ts)
    BY <1>1, ConcatEmptySeq
  <2> QED
    BY <2>1, <2>2, EndedEmpty
<1>3. ASSUME NEW n \in Nat, n \in T  PROVE n + 1 \in T
  <2> SUFFICES ASSUME NEW v \in Seq(Seq(E)), Len(v) = n + 1
               PROVE  Ended(ts \o v) = Ended(ts) \o Ended(v)
    OBVIOUS
  <2>1. v # <<>>
    OBVIOUS
  <2>2. PICK w \in Seq(Seq(E)), e \in Seq(E) : v = Append(w, e)
    BY <2>1, SequenceEmptyOrAppend
  <2>3. Len(w) = n
    BY <2>2
  <2>4. Ended(ts \o w) = Ended(ts) \o Ended(w)
    BY <1>3, <2>3
  <2>5. ts \o v = Append(ts \o w, e) /\ ts \o w \in Seq(Seq(E))
    BY <2>2, ConcatAppend
  <2>6. Ended(ts \o v) = (Ended(ts) \o Ended(w)) \o Append(e, "LF")
    BY <2>4, <2>5, EndedAppend
  <2>7. Ended(v) = Ended(w) \o Append(e, "LF")
    BY <2>2, EndedAppend
  <2>8. Append(e, "LF") \in Seq(E) /\ Ended(w) \in Seq(E)
    BY EndedType
  <2>9. (Ended(ts) \o Ended(w)) \o Append(e, "LF") = Ended(ts) \o (Ended(w) \o Append(e, "LF"))
    <3>1. Regroups(Ended(ts), Ended(w), Append(e, "LF"))
      BY <1>1, <2>8, Regroup, Zenon
    <3> QED
      BY <3>1 DEF Regroups
  <2> QED
    BY <2>6, <2>7, <2>9
<1> HIDE DEF T
<1>4. Len(us) \in Nat
  OBVIOUS
<1>5. Len(us) \in T
  BY <1>2, <1>3, <1>4, SetInduction
<1> QED
  BY <1>5 DEF T

-----------------------------------------------------------------------------
(* What a client reads from lines without line breaks, line by line. *)
PlainText(E) == {t \in Seq(E) : Breaks(t) = {}}
PlainLine(E) == [field : {"event", "id", "retry", "data"}, text : PlainText(E)]

Kept(line, field) == IF line.field = field THEN <<line.text>> ELSE <<>>

(* A plain line is read whole. *)
LEMMA KeptType ==
  ASSUME NEW E, NEW l \in PlainLine(E), NEW field
  PROVE  Kept(l, field) \in Seq(PlainText(E)) /\ Value(l.text) = l.text
<1>1. l.text \in PlainText(E)
  BY DEF PlainLine
<1>2. Value(l.text) = l.text
  BY <1>1 DEF PlainText, Value
<1>3. CASE l.field = field
  BY <1>1, <1>2, <1>3 DEF Kept
<1>4. CASE l.field # field
  BY <1>2, <1>4 DEF Kept
<1> QED
  BY <1>3, <1>4

(* The values of a field are concatenated line by line. *)
LEMMA ValuesKept ==
  ASSUME NEW E, NEW w \in Seq(PlainLine(E)), NEW field
  PROVE  \E h \in [1..Len(w) -> Seq(PlainText(E))] :
           /\ \A k \in 1..Len(w) : h[k] = Kept(w[k], field)
           /\ Values(w, field) = FlattenSeq(h)
<1> DEFINE n == Len(w)
           h == [k \in 1..n |-> Kept(w[k], field)]
           g == [k \in 1..n |-> IF w[k].field = field THEN <<Value(w[k].text)>> ELSE <<>>]
<1>1. \A k \in 1..n : w[k] \in PlainLine(E)
  OBVIOUS
<1>2. \A k \in 1..n : h[k] \in Seq(PlainText(E)) /\ Value(w[k].text) = w[k].text
  BY <1>1, KeptType
<1>3. h \in [1..n -> Seq(PlainText(E))]
  BY <1>2
<1>4. \A k \in 1..n : g[k] = h[k]
  BY <1>2 DEF Kept
<1>5. g = h
  BY <1>4
<1>6. Values(w, field) = FlattenSeq(g)
  BY DEF Values
<1>7. \A k \in 1..n : h[k] = Kept(w[k], field)
  OBVIOUS
<1> HIDE DEF h, g
<1> QED
  BY <1>3, <1>5, <1>6, <1>7

(* They are plain texts. *)
LEMMA ValuesType ==
  ASSUME NEW E, NEW w \in Seq(PlainLine(E)), NEW field
  PROVE  Values(w, field) \in Seq(PlainText(E))
<1>1. PICK h \in [1..Len(w) -> Seq(PlainText(E))] : Values(w, field) = FlattenSeq(h)
  BY ValuesKept
<1>2. Len(w) \in Nat
  OBVIOUS
<1>3. h \in Seq(Seq(PlainText(E)))
  BY <1>2, MapIsSeq
<1> QED
  BY <1>1, <1>3, FlattenType

(* No line, no value. *)
LEMMA ValuesEmpty ==
  ASSUME NEW field
  PROVE  Values(<<>>, field) = <<>>
<1> DEFINE h == [k \in 1..Len(<<>>) |-> IF <<>>[k].field = field THEN <<Value(<<>>[k].text)>> ELSE <<>>]
<1>1. 1..Len(<<>>) = 1..0 /\ 1..0 = {}
  OBVIOUS
<1>2. h \in [1..0 -> {}]
  BY <1>1
<1>3. Values(<<>>, field) = FlattenSeq(h)
  BY DEF Values
<1> HIDE DEF h
<1>4. h \in Seq({}) /\ Len(h) = 0
  <2>1. 0 \in Nat
    OBVIOUS
  <2> QED
    BY <1>2, <2>1, MapIsSeq
<1>5. h = <<>>
  BY <1>4, EmptySeq
<1> QED
  BY <1>3, <1>5, FlattenEmpty, Zenon

(* One more line gives its value, or nothing, last. *)
LEMMA ValuesAppend ==
  ASSUME NEW E, NEW w \in Seq(PlainLine(E)), NEW l \in PlainLine(E), NEW field
  PROVE  Values(Append(w, l), field) = Values(w, field) \o Kept(l, field)
<1> DEFINE n == Len(w)
           v == Append(w, l)
<1>1. n \in Nat /\ v \in Seq(PlainLine(E)) /\ Len(v) = n + 1
  OBVIOUS
<1>2. v[n + 1] = l /\ \A k \in 1..n : v[k] = w[k]
  OBVIOUS
<1>3. PICK h \in [1..n -> Seq(PlainText(E))] :
        /\ \A k \in 1..n : h[k] = Kept(w[k], field)
        /\ Values(w, field) = FlattenSeq(h)
  BY ValuesKept
<1> HIDE DEF v
<1>4. PICK g \in [1..Len(v) -> Seq(PlainText(E))] :
        /\ \A k \in 1..Len(v) : g[k] = Kept(v[k], field)
        /\ Values(v, field) = FlattenSeq(g)
  BY <1>1, ValuesKept
<1> HIDE DEF n
<1>5. g \in [1..(n + 1) -> Seq(PlainText(E))] /\ n + 1 \in 1..(n + 1)
  BY <1>1
<1>6. \A k \in 1..n : k \in 1..Len(v)
  BY <1>1
<1>7. \A k \in 1..n : g[k] = h[k]
  BY <1>2, <1>3, <1>4, <1>6
<1>8. g[n + 1] = Kept(l, field)
  BY <1>1, <1>2, <1>4, <1>5
<1>9. g = Append(h, Kept(l, field))
  <2> DEFINE S == Seq(PlainText(E))
  <2>1. h \in [1..n -> S] /\ g \in [1..(n + 1) -> S]
    BY <1>5 DEF n
  <2> HIDE DEF S
  <2>2. g = Append(h, g[n + 1])
    BY <1>1, <1>7, <2>1, MapAppend
  <2> QED
    BY <1>8, <2>2
<1>10. h \in Seq(Seq(PlainText(E))) /\ Kept(l, field) \in Seq(PlainText(E))
  BY <1>1, MapIsSeq, KeptType
<1>11. FlattenSeq(g) = FlattenSeq(h) \o Kept(l, field)
  BY <1>9, <1>10, FlattenAppend
<1> QED
  BY <1>3, <1>4, <1>11 DEF v

(* The lines of two wires are read one after the other. *)
LEMMA ValuesConcat ==
  ASSUME NEW E, NEW w \in Seq(PlainLine(E)), NEW u \in Seq(PlainLine(E)), NEW field
  PROVE  Values(w \o u, field) = Values(w, field) \o Values(u, field)
<1> DEFINE L == PlainLine(E)
           V(x) == Values(x, field)
           T == {n \in Nat : \A v \in Seq(L) : Len(v) = n => V(w \o v) = V(w) \o V(v)}
<1>1. V(w) \in Seq(PlainText(E))
  BY ValuesType
<1>2. 0 \in T
  <2> SUFFICES ASSUME NEW v \in Seq(L), Len(v) = 0  PROVE V(w \o v) = V(w) \o V(v)
    OBVIOUS
  <2>1. v = <<>>
    OBVIOUS
  <2>2. w \o <<>> = w /\ V(w) \o <<>> = V(w)
    BY <1>1, ConcatEmptySeq
  <2> QED
    BY <2>1, <2>2, ValuesEmpty
<1>3. ASSUME NEW n \in Nat, n \in T  PROVE n + 1 \in T
  <2> SUFFICES ASSUME NEW v \in Seq(L), Len(v) = n + 1  PROVE V(w \o v) = V(w) \o V(v)
    OBVIOUS
  <2>1. v # <<>>
    OBVIOUS
  <2>2. PICK x \in Seq(L), e \in L : v = Append(x, e)
    BY <2>1, SequenceEmptyOrAppend
  <2>3. Len(x) = n
    BY <2>2
  <2>4. V(w \o x) = V(w) \o V(x)
    BY <1>3, <2>3
  <2>5. w \o v = Append(w \o x, e) /\ w \o x \in Seq(L)
    BY <2>2, ConcatAppend
  <2>6. V(w \o v) = (V(w) \o V(x)) \o Kept(e, field)
    BY <2>4, <2>5, ValuesAppend
  <2>7. V(v) = V(x) \o Kept(e, field)
    BY <2>2, ValuesAppend
  <2>8. Kept(e, field) \in Seq(PlainText(E)) /\ V(x) \in Seq(PlainText(E))
    BY ValuesType, KeptType
  <2>9. Regroups(V(w), V(x), Kept(e, field))
    BY <1>1, <2>8, Regroup, Zenon
  <2> QED
    BY <2>6, <2>7, <2>9 DEF Regroups
<1> HIDE DEF T
<1>4. Len(u) \in Nat
  OBVIOUS
<1>5. Len(u) \in T
  BY <1>2, <1>3, <1>4, SetInduction
<1> QED
  BY <1>5 DEF T

(* Lines of another field are not read; one line per text is read as it is. *)
LEMMA ValuesNone ==
  ASSUME NEW E, NEW field, NEW u \in Seq({l \in PlainLine(E) : l.field # field})
  PROVE  Values(u, field) = <<>>
<1> DEFINE L == {l \in PlainLine(E) : l.field # field}
           T == {n \in Nat : \A v \in Seq(L) : Len(v) = n => Values(v, field) = <<>>}
<1>1. 0 \in T
  <2> SUFFICES ASSUME NEW v \in Seq(L), Len(v) = 0  PROVE Values(v, field) = <<>>
    OBVIOUS
  <2>1. v = <<>>
    OBVIOUS
  <2> QED
    BY <2>1, ValuesEmpty
<1>2. ASSUME NEW n \in Nat, n \in T  PROVE n + 1 \in T
  <2> SUFFICES ASSUME NEW v \in Seq(L), Len(v) = n + 1  PROVE Values(v, field) = <<>>
    OBVIOUS
  <2>1. v # <<>>
    OBVIOUS
  <2>2. PICK x \in Seq(L), e \in L : v = Append(x, e)
    <3> HIDE DEF L
    <3> QED
      BY <2>1, SequenceEmptyOrAppend
  <2>3. Len(x) = n
    BY <2>2
  <2>4. Values(x, field) = <<>>
    BY <1>2, <2>3
  <2>5. x \in Seq(PlainLine(E)) /\ e \in PlainLine(E) /\ e.field # field
    OBVIOUS
  <2>6. Values(v, field) = <<>> \o Kept(e, field)
    BY <2>2, <2>4, <2>5, ValuesAppend
  <2>7. Kept(e, field) = <<>>
    BY <2>5 DEF Kept
  <2>8. <<>> \o <<>> = <<>>
    OBVIOUS
  <2> QED
    BY <2>6, <2>7, <2>8
<1> HIDE DEF T
<1>3. Len(u) \in Nat
  OBVIOUS
<1>4. Len(u) \in T
  BY <1>1, <1>2, <1>3, SetInduction
<1> QED
  BY <1>4 DEF T

DataWire(ts) == [k \in 1..Len(ts) |-> Line("data", ts[k])]

DataLine(E) == [field : {"data"}, text : PlainText(E)]

(* The data lines of plain texts, one for each. *)
LEMMA DataWireType ==
  ASSUME NEW E, NEW ts \in Seq(PlainText(E))
  PROVE  DataWire(ts) \in Seq(DataLine(E)) /\ Len(DataWire(ts)) = Len(ts)
<1>1. Len(ts) \in Nat /\ \A k \in 1..Len(ts) : ts[k] \in PlainText(E)
  OBVIOUS
<1>2. \A k \in 1..Len(ts) : Line("data", ts[k]) \in DataLine(E)
  BY <1>1 DEF DataLine, Line
<1>3. DataWire(ts) \in [1..Len(ts) -> DataLine(E)]
  BY <1>2 DEF DataWire
<1> QED
  BY <1>1, <1>3, MapIsSeq

(* A data line is a plain line. *)
LEMMA DataLineIsPlain ==
  ASSUME NEW E, NEW w \in Seq(DataLine(E))
  PROVE  w \in Seq(PlainLine(E))
<1>1. DataLine(E) \subseteq PlainLine(E)
  BY DEF DataLine, PlainLine
<1> QED
  BY <1>1, SeqMonotonic

(* Plain texts sent as data lines are read back as they are. *)
LEMMA DataValues ==
  ASSUME NEW E, NEW us \in Seq(PlainText(E))
  PROVE  Values(DataWire(us), "data") = us
<1> DEFINE P == PlainText(E)
           T == {n \in Nat : \A ts \in Seq(P) : Len(ts) = n => Values(DataWire(ts), "data") = ts}
<1>1. 0 \in T
  <2> SUFFICES ASSUME NEW ts \in Seq(P), Len(ts) = 0  PROVE Values(DataWire(ts), "data") = ts
    OBVIOUS
  <2>1. ts = <<>>
    OBVIOUS
  <2>2. DataWire(ts) \in Seq(DataLine(E)) /\ Len(DataWire(ts)) = 0
    BY DataWireType
  <2>3. DataWire(ts) = <<>>
    BY <2>2, EmptySeq
  <2> QED
    BY <2>1, <2>3, ValuesEmpty
<1>2. ASSUME NEW n \in Nat, n \in T  PROVE n + 1 \in T
  <2> SUFFICES ASSUME NEW ts \in Seq(P), Len(ts) = n + 1  PROVE Values(DataWire(ts), "data") = ts
    OBVIOUS
  <2>1. ts # <<>>
    OBVIOUS
  <2>2. PICK x \in Seq(P), e \in P : ts = Append(x, e)
    BY <2>1, SequenceEmptyOrAppend
  <2>3. Len(x) = n /\ ts[n + 1] = e /\ \A k \in 1..n : ts[k] = x[k]
    BY <2>2
  <2>4. Values(DataWire(x), "data") = x
    BY <1>2, <2>3
  <2>5. DataWire(ts) = Append(DataWire(x), Line("data", e))
    <3> DEFINE g == DataWire(ts)
               h == DataWire(x)
               S == DataLine(E)
    <3>1. g \in [1..(n + 1) -> S] /\ h \in [1..n -> S]
      <4>1. \A k \in 1..(n + 1) : ts[k] \in P
        OBVIOUS
      <4>2. \A k \in 1..n : x[k] \in P
        BY <2>3
      <4> QED
        BY <2>3, <4>1, <4>2 DEF DataWire, DataLine, Line
    <3>2. \A k \in 1..n : g[k] = h[k]
      BY <2>3 DEF DataWire
    <3>3. g[n + 1] = Line("data", e)
      BY <2>3 DEF DataWire
    <3> HIDE DEF g, h, S
    <3>4. g = Append(h, g[n + 1])
      BY <3>1, <3>2, MapAppend
    <3> QED
      BY <3>3, <3>4 DEF g, h
  <2> DEFINE l == Line("data", e)
  <2>6. l \in PlainLine(E) /\ DataWire(x) \in Seq(PlainLine(E))
    BY DataWireType, DataLineIsPlain DEF PlainLine, Line
  <2>7. Kept(l, "data") = <<e>>
    BY DEF Kept, Line
  <2> HIDE DEF l
  <2>8. Values(DataWire(ts), "data") = x \o <<e>>
    BY <2>4, <2>5, <2>6, <2>7, ValuesAppend DEF l
  <2>9. Append(x, e) = x \o <<e>>
    BY AppendIsConcat
  <2> QED
    BY <2>2, <2>8, <2>9
<1> HIDE DEF T
<1>3. Len(us) \in Nat
  OBVIOUS
<1>4. Len(us) \in T
  BY <1>1, <1>2, <1>3, SetInduction
<1> QED
  BY <1>4 DEF T

-----------------------------------------------------------------------------
(* str::lines(), character by character. *)
LEMMA FrontLast ==
  ASSUME NEW E, NEW x \in Seq(E), NEW e \in E
  PROVE  Append(x, e) # <<>> /\ Front(Append(x, e)) = x /\ Last(Append(x, e)) = e
<1> DEFINE y == Append(x, e)
           n == Len(x)
<1>1. n \in Nat /\ y \in Seq(E) /\ Len(y) = n + 1 /\ y[n + 1] = e
  OBVIOUS
<1>2. \A k \in 1..n : y[k] = x[k]
  OBVIOUS
<1>3. SubSeq(y, 1, n) = x
  <2> HIDE DEF y, n
  <2>1. SubSeq(y, 1, n) \in Seq(E) /\ Len(SubSeq(y, 1, n)) = n
    BY <1>1
  <2>2. \A k \in 1..n : SubSeq(y, 1, n)[k] = y[k]
    BY <1>1
  <2>3. \A k \in 1..n : SubSeq(y, 1, n)[k] = x[k]
    BY <1>2, <2>2
  <2>4. Len(x) = n
    BY DEF n
  <2> QED
    BY <2>1, <2>3, <2>4, SeqEqual
<1>4. (n + 1) - 1 = n /\ y # <<>>
  BY <1>1
<1>5. Front(y) = x
  BY <1>1, <1>3, <1>4 DEF Front
<1> QED
  BY <1>1, <1>4, <1>5 DEF Last

IsLastEnd(s, k, a) ==
  /\ a \in 0..(k - 1) /\ (a = 0 \/ s[a] = "LF")
  /\ \A j \in (a + 1)..(k - 1) : s[j] # "LF"

(* A line has one start. *)
LEMMA LastEndUnique ==
  ASSUME NEW s, NEW k \in Nat, NEW a, NEW b, IsLastEnd(s, k, a), IsLastEnd(s, k, b)
  PROVE  a = b
<1>1. a \in 0..(k - 1) /\ b \in 0..(k - 1) /\ a \in Nat /\ b \in Nat
  BY DEF IsLastEnd
<1>2. ASSUME NEW c \in Nat, NEW d \in Nat, IsLastEnd(s, k, c), IsLastEnd(s, k, d), c < d  PROVE FALSE
  <2>1. d \in (c + 1)..(k - 1) /\ d # 0
    BY <1>2 DEF IsLastEnd
  <2> QED
    BY <1>2, <2>1 DEF IsLastEnd
<1>3. ~(a < b) /\ ~(b < a)
  BY <1>1, <1>2
<1> QED
  BY <1>1, <1>3

(* LastEnd is the start, where there is one. *)
LEMMA LastEndIs ==
  ASSUME NEW s, NEW k \in Nat, NEW a, IsLastEnd(s, k, a)
  PROVE  LastEnd(s, k) = a
<1> DEFINE P(b) == (b = 0 \/ s[b] = "LF") /\ \A j \in (b + 1)..(k - 1) : s[j] # "LF"
<1>1. a \in 0..(k - 1) /\ P(a)
  BY DEF IsLastEnd
<1>2. LastEnd(s, k) = CHOOSE b \in 0..(k - 1) : P(b)
  BY DEF LastEnd
<1>3. \A b \in 0..(k - 1) : P(b) => IsLastEnd(s, k, b)
  BY DEF IsLastEnd
<1> HIDE DEF P
<1>4. LastEnd(s, k) \in 0..(k - 1) /\ P(LastEnd(s, k))
  BY <1>1, <1>2
<1> QED
  BY <1>3, <1>4, LastEndUnique

(* Where the line at k starts: after k - 1 if that is an LF, else where the
   line at k - 1 does. *)
LEMMA LastEndStep ==
  ASSUME NEW s, NEW k \in Nat, k # 0, NEW a, IsLastEnd(s, k, a)
  PROVE  IsLastEnd(s, k + 1, IF s[k] = "LF" THEN k ELSE a)
<1>1. a \in 0..(k - 1) /\ (a = 0 \/ s[a] = "LF") /\ \A j \in (a + 1)..(k - 1) : s[j] # "LF"
  BY DEF IsLastEnd
<1>2. (k + 1) - 1 = k
  OBVIOUS
<1>3. CASE s[k] = "LF"
  <2>1. k \in 0..k /\ (k + 1)..k = {}
    OBVIOUS
  <2> QED
    BY <1>2, <1>3, <2>1 DEF IsLastEnd
<1>4. CASE s[k] # "LF"
  <2>1. a \in 0..k
    BY <1>1
  <2>2. \A j \in (a + 1)..k : j = k \/ j \in (a + 1)..(k - 1)
    BY <1>1
  <2> QED
    BY <1>1, <1>2, <1>4, <2>1, <2>2 DEF IsLastEnd
<1> QED
  BY <1>3, <1>4

(* There always is one. *)
LEMMA LastEndExists ==
  ASSUME NEW s, NEW k \in Nat, k # 0
  PROVE  IsLastEnd(s, k, LastEnd(s, k))
<1> DEFINE T == {n \in Nat : \E a : IsLastEnd(s, n + 1, a)}
<1>1. 0 \in T
  <2>1. IsLastEnd(s, 0 + 1, 0)
    BY DEF IsLastEnd
  <2> QED
    BY <2>1
<1>2. ASSUME NEW n \in Nat, n \in T  PROVE n + 1 \in T
  <2>1. PICK a : IsLastEnd(s, n + 1, a)
    BY <1>2
  <2>2. n + 1 \in Nat /\ n + 1 # 0
    OBVIOUS
  <2>3. IsLastEnd(s, (n + 1) + 1, IF s[n + 1] = "LF" THEN n + 1 ELSE a)
    BY <2>1, <2>2, LastEndStep
  <2> QED
    BY <2>3
<1> HIDE DEF T
<1>3. k - 1 \in Nat /\ (k - 1) + 1 = k
  OBVIOUS
<1>4. k - 1 \in T
  BY <1>1, <1>2, <1>3, SetInduction
<1>5. PICK a : IsLastEnd(s, k, a)
  BY <1>3, <1>4 DEF T
<1> QED
  BY <1>5, LastEndIs

(* The line at k is s from after its start to before k. *)
LEMMA LineAtIs ==
  ASSUME NEW E, NEW s \in Seq(E), NEW k \in 1..(Len(s) + 1)
  PROVE  /\ LineAt(s, k) \in Seq(E) /\ Len(LineAt(s, k)) = k - 1 - LastEnd(s, k)
         /\ LastEnd(s, k) \in 0..(k - 1)
         /\ \A i \in 1..(k - 1 - LastEnd(s, k)) : LineAt(s, k)[i] = s[LastEnd(s, k) + i]
<1> DEFINE a == LastEnd(s, k)
           n == Len(s)
<1>1. n \in Nat /\ k \in Nat /\ k # 0 /\ k <= n + 1
  OBVIOUS
<1>2. IsLastEnd(s, k, a)
  BY <1>1, LastEndExists
<1>3. LineAt(s, k) = SubSeq(s, a + 1, k - 1)
  BY DEF LineAt
<1>4. a \in 0..(k - 1)
  BY <1>2 DEF IsLastEnd
<1> HIDE DEF a
<1>5. a + 1 \in 1..(n + 1) /\ k - 1 \in 0..n /\ a \in Nat /\ a <= k - 1
  BY <1>1, <1>4
<1> DEFINE x == SubSeq(s, a + 1, k - 1)
<1>6. x \in Seq(E)
  BY <1>1, <1>5
<1>7. Len(x) = k - 1 - a
  <2>1. CASE a + 1 <= k - 1
    BY <1>1, <1>5, <2>1
  <2>2. CASE ~(a + 1 <= k - 1)
    <3>1. a = k - 1
      BY <1>1, <1>5, <2>2
    <3> QED
      BY <1>1, <1>5, <3>1
  <2> QED
    BY <2>1, <2>2
<1>8. \A i \in 1..(k - 1 - a) : x[i] = s[a + i]
  <2> SUFFICES ASSUME NEW i \in 1..(k - 1 - a)  PROVE x[i] = s[a + i]
    OBVIOUS
  <2>1. i \in 1..Len(x) /\ (a + 1) + i - 1 = a + i
    BY <1>5, <1>7
  <2> QED
    BY <1>1, <1>5, <2>1
<1> QED
  BY <1>3, <1>4, <1>6, <1>7, <1>8 DEF a

(* The first line starts out empty. *)
LEMMA LineAtStart ==
  ASSUME NEW E, NEW s \in Seq(E)
  PROVE  LineAt(s, 1) = <<>>
<1>1. 1 \in 1..(Len(s) + 1)
  OBVIOUS
<1>2. LineAt(s, 1) \in Seq(E) /\ Len(LineAt(s, 1)) = 1 - 1 - LastEnd(s, 1) /\ LastEnd(s, 1) \in 0..(1 - 1)
  BY <1>1, LineAtIs
<1>3. Len(LineAt(s, 1)) = 0
  BY <1>2
<1> QED
  BY <1>2, <1>3, EmptySeq

LEMMA LineAtStep ==
  ASSUME NEW E, NEW s \in Seq(E), NEW k \in 1..Len(s)
  PROVE  LineAt(s, k + 1) = IF s[k] = "LF" THEN <<>> ELSE Append(LineAt(s, k), s[k])
<1> DEFINE n == Len(s)
           a == LastEnd(s, k)
           b == LastEnd(s, k + 1)
           x == LineAt(s, k)
           y == LineAt(s, k + 1)
<1>1. n \in Nat /\ k \in Nat /\ k # 0 /\ k \in 1..(n + 1) /\ k + 1 \in 1..(n + 1) /\ k + 1 \in Nat
  OBVIOUS
<1>2. IsLastEnd(s, k, a)
  BY <1>1, LastEndExists
<1>3. IsLastEnd(s, k + 1, IF s[k] = "LF" THEN k ELSE a)
  BY <1>1, <1>2, LastEndStep
<1>4. b = IF s[k] = "LF" THEN k ELSE a
  BY <1>1, <1>3, LastEndIs
<1>5. /\ x \in Seq(E) /\ Len(x) = k - 1 - a /\ a \in 0..(k - 1)
      /\ \A i \in 1..(k - 1 - a) : x[i] = s[a + i]
  BY <1>1, LineAtIs
<1>6. /\ y \in Seq(E) /\ Len(y) = (k + 1) - 1 - b
      /\ \A i \in 1..((k + 1) - 1 - b) : y[i] = s[b + i]
  BY <1>1, LineAtIs
<1>7. (k + 1) - 1 = k
  BY <1>1
<1> HIDE DEF n, a, b, x, y
<1>8. CASE s[k] = "LF"
  <2>1. Len(y) = 0
    BY <1>1, <1>4, <1>6, <1>7, <1>8
  <2>2. y = <<>>
    BY <1>6, <2>1, EmptySeq
  <2> QED
    BY <1>8, <2>2 DEF y
<1>9. CASE s[k] # "LF"
  <2> DEFINE z == Append(x, s[k])
  <2>1. b = a /\ a \in Nat /\ Len(y) = k - a
    BY <1>1, <1>4, <1>5, <1>6, <1>7, <1>9
  <2>2. s[k] \in E
    OBVIOUS
  <2>3. Len(x) + 1 = k - a /\ k - a \in Nat /\ a + (k - a) = k
    BY <1>1, <1>5, <2>1
  <2>4. z \in Seq(E) /\ Len(z) = Len(x) + 1 /\ z[Len(x) + 1] = s[k]
    BY <1>5, <2>2
  <2>5. \A i \in 1..Len(x) : z[i] = x[i]
    BY <1>5, <2>2
  <2> HIDE DEF z
  <2>6. \A i \in 1..(k - a) : y[i] = z[i]
    <3> SUFFICES ASSUME NEW i \in 1..(k - a)  PROVE y[i] = z[i]
      OBVIOUS
    <3>1. y[i] = s[a + i]
      BY <1>6, <1>7, <2>1
    <3>2. CASE i = k - a
      <4>1. y[i] = s[k]
        BY <2>3, <3>1, <3>2
      <4>2. z[i] = s[k]
        BY <2>3, <2>4, <3>2
      <4> QED
        BY <4>1, <4>2
    <3>3. CASE i # k - a
      <4>1. i \in 1..(k - 1 - a) /\ i \in 1..Len(x)
        BY <1>1, <1>5, <2>1, <2>3, <3>3
      <4> QED
        BY <1>5, <2>5, <3>1, <4>1
    <3> QED
      BY <3>2, <3>3
  <2>7. y = z
    BY <1>6, <2>1, <2>3, <2>4, <2>6, SeqEqual
  <2> QED
    BY <1>9, <2>7 DEF x, y, z
<1> QED
  BY <1>8, <1>9

(* In a text without a lone CR, a line has no LF and a CR only as its last
   character, right before the LF that ends it. *)
LEMMA LineAtBreaks ==
  ASSUME NEW E, NEW s \in Seq(E), ~LoneCr(s), NEW k \in 1..(Len(s) + 1),
         NEW i \in 1..Len(LineAt(s, k))
  PROVE  /\ LineAt(s, k)[i] # "LF"
         /\ LineAt(s, k)[i] = "CR" => /\ i = Len(LineAt(s, k)) /\ k <= Len(s)
                                      /\ s[k] = "LF"
<1> DEFINE n == Len(s)
           a == LastEnd(s, k)
           x == LineAt(s, k)
           p == a + i
<1>1. n \in Nat /\ k \in Nat /\ k # 0 /\ k <= n + 1
  OBVIOUS
<1>2. IsLastEnd(s, k, a)
  BY <1>1, LastEndExists
<1>3. /\ x \in Seq(E) /\ Len(x) = k - 1 - a /\ a \in 0..(k - 1)
      /\ \A j \in 1..(k - 1 - a) : x[j] = s[a + j]
  BY LineAtIs
<1>4. \A j \in (a + 1)..(k - 1) : s[j] # "LF"
  BY <1>2 DEF IsLastEnd
<1>5. i \in 1..Len(x)
  OBVIOUS
<1>6. \A j \in 1..n : s[j] = "CR" => j # n /\ s[j + 1] = "LF"
  BY DEF LoneCr
<1> HIDE DEF n, a, x
<1>7. i \in 1..(k - 1 - a) /\ a \in Nat
  BY <1>1, <1>3, <1>5
<1>8. p \in (a + 1)..(k - 1) /\ p \in 1..n
  BY <1>1, <1>3, <1>7
<1>9. x[i] = s[p]
  BY <1>3, <1>7
<1>10. x[i] # "LF"
  BY <1>4, <1>8, <1>9
<1>11. ASSUME x[i] = "CR"  PROVE i = Len(x) /\ k <= n /\ s[k] = "LF"
  <2>1. p # n /\ s[p + 1] = "LF"
    BY <1>6, <1>8, <1>9, <1>11
  <2>2. ~(p + 1 \in (a + 1)..(k - 1))
    BY <1>4, <2>1
  <2>3. p + 1 = k
    BY <1>1, <1>7, <1>8, <2>2
  <2>4. i = Len(x) /\ k <= n
    BY <1>1, <1>3, <1>7, <1>8, <2>1, <2>3
  <2> QED
    BY <2>1, <2>3, <2>4
<1> QED
  BY <1>10, <1>11 DEF n, x

(* A line without its CR has no break in it. *)
LEMMA DropCrPlain ==
  ASSUME NEW E, NEW s \in Seq(E), ~LoneCr(s), NEW k \in 1..(Len(s) + 1)
  PROVE  DropCr(LineAt(s, k)) \in PlainText(E)
<1> DEFINE x == LineAt(s, k)
<1>1. x \in Seq(E) /\ Len(x) \in Nat
  BY LineAtIs
<1>2. \A i \in 1..Len(x) : x[i] # "LF" /\ (x[i] = "CR" => i = Len(x))
  BY LineAtBreaks
<1> HIDE DEF x
<1>3. CASE x # <<>> /\ Last(x) = "CR"
  <2> DEFINE y == SubSeq(x, 1, Len(x) - 1)
  <2>1. DropCr(x) = y
    BY <1>3 DEF DropCr, Front
  <2>2. Len(x) # 0
    BY <1>1, <1>3
  <2>3. y \in Seq(E) /\ Len(y) = Len(x) - 1
    <3> DEFINE m == Len(x) - 1
    <3>1. m \in Nat /\ m <= Len(x)
      BY <1>1, <2>2
    <3> HIDE DEF m
    <3>2. SubSeq(x, 1, m) \in Seq(E) /\ Len(SubSeq(x, 1, m)) = m
      BY <1>1, <3>1
    <3> QED
      BY <3>2 DEF m
  <2>4. \A i \in 1..(Len(x) - 1) : y[i] = x[i] /\ i \in 1..Len(x) /\ i # Len(x)
    BY <1>1, <2>2
  <2> HIDE DEF y
  <2>5. Breaks(y) = {}
    BY <1>2, <2>3, <2>4 DEF Breaks
  <2> QED
    BY <2>1, <2>3, <2>5 DEF PlainText, x
<1>4. CASE ~(x # <<>> /\ Last(x) = "CR")
  <2>1. DropCr(x) = x
    BY <1>4 DEF DropCr
  <2>2. \A i \in 1..Len(x) : x[i] # "CR"
    <3> SUFFICES ASSUME NEW i \in 1..Len(x), x[i] = "CR"  PROVE FALSE
      OBVIOUS
    <3>1. x # <<>>
      BY <1>1
    <3> QED
      BY <1>2, <1>4, <3>1 DEF Last
  <2>3. Breaks(x) = {}
    BY <1>2, <2>2 DEF Breaks
  <2> QED
    BY <1>1, <2>1, <2>3 DEF PlainText, x
<1> QED
  BY <1>3, <1>4

(* Nothing is dropped from a line that no LF ends at k. *)
LEMMA DropCrSame ==
  ASSUME NEW E, NEW s \in Seq(E), ~LoneCr(s), NEW k \in 1..(Len(s) + 1),
         k = Len(s) + 1 \/ s[k] # "LF"
  PROVE  DropCr(LineAt(s, k)) = LineAt(s, k)
<1> DEFINE x == LineAt(s, k)
<1>1. x \in Seq(E) /\ Len(x) \in Nat
  BY LineAtIs
<1>2. ~(k <= Len(s) /\ s[k] = "LF")
  OBVIOUS
<1>3. \A i \in 1..Len(x) : x[i] # "CR"
  BY <1>2, LineAtBreaks
<1> HIDE DEF x
<1>4. ~(x # <<>> /\ Last(x) = "CR")
  <2> SUFFICES ASSUME x # <<>>, x[Len(x)] = "CR"  PROVE FALSE
    BY DEF Last
  <2>1. Len(x) \in 1..Len(x)
    BY <1>1
  <2> QED
    BY <1>3, <2>1
<1>5. DropCr(x) = x
  BY <1>4 DEF DropCr
<1> QED
  BY <1>5 DEF x

(* Only the last character may be dropped. *)
LEMMA DropCrAppend ==
  ASSUME NEW E, NEW x \in Seq(E), NEW e \in E
  PROVE  DropCr(Append(x, e)) = IF e = "CR" THEN x ELSE Append(x, e)
<1> DEFINE y == Append(x, e)
<1>1. y # <<>> /\ Front(y) = x /\ Last(y) = e
  BY FrontLast
<1> HIDE DEF y
<1>2. DropCr(y) = IF e = "CR" THEN x ELSE y
  BY <1>1 DEF DropCr
<1> QED
  BY <1>2 DEF y

(* Texts with an LF after each end in one. *)
LEMMA EndedEnds ==
  ASSUME NEW E, "LF" \in E, NEW ts \in Seq(Seq(E)), ts # <<>>
  PROVE  \E x \in Seq(E) : Ended(ts) = Append(x, "LF")
<1>1. PICK w \in Seq(Seq(E)), e \in Seq(E) : ts = Append(w, e)
  BY SequenceEmptyOrAppend
<1>2. Ended(ts) = Ended(w) \o Append(e, "LF")
  BY <1>1, EndedAppend
<1>3. Ended(w) \in Seq(E)
  BY EndedType
<1>4. Ended(w) \o Append(e, "LF") = Append(Ended(w) \o e, "LF")
  BY <1>3, ConcatAppend
<1>5. Ended(w) \o e \in Seq(E)
  BY <1>3
<1> QED
  BY <1>2, <1>4, <1>5

(* After k characters of a text without a lone CR: the lines so far, each with
   an LF after it, and the line in hand are the text without its CRs. *)
LineStep(s, k) == IF s[k] = "LF" THEN <<DropCr(LineAt(s, k))>> ELSE <<>>
CharStep(s, k) == IF s[k] = "CR" THEN <<>> ELSE <<s[k]>>

ReadTo(s, k, done, chars) ==
  /\ chars = Ended(done) \o DropCr(LineAt(s, k + 1))
  /\ k > 0 => done # <<>> \/ LineAt(s, k + 1) # <<>>

(* One more character keeps that. *)
LEMMA ReadStep ==
  ASSUME NEW E, "LF" \in E, NEW s \in Seq(E), ~LoneCr(s), NEW k \in 1..Len(s),
         NEW done \in Seq(PlainText(E)), NEW chars \in Seq(E), ReadTo(s, k - 1, done, chars)
  PROVE  ReadTo(s, k, done \o LineStep(s, k), chars \o CharStep(s, k))
<1> DEFINE x == LineAt(s, k)
           y == LineAt(s, k + 1)
           c == s[k]
           D == done \o LineStep(s, k)
           W == chars \o CharStep(s, k)
<1>1. k \in Nat /\ (k - 1) + 1 = k /\ k \in 1..(Len(s) + 1) /\ k # Len(s) + 1 /\ c \in E
  OBVIOUS
<1>2. chars = Ended(done) \o DropCr(x)
  BY <1>1 DEF ReadTo
<1>3. y = IF c = "LF" THEN <<>> ELSE Append(x, c)
  BY LineAtStep
<1>4. x \in Seq(E) /\ DropCr(x) \in PlainText(E)
  BY <1>1, LineAtIs, DropCrPlain
<1>5. DropCr(x) \in Seq(E) /\ done \in Seq(Seq(E))
  BY <1>4, SeqMonotonic DEF PlainText
<1>6. Ended(done) \in Seq(E)
  BY <1>5, EndedType
<1>7. c # "LF" => DropCr(x) = x
  BY <1>1, DropCrSame
<1> HIDE DEF x, y, c
<1>8. LineStep(s, k) = IF c = "LF" THEN <<DropCr(x)>> ELSE <<>>
  BY DEF LineStep, c, x
<1>9. CharStep(s, k) = IF c = "CR" THEN <<>> ELSE <<c>>
  BY DEF CharStep, c
<1>10. CASE c = "LF"
  <2>1. D = Append(done, DropCr(x)) /\ W = Append(chars, "LF")
    <3>1. D = done \o <<DropCr(x)>> /\ W = chars \o <<"LF">>
      BY <1>8, <1>9, <1>10
    <3>2. Append(done, DropCr(x)) = done \o <<DropCr(x)>>
      BY <1>4, AppendIsConcat
    <3>3. Append(chars, "LF") = chars \o <<"LF">>
      BY AppendIsConcat
    <3> QED
      BY <3>1, <3>2, <3>3
  <2>2. Ended(D) = Ended(done) \o Append(DropCr(x), "LF")
    BY <1>5, <2>1, EndedAppend
  <2>3. Ended(done) \o Append(DropCr(x), "LF") = Append(Ended(done) \o DropCr(x), "LF")
    BY <1>5, <1>6, ConcatAppend
  <2>4. Ended(D) = W
    BY <1>2, <2>1, <2>2, <2>3
  <2>5. y = <<>> /\ DropCr(y) = <<>>
    BY <1>3, <1>10 DEF DropCr
  <2>6. Ended(D) \o <<>> = Ended(D)
    <3>1. W \in Seq(E)
      BY <2>1
    <3> QED
      BY <2>4, <3>1, ConcatEmptySeq
  <2>7. D # <<>>
    BY <1>4, <2>1
  <2> HIDE DEF D, W
  <2> QED
    BY <2>4, <2>5, <2>6, <2>7 DEF ReadTo, D, W, y
<1>11. CASE c # "LF"
  <2>1. D = done
    BY <1>8, <1>11, ConcatEmptySeq
  <2>2. y = Append(x, c) /\ y # <<>> /\ DropCr(x) = x
    BY <1>1, <1>3, <1>4, <1>7, <1>11
  <2>3. DropCr(y) = IF c = "CR" THEN x ELSE y
    BY <1>1, <1>4, <2>2, DropCrAppend
  <2>4. W = Ended(done) \o DropCr(y)
    <3>1. CASE c = "CR"
      <4>1. W = chars
        BY <1>9, <3>1, ConcatEmptySeq
      <4> QED
        BY <1>2, <2>2, <2>3, <3>1, <4>1
    <3>2. CASE c # "CR"
      <4>1. W = chars \o <<c>>
        BY <1>9, <3>2
      <4>2. W = Append(chars, c)
        BY <1>1, <4>1, AppendIsConcat
      <4>3. Ended(done) \o Append(x, c) = Append(Ended(done) \o x, c)
        BY <1>1, <1>4, <1>6, ConcatAppend
      <4> QED
        BY <1>2, <2>2, <2>3, <3>2, <4>2, <4>3
    <3> QED
      BY <3>1, <3>2
  <2> HIDE DEF D, W
  <2> QED
    BY <2>1, <2>2, <2>4 DEF ReadTo, D, W, y
<1> QED
  BY <1>10, <1>11

(* The whole text. *)
LEMMA ReadAll ==
  ASSUME NEW E, "LF" \in E, NEW s \in Seq(E), ~LoneCr(s)
  PROVE  \E done \in Seq(PlainText(E)) :
           /\ done = FlattenSeq([k \in 1..Len(s) |-> LineStep(s, k)])
           /\ NoCr(s) \in Seq(E) /\ ReadTo(s, Len(s), done, NoCr(s))
<1> DEFINE n == Len(s)
           g == [k \in 1..n |-> LineStep(s, k)]
           h == [k \in 1..n |-> CharStep(s, k)]
<1>1. n \in Nat /\ \A k \in 1..n : s[k] \in E /\ k \in 1..(n + 1)
  OBVIOUS
<1>2. g \in [1..n -> Seq(PlainText(E))]
  <2> SUFFICES ASSUME NEW k \in 1..n  PROVE LineStep(s, k) \in Seq(PlainText(E))
    OBVIOUS
  <2>1. DropCr(LineAt(s, k)) \in PlainText(E)
    BY <1>1, DropCrPlain
  <2> QED
    BY <2>1 DEF LineStep
<1>3. h \in [1..n -> Seq(E)]
  <2> SUFFICES ASSUME NEW k \in 1..n  PROVE CharStep(s, k) \in Seq(E)
    OBVIOUS
  <2> QED
    BY <1>1 DEF CharStep
<1>4. NoCr(s) = FlattenSeq(h)
  BY DEF NoCr, CharStep
<1>5. \A k \in 1..n : g[k] = LineStep(s, k) /\ h[k] = CharStep(s, k)
  OBVIOUS
<1> HIDE DEF g, h
<1>6. g \in Seq(Seq(PlainText(E))) /\ Len(g) = n
  BY <1>1, <1>2, MapIsSeq
<1>7. h \in Seq(Seq(E)) /\ Len(h) = n
  BY <1>1, <1>3, MapIsSeq
<1>8. PICK d : FlatTable(d, g, PlainText(E)) /\ FlattenSeq(g) = d[n]
  BY <1>6, FlattenTable
<1>9. PICK c : FlatTable(c, h, E) /\ FlattenSeq(h) = c[n]
  BY <1>7, FlattenTable
<1>10. d \in [0..n -> Seq(PlainText(E))] /\ d[0] = <<>> /\ \A k \in 1..n : d[k] = d[k - 1] \o LineStep(s, k)
  BY <1>5, <1>6, <1>8 DEF FlatTable
<1>11. c \in [0..n -> Seq(E)] /\ c[0] = <<>> /\ \A k \in 1..n : c[k] = c[k - 1] \o CharStep(s, k)
  BY <1>5, <1>7, <1>9 DEF FlatTable
<1> DEFINE T == {k \in Nat : k <= n => ReadTo(s, k, d[k], c[k])}
<1>12. 0 \in T
  <2>1. LineAt(s, 0 + 1) = <<>>
    BY LineAtStart
  <2>2. DropCr(<<>>) = <<>> /\ <<>> \o <<>> = <<>> /\ ~(0 > 0)
    BY DEF DropCr
  <2>3. ReadTo(s, 0, <<>>, <<>>)
    BY <2>1, <2>2, EndedEmpty DEF ReadTo
  <2> QED
    BY <1>10, <1>11, <2>3
<1>13. ASSUME NEW k \in Nat, k \in T  PROVE k + 1 \in T
  <2> SUFFICES ASSUME k + 1 <= n  PROVE ReadTo(s, k + 1, d[k + 1], c[k + 1])
    OBVIOUS
  <2> DEFINE i == k + 1
  <2>1. i \in 1..n /\ i - 1 = k /\ k \in 0..n /\ k <= n
    BY <1>1
  <2>2. ReadTo(s, i - 1, d[k], c[k])
    BY <1>13, <2>1
  <2>3. d[k] \in Seq(PlainText(E)) /\ c[k] \in Seq(E)
    BY <1>10, <1>11, <2>1
  <2> HIDE DEF i
  <2>4. ReadTo(s, i, d[k] \o LineStep(s, i), c[k] \o CharStep(s, i))
    BY <2>1, <2>2, <2>3, ReadStep
  <2>5. d[i] = d[k] \o LineStep(s, i) /\ c[i] = c[k] \o CharStep(s, i)
    BY <1>10, <1>11, <2>1
  <2> QED
    BY <2>4, <2>5 DEF i
<1> HIDE DEF T
<1>14. n \in T
  BY <1>1, <1>12, <1>13, SetInduction
<1>15. ReadTo(s, n, d[n], c[n]) /\ n \in 0..n
  BY <1>1, <1>14 DEF T
<1>16. d[n] \in Seq(PlainText(E)) /\ c[n] \in Seq(E)
  BY <1>10, <1>11, <1>15
<1> QED
  BY <1>4, <1>8, <1>9, <1>15, <1>16 DEF g

(* A text's lines, each with an LF after it, are what should arrive of it and
   an LF; only the empty text has no lines. *)
LEMMA LinesArrive ==
  ASSUME NEW E, "LF" \in E, NEW s \in Seq(E), ~LoneCr(s)
  PROVE  /\ Lines(s) \in Seq(PlainText(E))
         /\ s = <<>> => Lines(s) = <<>>
         /\ s # <<>> => /\ Lines(s) # <<>> /\ Arrives(s) \in Seq(E)
                        /\ Ended(Lines(s)) = Append(Arrives(s), "LF")
<1> DEFINE n == Len(s)
           rest == LineAt(s, n + 1)
           t == NoCr(s)
<1>1. PICK done \in Seq(PlainText(E)) :
        /\ done = FlattenSeq([k \in 1..n |-> LineStep(s, k)])
        /\ t \in Seq(E) /\ ReadTo(s, n, done, t)
  BY ReadAll
<1>2. n \in Nat /\ n + 1 \in 1..(n + 1)
  OBVIOUS
<1>3. Lines(s) = done \o (IF rest = <<>> THEN <<>> ELSE <<rest>>)
  BY <1>1 DEF Lines, LineStep
<1>4. DropCr(rest) = rest /\ rest \in PlainText(E) /\ rest \in Seq(E)
  BY <1>2, DropCrSame, DropCrPlain DEF PlainText
<1>5. t = Ended(done) \o rest /\ (n > 0 => done # <<>> \/ rest # <<>>)
  BY <1>1, <1>4 DEF ReadTo
<1>6. done \in Seq(Seq(E))
  BY SeqMonotonic DEF PlainText
<1>7. Ended(done) \in Seq(E)
  BY <1>6, EndedType
<1>8. Arrives(s) = IF t # <<>> /\ Last(t) = "LF" THEN Front(t) ELSE t
  BY DEF Arrives
<1>9. s = <<>> => done = <<>> /\ rest = <<>>
  <2> SUFFICES ASSUME s = <<>>  PROVE done = <<>> /\ rest = <<>>
    OBVIOUS
  <2>1. n = 0
    OBVIOUS
  <2>2. rest = <<>>
    <3>1. n + 1 = 1
      BY <2>1
    <3>2. rest = LineAt(s, 1)
      BY <3>1, Zenon
    <3>3. LineAt(s, 1) = <<>>
      BY LineAtStart
    <3> QED
      BY <3>2, <3>3
  <2> DEFINE h == [k \in 1..n |-> LineStep(s, k)]
  <2>3. h \in [1..0 -> {}]
    BY <2>1
  <2>4. h \in Seq({}) /\ Len(h) = 0
    <3> HIDE DEF h
    <3>1. 0 \in Nat
      OBVIOUS
    <3> QED
      BY <2>3, <3>1, MapIsSeq
  <2>5. h = <<>>
    <3> HIDE DEF h
    <3> QED
      BY <2>4, EmptySeq
  <2>6. done = FlattenSeq(h)
    BY <1>1
  <2> HIDE DEF h
  <2>7. done = <<>>
    BY <2>5, <2>6, FlattenEmpty
  <2> QED
    BY <2>2, <2>7
<1>10. s # <<>> => n > 0
  BY <1>2
<1> HIDE DEF n, rest, t
<1>11. CASE rest = <<>>
  <2>1. Lines(s) = done
    BY <1>3, <1>11, ConcatEmptySeq
  <2>2. t = Ended(done)
    BY <1>5, <1>7, <1>11, ConcatEmptySeq
  <2>3. ASSUME s # <<>>
        PROVE  done # <<>> /\ Arrives(s) \in Seq(E) /\ Ended(done) = Append(Arrives(s), "LF")
    <3>1. done # <<>>
      BY <1>5, <1>10, <1>11, <2>3
    <3>2. PICK x \in Seq(E) : Ended(done) = Append(x, "LF")
      BY <1>6, <3>1, EndedEnds
    <3>3. t # <<>> /\ Front(t) = x /\ Last(t) = "LF"
      BY <2>2, <3>2, FrontLast
    <3>4. Arrives(s) = x
      BY <1>8, <3>3
    <3> QED
      BY <3>1, <3>2, <3>4
  <2> QED
    BY <1>9, <2>1, <2>3
<1>12. CASE rest # <<>>
  <2>1. Lines(s) = Append(done, rest)
    <3>1. Lines(s) = done \o <<rest>>
      BY <1>3, <1>12
    <3>2. Append(done, rest) = done \o <<rest>>
      BY <1>4, AppendIsConcat
    <3> QED
      BY <3>1, <3>2
  <2>2. Ended(Lines(s)) = Ended(done) \o Append(rest, "LF")
    BY <1>4, <1>6, <2>1, EndedAppend
  <2>3. Ended(done) \o Append(rest, "LF") = Append(t, "LF")
    BY <1>4, <1>5, <1>7, ConcatAppend
  <2>4. t # <<>> /\ Last(t) # "LF"
    <3>1. PICK x \in Seq(E), e \in E : rest = Append(x, e)
      BY <1>4, <1>12, SequenceEmptyOrAppend
    <3>2. t = Append(Ended(done) \o x, e) /\ Ended(done) \o x \in Seq(E)
      BY <1>5, <1>7, <3>1, ConcatAppend
    <3>3. t # <<>> /\ Last(t) = e
      BY <3>2, FrontLast
    <3>4. e # "LF"
      <4>1. Len(rest) \in 1..Len(rest) /\ rest[Len(rest)] = e
        BY <3>1
      <4>2. Breaks(rest) = {}
        BY <1>4 DEF PlainText
      <4> QED
        BY <4>1, <4>2 DEF Breaks
    <3> QED
      BY <3>3, <3>4
  <2>5. Arrives(s) = t
    BY <1>8, <2>4
  <2>6. Lines(s) \in Seq(PlainText(E)) /\ Lines(s) # <<>>
    BY <1>4, <2>1
  <2> QED
    BY <1>1, <1>9, <1>12, <2>2, <2>3, <2>5, <2>6
<1> QED
  BY <1>11, <1>12

(* What was sent so far decodes to the texts so far. *)
Sent(w, ts) ==
  /\ Ended(Values(w, "data")) = Ended(ts)
  /\ Values(w, "data") = <<>> <=> ts = <<>>

TextStep(s) == IF s = <<>> THEN <<>> ELSE <<Arrives(s)>>

(* One text as data lines, and as what should arrive. *)
LEMMA EmitDataLinesType ==
  ASSUME NEW E, "LF" \in E, NEW s \in Seq(E), ~LoneCr(s)
  PROVE  /\ EmitDataLines(s) = DataWire(Lines(s))
         /\ EmitDataLines(s) \in Seq(DataLine(E))
         /\ TextStep(s) \in Seq(Seq(E))
<1>1. EmitDataLines(s) = DataWire(Lines(s))
  BY DEF EmitDataLines, DataWire
<1>2. Lines(s) \in Seq(PlainText(E)) /\ (s # <<>> => Arrives(s) \in Seq(E))
  BY LinesArrive
<1>3. DataWire(Lines(s)) \in Seq(DataLine(E))
  BY <1>2, DataWireType
<1>4. TextStep(s) \in Seq(Seq(E))
  BY <1>2 DEF TextStep
<1> QED
  BY <1>1, <1>3, <1>4

(* One more text keeps that. *)
LEMMA SentStep ==
  ASSUME NEW E, "LF" \in E, NEW s \in Seq(E), ~LoneCr(s),
         NEW w \in Seq(DataLine(E)), NEW ts \in Seq(Seq(E)), Sent(w, ts)
  PROVE  /\ Sent(w \o EmitDataLines(s), ts \o TextStep(s))
         /\ ts \o TextStep(s) = <<>> <=> ts = <<>> /\ s = <<>>
<1> DEFINE L == Lines(s)
           d == EmitDataLines(s)
           v == Values(w, "data")
<1>1. d = DataWire(L) /\ d \in Seq(DataLine(E))
  BY EmitDataLinesType
<1>2. L \in Seq(PlainText(E))
  BY LinesArrive
<1>3. Values(d, "data") = L
  BY <1>1, <1>2, DataValues
<1>4. w \in Seq(PlainLine(E)) /\ d \in Seq(PlainLine(E))
  BY <1>1, DataLineIsPlain
<1>5. Values(w \o d, "data") = v \o L
  <2> HIDE DEF d
  <2>1. Values(w \o d, "data") = v \o Values(d, "data")
    BY <1>4, ValuesConcat
  <2> QED
    BY <1>3, <2>1
<1>6. v \in Seq(PlainText(E))
  BY <1>4, ValuesType
<1>7. v \in Seq(Seq(E)) /\ L \in Seq(Seq(E))
  BY <1>2, <1>6, SeqMonotonic DEF PlainText
<1>8. Ended(v) = Ended(ts) /\ (v = <<>> <=> ts = <<>>)
  BY DEF Sent
<1>9. s = <<>> => L = <<>>
  BY LinesArrive
<1>10. s # <<>> => L # <<>> /\ Arrives(s) \in Seq(E) /\ Ended(L) = Append(Arrives(s), "LF")
  BY LinesArrive
<1> HIDE DEF L, d, v
<1>11. CASE s = <<>>
  <2>1. v \o L = v /\ ts \o TextStep(s) = ts
    BY <1>7, <1>9, <1>11, ConcatEmptySeq DEF TextStep
  <2>2. Values(w \o d, "data") = v
    BY <1>5, <2>1
  <2>3. Sent(w \o d, ts)
    BY <1>8, <2>2 DEF Sent
  <2> QED
    BY <1>11, <2>1, <2>3 DEF d
<1>12. CASE s # <<>>
  <2> DEFINE a == Arrives(s)
             us == Append(ts, a)
  <2>1. L # <<>> /\ a \in Seq(E) /\ Ended(L) = Append(a, "LF")
    BY <1>10, <1>12
  <2> HIDE DEF a
  <2>2. ts \o TextStep(s) = us
    <3>1. TextStep(s) = <<a>>
      BY <1>12 DEF TextStep, a
    <3>2. us = ts \o <<a>>
      BY <2>1, AppendIsConcat
    <3> QED
      BY <3>1, <3>2
  <2>3. Ended(v \o L) = Ended(us)
    <3>1. Ended(v \o L) = Ended(v) \o Ended(L)
      BY <1>7, EndedConcat
    <3>2. Ended(us) = Ended(ts) \o Append(a, "LF")
      BY <2>1, EndedAppend
    <3> QED
      BY <1>8, <2>1, <3>1, <3>2
  <2>4. v \o L # <<>> /\ us # <<>>
    <3>1. Len(L) > 0 /\ Len(v \o L) = Len(v) + Len(L) /\ Len(v) \in Nat /\ Len(L) \in Nat
      BY <1>7, <2>1, EmptySeq
    <3>2. Len(us) = Len(ts) + 1 /\ Len(ts) \in Nat
      BY <2>1
    <3>3. Len(v \o L) # 0 /\ Len(us) # 0
      BY <3>1, <3>2
    <3> DEFINE x == v \o L
    <3>4. Len(x) # 0
      BY <3>3
    <3> HIDE DEF x, us
    <3>5. x # <<>> /\ us # <<>>
      BY <3>3, <3>4
    <3> QED
      BY <3>5 DEF x
  <2>5. Sent(w \o d, us)
    BY <1>5, <2>3, <2>4 DEF Sent
  <2> QED
    BY <1>12, <2>2, <2>4, <2>5 DEF d
<1> QED
  BY <1>11, <1>12

(* What event_to_string makes of several texts: those but the empty ones *)
Texts(data) ==
  FlattenSeq([k \in 1..Len(data) |-> IF data[k] = <<>> THEN <<>> ELSE <<Arrives(data[k])>>])

(* The data lines of an event decode to these texts; there is none exactly when
   every text is empty. *)
LEMMA DataArrives ==
  ASSUME NEW E, "LF" \in E, NEW data \in Seq(Seq(E)),
         \A k \in 1..Len(data) : ~LoneCr(data[k])
  PROVE  LET flat == FlattenSeq([k \in 1..Len(data) |-> EmitDataLines(data[k])])
         IN  /\ flat \in Seq(DataLine(E)) /\ Sent(flat, Texts(data))
             /\ Texts(data) = <<>> <=> \A k \in 1..Len(data) : data[k] = <<>>
<1> DEFINE n == Len(data)
           g == [k \in 1..n |-> EmitDataLines(data[k])]
           h == [k \in 1..n |-> TextStep(data[k])]
<1>1. n \in Nat /\ \A k \in 1..n : data[k] \in Seq(E)
  OBVIOUS
<1>2. g \in [1..n -> Seq(DataLine(E))]
  <2> SUFFICES ASSUME NEW k \in 1..n  PROVE EmitDataLines(data[k]) \in Seq(DataLine(E))
    OBVIOUS
  <2> QED
    BY <1>1, EmitDataLinesType
<1>3. h \in [1..n -> Seq(Seq(E))]
  <2> SUFFICES ASSUME NEW k \in 1..n  PROVE TextStep(data[k]) \in Seq(Seq(E))
    OBVIOUS
  <2> QED
    BY <1>1, EmitDataLinesType
<1>4. Texts(data) = FlattenSeq(h)
  BY DEF Texts, TextStep
<1>5. \A k \in 1..n : g[k] = EmitDataLines(data[k]) /\ h[k] = TextStep(data[k])
  OBVIOUS
<1> HIDE DEF g, h
<1>6. g \in Seq(Seq(DataLine(E))) /\ Len(g) = n
  BY <1>1, <1>2, MapIsSeq
<1>7. h \in Seq(Seq(Seq(E))) /\ Len(h) = n
  BY <1>1, <1>3, MapIsSeq
<1>8. PICK d : FlatTable(d, g, DataLine(E)) /\ FlattenSeq(g) = d[n]
  BY <1>6, FlattenTable
<1>9. PICK c : FlatTable(c, h, Seq(E)) /\ FlattenSeq(h) = c[n]
  BY <1>7, FlattenTable
<1>10. d \in [0..n -> Seq(DataLine(E))] /\ d[0] = <<>> /\ \A k \in 1..n : d[k] = d[k - 1] \o EmitDataLines(data[k])
  BY <1>5, <1>6, <1>8 DEF FlatTable
<1>11. c \in [0..n -> Seq(Seq(E))] /\ c[0] = <<>> /\ \A k \in 1..n : c[k] = c[k - 1] \o TextStep(data[k])
  BY <1>5, <1>7, <1>9 DEF FlatTable
<1> DEFINE Blank(k) == \A j \in 1..k : data[j] = <<>>
           T == {k \in Nat : k <= n => Sent(d[k], c[k]) /\ (c[k] = <<>> <=> Blank(k))}
<1>12. 0 \in T
  <2>1. Values(<<>>, "data") = <<>>
    BY ValuesEmpty
  <2>2. Sent(<<>>, <<>>)
    BY <2>1 DEF Sent
  <2> QED
    BY <1>10, <1>11, <2>2
<1>13. ASSUME NEW k \in Nat, k \in T  PROVE k + 1 \in T
  <2> SUFFICES ASSUME k + 1 <= n
               PROVE  Sent(d[k + 1], c[k + 1]) /\ (c[k + 1] = <<>> <=> Blank(k + 1))
    OBVIOUS
  <2> DEFINE i == k + 1
  <2>1. i \in 1..n /\ i - 1 = k /\ k \in 0..n /\ k <= n
    BY <1>1
  <2>2. Sent(d[k], c[k]) /\ (c[k] = <<>> <=> Blank(k))
    BY <1>13, <2>1
  <2>3. d[k] \in Seq(DataLine(E)) /\ c[k] \in Seq(Seq(E))
    BY <1>10, <1>11, <2>1
  <2>4. Blank(i) <=> Blank(k) /\ data[i] = <<>>
    <3>1. 1..i = (1..k) \cup {i}
      BY <2>1
    <3> HIDE DEF i
    <3> QED
      BY <3>1
  <2> HIDE DEF i, Blank
  <2>5. data[i] \in Seq(E) /\ ~LoneCr(data[i])
    BY <1>1, <2>1
  <2>6. Sent(d[k] \o EmitDataLines(data[i]), c[k] \o TextStep(data[i]))
    BY <2>2, <2>3, <2>5, SentStep
  <2>7. c[k] \o TextStep(data[i]) = <<>> <=> c[k] = <<>> /\ data[i] = <<>>
    BY <2>2, <2>3, <2>5, SentStep
  <2>8. d[i] = d[k] \o EmitDataLines(data[i]) /\ c[i] = c[k] \o TextStep(data[i])
    BY <1>10, <1>11, <2>1
  <2>9. Sent(d[i], c[i])
    BY <2>6, <2>8
  <2>10. c[i] = <<>> <=> c[k] = <<>> /\ data[i] = <<>>
    BY <2>7, <2>8
  <2>11. c[i] = <<>> <=> Blank(i)
    BY <2>2, <2>4, <2>10
  <2> QED
    BY <2>9, <2>11 DEF i
<1> HIDE DEF T
<1>14. n \in T
  BY <1>1, <1>12, <1>13, SetInduction
<1>15. Sent(d[n], c[n]) /\ (c[n] = <<>> <=> Blank(n)) /\ n \in 0..n
  BY <1>1, <1>14 DEF T
<1>16. d[n] \in Seq(DataLine(E))
  BY <1>10, <1>15
<1> QED
  BY <1>4, <1>8, <1>9, <1>15, <1>16 DEF g

(* An optional field is on the wire once, or not at all. *)
LEMMA OptionalValues ==
  ASSUME NEW E, NEW name \in {"event", "id", "retry", "data"}, NEW field,
         NEW x, x # Nothing => x \in PlainText(E)
  PROVE  /\ Optional(name, x) \in Seq(PlainLine(E))
         /\ Values(Optional(name, x), field) =
              IF x = Nothing \/ name # field THEN <<>> ELSE <<x>>
<1>1. CASE x = Nothing
  <2>1. Optional(name, x) = <<>>
    BY <1>1 DEF Optional
  <2>2. Values(<<>>, field) = <<>>
    BY ValuesEmpty
  <2> QED
    BY <1>1, <2>1, <2>2
<1>2. CASE x # Nothing
  <2> DEFINE l == Line(name, x)
             e == <<>>
  <2>1. l \in PlainLine(E) /\ l.field = name /\ l.text = x
    BY <1>2 DEF Line, PlainLine
  <2>2. Optional(name, x) = <<l>>
    BY <1>2 DEF Optional
  <2> HIDE DEF l
  <2>3. Append(e, l) = <<l>> /\ e \in Seq(PlainLine(E))
    OBVIOUS
  <2>4. Values(e, field) = <<>>
    BY ValuesEmpty
  <2> HIDE DEF e
  <2>5. Values(Append(e, l), field) = Values(e, field) \o Kept(l, field)
    BY <2>1, <2>3, ValuesAppend
  <2>6. Kept(l, field) \in Seq(PlainText(E))
    BY <2>1, KeptType
  <2>7. Values(<<l>>, field) = <<>> \o Kept(l, field)
    BY <2>3, <2>4, <2>5
  <2>8. <<>> \o Kept(l, field) = Kept(l, field)
    BY <2>6, ConcatEmptySeq
  <2>9. Kept(l, field) = IF name # field THEN <<>> ELSE <<x>>
    BY <2>1 DEF Kept
  <2>10. <<l>> \in Seq(PlainLine(E))
    BY <2>1
  <2> QED
    BY <1>2, <2>2, <2>7, <2>8, <2>9, <2>10
<1> QED
  BY <1>1, <1>2

(* An event's values of a field, by the four parts of event_to_string. *)
PlainWires(E) == Seq(PlainLine(E))
Together(w, u, field) == Values(w \o u, field) = Values(w, field) \o Values(u, field)

(* Two parts are read one after the other, *)
LEMMA PlainTogether ==
  ASSUME NEW E, NEW field, NEW w \in PlainWires(E), NEW u \in PlainWires(E)
  PROVE  w \o u \in PlainWires(E) /\ Together(w, u, field)
<1>1. w \in Seq(PlainLine(E)) /\ u \in Seq(PlainLine(E))
  BY DEF PlainWires
<1>2. Values(w \o u, field) = Values(w, field) \o Values(u, field)
  BY <1>1, ValuesConcat
<1>3. w \o u \in Seq(PlainLine(E))
  BY <1>1
<1> QED
  BY <1>2, <1>3 DEF PlainWires, Together

FourTogether(a, b, c, d, field) ==
  Values(a \o b \o c \o d, field)
    = Values(a, field) \o Values(b, field) \o Values(c, field) \o Values(d, field)

(* and so are four. *)
LEMMA EventValues ==
  ASSUME NEW E, NEW field, NEW a \in PlainWires(E), NEW b \in PlainWires(E),
         NEW c \in PlainWires(E), NEW d \in PlainWires(E)
  PROVE  FourTogether(a, b, c, d, field)
<1>1. a \o b \in PlainWires(E) /\ Together(a, b, field)
  BY PlainTogether, Zenon
<1>2. a \o b \o c \in PlainWires(E) /\ Together(a \o b, c, field)
  BY <1>1, PlainTogether, Zenon
<1>3. Together(a \o b \o c, d, field)
  BY <1>2, PlainTogether, Zenon
<1> QED
  BY <1>1, <1>2, <1>3, Zenon DEF Together, FourTogether

Sendable(rec, E) ==
  /\ rec.data \in Seq(Seq(E)) /\ \A k \in 1..Len(rec.data) : ~LoneCr(rec.data[k])
  /\ rec.event # Nothing => rec.event \in PlainText(E)
  /\ rec.id # Nothing => rec.id \in PlainText(E)
  /\ rec.retry # Nothing => rec.retry \in PlainText(E)

(* `to sse`, whatever the number and the length of its texts, with no lone CR
   in one: the data a client is given is the texts but the empty ones, joined by
   line breaks; the event is dispatched unless there is none; and its name, id
   and retry are the record's, where they are one line. *)
LEMMA SseArrives ==
  ASSUME NEW E, "LF" \in E, NEW rec, Sendable(rec, E)
  PROVE  LET wire == EventToString(rec)
         IN  /\ Dispatched(wire) <=> \E k \in 1..Len(rec.data) : rec.data[k] # <<>>
             /\ DecodedData(wire) = Joined(Texts(rec.data))
             /\ DecodedField(wire, "event") = rec.event
             /\ DecodedField(wire, "id") = rec.id
             /\ DecodedField(wire, "retry") = rec.retry
<1> DEFINE a == Optional("event", rec.event)
           b == Optional("id", rec.id)
           c == Optional("retry", rec.retry)
           d == FlattenSeq([k \in 1..Len(rec.data) |-> EmitDataLines(rec.data[k])])
           wire == EventToString(rec)
           V(w, field) == Values(w, field)
           ts == Texts(rec.data)
           One(x) == IF x = Nothing THEN <<>> ELSE <<x>>
<1>1. wire = a \o b \o c \o d
  BY DEF EventToString
<1>2. /\ rec.data \in Seq(Seq(E)) /\ \A k \in 1..Len(rec.data) : ~LoneCr(rec.data[k])
      /\ rec.event # Nothing => rec.event \in PlainText(E)
      /\ rec.id # Nothing => rec.id \in PlainText(E)
      /\ rec.retry # Nothing => rec.retry \in PlainText(E)
  BY DEF Sendable
<1>3. /\ d \in Seq(DataLine(E)) /\ Sent(d, ts)
      /\ ts = <<>> <=> \A k \in 1..Len(rec.data) : rec.data[k] = <<>>
  BY <1>2, DataArrives
<1>4. a \in Seq(PlainLine(E)) /\ \A field :
        V(a, field) = IF rec.event = Nothing \/ "event" # field THEN <<>> ELSE <<rec.event>>
  <2> DEFINE x == rec.event
             name == "event"
  <2>1. name \in {"event", "id", "retry", "data"} /\ (x # Nothing => x \in PlainText(E))
    BY <1>2
  <2> HIDE DEF x, name
  <2>2. Optional(name, x) \in Seq(PlainLine(E))
    BY <2>1, OptionalValues
  <2>3. ASSUME NEW field
        PROVE  Values(Optional(name, x), field) =
                 IF x = Nothing \/ name # field THEN <<>> ELSE <<x>>
    BY <2>1, OptionalValues
  <2> QED
    BY <2>2, <2>3 DEF x, name
<1>5. b \in Seq(PlainLine(E)) /\ \A field :
        V(b, field) = IF rec.id = Nothing \/ "id" # field THEN <<>> ELSE <<rec.id>>
  <2> DEFINE x == rec.id
             name == "id"
  <2>1. name \in {"event", "id", "retry", "data"} /\ (x # Nothing => x \in PlainText(E))
    BY <1>2
  <2> HIDE DEF x, name
  <2>2. Optional(name, x) \in Seq(PlainLine(E))
    BY <2>1, OptionalValues
  <2>3. ASSUME NEW field
        PROVE  Values(Optional(name, x), field) =
                 IF x = Nothing \/ name # field THEN <<>> ELSE <<x>>
    BY <2>1, OptionalValues
  <2> QED
    BY <2>2, <2>3 DEF x, name
<1>6. c \in Seq(PlainLine(E)) /\ \A field :
        V(c, field) = IF rec.retry = Nothing \/ "retry" # field THEN <<>> ELSE <<rec.retry>>
  <2> DEFINE x == rec.retry
             name == "retry"
  <2>1. name \in {"event", "id", "retry", "data"} /\ (x # Nothing => x \in PlainText(E))
    BY <1>2
  <2> HIDE DEF x, name
  <2>2. Optional(name, x) \in Seq(PlainLine(E))
    BY <2>1, OptionalValues
  <2>3. ASSUME NEW field
        PROVE  Values(Optional(name, x), field) =
                 IF x = Nothing \/ name # field THEN <<>> ELSE <<x>>
    BY <2>1, OptionalValues
  <2> QED
    BY <2>2, <2>3 DEF x, name
<1> HIDE DEF a, b, c, d, wire, ts
<1>7. d \in Seq(PlainLine(E))
  BY <1>3, DataLineIsPlain
<1>8. \A field : V(wire, field) = V(a, field) \o V(b, field) \o V(c, field) \o V(d, field)
  <2> SUFFICES ASSUME NEW field
               PROVE  V(a \o b \o c \o d, field) = V(a, field) \o V(b, field) \o V(c, field) \o V(d, field)
    BY <1>1
  <2>1. a \in PlainWires(E) /\ b \in PlainWires(E) /\ c \in PlainWires(E) /\ d \in PlainWires(E)
    BY <1>4, <1>5, <1>6, <1>7 DEF PlainWires
  <2>2. FourTogether(a, b, c, d, field)
    BY <2>1, EventValues, Zenon
  <2> QED
    BY <2>2, Zenon DEF FourTogether
<1>9. ASSUME NEW field, field # "data"  PROVE V(d, field) = <<>>
  <2> DEFINE S == {l \in PlainLine(E) : l.field # field}
  <2>1. DataLine(E) \subseteq S
    BY <1>9 DEF DataLine, PlainLine
  <2>2. d \in Seq(S)
    BY <1>3, <2>1, SeqMonotonic
  <2> QED
    BY <2>2, ValuesNone
<1>10. V(wire, "data") = V(d, "data")
  <2>1. V(a, "data") = <<>> /\ V(b, "data") = <<>> /\ V(c, "data") = <<>>
    BY <1>4, <1>5, <1>6
  <2>2. V(d, "data") \in Seq(PlainText(E))
    BY <1>7, ValuesType
  <2>3. V(wire, "data") = <<>> \o <<>> \o <<>> \o V(d, "data")
    BY <1>8, <2>1
  <2> QED
    BY <2>2, <2>3, ConcatEmptySeq
<1>11. Dispatched(wire) <=> \E k \in 1..Len(rec.data) : rec.data[k] # <<>>
  BY <1>3, <1>10 DEF Dispatched, Sent
<1>12. DecodedData(wire) = Joined(ts)
  BY <1>3, <1>10 DEF DecodedData, Joined, Sent
<1>13. ASSUME NEW x  PROVE One(x) \in Seq({x})
  <2>1. <<>> \in Seq({x}) /\ <<x>> \in Seq({x})
    OBVIOUS
  <2> QED
    BY <2>1
<1>14. ASSUME NEW x, NEW field, V(wire, field) = One(x)  PROVE DecodedField(wire, field) = x
  <2>1. Last(<<x>>) = x
    BY DEF Last
  <2> QED
    BY <1>14, <2>1 DEF DecodedField
<1>15. V(wire, "event") = One(rec.event)
  <2>1. V(b, "event") = <<>> /\ V(c, "event") = <<>> /\ V(d, "event") = <<>>
    BY <1>5, <1>6, <1>9
  <2>2. V(a, "event") = One(rec.event)
    BY <1>4
  <2>3. V(wire, "event") = One(rec.event) \o <<>> \o <<>> \o <<>>
    BY <1>8, <2>1, <2>2
  <2>4. One(rec.event) \in Seq({rec.event})
    BY <1>13
  <2> HIDE DEF One
  <2> QED
    BY <2>3, <2>4, ConcatEmptySeq
<1>16. V(wire, "id") = One(rec.id)
  <2>1. V(a, "id") = <<>> /\ V(c, "id") = <<>> /\ V(d, "id") = <<>>
    BY <1>4, <1>6, <1>9
  <2>2. V(b, "id") = One(rec.id)
    BY <1>5
  <2>3. V(wire, "id") = <<>> \o One(rec.id) \o <<>> \o <<>>
    BY <1>8, <2>1, <2>2
  <2>4. One(rec.id) \in Seq({rec.id})
    BY <1>13
  <2> HIDE DEF One
  <2> QED
    BY <2>3, <2>4, ConcatEmptySeq
<1>17. V(wire, "retry") = One(rec.retry)
  <2>1. V(a, "retry") = <<>> /\ V(b, "retry") = <<>> /\ V(d, "retry") = <<>>
    BY <1>4, <1>5, <1>9
  <2>2. V(c, "retry") = One(rec.retry)
    BY <1>6
  <2>3. V(wire, "retry") = <<>> \o <<>> \o One(rec.retry) \o <<>>
    BY <1>8, <2>1, <2>2
  <2>4. One(rec.retry) \in Seq({rec.retry})
    BY <1>13
  <2> HIDE DEF One
  <2> QED
    BY <2>3, <2>4, ConcatEmptySeq
<1>18. /\ DecodedField(wire, "event") = rec.event
       /\ DecodedField(wire, "id") = rec.id
       /\ DecodedField(wire, "retry") = rec.retry
  BY <1>14, <1>15, <1>16, <1>17
<1> QED
  BY <1>11, <1>12, <1>18 DEF wire, ts

-----------------------------------------------------------------------------
(* The calls of the specification: what was called had arguments in bounds. *)
Matches ==
  [fn : {"matches"}, pattern : BoundedSeq(Chars \cup {"*"}, MaxGlob), topic : BoundedSeq(Chars, MaxGlob)]

TextChars == {"x", "LF", "CR"}
Fields == {Nothing, <<"x">>}
SseCalls ==
  [fn : {"sse"}, rec : [event : Fields, id : Fields, retry : {Nothing},
                        list : BOOLEAN, data : BoundedSeq(BoundedSeq(TextChars, MaxText), 2)]]

Called ==
  call.fn = "none" \/ call \in Matches \/ call \in Resolves
    \/ (call \in SseCalls /\ (~call.rec.list => Len(call.rec.data) <= 1))

(* That is what was called, in every state. *)
LEMMA CalledAlways == CallSpec => []Called
<1>1. CallInit => Called
  BY DEF CallInit, Idle, Called
<1>2. Called /\ [CallNext]_call => Called'
  <2> SUFFICES ASSUME Called, [CallNext]_call  PROVE Called'
    OBVIOUS
  <2>1. CASE CallMatches
    BY <2>1 DEF CallMatches, Called, Matches
  <2>2. CASE CallResolve
    BY <2>2 DEF CallResolve, Called, Resolves
  <2>3. CASE CallToSse
    BY <2>3 DEF CallToSse, Called, SseCalls, Fields, TextChars
  <2>4. CASE UNCHANGED call
    BY <2>4 DEF Called
  <2> QED
    BY <2>1, <2>2, <2>3, <2>4 DEF CallNext
<1> QED
  BY <1>1, <1>2, PTL DEF CallSpec

(* GlobMatcher::matches decides what the pattern means, for every alphabet and
   every bound on the length of patterns and topics. *)
THEOREM GlobAlways == CallSpec => []GlobCorrect
<1>1. Called => GlobCorrect
  <2> SUFFICES ASSUME Called, call.fn = "matches"
               PROVE  GlobMatches(call.pattern, call.topic) <=> GlobMeans(call.pattern, call.topic)
    BY DEF GlobCorrect
  <2> DEFINE C == Chars \cup {"*"}
  <2>1. call.pattern \in BoundedSeq(C, MaxGlob) /\ call.topic \in BoundedSeq(Chars, MaxGlob)
    BY DEF Called, Matches, Resolves, SseCalls
  <2>2. call.pattern \in Seq(C) /\ call.topic \in Seq(Chars)
    BY <2>1, CallsAssumption, BoundedSeqIsSeq
  <2>3. call.topic \in Seq(C)
    BY <2>2
  <2> QED
    BY <2>2, <2>3, GlobMatchesMeans
<1> QED
  BY <1>1, CalledAlways, PTL

(* resolve_trusted_ip answers the untrusted address furthest to the right, or
   falls back to the peer's, for every set of addresses, every trusted part of
   it and every bound on the header's entries. *)
THEOREM TrustedIpAlways == CallSpec => []TrustedIpCorrect
<1>1. Called => TrustedIpCorrect
  <2> SUFFICES ASSUME Called, call.fn = "resolve"  PROVE TrustedIpCorrect
    BY DEF TrustedIpCorrect
  <2>1. call \in Resolves
    BY DEF Called, Matches, SseCalls
  <2> DEFINE ip == ResolveTrustedIp(call.xff, call.remote, call.proxies, call.trusted)
             believed == call.proxies /\ call.remote \in call.trusted \cup {None}
  <2>2. ip = IF ~believed \/ call.xff = NoHeader THEN call.remote
             ELSE IF call.xff = NotText THEN None
             ELSE ScanAnswer(call.xff, call.remote, call.trusted)
    BY <2>1, CallsAssumption, ResolveTrustedIpIsClient
  <2>3. Untrusted(call.xff, call.trusted) # {} =>
          ScanAnswer(call.xff, call.remote, call.trusted) = ClientOf(call.xff, call.trusted)
    BY DEF ScanAnswer
  <2>4. Valid(call.xff) = {} => ScanAnswer(call.xff, call.remote, call.trusted) = call.remote
    <3>1. Untrusted(call.xff, call.trusted) \subseteq Valid(call.xff)
      BY DEF Untrusted
    <3> QED
      BY <3>1 DEF ScanAnswer
  <2>5. IF ~believed \/ call.xff = NoHeader THEN ip = call.remote
        ELSE call.xff # NotText =>
               /\ Untrusted(call.xff, call.trusted) # {} => ip = ClientOf(call.xff, call.trusted)
               /\ Valid(call.xff) = {} => ip = call.remote
    <3> HIDE DEF ip, believed
    <3> QED
      BY <2>2, <2>3, <2>4
  <2> QED
    BY <2>5 DEF TrustedIpCorrect
<1> QED
  BY <1>1, CalledAlways, PTL

(* A single text is joined with nothing. *)
LEMMA OneText ==
  ASSUME NEW E, "LF" \in E, NEW data \in Seq(Seq(E)), Len(data) = 1,
         NEW s \in Seq(E), s = data[1], s # <<>>, ~LoneCr(s)
  PROVE  Joined(Texts(data)) = Arrives(s)
<1> DEFINE a == Arrives(s)
           h == [k \in 1..Len(data) |-> IF data[k] = <<>> THEN <<>> ELSE <<Arrives(data[k])>>]
<1>1. a \in Seq(E)
  BY LinesArrive
<1>2. h = [k \in 1..1 |-> <<a>>]
  <2>1. 1..1 = {1}
    OBVIOUS
  <2> QED
    BY <2>1
<1>3. Texts(data) = FlattenSeq(h)
  BY DEF Texts
<1> HIDE DEF a, h
<1>4. h = Append(<<>>, <<a>>)
  BY <1>2
<1>5. <<a>> \in Seq(Seq(E)) /\ <<>> \in Seq(Seq(Seq(E))) /\ <<>> \in Seq(Seq(E)) /\ Append(<<>>, a) = <<a>>
  BY <1>1
<1>6. FlattenSeq(h) = FlattenSeq(<<>>) \o <<a>>
  BY <1>4, <1>5, FlattenAppend
<1>7. FlattenSeq(h) = <<a>>
  <2>1. <<>> \o <<a>> = <<a>>
    OBVIOUS
  <2> QED
    BY <1>6, <2>1, FlattenEmpty
<1>8. Append(a, "LF") \in Seq(E) /\ <<>> \o Append(a, "LF") = Append(a, "LF")
  <2>1. Append(a, "LF") \in Seq(E)
    BY <1>1
  <2> QED
    BY <2>1, ConcatEmptySeq
<1>9. Ended(<<a>>) = Append(a, "LF")
  <2>1. Ended(Append(<<>>, a)) = Ended(<<>>) \o Append(a, "LF")
    BY <1>1, <1>5, EndedAppend
  <2> QED
    BY <1>5, <1>8, <2>1, EndedEmpty
<1>10. Front(Append(a, "LF")) = a
  BY <1>1, FrontLast
<1>11. <<a>> # <<>>
  OBVIOUS
<1> QED
  BY <1>3, <1>7, <1>9, <1>10, <1>11 DEF Joined, a

(* A client decodes from `to sse` the text that went in, for every bound on its
   length: no line break is lost but one at the end, none is added. *)
THEOREM SseAlways == CallSpec => []SseRoundTrip
<1> DEFINE E == TextChars
<1>1. "LF" \in E
  BY DEF TextChars
<1>2. <<"x">> \in PlainText(E)
  <2> DEFINE t == <<"x">>
  <2>1. t \in Seq(E) /\ Len(t) = 1 /\ t[1] = "x"
    BY DEF TextChars
  <2>2. 1..1 = {1}
    OBVIOUS
  <2>3. Breaks(t) = {}
    BY <2>1, <2>2 DEF Breaks
  <2> QED
    BY <2>1, <2>3 DEF PlainText
<1>3. Called => SseRoundTrip
  <2> SUFFICES ASSUME Called, call.fn = "sse", ~call.rec.list, NEW k \in 1..Len(call.rec.data),
                      call.rec.data[k] # <<>>, ~LoneCr(call.rec.data[k])
               PROVE  LET wire == EventToString(call.rec)
                      IN  /\ Dispatched(wire)
                          /\ DecodedData(wire) = Arrives(call.rec.data[k])
                          /\ DecodedField(wire, "event") = call.rec.event
                          /\ DecodedField(wire, "id") = call.rec.id
    BY DEF SseRoundTrip
  <2> DEFINE rec == call.rec
  <2>1. call \in SseCalls /\ Len(rec.data) <= 1
    BY DEF Called, Matches, Resolves
  <2>2. /\ rec.data \in BoundedSeq(BoundedSeq(E, MaxText), 2)
        /\ rec.event \in Fields /\ rec.id \in Fields /\ rec.retry = Nothing
    BY <2>1 DEF SseCalls
  <2>3. BoundedSeq(E, MaxText) \subseteq Seq(E)
    BY CallsAssumption, BoundedSeqIsSeq
  <2>4. rec.data \in Seq(BoundedSeq(E, MaxText))
    <3>1. 2 \in Nat
      OBVIOUS
    <3> QED
      BY <2>2, <3>1, BoundedSeqIsSeq
  <2>5. rec.data \in Seq(Seq(E))
    BY <2>3, <2>4, SeqMonotonic
  <2> HIDE DEF rec, E
  <2>6. Len(rec.data) = 1 /\ k = 1 /\ k \in 1..Len(rec.data)
    <3>1. PICK n \in Nat : n = Len(rec.data)
      BY <2>5
    <3>2. n <= 1 /\ k \in 1..n
      BY <2>1, <3>1 DEF rec
    <3>3. n = 1 /\ k = 1
      BY <3>2
    <3> QED
      BY <3>1, <3>2, <3>3
  <2>7. PICK s \in Seq(E) : s = rec.data[1] /\ s # <<>> /\ ~LoneCr(s)
    BY <2>5, <2>6 DEF rec
  <2>8. Sendable(rec, E)
    BY <1>2, <2>2, <2>5, <2>6, <2>7 DEF Sendable, Fields, E
  <2>9. Joined(Texts(rec.data)) = Arrives(s)
    BY <1>1, <2>5, <2>6, <2>7, OneText
  <2> QED
    BY <1>1, <2>6, <2>7, <2>8, <2>9, SseArrives DEF rec
<1> QED
  BY <1>3, CalledAlways, PTL
=============================================================================
