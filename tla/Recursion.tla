------------------------------ MODULE Recursion -----------------------------
(***************************************************************************)
(* Induction and recursive definitions in a form that needs no operator    *)
(* as a parameter: what is to be proved is a set that contains the natural *)
(* numbers, what is iterated is a function.  The functions of the codec    *)
(* (Vlq.tla, Frame.tla) and the loop of the latency tracker (Latency.tla)  *)
(* are recursive; TLA+ defines f[x \in S] == e as a CHOOSE, so the         *)
(* equation of such a function holds only if some function satisfies it.   *)
(***************************************************************************)
EXTENDS Integers, WellFoundedInduction, TLAPS

\* First-order reasoning is enough for most leaves; the ones that need arithmetic, or
\* what the backend knows of sequences, cite SMT.
USE ZenonT(30)

\* Induction: a set with 0 and with n + 1 for each n in it has all of Nat.
LEMMA NatSetInduction ==
    ASSUME NEW S, 0 \in S, \A n \in Nat : n \in S => n + 1 \in S
    PROVE  Nat \subseteq S
<1> DEFINE T == Nat \ S
<1>1. SUFFICES ASSUME T # {} PROVE FALSE
  OBVIOUS
<1>2. PICK x \in T : \A y \in T : ~(<<y, x>> \in OpToRel(<, Nat))
  BY <1>1, NatLessThanWellFounded, WFMin
<1>3. x # 0 /\ x - 1 \in Nat /\ x - 1 < x /\ (x - 1) + 1 = x
  BY SMTT(30)
<1>4. x - 1 \in T
  BY <1>3
<1>5. <<x - 1, x>> \in OpToRel(<, Nat)
  BY <1>3 DEF OpToRel
<1> QED  BY <1>2, <1>4, <1>5

\* The first n steps of an iteration.
Run(n, S, b, step) ==
    {h \in [0..n -> S] : h[0] = b /\ \A i \in 0..n - 1 : h[i + 1] = step[h[i]]}

\* An iteration can be run for any number of steps.
LEMMA RunExists ==
    ASSUME NEW S, NEW b \in S, NEW step \in [S -> S]
    PROVE  \A n \in Nat : Run(n, S, b, step) # {}
<1> DEFINE P == {n \in Nat : Run(n, S, b, step) # {}}
<1>1. 0 \in P
  <2> DEFINE h == [i \in 0..0 |-> b]
  <2>1. h \in Run(0, S, b, step)
    BY SMTT(30) DEF Run
  <2> QED  BY <2>1
<1>2. ASSUME NEW n \in Nat, n \in P PROVE n + 1 \in P
  <2>1. PICK h : h \in Run(n, S, b, step)
    BY <1>2
  <2> DEFINE k == [i \in 0..n + 1 |-> IF i = n + 1 THEN step[h[n]] ELSE h[i]]
  <2>2. h \in [0..n -> S] /\ h[0] = b /\ \A i \in 0..n - 1 : h[i + 1] = step[h[i]]
    BY <2>1 DEF Run
  <2>3. k \in [0..n + 1 -> S]
    BY <2>2, SMTT(30)
  <2>4. \A i \in 0..n : k[i + 1] = step[k[i]]
    <3> SUFFICES ASSUME NEW i \in 0..n PROVE k[i + 1] = step[k[i]]
      OBVIOUS
    <3>1. k[i] = h[i]
      BY SMTT(30)
    <3>2. CASE i = n
      BY <3>1, <3>2, SMTT(30)
    <3>3. CASE i \in 0..n - 1
      BY <3>1, <3>3, <2>2, SMTT(30)
    <3> QED  BY <3>2, <3>3, SMTT(30)
  <2>5. k[0] = b /\ (n + 1) - 1 = n
    BY <2>2, SMTT(30)
  <2>6. k \in Run(n + 1, S, b, step)
    BY <2>3, <2>4, <2>5 DEF Run
  <2> QED  BY <2>6, SMTT(30)
<1>3. Nat \subseteq P
  <2> HIDE DEF P
  <2> QED  BY <1>1, <1>2, NatSetInduction
<1> QED  BY <1>3

\* Two runs agree as far as both go.
LEMMA RunsAgree ==
    ASSUME NEW S, NEW b \in S, NEW step \in [S -> S],
           NEW m \in Nat, NEW n \in Nat,
           NEW g \in Run(m, S, b, step), NEW h \in Run(n, S, b, step)
    PROVE  \A i \in Nat : (i <= m /\ i <= n) => g[i] = h[i]
<1> DEFINE P == {i \in Nat : (i <= m /\ i <= n) => g[i] = h[i]}
<1>1. 0 \in P
  BY DEF Run
<1>2. ASSUME NEW i \in Nat, i \in P PROVE i + 1 \in P
  <2>1. SUFFICES ASSUME i + 1 <= m, i + 1 <= n PROVE g[i + 1] = h[i + 1]
    BY <1>2, SMTT(30)
  <2>2. g[i] = h[i] /\ i \in 0..m - 1 /\ i \in 0..n - 1
    BY <1>2, <2>1, SMTT(30)
  <2> QED  BY <2>2 DEF Run
<1>3. Nat \subseteq P
  <2> HIDE DEF P
  <2> QED  BY <1>1, <1>2, NatSetInduction
<1> QED  BY <1>3

Iterates(S, b, step) ==
    \E g \in [Nat -> S] : g[0] = b /\ \A n \in Nat : g[n + 1] = step[g[n]]

\* Iteration: a function can be iterated for ever.
LEMMA Iteration ==
    ASSUME NEW S, NEW b \in S, NEW step \in [S -> S]
    PROVE  Iterates(S, b, step)
<1> DEFINE run(n) == CHOOSE h : h \in Run(n, S, b, step)
           g == [n \in Nat |-> run(n)[n]]
<1>1. \A n \in Nat : run(n) \in Run(n, S, b, step)
  BY RunExists
<1>2. \A n \in Nat : run(n) \in [0..n -> S] /\ run(n)[0] = b
                       /\ \A i \in 0..n - 1 : run(n)[i + 1] = step[run(n)[i]]
  BY <1>1 DEF Run
<1> HIDE DEF run
<1>3. g \in [Nat -> S]
  BY <1>2, SMTT(30)
<1>4. g[0] = b
  BY <1>2
<1>5. \A n \in Nat : g[n + 1] = step[g[n]]
  <2> SUFFICES ASSUME NEW n \in Nat PROVE g[n + 1] = step[g[n]]
    OBVIOUS
  <2>1. n + 1 \in Nat /\ n \in 0..(n + 1) - 1 /\ n <= n + 1 /\ n <= n
    BY SMTT(30)
  <2>2. run(n + 1)[n + 1] = step[run(n + 1)[n]]
    BY <1>2, <2>1
  <2>3. run(n)[n] = run(n + 1)[n]
    BY <1>1, <2>1, RunsAgree, SMTT(30)
  <2> QED  BY <2>1, <2>2, <2>3
<1> QED  BY <1>3, <1>4, <1>5 DEF Iterates

\* body makes a function of a function, in such a way that its value at x depends on
\* arguments of smaller rank only.
Ranked(X, S, rank, body) ==
    /\ S # {}
    /\ rank \in [X -> Nat]
    /\ body \in [[X -> S] -> [X -> S]]
    /\ \A f, g \in [X -> S] : \A x \in X :
          (\A y \in X : rank[y] < rank[x] => f[y] = g[y]) => body[f][x] = body[g][x]

HasFixpoint(X, S, body) == \E F \in [X -> S] : F = body[F]

\* Recursion: then some function is its own body.
LEMMA RankRecursion ==
    ASSUME NEW X, NEW S, NEW rank, NEW body, Ranked(X, S, rank, body)
    PROVE  HasFixpoint(X, S, body)
<1> USE DEF Ranked
<1>0. PICK some : some \in S
  OBVIOUS
<1> DEFINE b == [x \in X |-> some]
<1>1. b \in [X -> S]
  BY <1>0
<1>2. PICK G \in [Nat -> [X -> S]] : G[0] = b /\ \A n \in Nat : G[n + 1] = body[G[n]]
  <2> DEFINE Fs == [X -> S]
  <2>1. b \in Fs /\ body \in [Fs -> Fs]
    BY <1>1
  <2> HIDE DEF b, Fs
  <2>2. Iterates(Fs, b, body)
    BY <2>1, Iteration
  <2> QED  BY <2>2 DEF Fs, Iterates
<1> HIDE DEF b
\* From its rank on, the value at an argument no longer changes.
<1> DEFINE P == {n \in Nat : \A x \in X : rank[x] <= n => G[n + 1][x] = G[n + 2][x]}
<1>3. 0 \in P
  <2> SUFFICES ASSUME NEW x \in X, rank[x] <= 0 PROVE G[0 + 1][x] = G[0 + 2][x]
    OBVIOUS
  <2>1. \A y \in X : ~(rank[y] < rank[x])
    BY SMTT(30)
  <2>2. G[0 + 1] = body[G[0]] /\ G[1 + 1] = body[G[1]] /\ 0 + 2 = 1 + 1
    BY <1>2, SMTT(30)
  <2>3. G[0] \in [X -> S] /\ G[1] \in [X -> S]
    BY <1>2
  <2>4. body[G[0]][x] = body[G[1]][x]
    BY <2>1, <2>3, SMTT(30)
  <2> QED  BY <2>2, <2>4
<1>4. ASSUME NEW n \in Nat, n \in P PROVE n + 1 \in P
  <2> SUFFICES ASSUME NEW x \in X, rank[x] <= n + 1
               PROVE  G[(n + 1) + 1][x] = G[(n + 1) + 2][x]
    BY SMTT(30)
  <2>1. \A y \in X : rank[y] < rank[x] => G[n + 1][y] = G[n + 2][y]
    BY <1>4, SMTT(30)
  <2>2. G[(n + 1) + 1] = body[G[n + 1]] /\ G[(n + 2) + 1] = body[G[n + 2]]
          /\ (n + 1) + 2 = (n + 2) + 1
    BY <1>2, SMTT(30)
  <2>3. G[n + 1] \in [X -> S] /\ G[n + 2] \in [X -> S]
    BY <1>2, SMTT(30)
  <2>4. body[G[n + 1]][x] = body[G[n + 2]][x]
    BY <2>1, <2>3
  <2> QED  BY <2>2, <2>4
<1>5. \A n \in Nat : \A x \in X : rank[x] <= n => G[n + 1][x] = G[n + 2][x]
  <2>1. Nat \subseteq P
    <3> HIDE DEF P
    <3> QED  BY <1>3, <1>4, NatSetInduction
  <2> QED  BY <2>1
<1> DEFINE F == [x \in X |-> G[rank[x] + 1][x]]
           Q == {n \in Nat : \A x \in X : rank[x] <= n => G[n + 1][x] = F[x]}
<1>6. F \in [X -> S]
  BY <1>2, SMTT(30)
<1>7. 0 \in Q
  BY SMTT(30)
<1>8. ASSUME NEW n \in Nat, n \in Q PROVE n + 1 \in Q
  <2> SUFFICES ASSUME NEW x \in X, rank[x] <= n + 1 PROVE G[(n + 1) + 1][x] = F[x]
    BY SMTT(30)
  <2>1. CASE rank[x] = n + 1
    BY <2>1
  <2>2. CASE rank[x] <= n
    <3>1. G[n + 1][x] = F[x]
      BY <2>2, <1>8
    <3>2. G[n + 1][x] = G[n + 2][x] /\ n + 2 = (n + 1) + 1
      BY <2>2, <1>5, SMTT(30)
    <3> QED  BY <3>1, <3>2
  <2> QED  BY <2>1, <2>2, SMTT(30)
<1>9. \A n \in Nat : \A x \in X : rank[x] <= n => G[n + 1][x] = F[x]
  <2>1. Nat \subseteq Q
    <3> HIDE DEF Q
    <3> QED  BY <1>7, <1>8, NatSetInduction
  <2> QED  BY <2>1
<1>10. ASSUME NEW x \in X PROVE F[x] = body[F][x]
  <2>1. G[rank[x] + 1] = body[G[rank[x]]] /\ G[rank[x]] \in [X -> S]
    BY <1>2
  <2>2. \A y \in X : rank[y] < rank[x] => G[rank[x]][y] = F[y]
    <3> SUFFICES ASSUME NEW y \in X, rank[y] < rank[x] PROVE G[rank[x]][y] = F[y]
      OBVIOUS
    <3>1. rank[x] - 1 \in Nat /\ rank[y] <= rank[x] - 1 /\ (rank[x] - 1) + 1 = rank[x]
      BY SMTT(30)
    <3> QED  BY <3>1, <1>9, SMTT(30)
  <2>3. body[G[rank[x]]][x] = body[F][x]
    <3> DEFINE g == G[rank[x]]
    <3>1. g \in [X -> S] /\ \A y \in X : rank[y] < rank[x] => g[y] = F[y]
      BY <2>1, <2>2
    <3> HIDE DEF g, F
    <3>2. body[g][x] = body[F][x]
      BY <3>1, <1>6
    <3> QED  BY <3>2 DEF g
  <2> QED  BY <2>1, <2>3
<1>11. body[F] \in [X -> S]
  BY <1>6
<1>12. F = body[F]
  <2> HIDE DEF F
  <2> QED  BY <1>6, <1>10, <1>11, SMTT(30)
<1> QED  BY <1>6, <1>12 DEF HasFixpoint

=============================================================================
