------------------------ MODULE PruneContext_proofs ------------------------
(***************************************************************************)
(* What PruneContext's rewrites leave of a transcript, for any needles,    *)
(* any number of calls, commands and processes, and all five dialects.     *)
(*                                                                         *)
(* First: a forgotten output has no copy left in full, a batch reports     *)
(* what it did, and no rewrite happens under a running agent.  Which calls *)
(* a batch chooses does not matter to these, so the choice stays           *)
(* unexpanded.  Then, with the choice: the transcripts implement PruneLog, *)
(* and a batch does what its targets do one after the other.               *)
(***************************************************************************)
EXTENDS PruneContext, SequenceTheorems, FiniteSetTheorems, WellFoundedInduction, TLAPS

\* A node as the agents and the pruners of a dialect leave it; of ids and
\* arguments nothing need be known.  Only gemini has a text beside a call, only
\* claude the body of a skill.
NodeOf(d, T) ==
  {n \in [kind : {"call", "output", "body"}, id : T, arg : T, text : Text \cup {"absent"}] :
     /\ n.kind = "call" /\ d # "gemini" => n.text = "absent"
     /\ n.kind # "call" => n.text \in Text
     /\ n.kind = "body" => d = "claude"}

\* A line of pi has the outputs of one call.
Line(d, T) ==
  {line \in Seq(NodeOf(d, T)) :
     d = "pi" => \A i, j \in 1..Len(line) :
       line[i].kind = "output" /\ line[j].kind = "output" => line[i].id = line[j].id}

\* Once a copy of an output is gone, no copy is full: NoCopyLeaks, but that one
\* leaf of a pi result is enough.
Leakless(nodes) ==
  \A m, n \in nodes :
    m.kind # "call" /\ m.text = "pruned" /\ m.id = n.id => n.text # "full"

Sound(l) ==
  /\ \E T : l \in Seq(Line(dialect, T))
  /\ Leakless(NodesOf(l))

\* What was read for a rewrite is as sound as the transcript was then.
LogInv ==
  /\ dialect \in Dialect
  /\ Sound(log)
  /\ main.at = "rewrite" => Sound(seen)

\* From the abort to the restart, only a process that was given up on writes.
AloneInv ==
  /\ main = [at |-> main.at, reqs |-> main.reqs]
  /\ main.at \in {"rewrite", "respawn"} => agent = "off"
  /\ main.at = "rewrite" => seen = log \/ ghost

PInv == LogInv /\ AloneInv

\* What the actions leave alone, by groups.
USE DEF Chat, Requests, Loop

-----------------------------------------------------------------------------
(* Induction over the definitions of the community modules that fold a     *)
(* sequence: what a step of the fold keeps, the whole of it keeps.  Both   *)
(* FoldLeft and FlattenSeq are recursive functions, defined by a CHOOSE;   *)
(* that one with the defining equation exists has to be shown first.       *)

\* Induction, without an operator for a parameter: what fails for some number
\* fails for a least one.
LEMMA LeastNat ==
  ASSUME NEW T, T \subseteq Nat, T # {}
  PROVE  \E n \in T : \A m \in T : n <= m
<1> DEFINE R == OpToRel(<, Nat)
<1>1. IsWellFoundedOn(R, Nat)
  BY NatLessThanWellFounded
<1> HIDE DEF R
<1>2. PICK n \in T : \A m \in T : ~(<<m, n>> \in R)
  BY <1>1, WFMin
<1>3. \A m \in T : m < n => <<m, n>> \in R
  BY DEF R, OpToRel
<1>4. \A m \in T : ~(m < n)
  BY <1>2, <1>3
<1>5. \A m \in T : m \in Nat /\ n \in Nat
  OBVIOUS
<1>6. \A m \in T : n <= m
  BY <1>4, <1>5
<1> QED  BY <1>6

\* A fold takes the greatest index last.
Folds(g, n, f, base) ==
  \A s \in SUBSET (1..n) :
    g[s] = IF s = {} THEN base ELSE f[<<g[s \ {Max(s)}], Max(s)>>]

LEMMA FoldExists ==
  ASSUME NEW D, NEW base \in D, NEW n \in Nat, NEW f \in [D \X (1..n) -> D]
  PROVE  \E g \in [SUBSET (1..n) -> D] : Folds(g, n, f, base)
<1> DEFINE Bad == {m \in 0..n : ~\E g \in [SUBSET (1..m) -> D] : Folds(g, m, f, base)}
<1>b. Bad \subseteq Nat /\ \A m \in Bad : m \in 0..n
  OBVIOUS
<1>c. \A m \in 0..n : m \notin Bad <=> \E g \in [SUBSET (1..m) -> D] : Folds(g, m, f, base)
  OBVIOUS
<1> HIDE DEF Bad
<1>1. SUFFICES ASSUME Bad # {} PROVE FALSE
  <2>1. n \in 0..n
    OBVIOUS
  <2> QED  BY <2>1, <1>c
<1>2. PICK m \in Bad : \A k \in Bad : m <= k
  BY <1>1, <1>b, LeastNat
<1>3. CASE m = 0
  <2> DEFINE g == [s \in SUBSET (1..m) |-> base]
  <2>1. SUBSET (1..m) = {{}}
    BY <1>3
  <2>2. g \in [SUBSET (1..m) -> D] /\ Folds(g, m, f, base)
    BY <2>1 DEF Folds
  <2> HIDE DEF g
  <2> QED  BY <1>b, <1>c, <2>2
<1>4. CASE m # 0
  <2>1. m - 1 \in 0..n /\ m - 1 \notin Bad /\ m \in 1..n
    BY <1>2, <1>4, <1>b
  <2>2. PICK g \in [SUBSET (1..m - 1) -> D] : Folds(g, m - 1, f, base)
    BY <2>1, <1>c
  <2> DEFINE h == [s \in SUBSET (1..m) |-> IF m \in s THEN f[<<g[s \ {m}], m>>] ELSE g[s]]
  <2>3. ASSUME NEW s \in SUBSET (1..m), m \in s
        PROVE  s \ {m} \in SUBSET (1..m - 1) /\ Max(s) = m
    <3>1. s \ {m} \in SUBSET (1..m - 1)
      BY <2>1, <2>3
    <3>2. \A x \in s : (\A y \in s : x >= y) <=> x = m
      BY <2>1, <2>3
    <3> QED  BY <2>3, <3>1, <3>2 DEF Max
  <2>4. ASSUME NEW s \in SUBSET (1..m), m \notin s
        PROVE  s \in SUBSET (1..m - 1)
    BY <2>1, <2>4
  <2>5. h \in [SUBSET (1..m) -> D]
    BY <2>1, <2>2, <2>3, <2>4
  <2>6. ASSUME NEW s \in SUBSET (1..m)
        PROVE  h[s] = IF s = {} THEN base ELSE f[<<h[s \ {Max(s)}], Max(s)>>]
    <3>1. CASE m \in s
      <4>1. h[s] = f[<<g[s \ {m}], m>>] /\ h[s \ {m}] = g[s \ {m}]
        BY <3>1
      <4> QED  BY <2>3, <3>1, <4>1
    <3>2. CASE m \notin s
      <4>1. h[s] = g[s] /\ h[s \ {Max(s)}] = g[s \ {Max(s)}]
        BY <3>2
      <4> QED  BY <2>2, <2>4, <3>2, <4>1 DEF Folds
    <3> QED  BY <3>1, <3>2
  <2> HIDE DEF h
  <2>7. Folds(h, m, f, base)
    BY <2>6 DEF Folds
  <2> QED  BY <1>b, <1>c, <2>5, <2>7
<1> QED  BY <1>3, <1>4

\* What holds of no index, and of one more each time, holds of all.
LEMMA FoldInSet ==
  ASSUME NEW D, NEW n \in Nat, NEW g, g[{}] \in D,
         \A m \in 1..n : g[1..m - 1] \in D => g[1..m] \in D
  PROVE  g[1..n] \in D
<1> DEFINE Bad == {m \in 0..n : g[1..m] \notin D}
<1>1. Bad \subseteq Nat /\ n \in 0..n
  OBVIOUS
<1>2. \A m \in 0..n : m \notin Bad <=> g[1..m] \in D
  OBVIOUS
<1>3. \A m \in Bad : m \in 0..n
  OBVIOUS
<1> HIDE DEF Bad
<1>4. SUFFICES ASSUME Bad # {} PROVE FALSE
  BY <1>1, <1>2
<1>5. PICK m \in Bad : \A k \in Bad : m <= k
  BY <1>1, <1>4, LeastNat
<1>6. CASE m = 0
  <2>1. 1..m = {}
    BY <1>6
  <2> QED  BY <1>2, <1>3, <1>5, <2>1
<1>7. CASE m # 0
  <2>1. m \in 1..n /\ m - 1 \in 0..n /\ ~(m <= m - 1)
    BY <1>3, <1>7
  <2>2. g[1..m - 1] \in D
    BY <1>2, <1>5, <2>1
  <2> QED  BY <1>2, <1>3, <1>5, <2>1, <2>2
<1> QED  BY <1>6, <1>7

\* The greatest index of a set is one of it, and of the first m it is m.
LEMMA GreatestIndex ==
  ASSUME NEW n \in Nat, NEW s \in SUBSET (1..n), s # {}
  PROVE  Max(s) \in s
<1> DEFINE T == {k \in 0..n : n - k \in s}
<1>1. T \subseteq Nat /\ \A x \in s : n - x \in T
  OBVIOUS
<1>2. \A k \in T : n - k \in s
  OBVIOUS
<1> HIDE DEF T
<1>3. PICK k \in T : \A m \in T : k <= m
  BY <1>1, LeastNat
<1>4. ASSUME NEW y \in s PROVE n - k >= y
  <2>1. k <= n - y /\ y \in 1..n /\ k \in Nat
    BY <1>1, <1>3
  <2> QED  BY <2>1
<1>5. n - k \in s
  BY <1>2
<1> QED  BY <1>4, <1>5 DEF Max

LEMMA GreatestOfAll ==
  ASSUME NEW m \in Nat, m # 0
  PROVE  Max(1..m) = m /\ (1..m) \ {m} = 1..m - 1 /\ 1..m # {}
<1>1. \A x \in 1..m : (\A y \in 1..m : x >= y) <=> x = m
  OBVIOUS
<1> QED  BY <1>1 DEF Max

\* The value of a fold, from an equation for each set of indices.
LEMMA FoldValue ==
  ASSUME NEW D, NEW n \in Nat, NEW iter, iter[{}] \in D,
         \A s \in SUBSET (1..n) : s # {} /\ iter[s \ {Max(s)}] \in D => iter[s] \in D
  PROVE  iter[1..n] \in D
<1>1. ASSUME NEW m \in 1..n, iter[1..m - 1] \in D PROVE iter[1..m] \in D
  <2>1. 1..m \in SUBSET (1..n) /\ m \in Nat /\ m # 0
    OBVIOUS
  <2>2. Max(1..m) = m /\ (1..m) \ {m} = 1..m - 1 /\ 1..m # {}
    BY <2>1, GreatestOfAll
  <2> QED  BY <1>1, <2>1, <2>2
<1> QED  BY <1>1, FoldInSet

\* The values a fold goes through.
IsRun(r, D, f, base, s) ==
  /\ r \in [0..Len(s) -> D] /\ r[0] = base
  /\ \A i \in 1..Len(s) : r[i] = f[<<r[i - 1], s[i]>>]

\* What the fold's own function does.
Iterates(iter, D, E, f, base, s) ==
  /\ f \in [D \X E -> D] /\ base \in D /\ s \in Seq(E) /\ iter[{}] = base
  /\ \A t \in SUBSET (1..Len(s)) : t # {} /\ iter[t \ {Max(t)}] \in D
            => iter[t] = f[<<iter[t \ {Max(t)}], s[Max(t)]>>]

LEMMA RunOfFold ==
  ASSUME NEW D, NEW E, NEW f, NEW base, NEW s, NEW iter, Iterates(iter, D, E, f, base, s)
  PROVE  \E r : IsRun(r, D, f, base, s) /\ r[Len(s)] = iter[1..Len(s)]
<1> USE DEF Iterates
<1> DEFINE n == Len(s)
<1>1. n \in Nat /\ \A i \in 1..n : s[i] \in E
  OBVIOUS
<1> HIDE DEF n
<1>2. \A t \in SUBSET (1..n) : t # {} /\ iter[t \ {Max(t)}] \in D
            => iter[t] = f[<<iter[t \ {Max(t)}], s[Max(t)]>>]
  BY DEF n
<1>3. ASSUME NEW m \in 1..n, iter[1..m - 1] \in D
      PROVE  iter[1..m] = f[<<iter[1..m - 1], s[m]>>] /\ iter[1..m] \in D
  <2>1. 1..m \in SUBSET (1..n) /\ m \in Nat /\ m # 0
    BY <1>1
  <2>2. Max(1..m) = m /\ (1..m) \ {m} = 1..m - 1 /\ 1..m # {}
    BY <2>1, GreatestOfAll
  <2>3. iter[1..m] = f[<<iter[1..m - 1], s[m]>>]
    BY <1>2, <1>3, <2>1, <2>2
  <2> QED  BY <1>1, <1>3, <2>3
<1>4. ASSUME NEW k \in 0..n PROVE iter[1..k] \in D
  <2>1. k \in Nat /\ (\A m \in 1..k : m \in 1..n) /\ iter[{}] \in D
    BY <1>1
  <2>2. \A m \in 1..k : iter[1..m - 1] \in D => iter[1..m] \in D
    BY <1>3, <2>1
  <2> QED  BY <2>1, <2>2, FoldInSet
<1> DEFINE r == [i \in 0..n |-> iter[1..i]]
<1>5. r \in [0..n -> D]
  BY <1>4
<1>6. r[0] = base
  <2>1. 1..0 = {} /\ 0 \in 0..n
    BY <1>1
  <2> QED  BY <2>1
<1>7. ASSUME NEW i \in 1..n PROVE r[i] = f[<<r[i - 1], s[i]>>]
  <2>1. i \in 0..n /\ i - 1 \in 0..n
    BY <1>1
  <2>2. iter[1..i - 1] \in D
    BY <1>4, <2>1
  <2> QED  BY <1>3, <2>1, <2>2
<1>8. n \in 0..n
  BY <1>1
<1>9. r[n] = iter[1..n]
  BY <1>8
<1> HIDE DEF r
<1> QED  BY <1>5, <1>6, <1>7, <1>9 DEF IsRun, n

\* Two runs agree.
LEMMA RunsAgree ==
  ASSUME NEW D, NEW f, NEW base, NEW s, NEW r, NEW q, Len(s) \in Nat,
         IsRun(r, D, f, base, s), IsRun(q, D, f, base, s)
  PROVE  \A i \in 0..Len(s) : q[i] = r[i]
<1> DEFINE n == Len(s)
           Bad == {i \in 0..n : q[i] # r[i]}
<1>1. n \in Nat
  OBVIOUS
<1>2. /\ r[0] = base /\ \A i \in 1..n : r[i] = f[<<r[i - 1], s[i]>>]
      /\ q[0] = base /\ \A i \in 1..n : q[i] = f[<<q[i - 1], s[i]>>]
  BY DEF IsRun
<1> HIDE DEF n
<1>5. Bad \subseteq Nat /\ (\A i \in Bad : i \in 0..n) /\ \A i \in 0..n : i \notin Bad <=> q[i] = r[i]
  BY <1>1
<1> HIDE DEF Bad
<1>6. Bad = {}
  <2> SUFFICES ASSUME Bad # {} PROVE FALSE
    OBVIOUS
  <2>1. PICK i \in Bad : \A k \in Bad : i <= k
    BY <1>5, LeastNat
  <2>2. i \in 0..n /\ i # 0
    BY <1>2, <1>5
  <2>3. i \in 1..n /\ i - 1 \in 0..n /\ ~(i <= i - 1)
    BY <1>1, <2>2
  <2>4. q[i - 1] = r[i - 1]
    BY <1>5, <2>1, <2>3
  <2> QED  BY <1>2, <1>5, <2>2, <2>3, <2>4
<1> QED  BY <1>5, <1>6 DEF n

\* A sequence over a set is one over a larger set.
LEMMA SeqWidens ==
  ASSUME NEW S, NEW R, S \subseteq R, NEW s \in Seq(S)
  PROVE  s \in Seq(R)
OBVIOUS

\* FlattenSeq takes one sequence after the other.
Flat(r, S, ss) ==
  /\ r \in [1..Len(ss) -> Seq(S)]
  /\ \A i \in 1..Len(ss) : r[i] = IF i = 1 THEN ss[i] ELSE r[i - 1] \o ss[i]
  /\ FlattenSeq(ss) = IF Len(ss) = 0 THEN <<>> ELSE r[Len(ss)]

LEMMA FlattenRuns ==
  ASSUME NEW S, NEW ss \in Seq(Seq(S))
  PROVE  \E r : Flat(r, S, ss)
<1> DEFINE n == Len(ss)
           IsFlat(g) == g = [i \in 1..n |-> IF i = 1 THEN ss[i] ELSE g[i - 1] \o ss[i]]
           flat == CHOOSE g : IsFlat(g)
           f == [p \in Seq(S) \X (1..n) |-> IF p[2] = 1 THEN ss[1] ELSE p[1] \o ss[p[2]]]
<1>1. n \in Nat /\ \A i \in 1..n : ss[i] \in Seq(S)
  OBVIOUS
<1>2. FlattenSeq(ss) = IF n = 0 THEN ss ELSE flat[n]
  BY DEF FlattenSeq
<1>3. n = 0 => ss = <<>>
  OBVIOUS
<1> HIDE DEF n
<1>4. \A a, b \in Seq(S) : a \o b \in Seq(S)
  OBVIOUS
<1>5. f \in [Seq(S) \X (1..n) -> Seq(S)]
  BY <1>1, <1>4
<1>6. \A a \in Seq(S), i \in 1..n : f[<<a, i>>] = IF i = 1 THEN ss[i] ELSE a \o ss[i]
  OBVIOUS
<1> HIDE DEF f
<1>7. <<>> \in Seq(S)
  OBVIOUS
<1>8. PICK h \in [SUBSET (1..n) -> Seq(S)] : Folds(h, n, f, <<>>)
  BY <1>1, <1>5, <1>7, FoldExists
<1>9. ASSUME NEW i \in 1..n
      PROVE  h[1..i] = IF i = 1 THEN ss[i] ELSE h[1..i - 1] \o ss[i]
  <2>1. 1..i \in SUBSET (1..n) /\ 1..i - 1 \in SUBSET (1..n) /\ i \in Nat /\ i # 0
    BY <1>1
  <2>2. Max(1..i) = i /\ (1..i) \ {i} = 1..i - 1 /\ 1..i # {}
    BY <2>1, GreatestOfAll
  <2>3. h[1..i] = f[<<h[1..i - 1], i>>]
    BY <1>8, <2>1, <2>2 DEF Folds
  <2>4. h[1..i - 1] \in Seq(S)
    BY <1>8, <2>1
  <2> QED  BY <1>6, <2>3, <2>4
<1> DEFINE g == [i \in 1..n |-> h[1..i]]
<1>10. ASSUME NEW i \in 1..n
       PROVE  g[i] = IF i = 1 THEN ss[i] ELSE g[i - 1] \o ss[i]
  <2>1. i # 1 => i - 1 \in 1..n
    BY <1>1
  <2> QED  BY <1>9, <2>1
<1>11. IsFlat(g)
  <2>1. g = [i \in 1..n |-> g[i]]
    OBVIOUS
  <2> HIDE DEF g
  <2> QED  BY <1>10, <2>1
<1> HIDE DEF g
<1>12. IsFlat(flat)
  BY <1>11
<1> HIDE DEF flat
<1>13. \A i \in 1..n : flat[i] = IF i = 1 THEN ss[i] ELSE flat[i - 1] \o ss[i]
  BY <1>12
<1> DEFINE Bad == {i \in 1..n : flat[i] \notin Seq(S)}
<1>14. Bad \subseteq Nat /\ (\A i \in Bad : i \in 1..n) /\ \A i \in 1..n : i \notin Bad <=> flat[i] \in Seq(S)
  BY <1>1
<1> HIDE DEF Bad
<1>15. Bad = {}
  <2> SUFFICES ASSUME Bad # {} PROVE FALSE
    OBVIOUS
  <2>1. PICK i \in Bad : \A k \in Bad : i <= k
    BY <1>14, LeastNat
  <2>2. i \in 1..n /\ ~(i <= i - 1) /\ (i # 1 => i - 1 \in 1..n)
    BY <1>1, <1>14
  <2>3. i # 1 => flat[i - 1] \in Seq(S)
    BY <1>14, <2>1, <2>2
  <2>4. flat[i] \in Seq(S)
    BY <1>1, <1>4, <1>13, <2>2, <2>3
  <2> QED  BY <1>14, <2>2, <2>4
<1>16. \A i \in 1..n : flat[i] \in Seq(S)
  BY <1>14, <1>15
<1> DEFINE r == [i \in 1..n |-> flat[i]]
<1>17. r \in [1..n -> Seq(S)]
  BY <1>16
<1>18. ASSUME NEW i \in 1..n PROVE r[i] = IF i = 1 THEN ss[i] ELSE r[i - 1] \o ss[i]
  <2>1. i # 1 => i - 1 \in 1..n
    BY <1>1
  <2> QED  BY <1>13, <2>1
<1>19. n # 0 => n \in 1..n /\ r[n] = flat[n]
  BY <1>1
<1> HIDE DEF r
<1>20. FlattenSeq(ss) = IF n = 0 THEN <<>> ELSE r[n]
  BY <1>2, <1>3, <1>19
<1> QED  BY <1>17, <1>18, <1>20 DEF Flat, n

\* Flattening sequences of elements of a set gives one of elements of the set.
LEMMA FlattenInSet ==
  ASSUME NEW S, NEW ss \in Seq(Seq(S))
  PROVE  FlattenSeq(ss) \in Seq(S)
<1>1. PICK r : Flat(r, S, ss)
  BY FlattenRuns
<1>2. Len(ss) \in Nat /\ <<>> \in Seq(S) /\ (Len(ss) # 0 => Len(ss) \in 1..Len(ss))
  OBVIOUS
<1> QED  BY <1>1, <1>2 DEF Flat

LEMMA FlattenNone == FlattenSeq(<<>>) = <<>>
<1>1. PICK r : Flat(r, {}, <<>>)
  <2>1. <<>> \in Seq(Seq({}))
    OBVIOUS
  <2> QED  BY <2>1, FlattenRuns
<1> QED  BY <1>1 DEF Flat

LEMMA FlattenAppend ==
  ASSUME NEW S, NEW ss \in Seq(Seq(S)), NEW s \in Seq(S)
  PROVE  FlattenSeq(Append(ss, s)) = FlattenSeq(ss) \o s
<1> DEFINE n == Len(ss)
           t == Append(ss, s)
<1>1. n \in Nat /\ t \in Seq(Seq(S)) /\ Len(t) = n + 1 /\ t[n + 1] = s /\ \A i \in 1..n : t[i] = ss[i]
  OBVIOUS
<1>2. PICK r : Flat(r, S, ss)
  BY FlattenRuns
<1>3. PICK q : Flat(q, S, t)
  BY <1>1, FlattenRuns
<1> HIDE DEF t
<1>4. /\ \A i \in 1..n : r[i] = IF i = 1 THEN ss[i] ELSE r[i - 1] \o ss[i]
      /\ FlattenSeq(ss) = IF n = 0 THEN <<>> ELSE r[n]
  BY <1>2 DEF Flat
<1> HIDE DEF n
<1>5. /\ \A i \in 1..(n + 1) : q[i] = IF i = 1 THEN t[i] ELSE q[i - 1] \o t[i]
      /\ FlattenSeq(t) = q[n + 1]
  <2>1. /\ \A i \in 1..Len(t) : q[i] = IF i = 1 THEN t[i] ELSE q[i - 1] \o t[i]
        /\ FlattenSeq(t) = IF Len(t) = 0 THEN <<>> ELSE q[Len(t)]
    BY <1>3 DEF Flat
  <2>2. Len(t) = n + 1 /\ n + 1 # 0
    BY <1>1
  <2> QED  BY <2>1, <2>2
<1> DEFINE Bad == {i \in 1..n : q[i] # r[i]}
<1>6. Bad \subseteq Nat /\ (\A i \in Bad : i \in 1..n) /\ \A i \in 1..n : i \notin Bad <=> q[i] = r[i]
  BY <1>1
<1> HIDE DEF Bad
<1>7. Bad = {}
  <2> SUFFICES ASSUME Bad # {} PROVE FALSE
    OBVIOUS
  <2>1. PICK i \in Bad : \A k \in Bad : i <= k
    BY <1>6, LeastNat
  <2>2. i \in 1..n /\ i \in 1..(n + 1) /\ ~(i <= i - 1) /\ (i # 1 => i - 1 \in 1..n) /\ t[i] = ss[i]
    BY <1>1, <1>6
  <2>3. i # 1 => q[i - 1] = r[i - 1]
    BY <1>6, <2>1, <2>2
  <2>4. q[i] = r[i]
    BY <1>4, <1>5, <2>2, <2>3
  <2> QED  BY <1>6, <2>2, <2>4
<1>8. n + 1 \in 1..(n + 1) /\ (n # 0 => n \in 1..n) /\ n + 1 - 1 = n
  BY <1>1
<1>9. CASE n = 0
  <2>1. FlattenSeq(t) = s
    BY <1>1, <1>5, <1>8, <1>9
  <2>2. FlattenSeq(ss) \o s = s
    <3>1. FlattenSeq(ss) = <<>> /\ <<>> \o s = s
      BY <1>4, <1>9
    <3> QED  BY <3>1
  <2> QED  BY <2>1, <2>2 DEF t
<1>10. CASE n # 0
  <2>1. q[n] = r[n]
    BY <1>6, <1>7, <1>8, <1>10
  <2> DEFINE m == n + 1
  <2>2. m \in 1..(n + 1) /\ m # 1 /\ m - 1 = n
    BY <1>1, <1>10
  <2>3. q[m] = q[m - 1] \o t[m]
    BY <1>5, <2>2
  <2>4. FlattenSeq(t) = q[n] \o t[n + 1]
    BY <1>5, <2>2, <2>3
  <2> QED  BY <1>1, <1>4, <1>10, <2>1, <2>4 DEF t
<1> QED  BY <1>9, <1>10

-----------------------------------------------------------------------------
(* Nodes and lines                                                         *)

LEMMA LineWidens ==
  ASSUME NEW d, NEW T, NEW U, T \subseteq U
  PROVE  Line(d, T) \subseteq Line(d, U)
<1>1. NodeOf(d, T) \subseteq NodeOf(d, U)
  BY DEF NodeOf
<1>2. Seq(NodeOf(d, T)) \subseteq Seq(NodeOf(d, U))
  BY <1>1
<1> QED  BY <1>2 DEF Line

LEMMA LogWidens ==
  ASSUME NEW d, NEW T, NEW U, T \subseteq U, NEW l \in Seq(Line(d, T))
  PROVE  l \in Seq(Line(d, U))
<1>1. Line(d, T) \subseteq Line(d, U)
  BY LineWidens
<1> QED  BY <1>1

LEMMA LineFacts ==
  ASSUME NEW d, NEW T, NEW line \in Line(d, T)
  PROVE  /\ line \in Seq(NodeOf(d, T)) /\ Len(line) \in Nat
         /\ \A j \in 1..Len(line) : line[j] \in NodeOf(d, T)
<1>1. line \in Seq(NodeOf(d, T))
  BY DEF Line
<1> QED  BY <1>1

LEMMA LogFacts ==
  ASSUME NEW d, NEW T, NEW l \in Seq(Line(d, T))
  PROVE  /\ Len(l) \in Nat /\ \A k \in 1..Len(l) : l[k] \in Line(d, T)
OBVIOUS

LEMMA InNodes ==
  ASSUME NEW l, NEW n
  PROVE  n \in NodesOf(l) <=> \E k \in 1..Len(l) : \E j \in 1..Len(l[k]) : n = l[k][j]
BY DEF NodesOf

LEMMA NodesOfBoth ==
  ASSUME NEW S, NEW a \in Seq(S), NEW b \in Seq(S)
  PROVE  NodesOf(a \o b) = NodesOf(a) \cup NodesOf(b)
<1> DEFINE c == a \o b
<1>1. /\ Len(a) \in Nat /\ Len(b) \in Nat /\ Len(c) = Len(a) + Len(b)
      /\ \A k \in 1..Len(a) : c[k] = a[k]
      /\ \A k \in 1..Len(b) : c[Len(a) + k] = b[k]
  OBVIOUS
<1> HIDE DEF c
<1>2. ASSUME NEW n PROVE n \in NodesOf(c) <=> n \in NodesOf(a) \/ n \in NodesOf(b)
  <2>1. ASSUME n \in NodesOf(c) PROVE n \in NodesOf(a) \/ n \in NodesOf(b)
    <3>1. PICK k \in 1..Len(c) : \E j \in 1..Len(c[k]) : n = c[k][j]
      BY <2>1, InNodes
    <3>2. CASE k <= Len(a)
      <4>1. k \in 1..Len(a) /\ c[k] = a[k]
        BY <1>1, <3>2
      <4> QED  BY <3>1, <4>1, InNodes
    <3>3. CASE k > Len(a)
      <4> DEFINE i == k - Len(a)
      <4>1. k \in Int /\ 1 <= k /\ k <= Len(a) + Len(b)
        BY <1>1
      <4>2. i \in 1..Len(b) /\ Len(a) + i = k
        BY <1>1, <3>3, <4>1
      <4> HIDE DEF i
      <4>3. c[k] = b[i]
        BY <1>1, <4>2
      <4> QED  BY <3>1, <4>2, <4>3, InNodes
    <3> QED  BY <1>1, <3>2, <3>3
  <2>2. ASSUME n \in NodesOf(a) PROVE n \in NodesOf(c)
    <3>1. PICK k \in 1..Len(a) : \E j \in 1..Len(a[k]) : n = a[k][j]
      BY <2>2, InNodes
    <3>2. k \in 1..Len(c) /\ c[k] = a[k]
      BY <1>1
    <3> QED  BY <3>1, <3>2, InNodes
  <2>3. ASSUME n \in NodesOf(b) PROVE n \in NodesOf(c)
    <3>1. PICK k \in 1..Len(b) : \E j \in 1..Len(b[k]) : n = b[k][j]
      BY <2>3, InNodes
    <3>2. Len(a) + k \in 1..Len(c) /\ c[Len(a) + k] = b[k]
      BY <1>1
    <3> QED  BY <3>1, <3>2, InNodes
  <2> QED  BY <2>1, <2>2, <2>3
<1>3. NodesOf(c) = NodesOf(a) \cup NodesOf(b)
  BY <1>2
<1> QED  BY <1>3 DEF c

LEMMA NodeTypes ==
  ASSUME NEW d, NEW T, NEW l \in Seq(Line(d, T)), NEW n \in NodesOf(l)
  PROVE  n \in NodeOf(d, T)
<1>1. PICK k \in 1..Len(l) : \E j \in 1..Len(l[k]) : n = l[k][j]
  BY InNodes
<1>2. l[k] \in Line(d, T)
  BY LogFacts
<1> QED  BY <1>1, <1>2, LineFacts

-----------------------------------------------------------------------------
(* What the agents write                                                   *)

\* The lines of a call and of its answer, none of them forgotten.
Fresh(d, i, T) ==
  {line \in Line(d, T) : \A j \in 1..Len(line) : line[j].id = i /\ line[j].text # "pruned"}

LEMMA CallFresh ==
  ASSUME NEW d \in Dialect, NEW i, NEW a
  PROVE  CallLine(i, a) \in Fresh(d, i, {i, a}) /\ CallLine(i, a)[1].text = "absent" /\ Len(CallLine(i, a)) = 1
<1> DEFINE n == CallNode(i, a, "absent")
<1>1. n \in NodeOf(d, {i, a}) /\ n.id = i /\ n.text = "absent" /\ n.kind = "call"
  BY DEF CallNode, NodeOf
<1>2. CallLine(i, a) = <<n>>
  BY DEF CallLine
<1> HIDE DEF n
<1>3. <<n>> \in Seq(NodeOf(d, {i, a})) /\ Len(<<n>>) = 1 /\ <<n>>[1] = n
  BY <1>1
<1> QED  BY <1>1, <1>2, <1>3 DEF Fresh, Line

LEMMA OutNodes ==
  ASSUME NEW d \in Dialect, NEW i, NEW T, i \in T, "none" \in T, NEW k \in {"output", "body"},
         k = "body" => d = "claude", NEW t \in {"full", "tiny"}
  PROVE  /\ OutNode(k, i, t) \in NodeOf(d, T) /\ OutNode(k, i, t).id = i
         /\ OutNode(k, i, t).text # "pruned"
BY DEF OutNode, NodeOf, Text

LEMMA AnswerFresh ==
  ASSUME NEW d \in Dialect, NEW i, NEW a, NEW t \in {"full", "tiny"}
  PROVE  AnswerLines(d, i, a, t) \in Seq(Fresh(d, i, {i, a, "none"}))
<1> DEFINE T == {i, a, "none"}
           c == CallNode(i, a, t)
           o == OutNode("output", i, t)
           f == OutNode("output", i, "full")
<1>1. o \in NodeOf(d, T) /\ o.id = i /\ o.text # "pruned" /\ f \in NodeOf(d, T) /\ f.id = i /\ f.text # "pruned"
  BY OutNodes
<1>2. d = "gemini" => c \in NodeOf(d, T) /\ c.id = i /\ c.text # "pruned"
  BY DEF CallNode, NodeOf, Text
<1>3. AnswerLines(d, i, a, t) = CASE d = "gemini" -> <<<<c, o>>, <<o>>>>
                                  [] d = "pi"     -> <<<<o, f>>>>
                                  [] OTHER        -> <<<<o>>>>
  BY DEF AnswerLines
<1> HIDE DEF c, o, f, T
<1>4. <<o>> \in Fresh(d, i, T)
  BY <1>1 DEF Fresh, Line
<1>5. <<o, f>> \in Fresh(d, i, T)
  <2>1. <<o, f>> \in Seq(NodeOf(d, T)) /\ Len(<<o, f>>) = 2
    BY <1>1
  <2>2. \A j \in 1..2 : <<o, f>>[j] = o \/ <<o, f>>[j] = f
    OBVIOUS
  <2> QED  BY <1>1, <2>1, <2>2 DEF Fresh, Line
<1>6. d = "gemini" => <<c, o>> \in Fresh(d, i, T)
  <2> SUFFICES ASSUME d = "gemini" PROVE <<c, o>> \in Fresh(d, i, T)
    OBVIOUS
  <2>1. <<c, o>> \in Seq(NodeOf(d, T)) /\ Len(<<c, o>>) = 2
    BY <1>1, <1>2
  <2>2. \A j \in 1..2 : <<c, o>>[j] = c \/ <<c, o>>[j] = o
    OBVIOUS
  <2> QED  BY <1>1, <1>2, <2>1, <2>2 DEF Fresh, Line
<1> HIDE DEF Fresh
<1>7. AnswerLines(d, i, a, t) \in Seq(Fresh(d, i, T))
  BY <1>3, <1>4, <1>5, <1>6
<1> QED  BY <1>7 DEF T

LEMMA SkillFresh ==
  ASSUME NEW i, NEW t \in {"full", "tiny"}
  PROVE  SkillLines(i, t) \in Seq(Fresh("claude", i, {i, "none"}))
<1> DEFINE T == {i, "none"}
           o == OutNode("output", i, "tiny")
           b == OutNode("body", i, t)
<1>1. o \in NodeOf("claude", T) /\ o.id = i /\ o.text # "pruned" /\ b \in NodeOf("claude", T) /\ b.id = i /\ b.text # "pruned"
  BY OutNodes DEF Dialect
<1>2. SkillLines(i, t) = <<<<o>>, <<b>>>>
  BY DEF SkillLines
<1> HIDE DEF o, b
<1>3. <<o>> \in Fresh("claude", i, T) /\ <<b>> \in Fresh("claude", i, T)
  BY <1>1 DEF Fresh, Line
<1> HIDE DEF Fresh, T
<1>4. SkillLines(i, t) \in Seq(Fresh("claude", i, T))
  BY <1>2, <1>3
<1> QED  BY <1>4 DEF T

\* gemini's snapshot repeats nodes.
LEMMA SnapshotRepeats ==
  ASSUME NEW S, NEW l \in Seq(Seq(S))
  PROVE  \E line \in Seq(NodesOf(l)) : SnapshotLine(l) = <<line>>
<1> DEFINE N == NodesOf(l)
           ns == Nodes(l)
           n == Len(ns)
           last == {k \in 1..Len(ns) : ~\E j \in (k + 1)..Len(ns) :
                      ns[j].kind = ns[k].kind /\ ns[j].id = ns[k].id}
           Add(acc, k) == IF k \in last THEN Append(acc, ns[k]) ELSE acc
           ids == [k \in 1..n |-> k]
           IsIter(g) == g = [s \in SUBSET (1..n) |-> IF s = {} THEN <<>>
                                ELSE Add(g[s \ {Max(s)}], ids[Max(s)])]
           iter == CHOOSE g : IsIter(g)
           f == [p \in Seq(N) \X (1..n) |-> Add(p[1], p[2])]
<1>1. ns \in Seq(N)
  <2>1. \A k \in 1..Len(l) : l[k] \in Seq(S) /\ \A j \in 1..Len(l[k]) : l[k][j] \in N
    BY InNodes
  <2>2. \A k \in 1..Len(l) : l[k] \in Seq(N)
    BY <2>1
  <2>3. l \in Seq(Seq(N))
    BY <2>2
  <2> QED  BY <2>3, FlattenInSet DEF Nodes
<1>2. DOMAIN ids = 1..n
  OBVIOUS
<1>3. SnapshotLine(l) = <<iter[1..n]>>
  BY <1>2 DEF SnapshotLine, FoldLeft, MapThenFoldSet
<1>4. n \in Nat /\ \A k \in 1..n : ns[k] \in N
  BY <1>1
<1> HIDE DEF N, ns, n, last
<1>5. \A acc \in Seq(N), k \in 1..n : Add(acc, k) \in Seq(N)
  BY <1>4
<1>6. \A k \in 1..n : ids[k] = k
  OBVIOUS
<1> HIDE DEF Add, ids
<1>7. f \in [Seq(N) \X (1..n) -> Seq(N)]
  BY <1>5
<1>8. \A acc \in Seq(N), k \in 1..n : f[<<acc, k>>] = Add(acc, k)
  OBVIOUS
<1> HIDE DEF f
<1>9. <<>> \in Seq(N)
  OBVIOUS
<1>10. PICK g \in [SUBSET (1..n) -> Seq(N)] : Folds(g, n, f, <<>>)
  BY <1>4, <1>7, <1>9, FoldExists
<1>11. ASSUME NEW s \in SUBSET (1..n)
       PROVE  g[s] = IF s = {} THEN <<>> ELSE Add(g[s \ {Max(s)}], ids[Max(s)])
  <2>1. CASE s = {}
    BY <1>10, <2>1 DEF Folds
  <2>2. CASE s # {}
    <3>1. Max(s) \in 1..n /\ g[s \ {Max(s)}] \in Seq(N)
      BY <1>4, <2>2, GreatestIndex
    <3>2. g[s] = f[<<g[s \ {Max(s)}], Max(s)>>]
      BY <1>10, <2>2 DEF Folds
    <3> QED  BY <1>6, <1>8, <2>2, <3>1, <3>2
  <2> QED  BY <2>1, <2>2
<1>12. IsIter(g)
  BY <1>11
<1>13. IsIter(iter)
  BY <1>12
<1> HIDE DEF iter
<1>14. iter[{}] = <<>> /\ \A s \in SUBSET (1..n) : s # {} => iter[s] = Add(iter[s \ {Max(s)}], ids[Max(s)])
  BY <1>13
<1>15. ASSUME NEW s \in SUBSET (1..n), s # {}, iter[s \ {Max(s)}] \in Seq(N)
       PROVE  iter[s] \in Seq(N)
  <2>1. Max(s) \in 1..n
    BY <1>4, <1>15, GreatestIndex
  <2>2. iter[s] = Add(iter[s \ {Max(s)}], Max(s))
    BY <1>6, <1>14, <1>15, <2>1
  <2> QED  BY <1>5, <1>15, <2>1, <2>2
<1>16. iter[1..n] \in Seq(N)
  BY <1>4, <1>9, <1>14, <1>15, FoldValue
<1> QED  BY <1>3, <1>16 DEF N

-----------------------------------------------------------------------------
(* The transcript grows                                                    *)

LEMMA FreshNodes ==
  ASSUME NEW d, NEW i, NEW T, NEW more \in Seq(Fresh(d, i, T)), NEW n \in NodesOf(more)
  PROVE  n.id = i /\ n.text # "pruned"
<1>1. PICK k \in 1..Len(more) : \E j \in 1..Len(more[k]) : n = more[k][j]
  BY InNodes
<1>2. more[k] \in Fresh(d, i, T)
  OBVIOUS
<1> QED  BY <1>1, <1>2 DEF Fresh

LEMMA FreshLines ==
  ASSUME NEW d, NEW i, NEW T, NEW more \in Seq(Fresh(d, i, T))
  PROVE  more \in Seq(Line(d, T))
<1>1. Fresh(d, i, T) \subseteq Line(d, T)
  BY DEF Fresh
<1> HIDE DEF Fresh
<1> QED  BY <1>1

\* More lines, of which none is of an output that is gone, ...
LEMMA GrowsFresh ==
  ASSUME NEW d, NEW T, NEW l \in Seq(Line(d, T)), Leakless(NodesOf(l)),
         NEW i, NEW U, NEW more \in Seq(Fresh(d, i, U)),
         \/ \A n \in NodesOf(l) : n.id = i => n.kind = "call"
         \/ \A n \in NodesOf(more) : n.text # "full"
  PROVE  l \o more \in Seq(Line(d, T \cup U)) /\ Leakless(NodesOf(l \o more))
<1> DEFINE D == Line(d, T \cup U)
<1>1. l \in Seq(D) /\ more \in Seq(D)
  <2>1. more \in Seq(Line(d, U))
    BY FreshLines
  <2>2. T \subseteq T \cup U /\ U \subseteq T \cup U
    OBVIOUS
  <2> QED  BY <2>1, <2>2, LogWidens
<1> HIDE DEF D
<1>2. l \o more \in Seq(D)
  BY <1>1
<1>3. NodesOf(l \o more) = NodesOf(l) \cup NodesOf(more)
  BY <1>1, NodesOfBoth
<1>4. \A n \in NodesOf(more) : n.id = i /\ n.text # "pruned"
  BY FreshNodes
<1>5. Leakless(NodesOf(l) \cup NodesOf(more))
  BY <1>4 DEF Leakless
<1> QED  BY <1>2, <1>3, <1>5 DEF D

\* ... or that only repeat what is there.
LEMMA GrowsRepeating ==
  ASSUME NEW T, NEW l \in Seq(Line("gemini", T)), Leakless(NodesOf(l)), NEW line \in Seq(NodesOf(l))
  PROVE  l \o <<line>> \in Seq(Line("gemini", T)) /\ Leakless(NodesOf(l \o <<line>>))
<1>1. Len(line) \in Nat /\ \A j \in 1..Len(line) : line[j] \in NodesOf(l)
  OBVIOUS
<1>2. NodesOf(l) \subseteq NodeOf("gemini", T)
  BY NodeTypes
<1>3. line \in Seq(NodeOf("gemini", T))
  BY <1>1, <1>2
<1>4. line \in Line("gemini", T)
  BY <1>3 DEF Line
<1> DEFINE D == Line("gemini", T)
<1>5. l \in Seq(D) /\ <<line>> \in Seq(D)
  BY <1>4
<1> HIDE DEF D
<1>6. l \o <<line>> \in Seq(D)
  BY <1>5
<1>u. NodesOf(l \o <<line>>) = NodesOf(l) \cup NodesOf(<<line>>)
  <2> DEFINE more == <<line>>
  <2>1. more \in Seq(D)
    BY <1>5
  <2> HIDE DEF more
  <2>2. NodesOf(l \o more) = NodesOf(l) \cup NodesOf(more)
    BY <1>5, <2>1, NodesOfBoth
  <2> QED  BY <2>2 DEF more
<1>7. NodesOf(<<line>>) \subseteq NodesOf(l)
  <2> SUFFICES ASSUME NEW n \in NodesOf(<<line>>) PROVE n \in NodesOf(l)
    OBVIOUS
  <2>1. PICK k \in 1..Len(<<line>>) : \E j \in 1..Len(<<line>>[k]) : n = <<line>>[k][j]
    BY InNodes
  <2>2. <<line>>[k] = line
    OBVIOUS
  <2> QED  BY <1>1, <2>1, <2>2
<1>8. NodesOf(l \o <<line>>) = NodesOf(l)
  BY <1>u, <1>7
<1> QED  BY <1>6, <1>8 DEF D

LEMMA InitLog == Init => LogInv /\ \A n \in NodesOf(log) : n.text # "pruned"
<1> SUFFICES ASSUME Init PROVE LogInv /\ \A n \in NodesOf(log) : n.text # "pruned"
  OBVIOUS
<1>1. dialect \in Dialect /\ past \in 0..MaxPast
  BY DEF Init
<1>2. PICK sizes \in [1..past -> Sizes(dialect)] :
        log = FlattenSeq([i \in 1..past |->
                <<CallLine(i, "a")>> \o AnswerLines(dialect, i, "a", sizes[i])])
  BY DEF Init
<1> DEFINE T == (1..past) \cup {"a", "none"}
           D == {line \in Line(dialect, T) : \A j \in 1..Len(line) : line[j].text # "pruned"}
           turn == [i \in 1..past |-> <<CallLine(i, "a")>> \o AnswerLines(dialect, i, "a", sizes[i])]
<1>3. ASSUME NEW i \in 1..past PROVE turn[i] \in Seq(D)
  <2>1. sizes[i] \in {"full", "tiny"}
    BY DEF Sizes
  <2>2. AnswerLines(dialect, i, "a", sizes[i]) \in Seq(Fresh(dialect, i, {i, "a", "none"}))
    BY <1>1, <2>1, AnswerFresh
  <2>3. CallLine(i, "a") \in Fresh(dialect, i, {i, "a"})
    BY <1>1, CallFresh
  <2>4. Fresh(dialect, i, {i, "a", "none"}) \subseteq D /\ Fresh(dialect, i, {i, "a"}) \subseteq D
    <3>1. {i, "a", "none"} \subseteq T /\ {i, "a"} \subseteq T
      OBVIOUS
    <3> HIDE DEF T
    <3>2. Line(dialect, {i, "a", "none"}) \subseteq Line(dialect, T) /\ Line(dialect, {i, "a"}) \subseteq Line(dialect, T)
      BY <3>1, LineWidens
    <3> QED  BY <3>2 DEF Fresh
  <2> HIDE DEF D
  <2>5. AnswerLines(dialect, i, "a", sizes[i]) \in Seq(D) /\ <<CallLine(i, "a")>> \in Seq(D)
    <3>1. <<CallLine(i, "a")>> \in Seq(Fresh(dialect, i, {i, "a"}))
      BY <2>3
    <3>2. <<CallLine(i, "a")>> \in Seq(D)
      BY <2>4, <3>1, SeqWidens
    <3>3. AnswerLines(dialect, i, "a", sizes[i]) \in Seq(D)
      <4> DEFINE F == Fresh(dialect, i, {i, "a", "none"})
                 A == AnswerLines(dialect, i, "a", sizes[i])
      <4>1. F \subseteq D /\ A \in Seq(F)
        BY <2>2, <2>4
      <4> HIDE DEF F, A
      <4>2. A \in Seq(D)
        BY <4>1, SeqWidens
      <4> QED  BY <4>2 DEF A
    <3> QED  BY <3>2, <3>3
  <2> QED  BY <2>5
<1>4. past \in Nat
  BY <1>1, BoundsAssumption
<1> HIDE DEF D
<1>5. turn \in Seq(Seq(D))
  <2>1. DOMAIN turn = 1..past
    OBVIOUS
  <2>2. turn = [i \in 1..past |-> turn[i]]
    OBVIOUS
  <2> HIDE DEF turn
  <2> QED  BY <1>3, <1>4, <2>1, <2>2
<1>6. log \in Seq(D)
  BY <1>2, <1>5, FlattenInSet
<1>7. D \subseteq Line(dialect, T)
  BY DEF D
<1>8. log \in Seq(Line(dialect, T))
  BY <1>6, <1>7, SeqWidens
<1>9. \A n \in NodesOf(log) : n.text # "pruned"
  <2> SUFFICES ASSUME NEW n \in NodesOf(log) PROVE n.text # "pruned"
    OBVIOUS
  <2>1. PICK k \in 1..Len(log) : \E j \in 1..Len(log[k]) : n = log[k][j]
    BY InNodes
  <2>2. log[k] \in D
    BY <1>6
  <2> QED  BY <2>1, <2>2 DEF D
<1> HIDE DEF T
<1>10. main.at # "rewrite"
  BY DEF Init, Idle
<1> QED  BY <1>1, <1>8, <1>9, <1>10 DEF LogInv, Sound, Leakless

-----------------------------------------------------------------------------
(* The transcript is rewritten                                             *)

\* A line after a batch has taken ids, in any dialect.
After(d, line, ids) ==
  IF d = "cursor"
  THEN [j \in 1..Len(line) |->
          IF line[j].kind = "output" /\ line[j].id \in ids THEN BlankText(line[j]) ELSE line[j]]
  ELSE WrittenLine(d, line, ids)

\* What becomes of a node: only the text and the arguments of a node of ids
\* change, and nothing of them stays in full.
Turns(n, m, ids) ==
  /\ m.kind = n.kind /\ m.id = n.id
  /\ n.id \notin ids => m = n
  /\ n.id \in ids => m.text # "full"

LEMMA ResultIs ==
  ASSUME NEW ids, ids = ChooseBatch(dialect, seen, main.reqs)
  PROVE  Result.log = [k \in 1..Len(seen) |-> After(dialect, seen[k], ids)]
<1>1. CASE dialect = "cursor"
  BY <1>1 DEF Result, PruneBatch, PruneCursor, After
<1>2. CASE dialect # "cursor"
  BY <1>2 DEF Result, PruneBatch, BlankPass, After
<1> QED  BY <1>1, <1>2

LEMMA BlankTextFacts ==
  ASSUME NEW d, NEW T, NEW n \in NodeOf(d, T)
  PROVE  /\ BlankText(n) \in NodeOf(d, T)
         /\ BlankText(n).kind = n.kind /\ BlankText(n).id = n.id /\ BlankText(n).text # "full"
         /\ n.kind # "call" => BlankText(n).text = "pruned"
<1>1. n \in [kind : {"call", "output", "body"}, id : T, arg : T, text : Text \cup {"absent"}]
  BY DEF NodeOf
<1>2. CASE HasText(n)
  <2>1. BlankText(n) = [n EXCEPT !.text = "pruned"]
    BY <1>2 DEF BlankText
  <2>2. n.kind = "call" => d = "gemini"
    BY <1>2 DEF NodeOf, HasText
  <2> QED  BY <1>1, <2>1, <2>2 DEF NodeOf, Text
<1>3. CASE ~HasText(n)
  <2>1. BlankText(n) = n
    BY <1>3 DEF BlankText
  <2> QED  BY <1>1, <1>3, <2>1 DEF NodeOf, Text, HasText
<1> QED  BY <1>2, <1>3

LEMMA EraseFacts ==
  ASSUME NEW d, NEW T, "none" \in T, NEW n \in NodeOf(d, T), n.kind = "call", d # "gemini"
  PROVE  /\ EraseArgs(n) \in NodeOf(d, T)
         /\ EraseArgs(n).kind = n.kind /\ EraseArgs(n).id = n.id /\ EraseArgs(n).text # "full"
<1>1. n \in [kind : {"call", "output", "body"}, id : T, arg : T, text : Text \cup {"absent"}]
  BY DEF NodeOf
<1> QED  BY <1>1 DEF EraseArgs, NodeOf

LEMMA BlankFacts ==
  ASSUME NEW d \in Dialect \ {"cursor"}, NEW T, "none" \in T, NEW n \in NodeOf(d, T)
  PROVE  /\ BlankNode(d, n) \in NodeOf(d, T)
         /\ BlankNode(d, n).kind = n.kind /\ BlankNode(d, n).id = n.id /\ BlankNode(d, n).text # "full"
         /\ n.kind # "call" => BlankNode(d, n).text = "pruned"
<1>1. CASE d = "gemini" \/ n.kind # "call"
  <2>1. BlankNode(d, n) = BlankText(n)
    BY <1>1 DEF BlankNode, BlankClaude, BlankGemini, BlankCodex, BlankPi, Dialect
  <2> QED  BY <2>1, BlankTextFacts
<1>2. CASE d \in {"claude", "codex"} /\ n.kind = "call"
  <2>1. BlankNode(d, n) = EraseArgs(n)
    BY <1>2 DEF BlankNode, BlankClaude, BlankCodex
  <2> QED  BY <1>2, <2>1, EraseFacts
<1>3. CASE d = "pi" /\ n.kind = "call"
  <2>1. BlankNode(d, n) = n
    BY <1>3 DEF BlankNode, BlankPi
  <2> QED  BY <1>3, <2>1 DEF NodeOf
<1> QED  BY <1>1, <1>2, <1>3 DEF Dialect

\* A node of a line that is written back.
LEMMA AfterNode ==
  ASSUME NEW d \in Dialect, NEW T, "none" \in T, NEW line \in Line(d, T), NEW ids, NEW j \in 1..Len(line)
  PROVE  /\ After(d, line, ids)[j] \in NodeOf(d, T)
         /\ Turns(line[j], After(d, line, ids)[j], ids)
         /\ (d # "gemini" \/ \E n \in ToSet(line) : n.id \in ids /\ n.text = "full")
              /\ line[j].kind # "call" /\ line[j].id \in ids
              => After(d, line, ids)[j].text = "pruned"
<1> DEFINE n == line[j]
           m == After(d, line, ids)[j]
<1>1. n \in NodeOf(d, T)
  BY LineFacts
<1>2. n.kind \in {"call", "output", "body"} /\ (n.kind = "body" => d = "claude")
      /\ (n.kind = "call" /\ d # "gemini" => n.text = "absent")
  BY <1>1 DEF NodeOf
<1>3. CASE d = "cursor"
  <2>1. m = IF n.kind = "output" /\ n.id \in ids THEN BlankText(n) ELSE n
    BY <1>3 DEF After
  <2>2. n.kind = "call" => n.text # "full"
    BY <1>2, <1>3
  <2> HIDE DEF n, m
  <2>3. m \in NodeOf(d, T) /\ Turns(n, m, ids) /\ (n.kind # "call" /\ n.id \in ids => m.text = "pruned")
    BY <1>1, <1>2, <1>3, <2>1, <2>2, BlankTextFacts DEF Turns
  <2> QED  BY <2>3 DEF n, m
<1>4. CASE d # "cursor" /\ (d # "gemini" \/ \E x \in ToSet(line) : x.id \in ids /\ x.text = "full")
  <2>1. m = IF n.id \in ids THEN BlankNode(d, n) ELSE n
    BY <1>4 DEF After, WrittenLine, Blanked
  <2> HIDE DEF n, m
  <2>2. m \in NodeOf(d, T) /\ Turns(n, m, ids) /\ (n.kind # "call" /\ n.id \in ids => m.text = "pruned")
    BY <1>1, <1>4, <2>1, BlankFacts DEF Turns
  <2> QED  BY <2>2 DEF n, m
<1>5. CASE d = "gemini" /\ ~\E x \in ToSet(line) : x.id \in ids /\ x.text = "full"
  <2>1. m = n
    BY <1>5 DEF After, WrittenLine
  <2>2. n \in ToSet(line)
    BY DEF ToSet
  <2> HIDE DEF n, m
  <2>3. m \in NodeOf(d, T) /\ Turns(n, m, ids)
    BY <1>1, <1>5, <2>1, <2>2 DEF Turns
  <2> QED  BY <1>5, <2>3 DEF n, m
<1> QED  BY <1>3, <1>4, <1>5

LEMMA AfterLine ==
  ASSUME NEW d \in Dialect, NEW T, "none" \in T, NEW line \in Line(d, T), NEW ids
  PROVE  After(d, line, ids) \in Line(d, T) /\ Len(After(d, line, ids)) = Len(line)
<1> DEFINE a == After(d, line, ids)
<1>1. line \in Seq(NodeOf(d, T)) /\ Len(line) \in Nat
  BY LineFacts
<1>2. line = [j \in 1..Len(line) |-> line[j]]
  BY <1>1
<1>3. DOMAIN a = 1..Len(line) /\ a = [j \in 1..Len(line) |-> a[j]]
  BY <1>2 DEF After, WrittenLine, Blanked
<1> HIDE DEF a
<1>4. \A j \in 1..Len(line) : a[j] \in NodeOf(d, T) /\ a[j].kind = line[j].kind /\ a[j].id = line[j].id
  BY AfterNode DEF a, Turns
<1>5. a \in Seq(NodeOf(d, T)) /\ Len(a) = Len(line)
  BY <1>1, <1>3, <1>4
<1>6. a \in Line(d, T)
  BY <1>4, <1>5 DEF Line
<1> QED  BY <1>5, <1>6 DEF a

LEMMA RewriteLog ==
  ASSUME NEW d \in Dialect, NEW T, "none" \in T, NEW l \in Seq(Line(d, T)), NEW ids, Leakless(NodesOf(l))
  PROVE  LET new == [k \in 1..Len(l) |-> After(d, l[k], ids)]
         IN  new \in Seq(Line(d, T)) /\ Leakless(NodesOf(new))
<1> DEFINE new == [k \in 1..Len(l) |-> After(d, l[k], ids)]
<1>1. Len(l) \in Nat /\ \A k \in 1..Len(l) : l[k] \in Line(d, T)
  BY LogFacts
<1>2. \A k \in 1..Len(l) : new[k] = After(d, l[k], ids) /\ new[k] \in Line(d, T) /\ Len(new[k]) = Len(l[k])
  BY <1>1, AfterLine
<1>3. new \in Seq(Line(d, T)) /\ Len(new) = Len(l)
  <2>1. \A k \in 1..Len(l) : After(d, l[k], ids) \in Line(d, T)
    BY <1>2
  <2> QED  BY <1>1, <2>1
<1> HIDE DEF new
<1>4. ASSUME NEW m \in NodesOf(new)
      PROVE  \E n \in NodesOf(l) : Turns(n, m, ids)
  <2>1. PICK k \in 1..Len(new) : \E j \in 1..Len(new[k]) : m = new[k][j]
    BY InNodes
  <2>2. PICK j \in 1..Len(new[k]) : m = new[k][j]
    BY <2>1
  <2>3. k \in 1..Len(l) /\ j \in 1..Len(l[k]) /\ m = After(d, l[k], ids)[j] /\ l[k] \in Line(d, T)
    BY <1>1, <1>2, <1>3, <2>2
  <2>4. Turns(l[k][j], m, ids)
    BY <2>3, AfterNode
  <2>5. l[k][j] \in NodesOf(l)
    BY <2>3, InNodes
  <2> QED  BY <2>4, <2>5
<1>5. ASSUME NEW m \in NodesOf(new), NEW n \in NodesOf(new), m.kind # "call", m.text = "pruned", m.id = n.id
      PROVE  n.text # "full"
  <2>1. PICK p \in NodesOf(l) : Turns(p, m, ids)
    BY <1>4
  <2>2. PICK q \in NodesOf(l) : Turns(q, n, ids)
    BY <1>4
  <2> QED  BY <1>5, <2>1, <2>2 DEF Turns, Leakless
<1>6. Leakless(NodesOf(new))
  BY <1>5 DEF Leakless
<1> QED  BY <1>3, <1>6 DEF new
-----------------------------------------------------------------------------
(* The steps                                                               *)

LEMMA PrefixOfBoth ==
  ASSUME NEW S, NEW l \in Seq(S)
  PROVE  IsPrefix(l, l) /\ \A m \in Seq(S) : IsPrefix(l, l \o m)
<1>1. IsPrefix(l, l)
  BY DEF IsPrefix
<1>2. ASSUME NEW m \in Seq(S) PROVE IsPrefix(l, l \o m)
  <2>1. /\ Len(l) \in Nat /\ Len(m) \in Nat /\ Len(l \o m) = Len(l) + Len(m)
        /\ \A k \in 1..Len(l) : (l \o m)[k] = l[k]
    OBVIOUS
  <2>2. SubSeq(l, 1, Len(l)) = SubSeq(l \o m, 1, Len(l))
    <3> DEFINE c == l \o m
    <3>1. \A k \in 1..Len(l) : c[k] = l[k]
      BY <2>1
    <3> HIDE DEF c
    <3>2. SubSeq(l, 1, Len(l)) = [k \in 1..Len(l) |-> l[k]] /\ SubSeq(c, 1, Len(l)) = [k \in 1..Len(l) |-> c[k]]
      BY <2>1
    <3> QED  BY <3>1, <3>2 DEF c
  <2> QED  BY <2>1, <2>2 DEF IsPrefix
<1> QED  BY <1>1, <1>2

\* A call that is new adds its line, ...
LEMMA GrowsCall ==
  ASSUME NEW d \in Dialect, NEW T, NEW l \in Seq(Line(d, T)), Leakless(NodesOf(l)), NEW i, NEW a
  PROVE  LET new == Append(l, CallLine(i, a))
         IN  new \in Seq(Line(d, T \cup {i, a})) /\ Leakless(NodesOf(new)) /\ IsPrefix(l, new)
<1> DEFINE c == CallLine(i, a)
           D == Line(d, T \cup {i, a})
<1>1. c \in Fresh(d, i, {i, a}) /\ c[1].text = "absent" /\ Len(c) = 1
  BY CallFresh
<1> HIDE DEF c
<1>2. <<c>> \in Seq(Fresh(d, i, {i, a})) /\ Len(<<c>>) = 1 /\ <<c>>[1] = c
  BY <1>1
<1>3. \A n \in NodesOf(<<c>>) : n.text # "full"
  <2> SUFFICES ASSUME NEW n \in NodesOf(<<c>>) PROVE n.text # "full"
    OBVIOUS
  <2>1. PICK k \in 1..Len(<<c>>) : \E j \in 1..Len(<<c>>[k]) : n = <<c>>[k][j]
    BY InNodes
  <2> QED  BY <1>1, <1>2, <2>1
<1>4. l \o <<c>> \in Seq(D) /\ Leakless(NodesOf(l \o <<c>>))
  BY <1>2, <1>3, GrowsFresh
<1>5. l \in Seq(D) /\ <<c>> \in Seq(D)
  <2>1. <<c>> \in Seq(Line(d, {i, a}))
    BY <1>2, FreshLines
  <2>2. T \subseteq T \cup {i, a} /\ {i, a} \subseteq T \cup {i, a}
    OBVIOUS
  <2> QED  BY <2>1, <2>2, LogWidens
<1>6. Append(l, c) = l \o <<c>>
  <2> HIDE DEF D
  <2>1. c \in D
    BY <1>5
  <2> QED  BY <1>5, <2>1, AppendIsConcat
<1>7. IsPrefix(l, l \o <<c>>)
  <2> HIDE DEF D
  <2> QED  BY <1>5, PrefixOfBoth
<1> QED  BY <1>4, <1>6, <1>7 DEF c

\* ... an answer comes to a call that has none, ...
LEMMA GrowsAnswer ==
  ASSUME NEW d \in Dialect, NEW T, NEW l \in Seq(Line(d, T)), Leakless(NodesOf(l)), NEW i, NEW U,
         NEW more \in Seq(Fresh(d, i, U)), \A n \in NodesOf(l) : n.id = i => n.kind = "call"
  PROVE  l \o more \in Seq(Line(d, T \cup U)) /\ Leakless(NodesOf(l \o more)) /\ IsPrefix(l, l \o more)
<1>1. l \o more \in Seq(Line(d, T \cup U)) /\ Leakless(NodesOf(l \o more))
  BY GrowsFresh
<1> DEFINE D == Line(d, T \cup U)
<1>2. l \in Seq(D) /\ more \in Seq(D)
  <2>1. more \in Seq(Line(d, U))
    BY FreshLines
  <2>2. T \subseteq T \cup U /\ U \subseteq T \cup U
    OBVIOUS
  <2> QED  BY <2>1, <2>2, LogWidens
<1> HIDE DEF D
<1> QED  BY <1>1, <1>2, PrefixOfBoth

\* ... and gemini writes what it has once more.
LEMMA GrowsSnapshot ==
  ASSUME NEW T, NEW l \in Seq(Line("gemini", T)), Leakless(NodesOf(l))
  PROVE  LET new == l \o SnapshotLine(l)
         IN  new \in Seq(Line("gemini", T)) /\ Leakless(NodesOf(new)) /\ IsPrefix(l, new)
<1>1. l \in Seq(Seq(NodeOf("gemini", T)))
  <2>1. Line("gemini", T) \subseteq Seq(NodeOf("gemini", T))
    BY DEF Line
  <2> QED  BY <2>1, SeqWidens
<1>2. PICK line \in Seq(NodesOf(l)) : SnapshotLine(l) = <<line>>
  BY <1>1, SnapshotRepeats
<1>3. l \o <<line>> \in Seq(Line("gemini", T)) /\ Leakless(NodesOf(l \o <<line>>))
  BY GrowsRepeating
<1>4. line \in Seq(NodeOf("gemini", T))
  <2>1. NodesOf(l) \subseteq NodeOf("gemini", T)
    BY NodeTypes
  <2> QED  BY <2>1, SeqWidens
<1>5. IsPrefix(l, l \o <<line>>)
  <2> DEFINE S == Seq(NodeOf("gemini", T))
  <2>1. l \in Seq(S) /\ line \in S
    BY <1>1, <1>4
  <2> HIDE DEF S
  <2>2. <<line>> \in Seq(S)
    BY <2>1
  <2> QED  BY <2>1, <2>2, PrefixOfBoth
<1> QED  BY <1>2, <1>3, <1>5

\* What the main loop is about to write, it has read from the transcript.
LEMMA SeenStep ==
  ASSUME main = [at |-> main.at, reqs |-> main.reqs], Next
  PROVE  /\ main'.at = "rewrite" => seen' = log \/ (main.at = "rewrite" /\ seen' = seen)
         /\ main' = [at |-> main'.at, reqs |-> main'.reqs]
<1>1. CASE main' = main /\ seen' = seen
  BY <1>1
<1>2. CASE main' = Idle
  BY <1>2 DEF Idle
<1>3. CASE Apply
  BY <1>3 DEF Apply
<1>4. CASE Aborted
  BY <1>4 DEF Aborted
<1>5. CASE Rewrite
  BY <1>5 DEF Rewrite
<1> QED  BY <1>1, <1>2, <1>3, <1>4, <1>5
     DEF Next, Call, Answer, Snapshot, ArmTask, TaskOver, OwnResult, EndTurn, Exit, GhostEnds,
         PruneRpc, ScanItem, Reply, HandleCue, HandleIdle, HandleDone, Respawn, Stop, Message

\* The transcript keeps its shape, and only the main loop rewrites it.
LEMMA LogStep ==
  ASSUME LogInv, AloneInv, Next
  PROVE  LogInv' /\ (IsPrefix(log, log') \/ Rewrite)
<1>1. dialect \in Dialect /\ dialect' = dialect /\ Leakless(NodesOf(log))
  BY DEF LogInv, Sound, Next, Call, Answer, Snapshot, ArmTask, TaskOver, OwnResult, EndTurn, Exit, GhostEnds,
         PruneRpc, ScanItem, Reply, HandleCue, HandleIdle, HandleDone, Aborted, Rewrite,
         Respawn, Stop, Message
<1>2. PICK T : log \in Seq(Line(dialect, T))
  BY DEF LogInv, Sound
<1>r. main'.at = "rewrite" => Sound(seen)'
  <2>2. \A l : Sound(l) /\ seen' = l => Sound(seen)'
    BY <1>1 DEF Sound, Leakless, NodesOf
  <2> QED  BY <2>2, SeenStep DEF LogInv, AloneInv
<1>3. ASSUME NEW U, NEW new \in Seq(Line(dialect, U)), Leakless(NodesOf(new)), log' = new
      PROVE  LogInv'
  <2>1. Sound(log)'
    BY <1>1, <1>3 DEF Sound, Leakless, NodesOf
  <2> QED  BY <1>1, <1>r, <2>1 DEF LogInv
<1>4. CASE Call \/ PruneRpc
  <2>1. PICK i, a : log' = Append(log, CallLine(i, a))
    BY <1>4 DEF Call, PruneRpc
  <2>2. /\ Append(log, CallLine(i, a)) \in Seq(Line(dialect, T \cup {i, a}))
        /\ Leakless(NodesOf(Append(log, CallLine(i, a)))) /\ IsPrefix(log, Append(log, CallLine(i, a)))
    BY <1>1, <1>2, GrowsCall
  <2> QED  BY <1>3, <2>1, <2>2
<1>5. CASE Answer
  <2>1. PICK i \in Ids : /\ OutsIn(log, i) = {}
                         /\ \/ log' = log \o AnswerLines(dialect, i, ArgOf(i), "full")
                            \/ dialect = "claude" /\ log' = log \o SkillLines(i, "full")
    BY <1>5 DEF Answer
  <2>2. \A n \in NodesOf(log) : n.id = i => n.kind = "call"
    BY <2>1 DEF OutsIn
  <2>3. PICK U : \E more \in Seq(Fresh(dialect, i, U)) : log' = log \o more
    <3>1. CASE log' = log \o AnswerLines(dialect, i, ArgOf(i), "full")
      <4>1. AnswerLines(dialect, i, ArgOf(i), "full") \in Seq(Fresh(dialect, i, {i, ArgOf(i), "none"}))
        BY <1>1, AnswerFresh
      <4> QED  BY <3>1, <4>1
    <3>2. CASE dialect = "claude" /\ log' = log \o SkillLines(i, "full")
      <4>1. SkillLines(i, "full") \in Seq(Fresh(dialect, i, {i, "none"}))
        BY <3>2, SkillFresh
      <4> QED  BY <3>2, <4>1
    <3> QED  BY <2>1, <3>1, <3>2
  <2>m. PICK more \in Seq(Fresh(dialect, i, U)) : log' = log \o more
    BY <2>3
  <2>4. log \o more \in Seq(Line(dialect, T \cup U)) /\ Leakless(NodesOf(log \o more)) /\ IsPrefix(log, log \o more)
    BY <1>1, <1>2, <2>2, GrowsAnswer
  <2> QED  BY <1>3, <2>m, <2>4
<1>6. CASE Snapshot
  <2>1. dialect = "gemini" /\ log' = log \o SnapshotLine(log)
    BY <1>6 DEF Snapshot
  <2>2. log \in Seq(Line("gemini", T))
    BY <1>2, <2>1
  <2>3. /\ log \o SnapshotLine(log) \in Seq(Line("gemini", T))
        /\ Leakless(NodesOf(log \o SnapshotLine(log))) /\ IsPrefix(log, log \o SnapshotLine(log))
    BY <1>1, <2>2, GrowsSnapshot
  <2> QED  BY <1>3, <2>1, <2>3
<1>7. CASE log' = log
  BY <1>1, <1>2, <1>3, <1>7, PrefixOfBoth
<1>8. CASE Rewrite
  <2>1. log' = log \/ log' = Result.log
    BY <1>8 DEF Rewrite
  <2>2. CASE log' = Result.log
    <3>0. PICK R : seen \in Seq(Line(dialect, R)) /\ Leakless(NodesOf(seen))
      BY <1>8 DEF LogInv, Sound, Rewrite
    <3> DEFINE ids == ChooseBatch(dialect, seen, main.reqs)
               U == R \cup {"none"}
               new == [k \in 1..Len(seen) |-> After(dialect, seen[k], ids)]
    <3>1. Result.log = new
      BY ResultIs
    <3>2. seen \in Seq(Line(dialect, U)) /\ "none" \in U
      <4>1. R \subseteq U /\ "none" \in U
        OBVIOUS
      <4> HIDE DEF U
      <4> QED  BY <3>0, <4>1, LogWidens
    <3> HIDE DEF ids, U
    <3>3. new \in Seq(Line(dialect, U)) /\ Leakless(NodesOf(new))
      BY <1>1, <3>0, <3>2, RewriteLog
    <3> HIDE DEF new
    <3> QED  BY <1>3, <1>8, <2>2, <3>1, <3>3
  <2> QED  BY <1>7, <1>8, <2>1, <2>2
<1> QED  BY <1>4, <1>5, <1>6, <1>7, <1>8
     DEF Next, ArmTask, TaskOver, OwnResult, EndTurn, Exit, GhostEnds, ScanItem, Reply, HandleCue,
         HandleIdle, HandleDone, Aborted, Respawn, Stop, Message

\* Between the abort and the restart nothing runs but what was given up on.
LEMMA AloneStep ==
  ASSUME AloneInv, Next
  PROVE  AloneInv' /\ (Rewrite => agent = "off" /\ agent' = "off" /\ (seen = log \/ ghost))
<1>0. main' = [at |-> main'.at, reqs |-> main'.reqs]
  BY SeenStep DEF AloneInv
<1> SUFFICES /\ main'.at \in {"rewrite", "respawn"} => agent' = "off"
             /\ main'.at = "rewrite" => seen' = log' \/ ghost'
  <2>1. Rewrite => agent = "off" /\ agent' = "off" /\ (seen = log \/ ghost)
    BY DEF AloneInv, Rewrite
  <2> QED  BY <1>0, <2>1 DEF AloneInv
<1>1. CASE Call \/ Answer \/ PruneRpc
  BY <1>1 DEF AloneInv, Call, Answer, PruneRpc, Callers
<1>2. CASE Snapshot
  BY <1>2 DEF AloneInv, Snapshot
<1>3. CASE ArmTask \/ TaskOver \/ OwnResult \/ ScanItem \/ Reply \/ HandleDone
  BY <1>3 DEF AloneInv, ArmTask, TaskOver, OwnResult, ScanItem, Reply, HandleDone
<1>4. CASE EndTurn \/ Exit
  BY <1>4 DEF AloneInv, EndTurn, Exit, Quit
<1>5. CASE GhostEnds \/ Stop \/ Message
  <2>1. main.at = "select" /\ main' = main
    BY <1>5 DEF GhostEnds, Stop, Message, Idle
  <2> QED  BY <2>1
<1>6. CASE HandleCue \/ HandleIdle
  <2>1. main'.at \in {"select", "abort"}
    BY <1>6 DEF HandleCue, HandleIdle, Receive, Apply, Idle
  <2> QED  BY <2>1
<1>7. CASE Aborted
  BY <1>7 DEF AloneInv, Aborted, Abort, Quit
<1>8. CASE Rewrite
  BY <1>8 DEF AloneInv, Rewrite
<1>9. CASE Respawn
  BY <1>9 DEF AloneInv, Respawn, Idle
<1> QED  BY <1>1, <1>2, <1>3, <1>4, <1>5, <1>6, <1>7, <1>8, <1>9 DEF Next

LEMMA Inductive == Spec => []PInv
<1>1. Init => PInv
  <2>1. Init => AloneInv
    BY DEF Init, AloneInv, Idle
  <2> QED  BY <2>1, InitLog DEF PInv
<1>2. PInv /\ [Next]_vars => PInv'
  <2>1. PInv /\ Next => PInv'
    BY LogStep, AloneStep DEF PInv
  <2>2. PInv /\ UNCHANGED vars => PInv'
    BY DEF PInv, LogInv, Sound, AloneInv, Leakless, NodesOf, vars
  <2> QED  BY <2>1, <2>2
<1> QED  BY <1>1, <1>2, PTL DEF Spec

-----------------------------------------------------------------------------
(* What a batch reports                                                    *)

LEMMA ReportedNode ==
  ASSUME NEW ids, ids = ChooseBatch(dialect, seen, main.reqs), NEW i \in Result.blanked
  PROVE  \E k \in 1..Len(seen) : \E n \in ToSet(seen[k]) :
           /\ n.id = i /\ i \in ids
           /\ IF dialect = "cursor" THEN n.kind = "output" ELSE HasText(n)
<1>1. CASE dialect = "cursor"
  BY <1>1 DEF Result, PruneBatch, PruneCursor, CursorTargets
<1>2. CASE dialect # "cursor"
  <2>1. Result.blanked = UNION {Reported(seen[k], ids) : k \in 1..Len(seen)}
    BY <1>2 DEF Result, PruneBatch, BlankPass
  <2> QED  BY <1>2, <2>1 DEF Reported
<1> QED  BY <1>1, <1>2

LEMMA InLine ==
  ASSUME NEW d, NEW T, NEW line \in Line(d, T), NEW n
  PROVE  n \in ToSet(line) <=> \E j \in 1..Len(line) : n = line[j]
<1>1. DOMAIN line = 1..Len(line)
  BY LineFacts
<1> QED  BY <1>1 DEF ToSet

\* An output of ids is gone from the file: from all of its line where pi asks
\* for that.
LEMMA Gone ==
  ASSUME NEW d \in Dialect, NEW T, "none" \in T, NEW l \in Seq(Line(d, T)), NEW ids,
         NEW k \in 1..Len(l), NEW j \in 1..Len(l[k]), l[k][j].id \in ids, l[k][j].kind # "call",
         d # "gemini" \/ \E n \in ToSet(l[k]) : n.id \in ids /\ n.text = "full"
  PROVE  l[k][j].id \in Pruned(d, [p \in 1..Len(l) |-> After(d, l[p], ids)])
<1> DEFINE new == [p \in 1..Len(l) |-> After(d, l[p], ids)]
           i == l[k][j].id
           m == new[k][j]
<1>1. Len(l) \in Nat /\ l[k] \in Line(d, T)
  BY LogFacts
<1>2. new \in Seq(Line(d, T)) /\ Len(new) = Len(l)
  <2>1. \A p \in 1..Len(l) : After(d, l[p], ids) \in Line(d, T)
    BY LogFacts, AfterLine
  <2> QED  BY <1>1, <2>1
<1>3. new[k] = After(d, l[k], ids) /\ new[k] \in Line(d, T) /\ Len(new[k]) = Len(l[k])
  BY <1>1, AfterLine
<1>4. m \in NodeOf(d, T) /\ m.id = i /\ m.kind = l[k][j].kind /\ m.text = "pruned"
  BY <1>1, AfterNode DEF Turns
<1> HIDE DEF new
<1>5. m \in NodesOf(new)
  BY <1>2, <1>3, InNodes
<1>6. m.kind = "output" \/ (m.kind = "body" /\ d = "claude")
  BY <1>4 DEF NodeOf
<1>7. i \in PlaceholderIds(new, IF d = "claude" THEN {"output", "body"} ELSE {"output"})
  BY <1>4, <1>5, <1>6 DEF PlaceholderIds
<1>8. CASE d = "pi"
  <2>1. ASSUME NEW n \in ToSet(new[k]), n.kind = "output" PROVE n.text = "pruned"
    <3>1. PICK q \in 1..Len(new[k]) : n = new[k][q]
      BY <1>3, InLine
    <3>2. q \in 1..Len(l[k]) /\ n = After(d, l[k], ids)[q]
      BY <1>3, <3>1
    <3>3. Turns(l[k][q], n, ids)
      BY <1>1, <3>2, AfterNode
    <3>4. l[k][q].kind = "output" /\ l[k][j].kind = "output"
      BY <1>4, <1>6, <1>8, <2>1, <3>3 DEF Turns
    <3>5. l[k][q].id = i
      BY <1>1, <1>8, <3>2, <3>4 DEF Line
    <3> QED  BY <1>1, <1>8, <3>2, <3>4, <3>5, AfterNode
  <2>2. m \in ToSet(new[k])
    BY <1>3, InLine
  <2>3. new[k] \in ToSet(new)
    BY <1>2 DEF ToSet
  <2> QED  BY <1>4, <1>6, <1>7, <1>8, <2>1, <2>2, <2>3 DEF Pruned, PiPruned, new
<1>9. CASE d # "pi"
  BY <1>7, <1>9 DEF Pruned, ClaudePruned, GeminiPruned, CodexPruned, Dialect, new
<1> QED  BY <1>8, <1>9

LEMMA Reports ==
  ASSUME LogInv, main.at = "rewrite", NEW i \in Result.blanked
  PROVE  i \in Pruned(dialect, Result.log) \/ (dialect = "gemini" /\ "full" \notin OutsIn(seen, i))
<1> DEFINE ids == ChooseBatch(dialect, seen, main.reqs)
           new == [p \in 1..Len(seen) |-> After(dialect, seen[p], ids)]
<1>1. Result.log = new
  BY ResultIs
<1>2. PICK k \in 1..Len(seen) : \E n \in ToSet(seen[k]) :
        /\ n.id = i /\ i \in ids
        /\ IF dialect = "cursor" THEN n.kind = "output" ELSE HasText(n)
  BY ReportedNode
<1>3. PICK U : seen \in Seq(Line(dialect, U))
  BY DEF LogInv, Sound
<1> DEFINE T == U \cup {"none"}
<1>4. seen \in Seq(Line(dialect, T)) /\ "none" \in T /\ dialect \in Dialect
  <2>1. U \subseteq T /\ "none" \in T
    OBVIOUS
  <2> HIDE DEF T
  <2> QED  BY <1>3, <2>1, LogWidens DEF LogInv, Sound
<1> HIDE DEF ids, T
<1>5. CASE dialect # "gemini"
  <2>1. seen[k] \in Line(dialect, T)
    BY <1>4, LogFacts
  <2>2. PICK j \in 1..Len(seen[k]) :
          /\ seen[k][j].id = i /\ i \in ids
          /\ IF dialect = "cursor" THEN seen[k][j].kind = "output" ELSE HasText(seen[k][j])
    BY <1>2, <2>1, InLine
  <2>3. seen[k][j].kind # "call"
    <3>1. seen[k][j] \in NodeOf(dialect, T)
      BY <2>1, LineFacts
    <3> QED  BY <1>5, <2>2, <3>1 DEF NodeOf, HasText
  <2>4. seen[k][j].id \in Pruned(dialect, new)
    <3>1. dialect # "gemini" \/ \E x \in ToSet(seen[k]) : x.id \in ids /\ x.text = "full"
      BY <1>5
    <3>2. seen[k][j].id \in ids
      BY <2>2
    <3> QED  BY <1>4, <2>3, <3>1, <3>2, Gone
  <2> QED  BY <1>1, <2>2, <2>4
<1>6. CASE dialect = "gemini" /\ "full" \in OutsIn(seen, i)
  <2>1. PICK n \in NodesOf(seen) : n.id = i /\ n.kind # "call" /\ n.text = "full"
    BY <1>6 DEF OutsIn
  <2>2. PICK p \in 1..Len(seen) : \E j \in 1..Len(seen[p]) : n = seen[p][j]
    BY InNodes
  <2>3. PICK j \in 1..Len(seen[p]) : n = seen[p][j]
    BY <2>2
  <2>4. n \in ToSet(seen[p])
    <3>1. seen[p] \in Line(dialect, T)
      BY <1>4, LogFacts
    <3> QED  BY <2>3, <3>1, InLine
  <2>5. \E x \in ToSet(seen[p]) : x.id \in ids /\ x.text = "full"
    BY <1>2, <2>1, <2>4
  <2>6. seen[p][j].id \in ids /\ seen[p][j].kind # "call" /\ seen[p][j].id = i
    BY <1>2, <2>1, <2>3
  <2>7. seen[p][j].id \in Pruned(dialect, new)
    BY <1>4, <2>5, <2>6, Gone
  <2> QED  BY <1>1, <2>6, <2>7
<1> QED  BY <1>5, <1>6

LEMMA NothingLeaks ==
  ASSUME LogInv, main.at = "rewrite", dialect = "gemini", NEW ids
  PROVE  LeakedGemini(seen, ids) = {}
<1>1. PICK U : seen \in Seq(Line("gemini", U))
  BY DEF LogInv, Sound
<1> DEFINE T == U \cup {"none"}
<1>2. seen \in Seq(Line("gemini", T)) /\ "none" \in T
  <2>1. U \subseteq T /\ "none" \in T
    OBVIOUS
  <2> HIDE DEF T
  <2> QED  BY <1>1, <2>1, LogWidens
<1> HIDE DEF T
<1>3. ASSUME NEW k \in 1..Len(seen), NEW n \in ToSet(Blanked("gemini", seen[k], ids)),
             n.kind = "output", n.id \in ids
      PROVE  n.text = "pruned"
  <2>1. seen[k] \in Line("gemini", T)
    BY <1>2, LogFacts
  <2>2. PICK j \in 1..Len(seen[k]) :
          n = IF seen[k][j].id \in ids THEN BlankNode("gemini", seen[k][j]) ELSE seen[k][j]
    BY DEF Blanked, ToSet
  <2>3. seen[k][j] \in NodeOf("gemini", T)
    BY <2>1, LineFacts
  <2>4. "gemini" \in Dialect \ {"cursor"}
    BY DEF Dialect
  <2> QED  BY <1>2, <1>3, <2>2, <2>3, <2>4, BlankFacts
<1> QED  BY <1>3 DEF LeakedGemini

-----------------------------------------------------------------------------
(* The theorems                                                            *)

LEMMA PrunedIds ==
  ASSUME NEW d \in Dialect, NEW l, NEW i \in Pruned(d, l)
  PROVE  \E n \in NodesOf(l) : n.kind # "call" /\ n.text = "pruned" /\ n.id = i
<1>1. i \in PlaceholderIds(l, {"output", "body"}) \/ i \in PlaceholderIds(l, {"output"})
  BY DEF Pruned, ClaudePruned, GeminiPruned, CodexPruned, PiPruned, Dialect
<1> QED  BY <1>1 DEF PlaceholderIds

\* Once one copy of an output is gone, no copy of it can be read in full, for
\* any transcript the agents write (prune_batch of every dialect).
THEOREM NoLeaks == Spec => []NoCopyLeaks
<1>1. PInv => NoCopyLeaks
  BY PrunedIds DEF PInv, LogInv, Sound, Leakless, NoCopyLeaks
<1> QED  BY <1>1, Inductive, PTL

\* What a batch is about to report as blanked will be gone from the file it
\* writes, whichever calls it chose, and gemini's scan finds no leak (the
\* blanked set of every dialect's prune_batch, and gemini's check after it).
THEOREM ReportTrue == Spec => []ReportIsTrue
<1>1. PInv => ReportIsTrue
  <2> SUFFICES ASSUME PInv, main.at = "rewrite"
               PROVE  /\ \A i \in Result.blanked :
                           i \in Pruned(dialect, Result.log) \/ (dialect = "gemini" /\ "full" \notin OutsIn(seen, i))
                      /\ dialect = "gemini" => LeakedGemini(seen, ChooseBatch(dialect, seen, main.reqs)) = {}
    BY DEF ReportIsTrue
  <2>1. \A i \in Result.blanked :
          i \in Pruned(dialect, Result.log) \/ (dialect = "gemini" /\ "full" \notin OutsIn(seen, i))
    BY Reports DEF PInv
  <2>2. dialect = "gemini" => LeakedGemini(seen, ChooseBatch(dialect, seen, main.reqs)) = {}
    BY NothingLeaks DEF PInv
  <2> QED  BY <2>1, <2>2
<1> QED  BY <1>1, Inductive, PTL

\* A rewrite of what is already in a transcript happens between two processes
\* of the agent (apply_prune_group aborts it, rewrites, restarts it), and loses
\* nothing but what a process that await_agent_exit gave up on wrote meanwhile.
THEOREM OnlyAlone == Spec => RewrittenOnlyAlone
<1>1. PInv /\ [Next]_vars =>
        [IsPrefix(log, log') \/ (agent = "off" /\ agent' = "off" /\ (seen = log \/ ghost))]_vars
  BY LogStep, AloneStep DEF PInv
<1> QED  BY <1>1, Inductive, PTL DEF Spec, RewrittenOnlyAlone
-----------------------------------------------------------------------------
(* Places                                                                  *)

LEMMA PlaceFacts ==
  ASSUME NEW S, NEW l \in Seq(Seq(S))
  PROVE  /\ Len(l) \in Nat
         /\ \A k \in 1..Len(l) : l[k] \in Seq(S) /\ Len(l[k]) \in Nat
         /\ \A k, j : <<k, j>> \in Places(l) <=> k \in 1..Len(l) /\ j \in 1..Len(l[k])
         /\ \A p \in Places(l) : /\ p = <<p[1], p[2]>>
                                 /\ p[1] \in 1..Len(l) /\ p[2] \in 1..Len(l[p[1]])
                                 /\ p[1] \in Nat /\ p[2] \in Nat
                                 /\ At(l, p) \in S
<1>1. Len(l) \in Nat /\ \A k \in 1..Len(l) : l[k] \in Seq(S)
  OBVIOUS
<1>2. \A k \in 1..Len(l) : Len(l[k]) \in Nat
  BY <1>1
<1>3. \A k, j : <<k, j>> \in Places(l) <=> k \in 1..Len(l) /\ j \in 1..Len(l[k])
  BY DEF Places
<1>4. ASSUME NEW p \in Places(l)
      PROVE  /\ p = <<p[1], p[2]>> /\ p[1] \in 1..Len(l) /\ p[2] \in 1..Len(l[p[1]])
             /\ p[1] \in Nat /\ p[2] \in Nat /\ At(l, p) \in S
  <2>1. PICK k \in 1..Len(l) : p \in {k} \X (1..Len(l[k]))
    BY DEF Places
  <2>2. p = <<p[1], p[2]>> /\ p[1] = k /\ p[2] \in 1..Len(l[k])
    BY <2>1
  <2>3. l[k] \in Seq(S) /\ k \in Nat /\ p[2] \in Nat
    BY <1>1, <2>2
  <2>4. l[k][p[2]] \in S
    BY <2>2, <2>3
  <2> QED  BY <2>2, <2>3, <2>4 DEF At
<1> QED  BY <1>1, <1>2, <1>3, <1>4

\* The nodes are those at the places.
LEMMA NodesAt ==
  ASSUME NEW S, NEW l \in Seq(Seq(S)), NEW n
  PROVE  n \in NodesOf(l) <=> \E p \in Places(l) : n = At(l, p)
<1>1. ASSUME n \in NodesOf(l) PROVE \E p \in Places(l) : n = At(l, p)
  <2>1. PICK k \in 1..Len(l) : \E j \in 1..Len(l[k]) : n = l[k][j]
    BY <1>1, InNodes
  <2>2. PICK j \in 1..Len(l[k]) : n = l[k][j]
    BY <2>1
  <2>3. <<k, j>> \in Places(l) /\ At(l, <<k, j>>) = l[k][j]
    BY PlaceFacts DEF At
  <2> QED  BY <2>2, <2>3
<1>2. ASSUME NEW p \in Places(l), n = At(l, p) PROVE n \in NodesOf(l)
  <2>1. p[1] \in 1..Len(l) /\ p[2] \in 1..Len(l[p[1]]) /\ n = l[p[1]][p[2]]
    BY <1>2, PlaceFacts DEF At
  <2> QED  BY <2>1, InNodes
<1> QED  BY <1>1, <1>2

LEMMA BeforeFacts ==
  ASSUME NEW p, NEW q, p[1] \in Nat, p[2] \in Nat, q[1] \in Nat, q[2] \in Nat
  PROVE  /\ ~(Before(p, q) /\ Before(q, p))
         /\ Before(p, q) \/ Before(q, p) \/ (p[1] = q[1] /\ p[2] = q[2])
BY DEF Before

\* The places of two transcripts, one after the other.
LEMMA PlacesOfBoth ==
  ASSUME NEW S, NEW l \in Seq(Seq(S)), NEW more \in Seq(Seq(S))
  PROVE  /\ l \o more \in Seq(Seq(S))
         /\ \A p \in Places(l) : p \in Places(l \o more) /\ At(l \o more, p) = At(l, p)
         /\ \A p \in Places(l \o more) :
              p \in Places(l) \/ (p[1] > Len(l) /\ p[1] \in Nat /\ At(l \o more, p) \in NodesOf(more))
<1> DEFINE c == l \o more
<1>1. /\ Len(l) \in Nat /\ Len(more) \in Nat /\ Len(c) = Len(l) + Len(more) /\ c \in Seq(Seq(S))
      /\ \A k \in 1..Len(l) : c[k] = l[k]
      /\ \A k \in 1..Len(more) : c[Len(l) + k] = more[k]
  OBVIOUS
<1> HIDE DEF c
<1>2. ASSUME NEW p \in Places(l) PROVE p \in Places(c) /\ At(c, p) = At(l, p)
  <2>1. p = <<p[1], p[2]>> /\ p[1] \in 1..Len(l) /\ p[2] \in 1..Len(l[p[1]])
    BY PlaceFacts
  <2>2. p[1] \in 1..Len(c) /\ c[p[1]] = l[p[1]]
    BY <1>1, <2>1
  <2>3. <<p[1], p[2]>> \in Places(c)
    BY <1>1, <2>1, <2>2, PlaceFacts
  <2> QED  BY <2>1, <2>2, <2>3 DEF At
<1>3. ASSUME NEW p \in Places(c)
      PROVE  p \in Places(l) \/ (p[1] > Len(l) /\ p[1] \in Nat /\ At(c, p) \in NodesOf(more))
  <2>1. p = <<p[1], p[2]>> /\ p[1] \in 1..Len(c) /\ p[2] \in 1..Len(c[p[1]]) /\ p[1] \in Nat
    BY <1>1, PlaceFacts
  <2>2. CASE p[1] <= Len(l)
    <3>1. p[1] \in 1..Len(l) /\ c[p[1]] = l[p[1]]
      BY <1>1, <2>1, <2>2
    <3>2. <<p[1], p[2]>> \in Places(l)
      BY <2>1, <3>1, PlaceFacts
    <3> QED  BY <2>1, <3>2
  <2>3. CASE p[1] > Len(l)
    <3> DEFINE i == p[1] - Len(l)
    <3>1. p[1] \in Int /\ 1 <= p[1] /\ p[1] <= Len(l) + Len(more)
      BY <1>1, <2>1
    <3>2. i \in 1..Len(more) /\ Len(l) + i = p[1]
      BY <1>1, <2>3, <3>1
    <3> HIDE DEF i
    <3>3. c[p[1]] = more[i]
      BY <1>1, <3>2
    <3>4. At(c, p) = more[i][p[2]] /\ p[2] \in 1..Len(more[i])
      BY <2>1, <3>3 DEF At
    <3>5. At(c, p) \in NodesOf(more)
      BY <3>2, <3>4, InNodes
    <3> QED  BY <2>1, <2>3, <3>5
  <2>4. p[1] <= Len(l) \/ p[1] > Len(l)
    BY <1>1, <2>1
  <2> QED  BY <2>2, <2>3, <2>4
<1> QED  BY <1>1, <1>2, <1>3 DEF c

\* A node that is somewhere is somewhere first.
LEMMA FirstPlace ==
  ASSUME NEW S, NEW l \in Seq(Seq(S)), NEW P, P \subseteq Places(l), P # {}
  PROVE  \E p \in P : \A q \in P : ~Before(q, p)
<1> DEFINE K == {p[1] : p \in P}
<1>1. \A p \in P : p = <<p[1], p[2]>> /\ p[1] \in Nat /\ p[2] \in Nat
  BY PlaceFacts
<1>2. K \subseteq Nat /\ K # {}
  BY <1>1
<1>3. (\A p \in P : p[1] \in K) /\ \A k \in K : \E p \in P : p[1] = k
  OBVIOUS
<1> HIDE DEF K
<1>4. PICK k \in K : \A m \in K : k <= m
  BY <1>2, LeastNat
<1> DEFINE J == {p[2] : p \in {r \in P : r[1] = k}}
<1>5. J \subseteq Nat /\ J # {}
  BY <1>1, <1>3, <1>4
<1>6. (\A p \in P : p[1] = k => p[2] \in J) /\ \A j \in J : \E p \in P : p[1] = k /\ p[2] = j
  OBVIOUS
<1> HIDE DEF J
<1>7. PICK j \in J : \A m \in J : j <= m
  BY <1>5, LeastNat
<1>8. PICK p \in P : p[1] = k /\ p[2] = j
  BY <1>6, <1>7
<1>9. ASSUME NEW q \in P, Before(q, p) PROVE FALSE
  <2>1. q[1] \in Nat /\ q[2] \in Nat /\ k \in Nat /\ j \in Nat /\ k <= q[1]
    BY <1>1, <1>2, <1>3, <1>4, <1>5, <1>7
  <2>2. q[1] = k /\ q[2] < j
    BY <1>8, <1>9, <2>1 DEF Before
  <2>3. j <= q[2]
    BY <1>6, <1>7, <2>2
  <2> QED  BY <2>1, <2>2, <2>3
<1> QED  BY <1>8, <1>9

-----------------------------------------------------------------------------
(* The order of the calls                                                  *)

CallPlaces(l) == {p \in Places(l) : At(l, p).kind = "call"}

\* A call is new, and then its number is the greatest so far, or is written
\* again, which only gemini does.
NewCall(l, p) == \A q \in CallPlaces(l) : Before(q, p) => At(l, q).id < At(l, p).id
Again(l, p) == \E q \in CallPlaces(l) : Before(q, p) /\ At(l, q).id = At(l, p).id
Rising(d, l) == \A p \in CallPlaces(l) : NewCall(l, p) \/ (d = "gemini" /\ Again(l, p))

\* Where the calls W stand: gemini counts the first place of each.
Standing(d, l, W) ==
  {p \in CallPlaces(l) : At(l, p).id \in W /\ (d = "gemini" => ~Again(l, p))}

LEMMA MaxIs ==
  ASSUME NEW W, W \subseteq Nat, NEW i \in W, \A j \in W : j <= i
  PROVE  Max(W) = i
<1>1. \A x \in W : (\A y \in W : x >= y) <=> x = i
  OBVIOUS
<1> QED  BY <1>1 DEF Max

LEMMA GreatestIs ==
  ASSUME NEW n \in Nat, NEW W, W \subseteq 1..n, W # {}
  PROVE  Max(W) \in W /\ \A j \in W : j <= Max(W)
<1> DEFINE T == {k \in 0..n : n - k \in W}
<1>1. T \subseteq Nat /\ (\A x \in W : n - x \in T) /\ (\A k \in T : n - k \in W) /\ W \subseteq Nat
  OBVIOUS
<1> HIDE DEF T
<1>2. PICK k \in T : \A m \in T : k <= m
  BY <1>1, LeastNat
<1>3. \A j \in W : j <= n - k
  <2> TAKE j \in W
  <2>1. k <= n - j /\ j \in Nat /\ k \in Nat
    BY <1>1, <1>2
  <2> QED  BY <2>1
<1>4. PICK i \in W : \A j \in W : j <= i
  BY <1>1, <1>2, <1>3
<1> QED  BY <1>1, <1>4, MaxIs

\* What stands latest is the call with the greatest number.
LEMMA LatestStands ==
  ASSUME NEW S, NEW l \in Seq(Seq(S)), NEW d, Rising(d, l), NEW n \in Nat, NEW W, W \subseteq 1..n,
         \A i \in W : \E p \in CallPlaces(l) : At(l, p).id = i
  PROVE  /\ Standing(d, l, W) = {} <=> W = {}
         /\ W # {} => At(l, Latest(Standing(d, l, W))).id = Max(W)
<1> DEFINE K == Standing(d, l, W)
<1>1. \A p \in CallPlaces(l) : p \in Places(l) /\ p = <<p[1], p[2]>> /\ p[1] \in Nat /\ p[2] \in Nat
  BY PlaceFacts DEF CallPlaces
<1>0. \A i \in W : i \in Nat
  OBVIOUS
<1>2. \A p \in K : p \in CallPlaces(l) /\ At(l, p).id \in W /\ At(l, p).id \in Nat /\ NewCall(l, p)
  <2> TAKE p \in K
  <2>1. p \in CallPlaces(l) /\ At(l, p).id \in W /\ (d = "gemini" => ~Again(l, p))
    BY DEF Standing
  <2>2. At(l, p).id \in Nat
    BY <1>0, <2>1
  <2>3. NewCall(l, p)
    BY <2>1 DEF Rising
  <2> QED  BY <2>1, <2>2, <2>3
<1>3. ASSUME NEW i \in W PROVE \E p \in K : At(l, p).id = i
  <2> DEFINE P == {p \in CallPlaces(l) : At(l, p).id = i}
  <2>1. P \subseteq Places(l) /\ P # {}
    BY <1>1
  <2>2. PICK p \in P : \A q \in P : ~Before(q, p)
    <3> HIDE DEF P
    <3> QED  BY <2>1, FirstPlace
  <2>3. p \in CallPlaces(l) /\ At(l, p).id = i /\ ~Again(l, p)
    BY <2>2 DEF Again
  <2> QED  BY <2>3 DEF Standing
<1> HIDE DEF K
<1>4. W = {} => K = {}
  BY <1>2
<1>5. ASSUME W # {} PROVE K # {} /\ At(l, Latest(K)).id = Max(W)
  <2>1. Max(W) \in W /\ \A j \in W : j <= Max(W)
    BY <1>5, GreatestIs
  <2>2. PICK p \in K : At(l, p).id = Max(W)
    BY <1>3, <2>1
  <2>3. ASSUME NEW q \in K, q # p PROVE Before(q, p) /\ ~Before(p, q)
    <3>1. Before(p, q) => At(l, p).id < At(l, q).id
      BY <1>2 DEF NewCall
    <3>2. At(l, q).id <= At(l, p).id /\ At(l, q).id \in Nat /\ At(l, p).id \in Nat
      BY <1>2, <2>1, <2>2
    <3>3. ~Before(p, q)
      BY <3>1, <3>2
    <3>4. p = <<p[1], p[2]>> /\ q = <<q[1], q[2]>>
      BY <1>1, <1>2
    <3>5. p[1] # q[1] \/ p[2] # q[2]
      BY <2>3, <3>4
    <3>6. p[1] \in Nat /\ p[2] \in Nat /\ q[1] \in Nat /\ q[2] \in Nat
      BY <1>1, <1>2
    <3> QED  BY <3>3, <3>5, <3>6, BeforeFacts
  <2>4. \A x \in K : (\A q \in K : q = x \/ Before(q, x)) <=> x = p
    BY <2>3
  <2>5. Latest(K) = p
    BY <2>4 DEF Latest
  <2> QED  BY <2>2, <2>5
<1> QED  BY <1>4, <1>5 DEF K

\* A transcript that grows: what matters is the calls that are added.
LEMMA RisingBoth ==
  ASSUME NEW S, NEW l \in Seq(Seq(S)), NEW more \in Seq(Seq(S)), NEW d, Rising(d, l),
         \A p \in CallPlaces(l \o more) : p[1] > Len(l) =>
           NewCall(l \o more, p) \/ (d = "gemini" /\ Again(l \o more, p))
  PROVE  Rising(d, l \o more)
<1> DEFINE c == l \o more
<1>1. /\ c \in Seq(Seq(S)) /\ Len(l) \in Nat
      /\ \A p \in Places(l) : p \in Places(c) /\ At(c, p) = At(l, p) /\ p[1] \in 1..Len(l)
      /\ \A p \in Places(c) : p \in Places(l) \/ (p[1] > Len(l) /\ p[1] \in Nat)
  BY PlacesOfBoth, PlaceFacts
<1>0. \A p \in CallPlaces(c) : p[1] > Len(l) => NewCall(c, p) \/ (d = "gemini" /\ Again(c, p))
  OBVIOUS
<1> HIDE DEF c
<1>2. \A p \in Places(l), q \in Places(c) : q[1] > Len(l) /\ q[1] \in Nat => ~Before(q, p)
  BY <1>1 DEF Before
<1>3. SUFFICES ASSUME NEW p \in CallPlaces(c)
               PROVE  NewCall(c, p) \/ (d = "gemini" /\ Again(c, p))
  BY DEF Rising, c
<1>4. p \in Places(c) /\ At(c, p).kind = "call"
  BY DEF CallPlaces
<1>5. CASE p \in Places(l)
  <2>1. p \in CallPlaces(l) /\ At(c, p) = At(l, p)
    BY <1>1, <1>4, <1>5 DEF CallPlaces
  <2>2. \A q \in CallPlaces(l) : q \in CallPlaces(c) /\ At(c, q) = At(l, q)
    BY <1>1 DEF CallPlaces
  <2>3. \A q \in CallPlaces(c) : Before(q, p) => q \in CallPlaces(l) /\ At(c, q) = At(l, q)
    BY <1>1, <1>2, <1>5 DEF CallPlaces
  <2>4. NewCall(l, p) => NewCall(c, p)
    BY <2>1, <2>3 DEF NewCall
  <2>5. Again(l, p) => Again(c, p)
    BY <2>1, <2>2 DEF Again
  <2> QED  BY <2>1, <2>4, <2>5 DEF Rising
<1> QED  BY <1>0, <1>1, <1>4, <1>5

\* It may be calls it has, ...
LEMMA RisingGrows ==
  ASSUME NEW S, NEW l \in Seq(Seq(S)), NEW more \in Seq(Seq(S)), NEW d, Rising(d, l),
         \A m \in NodesOf(more) : m.kind = "call" =>
           d = "gemini" /\ \E q \in NodesOf(l) : q.kind = "call" /\ q.id = m.id
  PROVE  Rising(d, l \o more)
<1> DEFINE c == l \o more
<1>1. /\ Len(l) \in Nat
      /\ \A p \in Places(l) : p \in Places(c) /\ At(c, p) = At(l, p) /\ p[1] \in 1..Len(l)
      /\ \A p \in Places(c) :
              p \in Places(l) \/ (p[1] > Len(l) /\ p[1] \in Nat /\ At(c, p) \in NodesOf(more))
  BY PlacesOfBoth, PlaceFacts
<1> HIDE DEF c
<1>2. ASSUME NEW p \in CallPlaces(c), p[1] > Len(l) PROVE d = "gemini" /\ Again(c, p)
  <2>1. p \in Places(c) /\ At(c, p).kind = "call" /\ p[1] \in Nat /\ At(c, p) \in NodesOf(more)
    BY <1>1, <1>2 DEF CallPlaces
  <2>2. PICK m \in NodesOf(l) : d = "gemini" /\ m.kind = "call" /\ m.id = At(c, p).id
    BY <2>1
  <2>3. PICK q \in Places(l) : m = At(l, q)
    BY NodesAt
  <2>4. q \in CallPlaces(c) /\ At(c, q).id = At(c, p).id
    BY <1>1, <2>2, <2>3 DEF CallPlaces
  <2>5. Before(q, p)
    BY <1>1, <1>2, <2>1, <2>3 DEF Before
  <2> QED  BY <2>2, <2>4, <2>5 DEF Again
<1> QED  BY <1>2, RisingBoth DEF c

\* ... or one of the next number.
LEMMA RisingAppends ==
  ASSUME NEW S, NEW l \in Seq(Seq(S)), NEW d, Rising(d, l), NEW call \in S,
         \A m \in NodesOf(l) : m.id < call.id
  PROVE  Rising(d, l \o <<<<call>>>>)
<1> DEFINE more == <<<<call>>>>
           c == l \o more
<1>0. more \in Seq(Seq(S)) /\ \A m \in NodesOf(more) : m = call
  <2>1. more \in Seq(Seq(S)) /\ Len(more) = 1 /\ Len(more[1]) = 1 /\ more[1][1] = call
    OBVIOUS
  <2> HIDE DEF more
  <2>2. \A m \in NodesOf(more) : \E k \in 1..1 : \E j \in 1..Len(more[k]) : m = more[k][j]
    BY <2>1, InNodes
  <2>3. \A k \in 1..1 : k = 1
    OBVIOUS
  <2> QED  BY <2>1, <2>2, <2>3
<1> HIDE DEF more
<1>1. /\ c \in Seq(Seq(S)) /\ Len(l) \in Nat
      /\ \A p \in Places(l) : p \in Places(c) /\ At(c, p) = At(l, p) /\ p[1] \in 1..Len(l)
      /\ \A p \in Places(c) :
              p \in Places(l) \/ (p[1] > Len(l) /\ p[1] \in Nat /\ At(c, p) = call)
  BY <1>0, PlacesOfBoth, PlaceFacts
<1>t. Len(c) = Len(l) + 1 /\ Len(c[Len(l) + 1]) = 1
  <2>1. c[Len(l) + 1] = <<call>> /\ Len(<<call>>) = 1
    BY DEF more
  <2>2. Len(c) = Len(l) + 1
    BY DEF more
  <2> QED  BY <2>1, <2>2
<1> HIDE DEF c
<1>u. \A p, q \in Places(c) : p[1] > Len(l) /\ q[1] > Len(l) => ~Before(q, p)
  <2> TAKE p, q \in Places(c)
  <2>0. SUFFICES ASSUME p[1] > Len(l), q[1] > Len(l) PROVE ~Before(q, p)
    OBVIOUS
  <2>1. p[1] \in 1..Len(c) /\ q[1] \in 1..Len(c) /\ p[2] \in 1..Len(c[p[1]]) /\ q[2] \in 1..Len(c[q[1]])
    BY <1>1, PlaceFacts
  <2>2. p[1] = Len(l) + 1 /\ q[1] = Len(l) + 1
    BY <1>1, <1>t, <2>0, <2>1
  <2>3. p[2] \in 1..1 /\ q[2] \in 1..1
    <3>1. Len(c[p[1]]) = 1 /\ Len(c[q[1]]) = 1
      BY <1>t, <2>2
    <3> QED  BY <2>1, <3>1
  <2> QED  BY <1>1, <2>2, <2>3 DEF Before
<1>3. ASSUME NEW p \in CallPlaces(c), p[1] > Len(l) PROVE NewCall(c, p)
  <2>1. p \in Places(c) /\ p[1] \in Nat /\ At(c, p) = call
    BY <1>1, <1>3 DEF CallPlaces
  <2>2. ASSUME NEW q \in CallPlaces(c), Before(q, p) PROVE At(c, q).id < At(c, p).id
    <3>1. q \in Places(c)
      BY DEF CallPlaces
    <3>2. q \in Places(l) /\ At(c, q) = At(l, q)
      BY <1>1, <1>3, <1>u, <2>1, <2>2, <3>1
    <3>3. At(l, q) \in NodesOf(l)
      BY <3>2, NodesAt
    <3> QED  BY <2>1, <3>2, <3>3
  <2> QED  BY <2>2 DEF NewCall
<1> QED  BY <1>0, <1>3, RisingBoth DEF c, more

\* A transcript whose nodes keep their kinds and numbers has its calls where they were.
LEMMA RisingKept ==
  ASSUME NEW S, NEW l \in Seq(Seq(S)), NEW new \in Seq(Seq(S)), NEW d, Rising(d, l),
         Len(new) = Len(l), \A k \in 1..Len(l) : Len(new[k]) = Len(l[k]),
         \A k \in 1..Len(l) : \A j \in 1..Len(l[k]) :
           new[k][j].kind = l[k][j].kind /\ new[k][j].id = l[k][j].id
  PROVE  /\ Rising(d, new) /\ CallPlaces(new) = CallPlaces(l)
         /\ \A p \in CallPlaces(l) : At(new, p).id = At(l, p).id
<1>1. Places(new) = Places(l)
  <2>1. \A k \in 1..Len(l) : {k} \X (1..Len(new[k])) = {k} \X (1..Len(l[k]))
    OBVIOUS
  <2> QED  BY <2>1 DEF Places
<1>2. \A p \in Places(l) : At(new, p).kind = At(l, p).kind /\ At(new, p).id = At(l, p).id
  BY PlaceFacts DEF At
<1>3. CallPlaces(new) = CallPlaces(l) /\ \A p \in CallPlaces(l) : At(new, p).id = At(l, p).id
  BY <1>1, <1>2 DEF CallPlaces
<1>4. \A p \in CallPlaces(l) : (NewCall(l, p) => NewCall(new, p)) /\ (Again(l, p) => Again(new, p))
  BY <1>3 DEF NewCall, Again
<1> QED  BY <1>3, <1>4 DEF Rising

-----------------------------------------------------------------------------
(* Which calls a batch chooses                                             *)

\* The transcripts the chat can have: n calls, numbered from one in the order
\* they were made; all copies of a call have its argument; and gemini has no
\* output of which some copies are tiny and others full, nor a display without
\* an output.
Given == Nat \cup Arg

Numbered(l, n) ==
  /\ \A m \in NodesOf(l) : m.id \in 1..n
  /\ \A i \in 1..n : \E m \in NodesOf(l) : m.kind = "call" /\ m.id = i

OneArg(l) ==
  \A m, o \in NodesOf(l) : m.kind = "call" /\ o.kind = "call" /\ m.id = o.id => m.arg = o.arg

Even(d, l) ==
  d = "gemini" =>
    /\ \A m, o \in NodesOf(l) : m.id = o.id /\ m.text = "tiny" => o.text # "full"
    /\ \A m \in NodesOf(l) : m.text # "absent" => \E o \in NodesOf(l) : o.kind # "call" /\ o.id = m.id

Orderly(d, l, n) ==
  /\ d \in Dialect /\ n \in Nat /\ l \in Seq(Line(d, Given))
  /\ Numbered(l, n) /\ OneArg(l) /\ Rising(d, l) /\ Even(d, l)

LEMMA OrderlyFacts ==
  ASSUME NEW d, NEW l, NEW n, Orderly(d, l, n)
  PROVE  l \in Seq(Seq(NodeOf(d, Given)))
<1>1. Line(d, Given) \subseteq Seq(NodeOf(d, Given))
  BY DEF Line
<1> QED  BY <1>1, SeqWidens DEF Orderly

\* The argument of a call; the calls a needle may take.
ArgIs(l, i) == (CHOOSE n \in NodesOf(l) : n.kind = "call" /\ n.id = i).arg

Prey(d, l, n, g) ==
  {i \in 1..n : ArgIs(l, i) \in Hits[g] /\ ArgIs(l, i) # "own" /\ i \notin Pruned(d, l)}

LEMMA ArgOfCopy ==
  ASSUME NEW l, OneArg(l), NEW m \in NodesOf(l), m.kind = "call"
  PROVE  ArgIs(l, m.id) = m.arg
<1> DEFINE c == CHOOSE n \in NodesOf(l) : n.kind = "call" /\ n.id = m.id
<1>1. c \in NodesOf(l) /\ c.kind = "call" /\ c.id = m.id
  OBVIOUS
<1> QED  BY <1>1 DEF OneArg, ArgIs

LeftAt(d, l, g, chosen) == {p \in Eligible(d, l, g) : At(l, p).id \notin chosen}

LEMMA EligibleIs ==
  ASSUME NEW d, NEW l, NEW n, Orderly(d, l, n), NEW g, NEW chosen
  PROVE  LeftAt(d, l, g, chosen) = Standing(d, l, Prey(d, l, n, g) \ chosen)
<1> DEFINE Hit(p) == ArgIs(l, At(l, p).id) \in Hits[g] /\ ArgIs(l, At(l, p).id) # "own"
           Left == LeftAt(d, l, g, chosen)
<1>1. d \in Dialect /\ OneArg(l) /\ Numbered(l, n) /\ l \in Seq(Seq(NodeOf(d, Given)))
  BY OrderlyFacts DEF Orderly
<1>2. \A p \in Places(l) : At(l, p) \in NodesOf(l) /\ At(l, p).id \in 1..n
  BY <1>1, NodesAt DEF Numbered
<1>3. \A p : p \in MatchedAt(l, g) <=> p \in CallPlaces(l) /\ Hit(p)
  <2> TAKE p
  <2>1. CASE p \in CallPlaces(l)
    <3>1. p \in Places(l) /\ At(l, p).kind = "call" /\ At(l, p) \in NodesOf(l)
      BY <1>2, <2>1 DEF CallPlaces
    <3>2. ArgIs(l, At(l, p).id) = At(l, p).arg
      BY <1>1, <3>1, ArgOfCopy
    <3> QED  BY <2>1, <3>1, <3>2 DEF MatchedAt, CallMatches
  <2>2. CASE p \notin CallPlaces(l)
    BY <2>2 DEF MatchedAt, CallMatches, CallPlaces
  <2> QED  BY <2>1, <2>2
<1>4. \A p \in CallPlaces(l) : At(l, p).id \in 1..n
  BY <1>2 DEF CallPlaces
<1>5. \A p \in CallPlaces(l) : At(l, p).id \in Prey(d, l, n, g) <=> Hit(p) /\ At(l, p).id \notin Pruned(d, l)
  BY <1>4 DEF Prey
<1>6. CASE d # "gemini"
  <2>1. \A p : p \in Eligible(d, l, g) <=> p \in MatchedAt(l, g) /\ At(l, p).id \notin Pruned(d, l)
    <3>1. CASE d = "cursor"
      BY <3>1 DEF Eligible, CursorEligible, Pruned
    <3>2. CASE d # "cursor"
      <4>1. Matched(d, l, g) = MatchedAt(l, g)
        BY <1>1, <1>6, <3>2 DEF Matched, ClaudeMatched, CodexMatched, PiMatched, Dialect
      <4> QED  BY <3>2, <4>1 DEF Eligible
    <3> QED  BY <3>1, <3>2
  <2>2. \A p : p \in Left <=> p \in Standing(d, l, Prey(d, l, n, g) \ chosen)
    BY <1>3, <1>5, <1>6, <2>1 DEF Standing, LeftAt
  <2> QED  BY <2>2
<1>7. CASE d = "gemini"
  <2>1. \A p : p \in Eligible(d, l, g) <=> p \in GeminiMatched(l, g) /\ At(l, p).id \notin Pruned(d, l)
    BY <1>7 DEF Eligible, Matched
  <2>2. \A p : p \in GeminiMatched(l, g) <=> p \in MatchedAt(l, g) /\ ~Again(l, p)
    <3> TAKE p
    <3>1. ASSUME p \in MatchedAt(l, g)
          PROVE  Again(l, p) <=> \E q \in MatchedAt(l, g) : Before(q, p) /\ At(l, q).id = At(l, p).id
      BY <1>3, <3>1 DEF Again
    <3> QED  BY <3>1 DEF GeminiMatched
  <2>3. \A p : p \in Left <=> p \in Standing(d, l, Prey(d, l, n, g) \ chosen)
    BY <1>3, <1>5, <1>7, <2>1, <2>2 DEF Standing, LeftAt
  <2> QED  BY <2>3
<1> QED  BY <1>6, <1>7

\* One target: the call with the greatest number of those that are left.
Choice(d, l, n, g, chosen) ==
  IF Prey(d, l, n, g) \ chosen = {} THEN chosen ELSE chosen \cup {Max(Prey(d, l, n, g) \ chosen)}

TakesLatest(d, l, g, chosen) ==
  IF LeftAt(d, l, g, chosen) = {} THEN chosen
  ELSE chosen \cup {At(l, Latest(LeftAt(d, l, g, chosen))).id}

LEMMA ChoiceIs ==
  ASSUME NEW d, NEW l, NEW n, Orderly(d, l, n), NEW g, NEW chosen
  PROVE  TakesLatest(d, l, g, chosen) = Choice(d, l, n, g, chosen)
<1> DEFINE W == Prey(d, l, n, g) \ chosen
<1>1. l \in Seq(Seq(NodeOf(d, Given))) /\ Rising(d, l) /\ n \in Nat
  BY OrderlyFacts DEF Orderly
<1>2. W \subseteq 1..n
  BY DEF Prey
<1>3. \A i \in W : \E p \in CallPlaces(l) : At(l, p).id = i
  <2> TAKE i \in W
  <2>1. i \in 1..n
    BY <1>2
  <2>2. PICK m \in NodesOf(l) : m.kind = "call" /\ m.id = i
    BY <2>1 DEF Orderly, Numbered
  <2>3. PICK p \in Places(l) : m = At(l, p)
    BY <1>1, NodesAt
  <2> QED  BY <2>2, <2>3 DEF CallPlaces
<1>4. LeftAt(d, l, g, chosen) = Standing(d, l, W)
  BY EligibleIs
<1> HIDE DEF W
<1>5. (Standing(d, l, W) = {} <=> W = {}) /\ (W # {} => At(l, Latest(Standing(d, l, W))).id = Max(W))
  BY <1>1, <1>2, <1>3, LatestStands
<1>6. Choice(d, l, n, g, chosen) = IF W = {} THEN chosen ELSE chosen \cup {Max(W)}
  BY DEF Choice, W
<1> QED  BY <1>4, <1>5, <1>6 DEF TakesLatest

\* A call whose output is there to take.
Takeable(d, l, n) == {i \in 1..n : ArgIs(l, i) # "own" /\ i \notin Pruned(d, l)}

LEMMA ChoiceType ==
  ASSUME NEW d, NEW l, NEW n \in Nat, NEW g, NEW chosen \in SUBSET Takeable(d, l, n)
  PROVE  Choice(d, l, n, g, chosen) \in SUBSET Takeable(d, l, n)
<1> DEFINE W == Prey(d, l, n, g) \ chosen
<1>1. W \in SUBSET (1..n) /\ W \subseteq Takeable(d, l, n)
  BY DEF Prey, Takeable
<1>2. Choice(d, l, n, g, chosen) = IF W = {} THEN chosen ELSE chosen \cup {Max(W)}
  BY DEF Choice
<1> HIDE DEF W
<1>3. W # {} => Max(W) \in W
  BY <1>1, GreatestIndex
<1> QED  BY <1>1, <1>2, <1>3

\* A batch makes one choice after the other.
Choosing(d, l, n) == [p \in (SUBSET Takeable(d, l, n)) \X Glob |-> Choice(d, l, n, p[2], p[1])]

LEMMA ChoosingType ==
  ASSUME NEW d, NEW l, NEW n \in Nat
  PROVE  /\ Choosing(d, l, n) \in [(SUBSET Takeable(d, l, n)) \X Glob -> SUBSET Takeable(d, l, n)]
         /\ \A c \in SUBSET Takeable(d, l, n), g \in Glob : Choosing(d, l, n)[<<c, g>>] = Choice(d, l, n, g, c)
BY ChoiceType DEF Choosing

\* The fold of one needle after the other, whose step is a choice, is the run.
FoldsOver(iter, d, l, n, targets) ==
  /\ iter[{}] = {}
  /\ \A t \in SUBSET (1..Len(targets)) : t # {} =>
       iter[t] = Choice(d, l, n, targets[Max(t)], iter[t \ {Max(t)}])

ChosenBy(d, l, n, targets, c) ==
  \E r : /\ IsRun(r, SUBSET Takeable(d, l, n), Choosing(d, l, n), {}, targets)
        /\ r[Len(targets)] = c

LEMMA FoldsChoosing ==
  ASSUME NEW d, NEW l, NEW n \in Nat, NEW targets \in Seq(Glob), NEW iter,
         FoldsOver(iter, d, l, n, targets)
  PROVE  ChosenBy(d, l, n, targets, iter[1..Len(targets)])
<1> DEFINE N == Len(targets)
           D == SUBSET Takeable(d, l, n)
           f == Choosing(d, l, n)
<1>1. N \in Nat /\ \A i \in 1..N : targets[i] \in Glob
  OBVIOUS
<1> HIDE DEF N
<1>2. {} \in D /\ f \in [D \X Glob -> D] /\ \A c \in D, g \in Glob : f[<<c, g>>] = Choice(d, l, n, g, c)
  BY ChoosingType
<1> HIDE DEF D, f
<1>3. ASSUME NEW t \in SUBSET (1..N), t # {}, iter[t \ {Max(t)}] \in D
      PROVE  iter[t] = f[<<iter[t \ {Max(t)}], targets[Max(t)]>>]
  <2>1. Max(t) \in 1..N
    BY <1>1, <1>3, GreatestIndex
  <2>2. iter[t] = Choice(d, l, n, targets[Max(t)], iter[t \ {Max(t)}])
    BY <1>3 DEF N, FoldsOver
  <2>3. targets[Max(t)] \in Glob
    BY <1>1, <2>1
  <2> QED  BY <1>2, <1>3, <2>2, <2>3
<1>4. Iterates(iter, D, Glob, f, {}, targets)
  BY <1>2, <1>3 DEF FoldsOver, Iterates, N
<1>5. \E r : IsRun(r, D, f, {}, targets) /\ r[Len(targets)] = iter[1..Len(targets)]
  BY <1>4, RunOfFold
<1> QED  BY <1>5 DEF D, f, ChosenBy

LEMMA FoldOfChoices ==
  ASSUME NEW d, NEW l, NEW n \in Nat, NEW targets \in Seq(Glob)
  PROVE  \E h \in [SUBSET (1..Len(targets)) -> SUBSET Takeable(d, l, n)] :
           FoldsOver(h, d, l, n, targets)
<1> DEFINE N == Len(targets)
           D == SUBSET Takeable(d, l, n)
           f == Choosing(d, l, n)
           e == [p \in D \X (1..N) |-> f[<<p[1], targets[p[2]]>>]]
<1>1. N \in Nat /\ \A i \in 1..N : targets[i] \in Glob
  OBVIOUS
<1> HIDE DEF N
<1>4. {} \in D /\ f \in [D \X Glob -> D] /\ \A c \in D, g \in Glob : f[<<c, g>>] = Choice(d, l, n, g, c)
  BY ChoosingType
<1> HIDE DEF D, f
<1>5. e \in [D \X (1..N) -> D] /\ \A c \in D, i \in 1..N : e[<<c, i>>] = Choice(d, l, n, targets[i], c)
  BY <1>1, <1>4
<1> HIDE DEF e
<1>6. PICK h \in [SUBSET (1..N) -> D] : Folds(h, N, e, {})
  BY <1>1, <1>4, <1>5, FoldExists
<1>7. ASSUME NEW t \in SUBSET (1..N), t # {}
      PROVE  h[t] = Choice(d, l, n, targets[Max(t)], h[t \ {Max(t)}])
  <2>1. Max(t) \in 1..N /\ h[t \ {Max(t)}] \in D
    BY <1>1, <1>7, GreatestIndex
  <2>2. h[t] = e[<<h[t \ {Max(t)}], Max(t)>>]
    BY <1>6, <1>7 DEF Folds
  <2> QED  BY <1>5, <2>1, <2>2
<1>8. {} \in SUBSET (1..N) /\ h[{}] = {}
  BY <1>6 DEF Folds
<1>9. FoldsOver(h, d, l, n, targets)
  BY <1>7, <1>8 DEF FoldsOver, N
<1> QED  BY <1>9 DEF N, D

\* What a batch chooses is the end of such a run.
LEMMA ChooseRuns ==
  ASSUME NEW d, NEW l, NEW n, Orderly(d, l, n), NEW targets \in Seq(Glob)
  PROVE  ChosenBy(d, l, n, targets, ChooseBatch(d, l, targets))
<1> DEFINE N == Len(targets)
           Op(chosen, g) == TakesLatest(d, l, g, chosen)
           IsIter(h) == h = [t \in SUBSET (1..N) |-> IF t = {} THEN {}
                                ELSE Op(h[t \ {Max(t)}], targets[Max(t)])]
           iter == CHOOSE h : IsIter(h)
<1>1. DOMAIN targets = 1..N /\ N \in Nat /\ n \in Nat
  BY DEF Orderly
<1>2. ChooseBatch(d, l, targets) = iter[1..N]
  BY <1>1 DEF ChooseBatch, FoldLeft, MapThenFoldSet, TakesLatest, LeftAt
<1>3. \A c, g : Op(c, g) = Choice(d, l, n, g, c)
  BY ChoiceIs
<1> HIDE DEF Op
<1>4. PICK h \in [SUBSET (1..N) -> SUBSET Takeable(d, l, n)] : FoldsOver(h, d, l, n, targets)
  BY <1>1, FoldOfChoices
<1>5. ASSUME NEW t \in SUBSET (1..N)
      PROVE  h[t] = IF t = {} THEN {} ELSE Op(h[t \ {Max(t)}], targets[Max(t)])
  BY <1>3, <1>4 DEF FoldsOver
<1>6. IsIter(h)
  BY <1>4, <1>5
<1>7. IsIter(iter)
  BY <1>6
<1> HIDE DEF iter
<1>8. iter[{}] = {}
  BY <1>7
<1>9. ASSUME NEW t \in SUBSET (1..N), t # {}
      PROVE  iter[t] = Choice(d, l, n, targets[Max(t)], iter[t \ {Max(t)}])
  <2>1. iter[t] = Op(iter[t \ {Max(t)}], targets[Max(t)])
    BY <1>7, <1>9
  <2> QED  BY <1>3, <2>1
<1>10. FoldsOver(iter, d, l, n, targets)
  BY <1>8, <1>9 DEF FoldsOver
<1> QED  BY <1>1, <1>2, <1>10, FoldsChoosing

LEMMA ChosenOnce ==
  ASSUME NEW d, NEW l, NEW n, NEW targets \in Seq(Glob), NEW c, NEW e,
         ChosenBy(d, l, n, targets, c), ChosenBy(d, l, n, targets, e)
  PROVE  c = e
<1> DEFINE D == SUBSET Takeable(d, l, n)
           f == Choosing(d, l, n)
<1>1. PICK r : IsRun(r, D, f, {}, targets) /\ r[Len(targets)] = c
  BY DEF ChosenBy
<1>2. PICK q : IsRun(q, D, f, {}, targets) /\ q[Len(targets)] = e
  BY DEF ChosenBy
<1> HIDE DEF D, f
<1>3. Len(targets) \in Nat /\ Len(targets) \in 0..Len(targets)
  OBVIOUS
<1>4. \A i \in 0..Len(targets) : q[i] = r[i]
  BY <1>1, <1>2, <1>3, RunsAgree
<1> QED  BY <1>1, <1>2, <1>3, <1>4

LEMMA ChosenType ==
  ASSUME NEW d, NEW l, NEW n, NEW targets \in Seq(Glob), NEW c, ChosenBy(d, l, n, targets, c)
  PROVE  c \subseteq Takeable(d, l, n)
<1>1. PICK r : IsRun(r, SUBSET Takeable(d, l, n), Choosing(d, l, n), {}, targets) /\ r[Len(targets)] = c
  BY DEF ChosenBy
<1>2. Len(targets) \in 0..Len(targets)
  OBVIOUS
<1> QED  BY <1>1, <1>2 DEF IsRun

-----------------------------------------------------------------------------
(* The transcript as PruneLog sees it                                      *)

Texts(l, i) == {m.text : m \in {o \in NodesOf(l) : o.id = i /\ o.kind # "call"}}

OutIs(d, l, i) ==
  IF i \in Pruned(d, l) THEN "pruned" ELSE IF Texts(l, i) = {} THEN "none"
  ELSE IF "full" \in Texts(l, i) THEN "full" ELSE "tiny"

CallIs(d, l, i) == [arg |-> ArgIs(l, i), out |-> OutIs(d, l, i)]

LEMMA CountIs ==
  ASSUME NEW l, NEW n \in Nat, Numbered(l, n)
  PROVE  /\ {m.id : m \in {o \in NodesOf(l) : o.kind = "call"}} = 1..n
         /\ Cardinality({m.id : m \in {o \in NodesOf(l) : o.kind = "call"}}) = n
<1> DEFINE K == {m.id : m \in {o \in NodesOf(l) : o.kind = "call"}}
<1>1. K = 1..n
  BY DEF Numbered
<1> HIDE DEF K
<1>2. Cardinality(1..n) = n
  BY FS_Interval
<1> QED  BY <1>1, <1>2 DEF K

LEMMA CallsAre ==
  ASSUME NEW d, NEW l, NEW n \in Nat, Numbered(l, n)
  PROVE  CallsOf(d, l) = [i \in 1..n |-> CallIs(d, l, i)]
<1> DEFINE count == Cardinality({m.id : m \in {o \in NodesOf(l) : o.kind = "call"}})
<1>1. count = n
  BY CountIs
<1>2. CallsOf(d, l) = [i \in 1..count |-> CallIs(d, l, i)]
  BY DEF CallsOf, CallIs, ArgIs, OutIs, Texts
<1> QED  BY <1>1, <1>2

\* The placeholder is not the text of an output that is "none", "tiny" or "full".
LEMMA OutGone ==
  ASSUME NEW d, NEW l, NEW i
  PROVE  OutIs(d, l, i) = "pruned" <=> i \in Pruned(d, l)
BY DEF OutIs

\* What PruneLog takes for some needles is what a batch chooses.
LEMMA TakenRuns ==
  ASSUME NEW d, NEW l, NEW n, Orderly(d, l, n), NEW targets \in Seq(Glob)
  PROVE  Promise!Taken(CallsOf(d, l), targets) = ChooseBatch(d, l, targets)
<1> DEFINE N == Len(targets)
           calls == CallsOf(d, l)
           Op(chosen, g) == IF Promise!Left(calls, g, chosen) = {} THEN chosen
                            ELSE chosen \cup {Promise!Latest(Promise!Left(calls, g, chosen))}
           IsIter(h) == h = [t \in SUBSET (1..N) |-> IF t = {} THEN {}
                                ELSE Op(h[t \ {Max(t)}], targets[Max(t)])]
           iter == CHOOSE h : IsIter(h)
<1>1. DOMAIN targets = 1..N /\ N \in Nat /\ n \in Nat /\ Numbered(l, n)
  BY DEF Orderly
<1>2. Promise!Taken(CallsOf(d, l), targets) = iter[1..N]
  BY <1>1 DEF Promise!Taken, Promise!FoldLeft, Promise!MapThenFoldSet, Promise!Max, Max
<1>3. ASSUME NEW c, NEW g PROVE Op(c, g) = Choice(d, l, n, g, c)
  <2> DEFINE W == Prey(d, l, n, g) \ c
  <2>1. calls = [i \in 1..n |-> CallIs(d, l, i)]
    BY <1>1, CallsAre
  <2>2. Len(calls) = n /\ \A i \in 1..n : calls[i].arg = ArgIs(l, i) /\ calls[i].out = OutIs(d, l, i)
    BY <1>1, <2>1 DEF CallIs
  <2>3. Promise!Left(calls, g, c) = W
    BY <2>2, OutGone DEF Promise!Left, Prey
  <2>4. W \subseteq 1..n
    BY DEF Prey
  <2>5. Choice(d, l, n, g, c) = IF W = {} THEN c ELSE c \cup {Max(W)}
    BY DEF Choice
  <2> HIDE DEF W
  <2>6. W # {} => Promise!Latest(W) = Max(W)
    <3> SUFFICES ASSUME W # {} PROVE Promise!Latest(W) = Max(W)
      OBVIOUS
    <3>1. Max(W) \in W /\ \A j \in W : j <= Max(W)
      BY <1>1, <2>4, GreatestIs
    <3>2. \A i \in W : i \in Nat
      BY <2>4
    <3>3. \A i \in W : (\A j \in W : j <= i) <=> i = Max(W)
      <4> TAKE i \in W
      <4>1. (\A j \in W : j <= i) => Max(W) <= i
        BY <3>1
      <4>2. i <= Max(W) /\ i \in Nat /\ Max(W) \in Nat
        BY <3>1, <3>2
      <4>3. (\A j \in W : j <= i) => i = Max(W)
        <5> HIDE <3>1
        <5> QED  BY <4>1, <4>2
      <4> QED  BY <3>1, <4>3
    <3> QED  BY <3>1, <3>3 DEF Promise!Latest
  <2> QED  BY <2>3, <2>5, <2>6
<1> HIDE DEF Op
<1>4. PICK h \in [SUBSET (1..N) -> SUBSET Takeable(d, l, n)] :
             FoldsOver(h, d, l, n, targets)
  BY <1>1, FoldOfChoices
<1>5. ASSUME NEW t \in SUBSET (1..N)
      PROVE  h[t] = IF t = {} THEN {} ELSE Op(h[t \ {Max(t)}], targets[Max(t)])
  BY <1>3, <1>4 DEF FoldsOver
<1>6. IsIter(h)
  BY <1>4, <1>5
<1>7. IsIter(iter)
  BY <1>6
<1> HIDE DEF iter
<1>8. iter[{}] = {}
  BY <1>7
<1>9. ASSUME NEW t \in SUBSET (1..N), t # {}
      PROVE  iter[t] = Choice(d, l, n, targets[Max(t)], iter[t \ {Max(t)}])
  <2>1. iter[t] = Op(iter[t \ {Max(t)}], targets[Max(t)])
    BY <1>7, <1>9
  <2> QED  BY <1>3, <2>1
<1>10. FoldsOver(iter, d, l, n, targets)
  BY <1>8, <1>9 DEF FoldsOver
<1>11. ChosenBy(d, l, n, targets, iter[1..N])
  BY <1>1, <1>10, FoldsChoosing
<1>12. ChosenBy(d, l, n, targets, ChooseBatch(d, l, targets))
  BY ChooseRuns
<1> QED  BY <1>2, <1>11, <1>12, ChosenOnce

-----------------------------------------------------------------------------
(* Which outputs are gone                                                  *)

PrunedNode(d, m, i) ==
  m.id = i /\ m.text = "pruned" /\ (m.kind = "output" \/ (d = "claude" /\ m.kind = "body"))

PrunedLine(d, line, i) ==
  /\ \E j \in 1..Len(line) : PrunedNode(d, line[j], i)
  /\ d = "pi" => \A j \in 1..Len(line) : line[j].kind = "output" => line[j].text = "pruned"

LEMMA PrunedIs ==
  ASSUME NEW d \in Dialect, NEW T, NEW l \in Seq(Line(d, T)), NEW i
  PROVE  i \in Pruned(d, l) <=> \E k \in 1..Len(l) : PrunedLine(d, l[k], i)
<1>1. \A k \in 1..Len(l) : l[k] \in Line(d, T)
  BY LogFacts
<1>2. CASE d # "pi"
  <2> DEFINE kinds == IF d = "claude" THEN {"output", "body"} ELSE {"output"}
  <2>1. Pruned(d, l) = PlaceholderIds(l, kinds)
    BY <1>2 DEF Pruned, ClaudePruned, GeminiPruned, CodexPruned, Dialect
  <2>2. \A m : PrunedNode(d, m, i) <=> m.id = i /\ m.text = "pruned" /\ m.kind \in kinds
    BY DEF PrunedNode
  <2> HIDE DEF kinds
  <2>3. i \in PlaceholderIds(l, kinds) <=> \E m \in NodesOf(l) : PrunedNode(d, m, i)
    BY <2>2 DEF PlaceholderIds
  <2>4. (\E m \in NodesOf(l) : PrunedNode(d, m, i))
          <=> \E k \in 1..Len(l) : \E j \in 1..Len(l[k]) : PrunedNode(d, l[k][j], i)
    BY InNodes
  <2>5. \A k \in 1..Len(l) :
          PrunedLine(d, l[k], i) <=> \E j \in 1..Len(l[k]) : PrunedNode(d, l[k][j], i)
    BY <1>2 DEF PrunedLine
  <2> QED  BY <2>1, <2>3, <2>4, <2>5
<1>3. CASE d = "pi"
  <2> DEFINE Outs(line) == /\ \E o \in ToSet(line) : o.kind = "output" /\ o.id = i
                           /\ \A o \in ToSet(line) : o.kind = "output" => o.text = "pruned"
  <2>1. i \in Pruned(d, l) <=> i \in PlaceholderIds(l, {"output"}) /\ \E line \in ToSet(l) : Outs(line)
    BY <1>3 DEF Pruned, PiPruned
  <2>2. ToSet(l) = {l[k] : k \in 1..Len(l)}
    BY DEF ToSet
  <2>3. ASSUME NEW k \in 1..Len(l)
        PROVE  Outs(l[k]) <=> PrunedLine(d, l[k], i)
    <3>1. \A o : o \in ToSet(l[k]) <=> \E j \in 1..Len(l[k]) : o = l[k][j]
      BY <1>1, InLine
    <3>2. Outs(l[k]) <=> /\ \E j \in 1..Len(l[k]) : l[k][j].kind = "output" /\ l[k][j].id = i
                         /\ \A j \in 1..Len(l[k]) : l[k][j].kind = "output" => l[k][j].text = "pruned"
      BY <3>1
    <3> HIDE DEF Outs
    <3> QED  BY <1>3, <3>2 DEF PrunedLine, PrunedNode
  <2>4. ASSUME NEW k \in 1..Len(l), PrunedLine(d, l[k], i)
        PROVE  i \in PlaceholderIds(l, {"output"})
    <3>1. PICK j \in 1..Len(l[k]) : PrunedNode(d, l[k][j], i)
      BY <2>4 DEF PrunedLine
    <3>2. l[k][j] \in NodesOf(l)
      BY InNodes
    <3> QED  BY <1>3, <3>1, <3>2 DEF PrunedNode, PlaceholderIds
  <2> HIDE DEF Outs
  <2> QED  BY <2>1, <2>2, <2>3, <2>4
<1> QED  BY <1>2, <1>3

\* Lines that are added and of which none is gone change nothing of what is gone.
LEMMA PrunedGrows ==
  ASSUME NEW d \in Dialect, NEW T, NEW l \in Seq(Line(d, T)), NEW more \in Seq(Line(d, T)),
         \A m \in NodesOf(more) : m.text # "pruned", NEW i
  PROVE  i \in Pruned(d, l \o more) <=> i \in Pruned(d, l)
<1> DEFINE c == l \o more
           D == Line(d, T)
<1>1. l \in Seq(D) /\ more \in Seq(D)
  OBVIOUS
<1> HIDE DEF D
<1>2. /\ c \in Seq(D) /\ Len(l) \in Nat /\ Len(more) \in Nat /\ Len(c) = Len(l) + Len(more)
      /\ \A k \in 1..Len(l) : c[k] = l[k]
      /\ \A k \in 1..Len(more) : c[Len(l) + k] = more[k]
  BY <1>1
<1> HIDE DEF c
<1>3. /\ i \in Pruned(d, c) <=> \E k \in 1..Len(c) : PrunedLine(d, c[k], i)
      /\ i \in Pruned(d, l) <=> \E k \in 1..Len(l) : PrunedLine(d, l[k], i)
  BY <1>1, <1>2, PrunedIs DEF D
<1>4. ASSUME NEW k \in 1..Len(c), PrunedLine(d, c[k], i) PROVE k \in 1..Len(l)
  <2>1. PICK j \in 1..Len(c[k]) : PrunedNode(d, c[k][j], i)
    BY <1>4 DEF PrunedLine
  <2>2. SUFFICES ASSUME k > Len(l) PROVE FALSE
    BY <1>2
  <2> DEFINE x == k - Len(l)
  <2>3. x \in 1..Len(more) /\ Len(l) + x = k
    BY <1>2, <2>2
  <2> HIDE DEF x
  <2>4. c[k][j] \in NodesOf(more)
    BY <1>2, <2>3, InNodes
  <2> QED  BY <2>1, <2>4 DEF PrunedNode
<1>5. \A k \in 1..Len(l) : k \in 1..Len(c) /\ c[k] = l[k]
  BY <1>2
<1> QED  BY <1>3, <1>4, <1>5 DEF c

-----------------------------------------------------------------------------
(* A transcript that grows stays in order                                  *)

LEMMA ArgStays ==
  ASSUME NEW d, NEW l, NEW n, Orderly(d, l, n), NEW new, OneArg(new),
         NodesOf(l) \subseteq NodesOf(new), NEW i \in 1..n
  PROVE  ArgIs(new, i) = ArgIs(l, i)
<1>1. PICK m \in NodesOf(l) : m.kind = "call" /\ m.id = i
  BY DEF Orderly, Numbered
<1>2. OneArg(l)
  BY DEF Orderly
<1>3. ArgIs(l, m.id) = m.arg /\ ArgIs(new, m.id) = m.arg
  BY <1>1, <1>2, ArgOfCopy
<1> QED  BY <1>1, <1>3

\* The next call.
LEMMA CallInOrder ==
  ASSUME NEW d, NEW l, NEW n, Orderly(d, l, n), NEW a \in Arg
  PROVE  LET new == Append(l, CallLine(n + 1, a))
         IN  /\ Orderly(d, new, n + 1)
             /\ \A i \in 1..n : CallIs(d, new, i) = CallIs(d, l, i)
             /\ CallIs(d, new, n + 1) = [arg |-> a, out |-> "none"]
<1> DEFINE call == CallNode(n + 1, a, "absent")
           more == <<<<call>>>>
           new == Append(l, CallLine(n + 1, a))
           D == Line(d, Given)
<1>1. d \in Dialect /\ n \in Nat /\ l \in Seq(D) /\ Numbered(l, n) /\ OneArg(l) /\ Rising(d, l) /\ Even(d, l)
  BY DEF Orderly
<1>2. call.kind = "call" /\ call.id = n + 1 /\ call.arg = a /\ call.text = "absent"
  BY DEF CallNode
<1>3. call \in NodeOf(d, Given)
  BY <1>1 DEF CallNode, NodeOf, Given
<1>4. CallLine(n + 1, a) = <<call>>
  BY DEF CallLine
<1> HIDE DEF call
<1>5. <<call>> \in D
  <2>1. <<call>> \in Seq(NodeOf(d, Given)) /\ Len(<<call>>) = 1 /\ <<call>>[1] = call
    BY <1>3
  <2>2. \A j \in 1..1 : j = 1
    OBVIOUS
  <2> QED  BY <2>1, <2>2 DEF Line
<1>6. more \in Seq(D) /\ new = l \o more
  <2>1. more \in Seq(D)
    BY <1>5
  <2>2. Append(l, <<call>>) = l \o <<<<call>>>>
    <3> DEFINE x == <<call>>
    <3>1. x \in D
      BY <1>5
    <3> HIDE DEF x, D
    <3> QED  BY <1>1, <3>1, AppendIsConcat DEF x
  <2> QED  BY <1>4, <2>1, <2>2
<1>7. NodesOf(more) = {call}
  <2>1. Len(more) = 1 /\ Len(more[1]) = 1 /\ more[1][1] = call
    OBVIOUS
  <2> HIDE DEF more
  <2>2. \A m : m \in NodesOf(more) <=> \E k \in 1..1 : \E j \in 1..Len(more[k]) : m = more[k][j]
    BY <2>1, InNodes
  <2>3. \A k \in 1..1 : k = 1
    OBVIOUS
  <2> QED  BY <2>1, <2>2, <2>3
<1>c. Rising(d, l \o <<<<call>>>>)
  <2>1. \A m \in NodesOf(l) : m.id < call.id
    <3>1. \A m \in NodesOf(l) : m.id \in 1..n
      BY <1>1 DEF Numbered
    <3> QED  BY <1>1, <1>2, <3>1
  <2>2. l \in Seq(Seq(NodeOf(d, Given)))
    BY OrderlyFacts
  <2> QED  BY <1>1, <1>3, <2>1, <2>2, RisingAppends
<1>d. Rising(d, new)
  BY <1>6, <1>c
<1> HIDE DEF more, new
<1>8. new \in Seq(D) /\ NodesOf(new) = NodesOf(l) \cup {call}
  <2> HIDE DEF D
  <2> QED  BY <1>1, <1>6, <1>7, NodesOfBoth
<1>9. \A m \in NodesOf(l) : m.id \in 1..n /\ m.id # n + 1
  BY <1>1 DEF Numbered
<1>10. Numbered(new, n + 1)
  <2>1. \A m \in NodesOf(new) : m.id \in 1..(n + 1)
    BY <1>1, <1>2, <1>8, <1>9
  <2>2. ASSUME NEW i \in 1..(n + 1) PROVE \E m \in NodesOf(new) : m.kind = "call" /\ m.id = i
    <3>1. i \in 1..n \/ i = n + 1
      BY <1>1
    <3> QED  BY <1>1, <1>2, <1>8, <3>1 DEF Numbered
  <2> QED  BY <2>1, <2>2 DEF Numbered
<1>11. OneArg(new)
  BY <1>1, <1>2, <1>8, <1>9 DEF OneArg
<1>12. Even(d, new)
  BY <1>1, <1>2, <1>8 DEF Even
<1>13. Orderly(d, new, n + 1)
  BY <1>1, <1>8, <1>d, <1>10, <1>11, <1>12 DEF Orderly
<1>14. \A i : i \in Pruned(d, new) <=> i \in Pruned(d, l)
  <2>1. \A m \in NodesOf(more) : m.text # "pruned"
    BY <1>2, <1>7
  <2> QED  BY <1>1, <1>6, <2>1, PrunedGrows
<1>15. \A i : Texts(new, i) = Texts(l, i)
  BY <1>2, <1>8 DEF Texts
<1>16. ASSUME NEW i \in 1..n PROVE CallIs(d, new, i) = CallIs(d, l, i)
  <2>1. ArgIs(new, i) = ArgIs(l, i)
    BY <1>8, <1>11, ArgStays
  <2> QED  BY <1>14, <1>15, <2>1 DEF CallIs, OutIs
<1>17. CallIs(d, new, n + 1) = [arg |-> a, out |-> "none"]
  <2>1. ArgIs(new, n + 1) = a
    BY <1>2, <1>8, <1>11, ArgOfCopy
  <2>2. Texts(l, n + 1) = {}
    BY <1>9 DEF Texts
  <2>3. n + 1 \notin Pruned(d, l)
    BY <1>1, <1>9, PrunedIds
  <2> QED  BY <1>14, <1>15, <2>1, <2>2, <2>3 DEF CallIs, OutIs
<1> QED  BY <1>13, <1>16, <1>17 DEF new

\* What an answer adds: outputs of one call, none of them gone; gemini adds the
\* call once more, and all it adds has the same text.
Answers(d, l, i, t, more) ==
  /\ t \in {"full", "tiny"} /\ (t = "tiny" => d = "gemini")
  /\ more \in Seq(Fresh(d, i, Given))
  /\ \E m \in NodesOf(more) : m.kind # "call" /\ m.text = t
  /\ d = "gemini" => \A m \in NodesOf(more) : m.text = t
  /\ \A m \in NodesOf(more) : m.kind = "call" => d = "gemini" /\ m.arg = ArgIs(l, i)

LEMMA AnswerInOrder ==
  ASSUME NEW d, NEW l, NEW n, Orderly(d, l, n), NEW i \in 1..n, Texts(l, i) = {},
         NEW t, NEW more, Answers(d, l, i, t, more)
  PROVE  /\ Orderly(d, l \o more, n)
         /\ \A x \in 1..n : x # i => CallIs(d, l \o more, x) = CallIs(d, l, x)
         /\ CallIs(d, l, i).out = "none"
         /\ CallIs(d, l \o more, i) = [CallIs(d, l, i) EXCEPT !.out = t]
<1> DEFINE new == l \o more
           D == Line(d, Given)
<1>1. d \in Dialect /\ n \in Nat /\ l \in Seq(D) /\ Numbered(l, n) /\ OneArg(l) /\ Rising(d, l) /\ Even(d, l)
  BY DEF Orderly
<1>2. /\ t \in {"full", "tiny"} /\ (t = "tiny" => d = "gemini")
      /\ more \in Seq(Fresh(d, i, Given))
      /\ \E m \in NodesOf(more) : m.kind # "call" /\ m.text = t
      /\ d = "gemini" => \A m \in NodesOf(more) : m.text = t
      /\ \A m \in NodesOf(more) : m.kind = "call" => d = "gemini" /\ m.arg = ArgIs(l, i)
  BY DEF Answers
<1>3. more \in Seq(D) /\ \A m \in NodesOf(more) : m.id = i /\ m.text # "pruned"
  BY <1>2, FreshLines, FreshNodes
<1>4. \A m \in NodesOf(l) : m.id = i => m.kind = "call"
  BY DEF Texts
<1>5. PICK c \in NodesOf(l) : c.kind = "call" /\ c.id = i /\ c.arg = ArgIs(l, i)
  <2>1. PICK c \in NodesOf(l) : c.kind = "call" /\ c.id = i
    BY <1>1 DEF Numbered
  <2> QED  BY <1>1, <2>1, ArgOfCopy
<1>6. Rising(d, new)
  <2>1. D \subseteq Seq(NodeOf(d, Given))
    BY DEF Line
  <2>2. l \in Seq(Seq(NodeOf(d, Given))) /\ more \in Seq(Seq(NodeOf(d, Given)))
    <3> HIDE DEF D
    <3> QED  BY <1>1, <1>3, <2>1, SeqWidens
  <2> QED  BY <1>1, <1>2, <1>3, <1>5, <2>2, RisingGrows
<1>7. new \in Seq(D) /\ NodesOf(new) = NodesOf(l) \cup NodesOf(more)
  <2> HIDE DEF D
  <2> QED  BY <1>1, <1>3, NodesOfBoth
<1> HIDE DEF new
<1>8. Numbered(new, n)
  BY <1>1, <1>3, <1>7 DEF Numbered
<1>9. OneArg(new)
  <2> SUFFICES ASSUME NEW m \in NodesOf(new), NEW o \in NodesOf(new), m.kind = "call", o.kind = "call", m.id = o.id
               PROVE  m.arg = o.arg
    BY DEF OneArg
  <2>1. \A q \in NodesOf(new) : q.kind = "call" => \E p \in NodesOf(l) : p.kind = "call" /\ p.id = q.id /\ p.arg = q.arg
    BY <1>2, <1>3, <1>5, <1>7
  <2> QED  BY <1>1, <2>1 DEF OneArg
<1>10. Even(d, new)
  <2> SUFFICES ASSUME d = "gemini" PROVE Even(d, new)
    BY DEF Even
  <2>1. /\ \A m, o \in NodesOf(l) : m.id = o.id /\ m.text = "tiny" => o.text # "full"
        /\ \A m \in NodesOf(l) : m.text # "absent" => \E o \in NodesOf(l) : o.kind # "call" /\ o.id = m.id
    BY <1>1 DEF Even
  <2>2. \A m \in NodesOf(l) : m.id = i => m.text = "absent"
    BY <1>4, <2>1
  <2>3. \A m \in NodesOf(more) : m.text = t
    BY <1>2
  <2>4. ASSUME NEW m \in NodesOf(new), NEW o \in NodesOf(new), m.id = o.id, m.text = "tiny" PROVE o.text # "full"
    <3>1. m \in NodesOf(l) \/ m \in NodesOf(more)
      BY <1>7
    <3>2. o \in NodesOf(l) \/ o \in NodesOf(more)
      BY <1>7
    <3> QED  BY <1>2, <1>3, <2>1, <2>2, <2>3, <2>4, <3>1, <3>2
  <2>5. ASSUME NEW m \in NodesOf(new), m.text # "absent" PROVE \E o \in NodesOf(new) : o.kind # "call" /\ o.id = m.id
    <3>1. CASE m \in NodesOf(l)
      BY <1>7, <2>1, <2>5, <3>1
    <3>2. CASE m \in NodesOf(more)
      BY <1>2, <1>3, <1>7, <3>2
    <3> QED  BY <1>7, <3>1, <3>2
  <2> QED  BY <2>4, <2>5 DEF Even
<1>11. Orderly(d, new, n)
  BY <1>1, <1>6, <1>7, <1>8, <1>9, <1>10 DEF Orderly
<1>12. \A x : x \in Pruned(d, new) <=> x \in Pruned(d, l)
  BY <1>1, <1>3, PrunedGrows DEF new
<1>13. \A x \in 1..n : ArgIs(new, x) = ArgIs(l, x)
  BY <1>7, <1>9, ArgStays
<1>14. \A x : x # i => Texts(new, x) = Texts(l, x)
  BY <1>3, <1>7 DEF Texts
<1>15. \A x \in 1..n : x # i => CallIs(d, new, x) = CallIs(d, l, x)
  BY <1>12, <1>13, <1>14 DEF CallIs, OutIs
<1>16. i \notin Pruned(d, l)
  BY <1>1, <1>4, PrunedIds
<1>17. CallIs(d, l, i) = [arg |-> ArgIs(l, i), out |-> "none"]
  BY <1>16 DEF CallIs, OutIs
<1>18. Texts(new, i) # {} /\ (t = "full" => "full" \in Texts(new, i)) /\ (t = "tiny" => "full" \notin Texts(new, i))
  <2>1. t \in Texts(new, i)
    BY <1>2, <1>3, <1>7 DEF Texts
  <2>2. t = "tiny" => \A x \in Texts(new, i) : x = "tiny"
    BY <1>2, <1>3, <1>4, <1>7 DEF Texts
  <2> QED  BY <2>1, <2>2
<1>19. CallIs(d, new, i) = [arg |-> ArgIs(l, i), out |-> t]
  BY <1>2, <1>12, <1>13, <1>16, <1>18 DEF CallIs, OutIs
<1> QED  BY <1>11, <1>15, <1>17, <1>19 DEF new

\* Of the same nodes the same is to be seen, but for pi, where the lines matter.
LEMMA CallsOfNodes ==
  ASSUME NEW d \in Dialect \ {"pi"}, NEW l, NEW new, NodesOf(new) = NodesOf(l), NEW i
  PROVE  CallIs(d, new, i) = CallIs(d, l, i)
<1>1. Pruned(d, new) = Pruned(d, l)
  BY DEF Pruned, ClaudePruned, GeminiPruned, CodexPruned, PlaceholderIds, Dialect
<1> QED  BY <1>1 DEF CallIs, OutIs, ArgIs, Texts

LEMMA SnapshotInOrder ==
  ASSUME NEW l, NEW n, Orderly("gemini", l, n)
  PROVE  LET new == l \o SnapshotLine(l)
         IN  Orderly("gemini", new, n) /\ \A i : CallIs("gemini", new, i) = CallIs("gemini", l, i)
<1> DEFINE S == NodeOf("gemini", Given)
           D == Line("gemini", Given)
<1>1. /\ n \in Nat /\ l \in Seq(D) /\ Numbered(l, n) /\ OneArg(l)
      /\ Rising("gemini", l) /\ Even("gemini", l) /\ "gemini" \in Dialect
  BY DEF Orderly
<1>2. l \in Seq(Seq(S))
  BY OrderlyFacts
<1>3. PICK line \in Seq(NodesOf(l)) : SnapshotLine(l) = <<line>>
  BY <1>2, SnapshotRepeats
<1> DEFINE more == <<line>>
           new == l \o more
<1>4. line \in Seq(S) /\ line \in D
  <2>1. NodesOf(l) \subseteq S
    BY <1>1, NodeTypes
  <2>2. line \in Seq(S)
    BY <2>1, SeqWidens
  <2> QED  BY <2>2 DEF Line
<1>5. more \in Seq(Seq(S)) /\ more \in Seq(D)
  BY <1>4
<1>6. \A m \in NodesOf(more) : m \in NodesOf(l)
  <2>1. Len(more) = 1 /\ more[1] = line /\ Len(line) \in Nat /\ \A j \in 1..Len(line) : line[j] \in NodesOf(l)
    OBVIOUS
  <2> HIDE DEF more
  <2>2. \A m \in NodesOf(more) : \E k \in 1..1 : \E j \in 1..Len(more[k]) : m = more[k][j]
    BY <2>1, InNodes
  <2>3. \A k \in 1..1 : k = 1
    OBVIOUS
  <2> QED  BY <2>1, <2>2, <2>3
<1>0. SnapshotLine(l) = more
  BY <1>3
<1> HIDE DEF more
<1>7. Rising("gemini", new)
  <2> HIDE DEF S
  <2> QED  BY <1>1, <1>2, <1>5, <1>6, RisingGrows
<1>8. new \in Seq(D) /\ NodesOf(new) = NodesOf(l)
  <2> HIDE DEF D
  <2>1. new \in Seq(D) /\ NodesOf(new) = NodesOf(l) \cup NodesOf(more)
    BY <1>1, <1>5, NodesOfBoth
  <2> QED  BY <1>6, <2>1
<1> HIDE DEF new
<1>9. Numbered(new, n) /\ OneArg(new) /\ Even("gemini", new)
  BY <1>1, <1>8 DEF Numbered, OneArg, Even
<1>10. Orderly("gemini", new, n)
  BY <1>1, <1>7, <1>8, <1>9 DEF Orderly
<1>11. \A i : CallIs("gemini", new, i) = CallIs("gemini", l, i)
  <2>1. "gemini" \in Dialect \ {"pi"}
    BY <1>1
  <2> QED  BY <1>8, <2>1, CallsOfNodes
<1> QED  BY <1>0, <1>10, <1>11 DEF new

\* What the agents write is such an answer.
LEMMA FreshWidens ==
  ASSUME NEW d, NEW i, NEW T, NEW U, T \subseteq U, NEW more \in Seq(Fresh(d, i, T))
  PROVE  more \in Seq(Fresh(d, i, U))
<1>1. Line(d, T) \subseteq Line(d, U)
  BY LineWidens
<1>2. Fresh(d, i, T) \subseteq Fresh(d, i, U)
  BY <1>1 DEF Fresh
<1> HIDE DEF Fresh
<1> QED  BY <1>2, SeqWidens

LEMMA AnswerAnswers ==
  ASSUME NEW d \in Dialect, NEW l, NEW i \in Nat, ArgIs(l, i) \in Given, NEW t \in {"full", "tiny"},
         t = "tiny" => d = "gemini"
  PROVE  Answers(d, l, i, t, AnswerLines(d, i, ArgIs(l, i), t))
<1> DEFINE a == ArgIs(l, i)
           more == AnswerLines(d, i, a, t)
           c == CallNode(i, a, t)
           o == OutNode("output", i, t)
           f == OutNode("output", i, "full")
<1>1. more \in Seq(Fresh(d, i, Given))
  <2>1. more \in Seq(Fresh(d, i, {i, a, "none"}))
    BY AnswerFresh
  <2>2. {i, a, "none"} \subseteq Given
    BY DEF Given, Arg
  <2> HIDE DEF more, a
  <2> QED  BY <2>1, <2>2, FreshWidens
<1>2. more = CASE d = "gemini" -> <<<<c, o>>, <<o>>>>
               [] d = "pi"     -> <<<<o, f>>>>
               [] OTHER        -> <<<<o>>>>
  BY DEF AnswerLines
<1>3. /\ c.kind = "call" /\ c.text = t /\ c.arg = a
      /\ o.kind = "output" /\ o.text = t /\ f.kind = "output" /\ f.text = "full"
  BY DEF CallNode, OutNode
<1> HIDE DEF c, o, f, a, more
<1>4. CASE d = "gemini"
  <2>1. more = <<<<c, o>>, <<o>>>>
    BY <1>2, <1>4
  <2>2. Len(more) = 2 /\ Len(more[1]) = 2 /\ more[1][1] = c /\ more[1][2] = o /\ Len(more[2]) = 1 /\ more[2][1] = o
    BY <2>1
  <2>3. \A m \in NodesOf(more) : m = c \/ m = o
    <3>1. \A m \in NodesOf(more) : \E k \in 1..2 : \E j \in 1..Len(more[k]) : m = more[k][j]
      BY <2>2, InNodes
    <3>2. (\A k \in 1..2 : k = 1 \/ k = 2) /\ \A k \in 1..1 : k = 1
      OBVIOUS
    <3> QED  BY <2>2, <3>1, <3>2
  <2>4. o \in NodesOf(more)
    <3>1. 2 \in 1..Len(more) /\ 1 \in 1..Len(more[2])
      BY <2>2
    <3> QED  BY <2>2, <3>1, InNodes
  <2> QED  BY <1>1, <1>3, <1>4, <2>3, <2>4 DEF Answers, more, a
<1>5. CASE d # "gemini"
  <2>1. more = <<<<o, f>>>> \/ more = <<<<o>>>>
    BY <1>2, <1>5
  <2>2. /\ Len(more) = 1 /\ more[1][1] = o
        /\ (Len(more[1]) = 1 \/ (Len(more[1]) = 2 /\ more[1][2] = f))
    BY <2>1
  <2>3. \A m \in NodesOf(more) : m = o \/ m = f
    <3>1. \A m \in NodesOf(more) : \E k \in 1..1 : \E j \in 1..Len(more[k]) : m = more[k][j]
      BY <2>2, InNodes
    <3>2. (\A k \in 1..2 : k = 1 \/ k = 2) /\ \A k \in 1..1 : k = 1
      OBVIOUS
    <3> QED  BY <2>2, <3>1, <3>2
  <2>4. o \in NodesOf(more)
    <3>1. 1 \in 1..Len(more) /\ 1 \in 1..Len(more[1])
      BY <2>2
    <3> QED  BY <2>2, <3>1, InNodes
  <2> QED  BY <1>1, <1>3, <1>5, <2>3, <2>4 DEF Answers, more, a
<1> QED  BY <1>4, <1>5

LEMMA SkillAnswers ==
  ASSUME NEW l, NEW i \in Nat
  PROVE  Answers("claude", l, i, "full", SkillLines(i, "full"))
<1> DEFINE more == SkillLines(i, "full")
           o == OutNode("output", i, "tiny")
           b == OutNode("body", i, "full")
<1>1. more \in Seq(Fresh("claude", i, Given))
  <2>1. more \in Seq(Fresh("claude", i, {i, "none"}))
    BY SkillFresh
  <2>2. {i, "none"} \subseteq Given
    BY DEF Given, Arg
  <2> HIDE DEF more
  <2> QED  BY <2>1, <2>2, FreshWidens
<1>2. more = <<<<o>>, <<b>>>>
  BY DEF SkillLines
<1>3. o.kind = "output" /\ b.kind = "body" /\ b.text = "full"
  BY DEF OutNode
<1> HIDE DEF o, b, more
<1>4. Len(more) = 2 /\ Len(more[1]) = 1 /\ more[1][1] = o /\ Len(more[2]) = 1 /\ more[2][1] = b
  BY <1>2
<1>5. \A m \in NodesOf(more) : m = o \/ m = b
  <2>1. \A m \in NodesOf(more) : \E k \in 1..2 : \E j \in 1..Len(more[k]) : m = more[k][j]
    BY <1>4, InNodes
  <2>2. (\A k \in 1..2 : k = 1 \/ k = 2) /\ \A k \in 1..1 : k = 1
    OBVIOUS
  <2> QED  BY <1>4, <2>1, <2>2
<1>6. b \in NodesOf(more)
  <2>1. 2 \in 1..Len(more) /\ 1 \in 1..Len(more[2])
    BY <1>4
  <2> QED  BY <1>4, <2>1, InNodes
<1> QED  BY <1>1, <1>3, <1>5, <1>6 DEF Answers, more

-----------------------------------------------------------------------------
(* A transcript that is rewritten stays in order                           *)

Rewritten(d, l, ids) == [k \in 1..Len(l) |-> After(d, l[k], ids)]

LEMMA RewrittenFacts ==
  ASSUME NEW d \in Dialect, NEW l \in Seq(Line(d, Given)), NEW ids
  PROVE  LET new == Rewritten(d, l, ids)
         IN  /\ new \in Seq(Line(d, Given)) /\ Len(new) = Len(l) /\ Len(l) \in Nat
             /\ \A k \in 1..Len(l) : l[k] \in Line(d, Given) /\ Len(new[k]) = Len(l[k]) /\ Len(l[k]) \in Nat
             /\ \A k \in 1..Len(l) : \A j \in 1..Len(l[k]) : Turns(l[k][j], new[k][j], ids)
             /\ \A m \in NodesOf(new) : \E o \in NodesOf(l) : Turns(o, m, ids)
             /\ \A o \in NodesOf(l) : \E m \in NodesOf(new) : Turns(o, m, ids)
<1> DEFINE new == Rewritten(d, l, ids)
<1>1. Len(l) \in Nat /\ \A k \in 1..Len(l) : l[k] \in Line(d, Given)
  BY LogFacts
<1>2. "none" \in Given
  BY DEF Given, Arg
<1>3. \A k \in 1..Len(l) : new[k] = After(d, l[k], ids) /\ new[k] \in Line(d, Given) /\ Len(new[k]) = Len(l[k])
  BY <1>1, <1>2, AfterLine DEF Rewritten
<1>4. new \in Seq(Line(d, Given)) /\ Len(new) = Len(l)
  <2>1. \A k \in 1..Len(l) : After(d, l[k], ids) \in Line(d, Given)
    BY <1>3
  <2> QED  BY <1>1, <2>1 DEF Rewritten
<1> HIDE DEF new
<1>5. \A k \in 1..Len(l) : Len(l[k]) \in Nat
  BY <1>1, LineFacts
<1>6. ASSUME NEW k \in 1..Len(l), NEW j \in 1..Len(l[k]) PROVE Turns(l[k][j], new[k][j], ids)
  BY <1>1, <1>2, <1>3, AfterNode
<1>7. ASSUME NEW m \in NodesOf(new) PROVE \E o \in NodesOf(l) : Turns(o, m, ids)
  <2>1. PICK k \in 1..Len(l) : \E j \in 1..Len(l[k]) : m = new[k][j]
    BY <1>3, <1>4, InNodes
  <2>2. PICK j \in 1..Len(l[k]) : m = new[k][j]
    BY <2>1
  <2>3. l[k][j] \in NodesOf(l)
    BY InNodes
  <2> QED  BY <1>6, <2>2, <2>3
<1>8. ASSUME NEW o \in NodesOf(l) PROVE \E m \in NodesOf(new) : Turns(o, m, ids)
  <2>1. PICK k \in 1..Len(l) : \E j \in 1..Len(l[k]) : o = l[k][j]
    BY InNodes
  <2>2. PICK j \in 1..Len(l[k]) : o = l[k][j]
    BY <2>1
  <2>3. new[k][j] \in NodesOf(new)
    BY <1>3, <1>4, InNodes
  <2> QED  BY <1>6, <2>2, <2>3
<1> QED  BY <1>1, <1>3, <1>4, <1>5, <1>6, <1>7, <1>8 DEF new

\* What a batch does to the arguments of a call, and to a text that is not there.
ArgAfter(d, a) == IF d \in {"claude", "codex"} THEN "none" ELSE a

Spares(d, n, m, ids) ==
  /\ n.kind = "call" /\ n.id \in ids => m.arg = ArgAfter(d, n.arg)
  /\ n.text = "absent" => m.text = "absent"

LEMMA BlankTextSpares ==
  ASSUME NEW d, NEW T, NEW n \in NodeOf(d, T)
  PROVE  BlankText(n).arg = n.arg /\ (n.text = "absent" => BlankText(n).text = "absent")
<1>1. n \in [kind : {"call", "output", "body"}, id : T, arg : T, text : Text \cup {"absent"}]
  BY DEF NodeOf
<1>2. CASE HasText(n)
  <2>1. BlankText(n) = [n EXCEPT !.text = "pruned"] /\ n.text # "absent"
    BY <1>2 DEF BlankText, HasText
  <2> QED  BY <1>1, <2>1
<1>3. CASE ~HasText(n)
  BY <1>3 DEF BlankText
<1> QED  BY <1>2, <1>3

LEMMA AfterSpares ==
  ASSUME NEW d \in Dialect, NEW T, NEW line \in Line(d, T), NEW ids, NEW j \in 1..Len(line)
  PROVE  Spares(d, line[j], After(d, line, ids)[j], ids)
<1> DEFINE n == line[j]
           m == After(d, line, ids)[j]
<1>1. n \in NodeOf(d, T)
  BY LineFacts
<1>t. n \in [kind : {"call", "output", "body"}, id : T, arg : T, text : Text \cup {"absent"}]
  BY <1>1 DEF NodeOf
<1>2. /\ BlankText(n).arg = n.arg /\ (n.text = "absent" => BlankText(n).text = "absent")
  BY <1>1, BlankTextSpares
<1>3. CASE d = "cursor"
  <2>1. m = IF n.kind = "output" /\ n.id \in ids THEN BlankText(n) ELSE n
    BY <1>3 DEF After
  <2> HIDE DEF n, m
  <2>2. Spares(d, n, m, ids)
    BY <1>2, <1>3, <2>1 DEF Spares, ArgAfter
  <2> QED  BY <2>2 DEF n, m
<1>4. CASE d # "cursor" /\ (d # "gemini" \/ \E x \in ToSet(line) : x.id \in ids /\ x.text = "full")
  <2>1. m = IF n.id \in ids THEN BlankNode(d, n) ELSE n
    BY <1>4 DEF After, WrittenLine, Blanked
  <2> HIDE DEF n, m
  <2>2. EraseArgs(n).arg = "none" /\ EraseArgs(n).text = n.text
    BY <1>t DEF EraseArgs
  <2>3. CASE d = "gemini"
    <3>1. BlankNode(d, n) = BlankText(n)
      BY <2>3 DEF BlankNode, BlankGemini
    <3> QED  BY <1>2, <2>1, <2>3, <3>1 DEF Spares, ArgAfter, n, m
  <2>4. CASE d \in {"claude", "codex"}
    <3>1. BlankNode(d, n) = IF n.kind = "call" THEN EraseArgs(n) ELSE BlankText(n)
      BY <2>4 DEF BlankNode, BlankClaude, BlankCodex
    <3>2. Spares(d, n, m, ids)
      BY <1>2, <2>1, <2>2, <2>4, <3>1 DEF Spares, ArgAfter
    <3> QED  BY <3>2 DEF n, m
  <2>5. CASE d = "pi"
    <3>1. BlankNode(d, n) = IF n.kind = "call" THEN n ELSE BlankText(n)
      BY <2>5 DEF BlankNode, BlankPi
    <3>2. Spares(d, n, m, ids)
      BY <1>2, <2>1, <2>5, <3>1 DEF Spares, ArgAfter
    <3> QED  BY <3>2 DEF n, m
  <2> QED  BY <1>4, <2>3, <2>4, <2>5 DEF Dialect
<1>5. CASE d = "gemini" /\ ~\E x \in ToSet(line) : x.id \in ids /\ x.text = "full"
  <2>1. m = n
    BY <1>5 DEF After, WrittenLine
  <2> HIDE DEF n, m
  <2>2. Spares(d, n, m, ids)
    BY <1>5, <2>1 DEF Spares, ArgAfter
  <2> QED  BY <2>2 DEF n, m
<1> QED  BY <1>3, <1>4, <1>5

LEMMA RewrittenSpares ==
  ASSUME NEW d \in Dialect, NEW l \in Seq(Line(d, Given)), NEW ids, NEW m \in NodesOf(Rewritten(d, l, ids))
  PROVE  \E n \in NodesOf(l) : Turns(n, m, ids) /\ Spares(d, n, m, ids)
<1> DEFINE new == Rewritten(d, l, ids)
<1>1. /\ Len(new) = Len(l)
      /\ \A k \in 1..Len(l) : l[k] \in Line(d, Given) /\ Len(new[k]) = Len(l[k])
      /\ \A k \in 1..Len(l) : \A j \in 1..Len(l[k]) : Turns(l[k][j], new[k][j], ids)
  BY RewrittenFacts
<1>2. \A k \in 1..Len(l) : new[k] = After(d, l[k], ids)
  BY DEF Rewritten
<1>0. m \in NodesOf(new)
  OBVIOUS
<1> HIDE DEF new
<1>3. PICK k \in 1..Len(l) : \E j \in 1..Len(l[k]) : m = new[k][j]
  BY <1>0, <1>1, InNodes
<1>4. PICK j \in 1..Len(l[k]) : m = new[k][j]
  BY <1>3
<1>5. l[k][j] \in NodesOf(l)
  BY InNodes
<1>6. Spares(d, l[k][j], m, ids)
  BY <1>1, <1>2, <1>4, AfterSpares
<1> QED  BY <1>1, <1>4, <1>5, <1>6

LEMMA RewriteInOrder ==
  ASSUME NEW d, NEW l, NEW n, Orderly(d, l, n), NEW ids
  PROVE  /\ Orderly(d, Rewritten(d, l, ids), n)
         /\ \A i \in 1..n : ArgIs(Rewritten(d, l, ids), i)
                              = IF i \in ids THEN ArgAfter(d, ArgIs(l, i)) ELSE ArgIs(l, i)
<1> DEFINE new == Rewritten(d, l, ids)
           S == NodeOf(d, Given)
<1>1. /\ d \in Dialect /\ n \in Nat /\ l \in Seq(Line(d, Given)) /\ Numbered(l, n) /\ OneArg(l)
      /\ Rising(d, l) /\ Even(d, l)
  BY DEF Orderly
<1>2. /\ new \in Seq(Line(d, Given)) /\ Len(new) = Len(l)
      /\ \A k \in 1..Len(l) : Len(new[k]) = Len(l[k])
      /\ \A k \in 1..Len(l) : \A j \in 1..Len(l[k]) : Turns(l[k][j], new[k][j], ids)
      /\ \A o \in NodesOf(l) : \E m \in NodesOf(new) : Turns(o, m, ids)
  BY <1>1, RewrittenFacts
<1>3. \A m \in NodesOf(new) : \E o \in NodesOf(l) : Turns(o, m, ids) /\ Spares(d, o, m, ids)
  BY <1>1, RewrittenSpares
<1> HIDE DEF new
<1>4. Rising(d, new)
  <2>1. Line(d, Given) \subseteq Seq(S)
    BY DEF Line
  <2>2. l \in Seq(Seq(S)) /\ new \in Seq(Seq(S))
    BY <1>1, <1>2, <2>1, SeqWidens
  <2> HIDE DEF S
  <2>3. \A k \in 1..Len(l) : \A j \in 1..Len(l[k]) :
           new[k][j].kind = l[k][j].kind /\ new[k][j].id = l[k][j].id
    BY <1>2 DEF Turns
  <2> QED  BY <1>1, <1>2, <2>2, <2>3, RisingKept
<1>5. Numbered(new, n)
  <2>1. \A m \in NodesOf(new) : m.id \in 1..n
    BY <1>1, <1>3 DEF Numbered, Turns
  <2>2. ASSUME NEW i \in 1..n PROVE \E m \in NodesOf(new) : m.kind = "call" /\ m.id = i
    <3>1. PICK o \in NodesOf(l) : o.kind = "call" /\ o.id = i
      BY <1>1 DEF Numbered
    <3>2. PICK m \in NodesOf(new) : Turns(o, m, ids)
      BY <1>2
    <3> QED  BY <3>1, <3>2 DEF Turns
  <2> QED  BY <2>1, <2>2 DEF Numbered
<1>6. ASSUME NEW m \in NodesOf(new), m.kind = "call"
      PROVE  /\ m.id \in 1..n
             /\ m.arg = IF m.id \in ids THEN ArgAfter(d, ArgIs(l, m.id)) ELSE ArgIs(l, m.id)
  <2>1. PICK o \in NodesOf(l) : Turns(o, m, ids) /\ Spares(d, o, m, ids)
    BY <1>3
  <2>2. o.kind = "call" /\ o.id = m.id
    BY <1>6, <2>1 DEF Turns
  <2>3. ArgIs(l, m.id) = o.arg
    <3>1. ArgIs(l, o.id) = o.arg
      BY <1>1, <2>2, ArgOfCopy
    <3> QED  BY <2>2, <3>1
  <2>4. m.arg = IF m.id \in ids THEN ArgAfter(d, o.arg) ELSE o.arg
    BY <2>1, <2>2 DEF Turns, Spares
  <2> QED  BY <1>5, <2>3, <2>4 DEF Numbered
<1>7. OneArg(new)
  BY <1>6 DEF OneArg
<1>8. \A i \in 1..n : ArgIs(new, i) = IF i \in ids THEN ArgAfter(d, ArgIs(l, i)) ELSE ArgIs(l, i)
  <2> TAKE i \in 1..n
  <2>1. PICK m \in NodesOf(new) : m.kind = "call" /\ m.id = i
    BY <1>5 DEF Numbered
  <2>2. ArgIs(new, m.id) = m.arg
    BY <1>7, <2>1, ArgOfCopy
  <2> QED  BY <1>6, <2>1, <2>2
<1>9. Even(d, new)
  <2> SUFFICES ASSUME d = "gemini" PROVE Even(d, new)
    BY DEF Even
  <2>1. /\ \A m, o \in NodesOf(l) : m.id = o.id /\ m.text = "tiny" => o.text # "full"
        /\ \A m \in NodesOf(l) : m.text # "absent" => \E o \in NodesOf(l) : o.kind # "call" /\ o.id = m.id
    BY <1>1 DEF Even
  <2>2. ASSUME NEW m \in NodesOf(new), NEW o \in NodesOf(new), m.id = o.id, m.text = "tiny" PROVE o.text # "full"
    <3>1. PICK x \in NodesOf(l) : Turns(x, m, ids)
      BY <1>3
    <3>2. PICK y \in NodesOf(l) : Turns(y, o, ids)
      BY <1>3
    <3> QED  BY <2>1, <2>2, <3>1, <3>2 DEF Turns
  <2>3. ASSUME NEW m \in NodesOf(new), m.text # "absent" PROVE \E o \in NodesOf(new) : o.kind # "call" /\ o.id = m.id
    <3>1. PICK x \in NodesOf(l) : Turns(x, m, ids) /\ Spares(d, x, m, ids)
      BY <1>3
    <3>2. x.text # "absent"
      BY <2>3, <3>1 DEF Spares
    <3>3. PICK y \in NodesOf(l) : y.kind # "call" /\ y.id = x.id
      BY <2>1, <3>2
    <3>4. PICK o \in NodesOf(new) : Turns(y, o, ids)
      BY <1>2
    <3> QED  BY <3>1, <3>3, <3>4 DEF Turns
  <2> QED  BY <2>2, <2>3 DEF Even
<1>10. Orderly(d, new, n)
  BY <1>1, <1>2, <1>4, <1>5, <1>7, <1>9 DEF Orderly
<1> QED  BY <1>8, <1>10 DEF new

\* Of what a batch does not take everything stays.
LEMMA RewriteKeeps ==
  ASSUME NEW d \in Dialect, NEW l \in Seq(Line(d, Given)), NEW ids, NEW i, i \notin ids
  PROVE  /\ i \in Pruned(d, Rewritten(d, l, ids)) <=> i \in Pruned(d, l)
         /\ Texts(Rewritten(d, l, ids), i) = Texts(l, i)
<1> DEFINE new == Rewritten(d, l, ids)
<1>1. /\ new \in Seq(Line(d, Given)) /\ Len(new) = Len(l)
      /\ \A k \in 1..Len(l) : l[k] \in Line(d, Given) /\ Len(new[k]) = Len(l[k])
      /\ \A k \in 1..Len(l) : \A j \in 1..Len(l[k]) : Turns(l[k][j], new[k][j], ids)
      /\ \A m \in NodesOf(new) : \E o \in NodesOf(l) : Turns(o, m, ids)
      /\ \A o \in NodesOf(l) : \E m \in NodesOf(new) : Turns(o, m, ids)
  BY RewrittenFacts
<1> HIDE DEF new
<1>2. ASSUME NEW k \in 1..Len(l) PROVE PrunedLine(d, new[k], i) <=> PrunedLine(d, l[k], i)
  <2>1. \A j \in 1..Len(l[k]) :
          /\ new[k][j].kind = l[k][j].kind /\ new[k][j].id = l[k][j].id
          /\ l[k][j].id = i => new[k][j] = l[k][j]
    BY <1>1 DEF Turns
  <2>2. \A j \in 1..Len(l[k]) : PrunedNode(d, new[k][j], i) <=> PrunedNode(d, l[k][j], i)
    <3> TAKE j \in 1..Len(l[k])
    <3> DEFINE x == new[k][j]
               y == l[k][j]
    <3>1. x.id = y.id /\ (y.id = i => x = y)
      BY <2>1
    <3> HIDE DEF x, y
    <3>2. PrunedNode(d, x, i) <=> PrunedNode(d, y, i)
      BY <3>1 DEF PrunedNode
    <3> QED  BY <3>2 DEF x, y
  <2>3. CASE d # "pi"
    BY <1>1, <2>2, <2>3 DEF PrunedLine
  <2>4. CASE d = "pi" /\ \E j \in 1..Len(l[k]) : PrunedNode(d, l[k][j], i)
    <3>1. PICK j \in 1..Len(l[k]) : PrunedNode(d, l[k][j], i)
      BY <2>4
    <3>2. l[k][j].kind = "output" /\ l[k][j].id = i
      BY <2>4, <3>1 DEF PrunedNode
    <3>3. \A q \in 1..Len(l[k]) : l[k][q].kind = "output" => l[k][q].id = i
      BY <1>1, <2>4, <3>2 DEF Line
    <3>4. \A q \in 1..Len(l[k]) : l[k][q].kind = "output" => new[k][q] = l[k][q]
      <4> TAKE q \in 1..Len(l[k])
      <4>1. l[k][q].id = i => new[k][q] = l[k][q]
        BY <2>1
      <4>2. l[k][q].kind = "output" => l[k][q].id = i
        BY <3>3
      <4> QED  BY <4>1, <4>2
    <3>5. (\A q \in 1..Len(l[k]) : new[k][q].kind = "output" => new[k][q].text = "pruned")
            <=> \A q \in 1..Len(l[k]) : l[k][q].kind = "output" => l[k][q].text = "pruned"
      <4>1. \A q \in 1..Len(l[k]) : (new[k][q].kind = "output" => new[k][q].text = "pruned")
              <=> (l[k][q].kind = "output" => l[k][q].text = "pruned")
        <5> TAKE q \in 1..Len(l[k])
        <5>1. new[k][q].kind = l[k][q].kind
          BY <2>1
        <5>2. l[k][q].kind = "output" => new[k][q] = l[k][q]
          BY <3>4
        <5> QED  BY <5>1, <5>2
      <4> QED  BY <4>1
    <3>6. PrunedNode(d, new[k][j], i)
      BY <2>2, <3>1
    <3> QED  BY <1>1, <3>1, <3>5, <3>6 DEF PrunedLine
  <2>5. CASE d = "pi" /\ ~\E j \in 1..Len(l[k]) : PrunedNode(d, l[k][j], i)
    BY <1>1, <2>2, <2>5 DEF PrunedLine
  <2> QED  BY <2>3, <2>4, <2>5
<1>3. i \in Pruned(d, new) <=> i \in Pruned(d, l)
  BY <1>1, <1>2, PrunedIs
<1>4. \A m \in NodesOf(new) : m.id = i => m \in NodesOf(l)
  BY <1>1 DEF Turns
<1>5. \A o \in NodesOf(l) : o.id = i => o \in NodesOf(new)
  BY <1>1 DEF Turns
<1>6. Texts(new, i) = Texts(l, i)
  BY <1>4, <1>5 DEF Texts
<1> QED  BY <1>3, <1>6 DEF new

\* What it takes and can be read in full is gone, and no text comes or goes.
LEMMA RewriteTakes ==
  ASSUME NEW d \in Dialect, NEW l \in Seq(Line(d, Given)), NEW ids, NEW i, i \in ids
  PROVE  /\ "full" \in Texts(l, i) => i \in Pruned(d, Rewritten(d, l, ids))
         /\ "full" \notin Texts(Rewritten(d, l, ids), i)
         /\ Texts(Rewritten(d, l, ids), i) = {} <=> Texts(l, i) = {}
<1> DEFINE new == Rewritten(d, l, ids)
<1>1. /\ \A m \in NodesOf(new) : \E o \in NodesOf(l) : Turns(o, m, ids)
      /\ \A o \in NodesOf(l) : \E m \in NodesOf(new) : Turns(o, m, ids)
  BY RewrittenFacts
<1>2. ASSUME "full" \in Texts(l, i) PROVE i \in Pruned(d, new)
  <2>1. PICK o \in NodesOf(l) : o.id = i /\ o.kind # "call" /\ o.text = "full"
    BY <1>2 DEF Texts
  <2>2. PICK k \in 1..Len(l) : \E j \in 1..Len(l[k]) : o = l[k][j]
    BY InNodes
  <2>3. PICK j \in 1..Len(l[k]) : o = l[k][j]
    BY <2>2
  <2>4. o \in ToSet(l[k])
    <3>1. l[k] \in Line(d, Given)
      BY LogFacts
    <3> QED  BY <2>3, <3>1, InLine
  <2>5. "none" \in Given
    BY DEF Given, Arg
  <2>6. d # "gemini" \/ \E x \in ToSet(l[k]) : x.id \in ids /\ x.text = "full"
    BY <2>1, <2>4
  <2>7. l[k][j].id = i /\ l[k][j].kind # "call" /\ l[k][j].id \in ids
    BY <2>1, <2>3
  <2>8. l[k][j].id \in Pruned(d, [p \in 1..Len(l) |-> After(d, l[p], ids)])
    BY <2>5, <2>6, <2>7, Gone
  <2> QED  BY <2>7, <2>8 DEF Rewritten
<1> HIDE DEF new
<1>3. "full" \notin Texts(new, i)
  BY <1>1 DEF Texts, Turns
<1>4. Texts(new, i) = {} <=> Texts(l, i) = {}
  <2>1. Texts(new, i) # {} <=> \E m \in NodesOf(new) : m.id = i /\ m.kind # "call"
    BY DEF Texts
  <2>2. Texts(l, i) # {} <=> \E m \in NodesOf(l) : m.id = i /\ m.kind # "call"
    BY DEF Texts
  <2> QED  BY <1>1, <2>1, <2>2 DEF Turns
<1> QED  BY <1>2, <1>3, <1>4 DEF new

\* What becomes of each call: what PruneLog allows.
LEMMA RewriteCalls ==
  ASSUME NEW d, NEW l, NEW n, Orderly(d, l, n), NEW ids, ids \subseteq Takeable(d, l, n),
         NEW i \in 1..n
  PROVE  /\ i \notin ids => CallIs(d, Rewritten(d, l, ids), i) = CallIs(d, l, i)
         /\ i \in ids => CallIs(d, Rewritten(d, l, ids), i) \in Promise!Forgotten(CallIs(d, l, i))
<1> DEFINE new == Rewritten(d, l, ids)
<1>1. d \in Dialect /\ l \in Seq(Line(d, Given))
  BY DEF Orderly
<1>2. ArgIs(new, i) = IF i \in ids THEN ArgAfter(d, ArgIs(l, i)) ELSE ArgIs(l, i)
  BY RewriteInOrder
<1>3. ASSUME i \notin ids PROVE CallIs(d, new, i) = CallIs(d, l, i)
  <2>1. (i \in Pruned(d, new) <=> i \in Pruned(d, l)) /\ Texts(new, i) = Texts(l, i)
    BY <1>1, <1>3, RewriteKeeps
  <2> QED  BY <1>2, <1>3, <2>1 DEF CallIs, OutIs
<1>4. ASSUME i \in ids PROVE CallIs(d, new, i) \in Promise!Forgotten(CallIs(d, l, i))
  <2>1. i \notin Pruned(d, l)
    BY <1>4 DEF Takeable
  <2>2. /\ "full" \in Texts(l, i) => i \in Pruned(d, new)
        /\ "full" \notin Texts(new, i)
        /\ Texts(new, i) = {} <=> Texts(l, i) = {}
    BY <1>1, <1>4, RewriteTakes
  <2>3. Texts(new, i) = {} => i \notin Pruned(d, new)
    <3> SUFFICES ASSUME i \in Pruned(d, new) PROVE Texts(new, i) # {}
      OBVIOUS
    <3>1. PICK m \in NodesOf(new) : m.kind # "call" /\ m.id = i
      BY <1>1, PrunedIds
    <3> HIDE DEF new
    <3> QED  BY <3>1 DEF Texts
  <2> HIDE DEF new
  <2>4. /\ OutIs(d, l, i) = "full" => OutIs(d, new, i) = "pruned"
        /\ OutIs(d, l, i) = "tiny" => OutIs(d, new, i) \in {"tiny", "pruned"}
        /\ OutIs(d, l, i) = "none" => OutIs(d, new, i) = "none"
        /\ OutIs(d, l, i) \in {"full", "tiny", "none"}
    BY <2>1, <2>2, <2>3 DEF OutIs
  <2>5. ArgIs(new, i) \in {ArgIs(l, i), "none"}
    BY <1>2, <1>4 DEF ArgAfter
  <2>6. Promise!Forgotten(CallIs(d, l, i))
          = [arg : {ArgIs(l, i), "none"},
             out : CASE OutIs(d, l, i) = "full" -> {"pruned"}
                     [] OutIs(d, l, i) = "tiny" -> {"tiny", "pruned"}
                     [] OTHER -> {OutIs(d, l, i)}]
    BY DEF Promise!Forgotten, CallIs
  <2>7. OutIs(d, new, i) \in CASE OutIs(d, l, i) = "full" -> {"pruned"}
                               [] OutIs(d, l, i) = "tiny" -> {"tiny", "pruned"}
                               [] OTHER -> {OutIs(d, l, i)}
    BY <2>4
  <2> QED  BY <2>5, <2>6, <2>7 DEF CallIs
<1> QED  BY <1>3, <1>4 DEF new

-----------------------------------------------------------------------------
(* The steps PruneLog takes                                                *)

OneMore(n, f, h, x) ==
  /\ n \in Nat /\ f = [i \in 1..n |-> f[i]] /\ h = [i \in 1..(n + 1) |-> h[i]]
  /\ (\A i \in 1..n : h[i] = f[i]) /\ h[n + 1] = x

LEMMA AppendIs ==
  ASSUME NEW n, NEW f, NEW h, NEW x, OneMore(n, f, h, x)
  PROVE  h = Append(f, x)
<1> USE DEF OneMore
<1> DEFINE S == {f[i] : i \in 1..n} \cup {x}
<1>1. f \in Seq(S) /\ Len(f) = n
  OBVIOUS
<1>2. x \in S
  OBVIOUS
<1> HIDE DEF S
<1>3. Append(f, x) \in Seq(S) /\ Len(Append(f, x)) = n + 1
      /\ \A i \in 1..(n + 1) : Append(f, x)[i] = IF i = n + 1 THEN x ELSE f[i]
  BY <1>1, <1>2
<1>4. Append(f, x) = [i \in 1..(n + 1) |-> Append(f, x)[i]]
  BY <1>3
<1>5. \A i \in 1..(n + 1) : h[i] = Append(f, x)[i]
  <2> TAKE i \in 1..(n + 1)
  <2>1. i = n + 1 \/ i \in 1..n
    OBVIOUS
  <2> QED  BY <1>3, <2>1
<1> QED  BY <1>4, <1>5

\* A bounded sequence is a sequence that is not too long.
LEMMA BoundedIs ==
  ASSUME NEW S, NEW n \in Nat, NEW s
  PROVE  s \in BoundedSeq(S, n) <=> s \in Seq(S) /\ Len(s) <= n
<1>1. ASSUME s \in BoundedSeq(S, n) PROVE s \in Seq(S) /\ Len(s) <= n
  <2>1. PICK m \in 0..n : s \in [1..m -> S]
    BY <1>1 DEF BoundedSeq, SeqOf
  <2> QED  BY <2>1
<1>2. ASSUME s \in Seq(S), Len(s) <= n PROVE s \in BoundedSeq(S, n)
  <2>1. Len(s) \in 0..n /\ s \in [1..Len(s) -> S]
    BY <1>2
  <2> QED  BY <2>1 DEF BoundedSeq, SeqOf
<1> QED  BY <1>1, <1>2

LEMMA PromiseCall ==
  ASSUME NEW n, Orderly(dialect, log, n), NEW a \in Arg,
         dialect' = dialect, log' = Append(log, CallLine(n + 1, a))
  PROVE  Promise!Next
<1> DEFINE new == Append(log, CallLine(n + 1, a))
<1>1. n \in Nat /\ Numbered(log, n)
  BY DEF Orderly
<1>2. /\ Orderly(dialect, new, n + 1)
      /\ \A i \in 1..n : CallIs(dialect, new, i) = CallIs(dialect, log, i)
      /\ CallIs(dialect, new, n + 1) = [arg |-> a, out |-> "none"]
  BY CallInOrder
<1>0. log' = new
  OBVIOUS
<1> HIDE DEF new
<1>3. Numbered(new, n + 1) /\ n + 1 \in Nat
  BY <1>2 DEF Orderly
<1>4. Calls = [i \in 1..n |-> CallIs(dialect, log, i)]
  BY <1>1, CallsAre DEF Calls
<1>5. Calls' = [i \in 1..(n + 1) |-> CallIs(dialect, new, i)]
  <2>1. Calls' = CallsOf(dialect, new)
    BY <1>0 DEF Calls
  <2>2. CallsOf(dialect, new) = [i \in 1..(n + 1) |-> CallIs(dialect, new, i)]
    BY <1>3, CallsAre
  <2> QED  BY <2>1, <2>2
<1> DEFINE f == [i \in 1..n |-> CallIs(dialect, log, i)]
           h == [i \in 1..(n + 1) |-> CallIs(dialect, new, i)]
           x == [arg |-> a, out |-> "none"]
<1>6. h = Append(f, x)
  <2>1. DOMAIN f = 1..n /\ f = [i \in 1..n |-> f[i]] /\ h = [i \in 1..(n + 1) |-> h[i]]
    OBVIOUS
  <2>2. \A i \in 1..n : i \in 1..(n + 1) /\ h[i] = f[i]
    BY <1>1, <1>2
  <2>3. h[n + 1] = x
    BY <1>1, <1>2
  <2> HIDE DEF f, h, x
  <2>4. OneMore(n, f, h, x)
    BY <1>1, <2>1, <2>2, <2>3 DEF OneMore
  <2> QED  BY <2>4, AppendIs
<1>7. Len(f) = n /\ Len(h) = n + 1
  BY <1>1
<1>8. h # f
  <2> HIDE DEF f, h
  <2> QED  BY <1>1, <1>7
<1>9. Calls' = Append(Calls, [arg |-> a, out |-> "none"]) /\ Calls' # Calls
  BY <1>4, <1>5, <1>6, <1>8
<1> QED  BY <1>9 DEF Promise!Next, Promise!Call

LEMMA PromiseAnswer ==
  ASSUME NEW n, Orderly(dialect, log, n), NEW i \in 1..n, Texts(log, i) = {},
         NEW more, Answers(dialect, log, i, "full", more), dialect' = dialect, log' = log \o more
  PROVE  Promise!Next
<1> DEFINE new == log \o more
<1>1. n \in Nat /\ Numbered(log, n)
  BY DEF Orderly
<1>2. /\ Orderly(dialect, new, n)
      /\ \A x \in 1..n : x # i => CallIs(dialect, new, x) = CallIs(dialect, log, x)
      /\ CallIs(dialect, log, i).out = "none"
      /\ CallIs(dialect, new, i) = [CallIs(dialect, log, i) EXCEPT !.out = "full"]
  BY AnswerInOrder
<1>0. log' = new
  OBVIOUS
<1> HIDE DEF new
<1>3. Numbered(new, n)
  BY <1>2 DEF Orderly
<1>4. Calls = [x \in 1..n |-> CallIs(dialect, log, x)]
  BY <1>1, CallsAre DEF Calls
<1>5. Calls' = [x \in 1..n |-> CallIs(dialect, new, x)]
  <2>1. Calls' = CallsOf(dialect, new)
    BY <1>0 DEF Calls
  <2>2. CallsOf(dialect, new) = [x \in 1..n |-> CallIs(dialect, new, x)]
    BY <1>1, <1>3, CallsAre
  <2> QED  BY <2>1, <2>2
<1>6. Len(Calls) = n /\ Len(Calls') = n
  BY <1>1, <1>4, <1>5
<1>7. Calls[i].out = "none"
  BY <1>2, <1>4
<1>8. Calls'[i].out = "full"
  <2>1. CallIs(dialect, new, i).out = "full"
    BY <1>2 DEF CallIs
  <2> QED  BY <1>5, <2>1
<1>9. Calls' = [Calls EXCEPT ![i].out = "full"]
  BY <1>2, <1>4, <1>5
<1>10. i \in 1..Len(Calls) /\ Calls' # Calls
  BY <1>6, <1>7, <1>8
<1> QED  BY <1>6, <1>7, <1>9, <1>10 DEF Promise!Next, Promise!Answer

\* What a batch makes of a transcript, PruneLog allows.
LEMMA PromisePrune ==
  ASSUME NEW d, NEW l, NEW n, Orderly(d, l, n), NEW reqs \in Seq(Glob), Len(reqs) <= MaxItems * MaxCalls
  PROVE  Promise!Forgets(CallsOf(d, l), CallsOf(d, Rewritten(d, l, ChooseBatch(d, l, reqs))))
<1> DEFINE ids == ChooseBatch(d, l, reqs)
           new == Rewritten(d, l, ids)
           before == CallsOf(d, l)
           after == CallsOf(d, new)
<1>1. n \in Nat /\ Numbered(l, n)
  BY DEF Orderly
<1>3. ids \subseteq Takeable(d, l, n)
  BY ChooseRuns, ChosenType
<1>4. Promise!Taken(before, reqs) = ids
  BY TakenRuns
<1> HIDE DEF ids
<1>5. Orderly(d, new, n)
  BY <1>3, RewriteInOrder
<1>6. \A i \in 1..n : /\ i \notin ids => CallIs(d, new, i) = CallIs(d, l, i)
                      /\ i \in ids => CallIs(d, new, i) \in Promise!Forgotten(CallIs(d, l, i))
  BY <1>3, RewriteCalls
<1> HIDE DEF new
<1>7. Numbered(new, n)
  BY <1>5 DEF Orderly
<1>8. before = [i \in 1..n |-> CallIs(d, l, i)]
  BY <1>1, CallsAre
<1>9. after = [i \in 1..n |-> CallIs(d, new, i)]
  BY <1>1, <1>7, CallsAre
<1> HIDE DEF before, after
<1>10. Len(before) = n /\ Len(after) = n
  BY <1>1, <1>8, <1>9
<1>11. {i \in 1..n : after[i] # before[i]} \subseteq ids
  BY <1>6, <1>8, <1>9
<1>12. \A i \in ids : after[i] \in Promise!Forgotten(before[i])
  <2> TAKE i \in ids
  <2>1. i \in 1..n
    BY <1>3 DEF Takeable
  <2>2. after[i] = CallIs(d, new, i) /\ before[i] = CallIs(d, l, i)
    BY <1>8, <1>9, <2>1
  <2> QED  BY <1>6, <2>1, <2>2
<1>13. reqs \in Promise!BoundedSeq(Glob, MaxItems * MaxCalls)
  <2>1. MaxItems * MaxCalls \in Nat
    <3>1. MaxItems \in Nat /\ MaxCalls \in Nat
      BY BoundsAssumption
    <3> QED  BY <3>1
  <2>2. reqs \in BoundedSeq(Glob, MaxItems * MaxCalls)
    BY <2>1, BoundedIs
  <2> QED  BY <2>2 DEF BoundedSeq, SeqOf, Promise!BoundedSeq, Promise!SeqOf
<1>14. Promise!Forgets(before, after)
  BY <1>4, <1>10, <1>11, <1>12, <1>13 DEF Promise!Forgets
<1> QED  BY <1>14 DEF before, after, new, ids

-----------------------------------------------------------------------------
(* The chat's transcript is in order, and no batch is longer than the      *)
(* prune calls since then could ask for                                    *)

LEMMA NothingInOrder ==
  ASSUME NEW d \in Dialect
  PROVE  Orderly(d, <<>>, 0)
<1>1. NodesOf(<<>>) = {} /\ Places(<<>>) = {}
  BY DEF NodesOf, Places
<1>2. CallPlaces(<<>>) = {}
  BY <1>1 DEF CallPlaces
<1>3. Rising(d, <<>>)
  BY <1>2 DEF Rising
<1>4. Numbered(<<>>, 0) /\ OneArg(<<>>) /\ Even(d, <<>>)
  BY <1>1 DEF Numbered, OneArg, Even
<1> QED  BY <1>3, <1>4 DEF Orderly

LEMMA ArgType ==
  ASSUME NEW d, NEW l, NEW n, Orderly(d, l, n), NEW i \in 1..n
  PROVE  ArgIs(l, i) \in Given
<1>1. PICK m \in NodesOf(l) : m.kind = "call" /\ m.id = i
  BY DEF Orderly, Numbered
<1>2. m \in NodeOf(d, Given)
  BY NodeTypes DEF Orderly
<1>3. ArgIs(l, m.id) = m.arg
  BY <1>1, ArgOfCopy DEF Orderly
<1> QED  BY <1>1, <1>2, <1>3 DEF NodeOf

\* A call and its answer.
LEMMA TurnInOrder ==
  ASSUME NEW d, NEW l, NEW n, Orderly(d, l, n), NEW t \in {"full", "tiny"}, t = "tiny" => d = "gemini"
  PROVE  LET turn == <<CallLine(n + 1, "a")>> \o AnswerLines(d, n + 1, "a", t)
         IN  turn \in Seq(Line(d, Given)) /\ Orderly(d, l \o turn, n + 1)
<1> DEFINE c == CallLine(n + 1, "a")
           new == Append(l, c)
           more == AnswerLines(d, n + 1, "a", t)
           D == Line(d, Given)
<1>1. d \in Dialect /\ n \in Nat /\ l \in Seq(D) /\ "a" \in Arg
  BY DEF Orderly, Arg
<1>2. Orderly(d, new, n + 1) /\ CallIs(d, new, n + 1) = [arg |-> "a", out |-> "none"]
  BY <1>1, CallInOrder
<1>3. ArgIs(new, n + 1) = "a" /\ Texts(new, n + 1) = {}
  <2>1. ArgIs(new, n + 1) = "a" /\ OutIs(d, new, n + 1) = "none"
    BY <1>2 DEF CallIs
  <2> QED  BY <2>1 DEF OutIs
<1> HIDE DEF new
<1>4. n + 1 \in 1..(n + 1) /\ n + 1 \in Nat
  BY <1>1
<1>5. Answers(d, new, n + 1, t, more)
  <2>1. ArgIs(new, n + 1) \in Given
    BY <1>3 DEF Given, Arg
  <2>2. Answers(d, new, n + 1, t, AnswerLines(d, n + 1, ArgIs(new, n + 1), t))
    BY <1>1, <1>4, <2>1, AnswerAnswers
  <2> QED  BY <1>3, <2>2
<1> HIDE DEF more
<1>6. Orderly(d, new \o more, n + 1)
  BY <1>2, <1>3, <1>4, <1>5, AnswerInOrder
<1>7. more \in Seq(D)
  BY <1>5, FreshLines DEF Answers
<1>8. c \in D
  <2>1. new \in Seq(D) /\ Len(new) = Len(l) + 1 /\ new[Len(l) + 1] = c
    BY <1>1, <1>2 DEF Orderly, new
  <2> HIDE DEF D, c
  <2>2. Len(l) + 1 \in 1..Len(new)
    BY <1>1, <2>1
  <2> QED  BY <2>1, <2>2
<1> HIDE DEF c, D
<1>9. new \o more = l \o (<<c>> \o more) /\ <<c>> \o more \in Seq(D)
  <2>1. <<c>> \in Seq(D)
    BY <1>8
  <2>2. new = l \o <<c>>
    BY <1>1, <1>8, AppendIsConcat DEF new
  <2>3. (l \o <<c>>) \o more = l \o (<<c>> \o more)
    BY <1>1, <1>7, <2>1, ConcatAssociative
  <2> QED  BY <1>7, <2>1, <2>2, <2>3
<1> QED  BY <1>6, <1>9 DEF c, D, more

LEMMA InitInOrder == Init => Orderly(dialect, log, past)
<1> SUFFICES ASSUME Init PROVE Orderly(dialect, log, past)
  OBVIOUS
<1>1. dialect \in Dialect /\ past \in Nat
  BY BoundsAssumption DEF Init
<1>2. PICK sizes \in [1..past -> Sizes(dialect)] :
        log = FlattenSeq([i \in 1..past |->
                <<CallLine(i, "a")>> \o AnswerLines(dialect, i, "a", sizes[i])])
  BY DEF Init
<1> DEFINE turn(i) == <<CallLine(i, "a")>> \o AnswerLines(dialect, i, "a", sizes[i])
           turns(m) == [i \in 1..m |-> turn(i)]
           D == Line(dialect, Given)
           Bad == {m \in 0..past : ~(turns(m) \in Seq(Seq(D)) /\ Orderly(dialect, FlattenSeq(turns(m)), m))}
<1>3. Bad \subseteq Nat /\ (\A m \in Bad : m \in 0..past)
      /\ \A m \in 0..past : m \notin Bad <=> turns(m) \in Seq(Seq(D)) /\ Orderly(dialect, FlattenSeq(turns(m)), m)
  OBVIOUS
<1> HIDE DEF Bad
<1>4. Bad = {}
  <2> SUFFICES ASSUME Bad # {} PROVE FALSE
    OBVIOUS
  <2>1. PICK m \in Bad : \A k \in Bad : m <= k
    BY <1>3, LeastNat
  <2>2. m \in 0..past
    BY <1>3
  <2>3. CASE m = 0
    <3>1. turns(m) = <<>>
      BY <2>3
    <3>2. turns(m) \in Seq(Seq(D)) /\ Orderly(dialect, FlattenSeq(turns(m)), m)
      BY <1>1, <2>3, <3>1, FlattenNone, NothingInOrder
    <3> QED  BY <1>3, <2>2, <3>2
  <2>4. CASE m # 0
    <3> DEFINE p == m - 1
               ss == turns(p)
               s == turn(m)
    <3>1. p \in 0..past /\ m \in 1..past /\ p + 1 = m /\ ~(m <= p) /\ p \in Nat
      BY <1>1, <2>2, <2>4
    <3>2. ss \in Seq(Seq(D)) /\ Orderly(dialect, FlattenSeq(ss), p)
      BY <1>3, <2>1, <3>1
    <3>3. sizes[m] \in {"full", "tiny"} /\ (sizes[m] = "tiny" => dialect = "gemini")
      <4>1. sizes[m] \in Sizes(dialect)
        BY <3>1
      <4> QED  BY <4>1 DEF Sizes
    <3>4. s \in Seq(D) /\ Orderly(dialect, FlattenSeq(ss) \o s, m)
      <4>1. /\ <<CallLine(p + 1, "a")>> \o AnswerLines(dialect, p + 1, "a", sizes[m]) \in Seq(Line(dialect, Given))
            /\ Orderly(dialect, FlattenSeq(ss) \o (<<CallLine(p + 1, "a")>> \o AnswerLines(dialect, p + 1, "a", sizes[m])), p + 1)
        BY <3>2, <3>3, TurnInOrder
      <4> QED  BY <3>1, <4>1
    <3>5. turns(m) = Append(ss, s)
      <4> DEFINE h == turns(m)
      <4>1. ss = [i \in 1..p |-> ss[i]] /\ h = [i \in 1..(p + 1) |-> h[i]]
        BY <3>1
      <4>2. (\A i \in 1..p : h[i] = ss[i]) /\ h[p + 1] = s
        BY <3>1
      <4> HIDE DEF h, ss, s, p
      <4>3. OneMore(p, ss, h, s)
        BY <3>1, <4>1, <4>2 DEF OneMore
      <4> QED  BY <4>3, AppendIs DEF h
    <3> HIDE DEF ss, s, D
    <3>6. Append(ss, s) \in Seq(Seq(D)) /\ FlattenSeq(Append(ss, s)) = FlattenSeq(ss) \o s
      BY <3>2, <3>4, FlattenAppend
    <3>7. turns(m) \in Seq(Seq(D)) /\ Orderly(dialect, FlattenSeq(turns(m)), m)
      BY <3>4, <3>5, <3>6
    <3> QED  BY <1>3, <2>2, <3>7
  <2> QED  BY <2>3, <2>4
<1>5. past \in 0..past
  BY <1>1
<1> QED  BY <1>2, <1>3, <1>4, <1>5

\* What the calls made leave room for: MaxItems requests for each.
Fitting(room, most) ==
  /\ session \in Nat
  /\ rpc \in [at : {"none", "scan"}, items : Seq(Glob), by : Nat]
  /\ parked \in Seq(Glob) /\ Len(parked) + Len(rpc.items) <= room
  /\ main \in [at : {"select", "abort", "rewrite", "respawn"}, reqs : Seq(Glob)]
  /\ Len(main.reqs) <= most

Counted(n) ==
  /\ Orderly(dialect, log, n) /\ made \in Nat /\ made <= MaxCalls
  /\ main.at = "rewrite" => \E k : Orderly(dialect, seen, k)
  /\ Fitting(MaxItems * made, MaxItems * MaxCalls)

OrderInv == \E n : Counted(n)

LEMMA Room ==
  ASSUME NEW m \in Nat
  PROVE  /\ MaxItems * m \in Nat /\ MaxItems \in Nat /\ MaxItems * MaxCalls \in Nat
         /\ MaxItems * (m + 1) = MaxItems * m + MaxItems
         /\ m <= MaxCalls => MaxItems * m <= MaxItems * MaxCalls
<1>1. MaxItems \in Nat /\ MaxCalls \in Nat
  BY BoundsAssumption
<1>2. MaxItems * m \in Nat /\ MaxItems * MaxCalls \in Nat
  BY <1>1
<1>3. MaxItems * (m + 1) = MaxItems * m + MaxItems
  BY <1>1
<1>4. ASSUME m <= MaxCalls PROVE MaxItems * m <= MaxItems * MaxCalls
  <2> DEFINE r == MaxCalls - m
  <2>1. r \in Nat /\ MaxCalls = m + r
    BY <1>1, <1>4
  <2> HIDE DEF r
  <2>2. MaxItems * (m + r) = MaxItems * m + MaxItems * r /\ MaxItems * r \in Nat
    BY <1>1, <2>1
  <2> QED  BY <1>2, <2>1, <2>2
<1> QED  BY <1>1, <1>2, <1>3, <1>4

LEMMA InitCounted == Init => Counted(past)
<1> SUFFICES ASSUME Init PROVE Counted(past)
  OBVIOUS
<1>1. Orderly(dialect, log, past)
  BY InitInOrder
<1>2. made = 0 /\ main.at = "select"
  BY DEF Init, Idle
<1>3. MaxItems * made \in Nat /\ MaxItems * MaxCalls \in Nat
  BY <1>2, Room
<1>4. made \in Nat /\ made <= MaxCalls
  BY <1>2, BoundsAssumption
<1>5. Fitting(MaxItems * made, MaxItems * MaxCalls)
  <2> DEFINE room == MaxItems * made
             most == MaxItems * MaxCalls
  <2>1. room \in Nat /\ most \in Nat
    BY <1>3
  <2> HIDE DEF room, most
  <2>2. Fitting(room, most)
    <3>1. session = 1 /\ rpc = NoRpc /\ parked = <<>> /\ main = Idle /\ Len(<<>>) = 0
      BY DEF Init
    <3> QED  BY <2>1, <3>1 DEF Fitting, NoRpc, Idle
  <2> QED  BY <2>2 DEF room, most
<1> QED  BY <1>1, <1>2, <1>4, <1>5 DEF Counted

\* The steps that leave the transcript alone, and those that make no call.
Quiet ==
  \/ ArmTask \/ TaskOver \/ OwnResult \/ EndTurn \/ Exit \/ GhostEnds \/ ScanItem \/ Reply
  \/ HandleCue \/ HandleIdle \/ HandleDone \/ Aborted \/ Respawn \/ Stop \/ Message

NoCall == Answer \/ Snapshot \/ Rewrite \/ Quiet

\* The control task and the main loop only hand requests on.
LEMMA FittingKeeps ==
  ASSUME NEW room \in Nat, NEW most \in Nat, room <= most, Fitting(room, most),
         NoCall
  PROVE  Fitting(room, most)'
<1>1. /\ session \in Nat /\ rpc \in [at : {"none", "scan"}, items : Seq(Glob), by : Nat]
      /\ parked \in Seq(Glob) /\ Len(parked) + Len(rpc.items) <= room
      /\ main \in [at : {"select", "abort", "rewrite", "respawn"}, reqs : Seq(Glob)]
      /\ Len(main.reqs) <= most /\ Len(parked) \in Nat /\ Len(rpc.items) \in Nat
  <2>1. /\ session \in Nat /\ rpc \in [at : {"none", "scan"}, items : Seq(Glob), by : Nat]
        /\ parked \in Seq(Glob) /\ Len(parked) + Len(rpc.items) <= room
        /\ main \in [at : {"select", "abort", "rewrite", "respawn"}, reqs : Seq(Glob)]
        /\ Len(main.reqs) <= most
    BY DEF Fitting
  <2>2. rpc.items \in Seq(Glob)
    BY <2>1
  <2> QED  BY <2>1, <2>2
<1>2. session' \in Nat
  BY <1>1 DEF NoCall, Quiet, Answer, Snapshot, ArmTask, TaskOver, OwnResult, EndTurn, Exit, GhostEnds, ScanItem, Reply, HandleCue,
         HandleIdle, HandleDone, Aborted, Rewrite, Respawn, Stop, Message
<1>3. SUFFICES /\ rpc' \in [at : {"none", "scan"}, items : Seq(Glob), by : Nat]
               /\ parked' \in Seq(Glob) /\ Len(parked') + Len(rpc'.items) <= room
               /\ main' \in [at : {"select", "abort", "rewrite", "respawn"}, reqs : Seq(Glob)]
               /\ Len(main'.reqs) <= most
  BY <1>2 DEF Fitting
<1>6. CASE UNCHANGED <<rpc, parked, main>>
  BY <1>1, <1>6
<1>7. CASE ScanItem
  <2>1. /\ rpc.items # <<>> /\ rpc' = [rpc EXCEPT !.items = Tail(rpc.items)] /\ main' = main
        /\ parked' = parked \/ parked' = Append(parked, Head(rpc.items))
    BY <1>7 DEF ScanItem
  <2>i. rpc.items \in Seq(Glob)
    BY <1>1
  <2>2. /\ Head(rpc.items) \in Glob /\ Tail(rpc.items) \in Seq(Glob)
        /\ Len(Tail(rpc.items)) = Len(rpc.items) - 1
    BY <2>1, <2>i
  <2>3. rpc' \in [at : {"none", "scan"}, items : Seq(Glob), by : Nat] /\ rpc'.items = Tail(rpc.items)
    BY <1>1, <2>1, <2>2
  <2>4. parked' \in Seq(Glob) /\ Len(parked') <= Len(parked) + 1 /\ Len(parked') \in Nat
    <3>1. Append(parked, Head(rpc.items)) \in Seq(Glob) /\ Len(Append(parked, Head(rpc.items))) = Len(parked) + 1
      BY <1>1, <2>2
    <3>2. CASE parked' = parked
      BY <1>1, <3>2
    <3>3. CASE parked' = Append(parked, Head(rpc.items))
      BY <1>1, <3>1, <3>3
    <3> QED  BY <2>1, <3>2, <3>3
  <2>5. Len(parked') + Len(rpc'.items) <= room
    <3>1. Len(rpc'.items) = Len(rpc.items) - 1
      BY <2>2, <2>3
    <3> QED  BY <1>1, <2>4, <3>1
  <2> QED  BY <1>1, <2>1, <2>3, <2>4, <2>5
<1>8. CASE Reply
  <2>1. rpc' = NoRpc /\ parked' = parked /\ main' = main
    BY <1>8 DEF Reply
  <2>2. rpc' \in [at : {"none", "scan"}, items : Seq(Glob), by : Nat] /\ rpc'.items = <<>> /\ Len(<<>>) = 0
    BY <2>1 DEF NoRpc
  <2>3. Len(rpc'.items) = 0
    BY <2>2
  <2> QED  BY <1>1, <2>1, <2>2, <2>3
<1>9. CASE rpc' = rpc /\ Apply
  <2>1. parked' = <<>> /\ main' = [at |-> "abort", reqs |-> parked] /\ Len(<<>>) = 0 /\ rpc' = rpc
    BY <1>9 DEF Apply
  <2>2. Len(parked) <= most
    BY <1>1
  <2>3. main' \in [at : {"select", "abort", "rewrite", "respawn"}, reqs : Seq(Glob)] /\ main'.reqs = parked
    BY <1>1, <2>1
  <2>4. parked' \in Seq(Glob) /\ Len(parked') = 0
    BY <2>1
  <2>5. Len(parked') + Len(rpc'.items) <= room
    BY <1>1, <2>1, <2>4
  <2> QED  BY <1>1, <2>1, <2>2, <2>3, <2>4, <2>5
<1>10. CASE rpc' = rpc /\ parked' = <<>> /\ main' = main
  <2>1. parked' \in Seq(Glob) /\ Len(parked') = 0
    BY <1>10
  <2> QED  BY <1>1, <1>10, <2>1
<1>11. CASE rpc' = rpc /\ parked' = parked /\ main' = Idle
  <2>1. /\ main' \in [at : {"select", "abort", "rewrite", "respawn"}, reqs : Seq(Glob)]
        /\ main'.reqs = <<>> /\ Len(<<>>) = 0
    BY <1>11 DEF Idle
  <2>2. Len(main'.reqs) = 0
    BY <2>1
  <2> QED  BY <1>1, <1>11, <2>1, <2>2
<1>12. CASE /\ rpc' = rpc /\ parked' = parked
            /\ \E at \in {"rewrite", "respawn"} : main' = [main EXCEPT !.at = at]
  <2>1. /\ main' \in [at : {"select", "abort", "rewrite", "respawn"}, reqs : Seq(Glob)]
        /\ main'.reqs = main.reqs
    BY <1>1, <1>12
  <2> QED  BY <1>1, <1>12, <2>1
<1>13. CASE HandleCue \/ HandleIdle
  <2>1. rpc' = rpc /\ (Apply \/ (parked' = parked /\ main' = main))
    BY <1>13 DEF HandleCue, HandleIdle
  <2> QED  BY <1>6, <1>9, <2>1
<1>14. CASE HandleDone
  BY <1>10, <1>14 DEF HandleDone
<1>15. CASE Aborted \/ Rewrite
  BY <1>12, <1>15 DEF Aborted, Rewrite
<1>16. CASE Respawn
  BY <1>11, <1>16 DEF Respawn
<1>17. CASE Answer \/ Snapshot \/ ArmTask \/ TaskOver \/ OwnResult \/ EndTurn \/ Exit \/ GhostEnds \/ Stop \/ Message
  BY <1>6, <1>17 DEF Answer, Snapshot, ArmTask, TaskOver, OwnResult, EndTurn, Exit, GhostEnds, Stop, Message
<1> QED  BY <1>7, <1>8, <1>13, <1>14, <1>15, <1>16, <1>17 DEF NoCall, Quiet

LEMMA CountedKeeps ==
  ASSUME NEW n, Counted(n), NoCall, NEW k, Orderly(dialect', log', k)
  PROVE  Counted(k)'
<1>0. made \in Nat /\ made <= MaxCalls
  BY DEF Counted
<1>1. made' = made /\ dialect' = dialect
  BY DEF NoCall, Quiet, Answer, Snapshot, ArmTask, TaskOver, OwnResult, EndTurn, Exit, GhostEnds, ScanItem, Reply, HandleCue,
         HandleIdle, HandleDone, Aborted, Rewrite, Respawn, Stop, Message
<1> DEFINE room == MaxItems * made
           most == MaxItems * MaxCalls
<1>2. room \in Nat /\ most \in Nat /\ room <= most
  BY <1>0, Room
<1>3. Fitting(room, most)
  BY DEF Counted
<1> HIDE DEF most
<1>4. \A r \in Nat : r <= most /\ Fitting(r, most) => Fitting(r, most)'
  BY <1>2, FittingKeeps
<1>5. PICK r \in Nat : r = room
  BY <1>2
<1>6. Fitting(r, most)'
  BY <1>2, <1>3, <1>4, <1>5
<1>7. r = MaxItems * made'
  BY <1>1, <1>5
<1>8. Fitting(MaxItems * made, most)'
  BY <1>6, <1>7 DEF Fitting
<1>9. main'.at = "rewrite" => \E m : Orderly(dialect', seen', m)
  <2>1. main \in [at : {"select", "abort", "rewrite", "respawn"}, reqs : Seq(Glob)]
    BY <1>3 DEF Fitting
  <2>2. main = [at |-> main.at, reqs |-> main.reqs] /\ Next
    BY <2>1 DEF NoCall, Quiet, Next
  <2>3. main'.at = "rewrite" => seen' = log \/ (main.at = "rewrite" /\ seen' = seen)
    BY <2>2, SeenStep
  <2> QED  BY <1>1, <2>3 DEF Counted
<1> QED  BY <1>0, <1>1, <1>8, <1>9 DEF Counted, most

\* A new call leaves room for the items of one command.
LEMMA CountedGrows ==
  ASSUME NEW n, Counted(n), Call \/ PruneRpc, NEW k, Orderly(dialect', log', k)
  PROVE  Counted(k)'
<1>0. made \in Nat /\ made < MaxCalls /\ MaxCalls \in Nat /\ made' = made + 1
  BY BoundsAssumption DEF Counted, Call, PruneRpc
<1> DEFINE room == MaxItems * made
           next == MaxItems * (made + 1)
           most == MaxItems * MaxCalls
<1>1. room \in Nat /\ next = room + MaxItems /\ MaxItems \in Nat
  BY <1>0, Room
<1>2. /\ session \in Nat /\ rpc \in [at : {"none", "scan"}, items : Seq(Glob), by : Nat]
      /\ parked \in Seq(Glob) /\ Len(parked) + Len(rpc.items) <= room
      /\ main \in [at : {"select", "abort", "rewrite", "respawn"}, reqs : Seq(Glob)]
      /\ Len(main.reqs) <= most
  BY DEF Counted, Fitting
<1> HIDE DEF room, next, most
<1>3. Len(parked) \in Nat /\ Len(rpc.items) \in Nat
  <2>1. rpc.items \in Seq(Glob)
    BY <1>2
  <2> QED  BY <1>2, <2>1
<1>4. dialect' = dialect /\ session' = session /\ parked' = parked /\ main' = main /\ seen' = seen
  BY DEF Call, PruneRpc
<1>5. rpc' \in [at : {"none", "scan"}, items : Seq(Glob), by : Nat] /\ Len(parked') + Len(rpc'.items) <= next
  <2>1. CASE rpc' = rpc
    BY <1>1, <1>2, <1>3, <1>4, <2>1
  <2>2. CASE rpc = NoRpc /\ \E items \in BoundedSeq(Glob, MaxItems), by \in Nat :
                              rpc' = [at |-> "scan", items |-> items, by |-> by]
    <3>1. PICK items \in BoundedSeq(Glob, MaxItems), by \in Nat : rpc' = [at |-> "scan", items |-> items, by |-> by]
      BY <2>2
    <3>2. items \in Seq(Glob) /\ Len(items) <= MaxItems
      BY <1>1, <3>1, BoundedIs
    <3>3. Len(items) \in Nat /\ rpc'.items = items /\ Len(parked) <= room
      BY <1>1, <1>2, <1>3, <3>1, <3>2
    <3>4. Len(parked') + Len(rpc'.items) <= next
      BY <1>1, <1>3, <1>4, <3>2, <3>3
    <3> QED  BY <1>2, <3>1, <3>2, <3>4
  <2>3. CASE Call
    BY <2>1, <2>3 DEF Call
  <2>4. CASE PruneRpc
    <3>1. rpc = NoRpc /\ (rpc' = NoRpc \/ \E items \in BoundedSeq(Glob, MaxItems), by \in Nat :
                              rpc' = [at |-> "scan", items |-> items, by |-> by])
      <4>1. Callers \subseteq Nat
        BY <1>2 DEF Callers
      <4> QED  BY <2>4, <4>1 DEF PruneRpc
    <3> QED  BY <2>1, <2>2, <3>1
  <2> QED  BY <2>3, <2>4
<1>6. made' \in Nat /\ made' <= MaxCalls
  BY <1>0
<1>7. Fitting(MaxItems * made, MaxItems * MaxCalls)'
  BY <1>0, <1>2, <1>4, <1>5 DEF Fitting, next, most
<1>8. main'.at = "rewrite" => \E m : Orderly(dialect', seen', m)
  BY <1>4 DEF Counted
<1> QED  BY <1>6, <1>7, <1>8 DEF Counted

\* Every step is one PruneLog takes, or none.
LEMMA StepInOrder ==
  ASSUME NEW n, Counted(n), Next
  PROVE  OrderInv' /\ (Promise!Next \/ RewrittenAsRead \/ Calls' = Calls \/ (Rewrite /\ seen # log /\ ~ghost))
<1>c. \A k : Counted(k)' => OrderInv'
  BY DEF OrderInv
<1>1. Orderly(dialect, log, n) /\ dialect \in Dialect /\ n \in Nat /\ Numbered(log, n)
  BY DEF Counted, Orderly
<1>2. dialect' = dialect
  BY DEF Next, Call, Answer, Snapshot, ArmTask, TaskOver, OwnResult, EndTurn, Exit, GhostEnds,
         PruneRpc, ScanItem, Reply, HandleCue, HandleIdle, HandleDone, Aborted, Rewrite,
         Respawn, Stop, Message
<1>3. Ids = 1..n /\ Issued = n
  BY <1>1, CountIs DEF Ids, Issued
<1>4. CASE Call \/ PruneRpc
  <2>1. PICK a \in Arg : log' = Append(log, CallLine(n + 1, a))
    BY <1>3, <1>4 DEF Call, PruneRpc, Arg
  <2>2. Orderly(dialect', log', n + 1)
    <3>1. Orderly(dialect, Append(log, CallLine(n + 1, a)), n + 1)
      BY <1>1, CallInOrder
    <3> QED  BY <1>2, <2>1, <3>1
  <2>3. Counted(n + 1)'
    BY <1>4, <2>2, CountedGrows
  <2>4. Promise!Next
    BY <1>1, <1>2, <2>1, PromiseCall
  <2> QED  BY <1>c, <2>3, <2>4
<1>5. CASE Answer
  <2>1. PICK i \in 1..n : /\ OutsIn(log, i) = {}
                          /\ \/ log' = log \o AnswerLines(dialect, i, ArgOf(i), "full")
                             \/ dialect = "claude" /\ log' = log \o SkillLines(i, "full")
    BY <1>3, <1>5 DEF Answer
  <2>2. Texts(log, i) = {} /\ ArgOf(i) = ArgIs(log, i) /\ i \in Nat
    <3>1. Texts(log, i) = OutsIn(log, i)
      BY DEF OutsIn, Texts
    <3>2. ArgOf(i) = ArgIs(log, i)
      BY DEF ArgOf, ArgIs
    <3>3. i \in Nat
      BY <1>1
    <3> QED  BY <2>1, <3>1, <3>2, <3>3
  <2>3. \E more : log' = log \o more /\ Answers(dialect, log, i, "full", more)
    <3>1. CASE log' = log \o AnswerLines(dialect, i, ArgOf(i), "full")
      <4>1. ArgIs(log, i) \in Given
        BY <1>1, ArgType
      <4>2. Answers(dialect, log, i, "full", AnswerLines(dialect, i, ArgIs(log, i), "full"))
        BY <1>1, <2>2, <4>1, AnswerAnswers
      <4> QED  BY <2>2, <3>1, <4>2
    <3>2. CASE dialect = "claude" /\ log' = log \o SkillLines(i, "full")
      <4>1. Answers("claude", log, i, "full", SkillLines(i, "full"))
        BY <2>2, SkillAnswers
      <4> QED  BY <3>2, <4>1
    <3> QED  BY <2>1, <3>1, <3>2
  <2>4. PICK more : log' = log \o more /\ Answers(dialect, log, i, "full", more)
    BY <2>3
  <2>5. Orderly(dialect', log', n)
    <3>1. Orderly(dialect, log \o more, n)
      BY <1>1, <2>2, <2>4, AnswerInOrder
    <3> QED  BY <1>2, <2>4, <3>1
  <2>6. Counted(n)'
    BY <1>5, <2>5, CountedKeeps DEF NoCall
  <2>7. Promise!Next
    BY <1>1, <1>2, <2>2, <2>4, PromiseAnswer
  <2> QED  BY <1>c, <2>6, <2>7
<1>6. CASE Snapshot
  <2>1. dialect = "gemini" /\ log' = log \o SnapshotLine(log)
    BY <1>6 DEF Snapshot
  <2> DEFINE new == log \o SnapshotLine(log)
  <2>2. Orderly("gemini", new, n) /\ \A i : CallIs("gemini", new, i) = CallIs("gemini", log, i)
    BY <1>1, <2>1, SnapshotInOrder
  <2>0. log' = new
    BY <2>1
  <2> HIDE DEF new
  <2>3. Counted(n)'
    <3>1. Orderly(dialect', log', n)
      BY <1>2, <2>0, <2>1, <2>2
    <3> QED  BY <1>6, <3>1, CountedKeeps DEF NoCall
  <2>4. Calls' = Calls
    <3>1. CallsOf("gemini", log) = [i \in 1..n |-> CallIs("gemini", log, i)]
      BY <1>1, CallsAre
    <3>2. CallsOf("gemini", new) = [i \in 1..n |-> CallIs("gemini", new, i)]
      BY <1>1, <2>2, CallsAre DEF Orderly
    <3>3. CallsOf("gemini", new) = CallsOf("gemini", log)
      BY <2>2, <3>1, <3>2
    <3> QED  BY <1>2, <2>0, <2>1, <3>3 DEF Calls
  <2> QED  BY <1>c, <2>3, <2>4
<1>7. ASSUME log' = log, NoCall PROVE OrderInv' /\ Calls' = Calls
  <2>1. Orderly(dialect', log', n)
    BY <1>1, <1>2, <1>7
  <2>2. Counted(n)'
    BY <1>7, <2>1, CountedKeeps
  <2> QED  BY <1>2, <1>7, <1>c, <2>2 DEF Calls
<1>8. CASE Rewrite
  <2>1. log' = log \/ log' = Result.log
    BY <1>8 DEF Rewrite
  <2>2. CASE log' = Result.log
    <3> DEFINE ids == ChooseBatch(dialect, seen, main.reqs)
               new == Rewritten(dialect, seen, ids)
    <3>1. log' = new
      BY <2>2, ResultIs DEF Rewritten
    <3>k. PICK k : Orderly(dialect, seen, k)
      BY <1>8 DEF Counted, Rewrite
    <3>4. main.reqs \in Seq(Glob) /\ Len(main.reqs) <= MaxItems * MaxCalls
      <4> DEFINE most == MaxItems * MaxCalls
      <4>1. main \in [at : {"select", "abort", "rewrite", "respawn"}, reqs : Seq(Glob)] /\ Len(main.reqs) <= most
        BY DEF Counted, Fitting
      <4> HIDE DEF most
      <4>2. main.reqs \in Seq(Glob) /\ Len(main.reqs) <= most
        BY <4>1
      <4> QED  BY <4>2 DEF most
    <3>i. ids \subseteq Takeable(dialect, seen, k)
      BY <3>k, <3>4, ChooseRuns, ChosenType
    <3>2. Orderly(dialect', log', k)
      <4>1. Orderly(dialect, new, k)
        BY <3>k, <3>i, RewriteInOrder
      <4> QED  BY <1>2, <3>1, <4>1
    <3>3. Counted(k)'
      BY <1>8, <3>2, CountedKeeps DEF NoCall
    <3>5. Promise!Forgets(CallsOf(dialect, seen), CallsOf(dialect, new))
      BY <3>k, <3>4, PromisePrune
    <3>6. Calls' = CallsOf(dialect, new)
      BY <1>2, <3>1 DEF Calls
    <3> HIDE DEF new, ids
    <3>7. CASE seen = log
      BY <3>3, <3>5, <3>6, <3>7, <1>c DEF Calls, Promise!Next, Promise!Prune
    <3>8. CASE seen # log
      BY <1>8, <3>3, <3>5, <3>6, <3>8, <1>c DEF RewrittenAsRead, Rewrite
    <3> QED  BY <3>7, <3>8
  <2> QED  BY <1>7, <1>8, <2>1, <2>2 DEF NoCall
<1>9. CASE Quiet
  <2>1. log' = log
    BY <1>9 DEF Quiet, ArmTask, TaskOver, OwnResult, EndTurn, Exit, GhostEnds, ScanItem, Reply, HandleCue,
         HandleIdle, HandleDone, Aborted, Respawn, Stop, Message
  <2> QED  BY <1>7, <1>9, <2>1 DEF NoCall
<1> QED  BY <1>4, <1>5, <1>6, <1>8, <1>9 DEF Next, Quiet

LEMMA CountedStutters ==
  ASSUME NEW n, Counted(n), UNCHANGED vars
  PROVE  Counted(n)' /\ Calls' = Calls
<1>1. /\ dialect' = dialect /\ log' = log /\ made' = made /\ session' = session /\ rpc' = rpc
      /\ parked' = parked /\ main' = main /\ seen' = seen
  BY DEF vars
<1>2. Orderly(dialect', log', n) /\ (main'.at = "rewrite" => \E k : Orderly(dialect', seen', k))
  BY <1>1 DEF Counted
<1>3. Fitting(MaxItems * made, MaxItems * MaxCalls)'
  BY <1>1 DEF Counted, Fitting
<1> QED  BY <1>1, <1>2, <1>3 DEF Counted, Calls

LEMMA InOrder == Spec => []OrderInv
<1>1. Init => OrderInv
  BY InitCounted DEF OrderInv
<1>2. OrderInv /\ [Next]_vars => OrderInv'
  <2> SUFFICES ASSUME OrderInv, [Next]_vars PROVE OrderInv'
    OBVIOUS
  <2>1. PICK n : Counted(n)
    BY DEF OrderInv
  <2>2. CASE Next
    BY <2>1, <2>2, StepInOrder
  <2>3. CASE UNCHANGED vars
    BY <2>1, <2>3, CountedStutters DEF OrderInv
  <2> QED  BY <2>2, <2>3
<1> QED  BY <1>1, <1>2, PTL DEF Spec

\* PruneLog begins with nothing forgotten.
LEMMA PromiseInit == Init => Promise!Init
<1> SUFFICES ASSUME Init PROVE Promise!Init
  OBVIOUS
<1>1. Orderly(dialect, log, past)
  BY InitInOrder
<1>2. past \in Nat /\ Numbered(log, past) /\ dialect \in Dialect
  BY <1>1 DEF Orderly, Init
<1>3. Calls = [i \in 1..past |-> CallIs(dialect, log, i)]
  BY <1>2, CallsAre DEF Calls
<1>4. Len(Calls) = past
  BY <1>2, <1>3
<1>5. \A n \in NodesOf(log) : n.text # "pruned"
  BY InitLog
<1>6. ASSUME NEW i \in 1..past PROVE Calls[i].out # "pruned"
  <2>1. i \notin Pruned(dialect, log)
    BY <1>2, <1>5, PrunedIds
  <2>2. OutIs(dialect, log, i) # "pruned"
    BY <2>1, OutGone
  <2> QED  BY <1>3, <2>2 DEF CallIs
<1> QED  BY <1>4, <1>6 DEF Promise!Init

\* The transcripts of all dialects, whatever the agent, the control task and
\* the main loop do in between, lose an output only to a request for it, one
\* each, the latest that is left (prune_batch, prune_context and
\* apply_prune_group together keep the promise of PruneLog); beside a process
\* that await_agent_exit gave up on, of what was read.
THEOREM Implements == Spec => ImplementsPruneLog
<1>1. Init => Promise!Init
  BY PromiseInit
<1>2. OrderInv /\ PInv /\ [Next]_vars => [Promise!Next \/ RewrittenAsRead]_Calls
  <2> SUFFICES ASSUME OrderInv, PInv, [Next]_vars PROVE Promise!Next \/ RewrittenAsRead \/ Calls' = Calls
    OBVIOUS
  <2>1. PICK n : Counted(n)
    BY DEF OrderInv
  <2>2. CASE Next
    <3>1. ~(Rewrite /\ seen # log /\ ~ghost)
      BY <2>2, AloneStep DEF PInv
    <3> QED  BY <2>1, <2>2, <3>1, StepInOrder
  <2>3. CASE UNCHANGED vars
    BY <2>1, <2>3, CountedStutters
  <2> QED  BY <2>2, <2>3
<1> QED  BY <1>1, <1>2, InOrder, Inductive, PTL DEF Spec, ImplementsPruneLog

-----------------------------------------------------------------------------
(* One target after the other                                              *)

LEMMA BatchIs ==
  ASSUME NEW d, NEW l, NEW targets
  PROVE  PruneBatch(d, l, targets).log = Rewritten(d, l, ChooseBatch(d, l, targets))
<1> DEFINE ids == ChooseBatch(d, l, targets)
<1>1. CASE d = "cursor"
  <2>1. PruneBatch(d, l, targets) = PruneCursor(l, ids)
    BY <1>1 DEF PruneBatch
  <2> HIDE DEF ids
  <2>2. PruneBatch(d, l, targets).log = Rewritten(d, l, ids)
    BY <1>1, <2>1 DEF PruneCursor, After, Rewritten
  <2> QED  BY <2>2 DEF ids
<1>2. CASE d # "cursor"
  <2>1. PruneBatch(d, l, targets) = BlankPass(d, l, ids)
    BY <1>2 DEF PruneBatch
  <2> HIDE DEF ids
  <2>2. PruneBatch(d, l, targets).log = Rewritten(d, l, ids)
    BY <1>2, <2>1 DEF BlankPass, After, Rewritten
  <2> QED  BY <2>2 DEF ids
<1> QED  BY <1>1, <1>2

\* A node of which nothing is too small to matter is blanked or left alone,
\* whatever else is in its line.
Wiped(d, n, ids) ==
  IF n.id \notin ids THEN n
  ELSE IF d = "cursor" THEN IF n.kind = "output" THEN BlankText(n) ELSE n
  ELSE BlankNode(d, n)

Worthy(d, line, ids) ==
  d = "gemini" => \A j \in 1..Len(line) : line[j].id \in ids => line[j].text # "tiny"

LEMMA AfterIs ==
  ASSUME NEW d \in Dialect, NEW T, NEW line \in Line(d, T), NEW ids, Worthy(d, line, ids)
  PROVE  After(d, line, ids) = [j \in 1..Len(line) |-> Wiped(d, line[j], ids)]
<1>1. line \in Seq(NodeOf(d, T))
  BY LineFacts
<1>2. line = [j \in 1..Len(line) |-> line[j]]
  BY <1>1
<1>3. CASE d = "cursor"
  <2>1. \A j \in 1..Len(line) :
          Wiped(d, line[j], ids)
            = IF line[j].kind = "output" /\ line[j].id \in ids THEN BlankText(line[j]) ELSE line[j]
    BY <1>3 DEF Wiped
  <2> QED  BY <1>3, <2>1 DEF After
<1>4. CASE d # "cursor" /\ (d # "gemini" \/ \E x \in ToSet(line) : x.id \in ids /\ x.text = "full")
  <2>1. After(d, line, ids)
          = [j \in 1..Len(line) |-> IF line[j].id \in ids THEN BlankNode(d, line[j]) ELSE line[j]]
    BY <1>4 DEF After, WrittenLine, Blanked
  <2>2. \A j \in 1..Len(line) :
          Wiped(d, line[j], ids) = IF line[j].id \in ids THEN BlankNode(d, line[j]) ELSE line[j]
    BY <1>4 DEF Wiped
  <2> QED  BY <2>1, <2>2
<1>5. CASE d = "gemini" /\ ~\E x \in ToSet(line) : x.id \in ids /\ x.text = "full"
  <2>1. After(d, line, ids) = line
    BY <1>5 DEF After, WrittenLine
  <2>2. ASSUME NEW j \in 1..Len(line) PROVE Wiped(d, line[j], ids) = line[j]
    <3> DEFINE n == line[j]
    <3>1. n \in ToSet(line)
      BY InLine
    <3>2. n.id \in ids => n.text # "tiny" /\ n.text # "full"
      BY <1>5, <3>1 DEF Worthy
    <3> HIDE DEF n
    <3>3. n.id \in ids => BlankNode(d, n) = n
      BY <1>5, <3>2 DEF BlankNode, BlankGemini, BlankText, HasText
    <3>4. Wiped(d, n, ids) = n
      BY <1>5, <3>3 DEF Wiped
    <3> QED  BY <3>4 DEF n
  <2> QED  BY <1>2, <2>1, <2>2
<1> QED  BY <1>3, <1>4, <1>5

\* Blanking the nodes of some calls and then of others is blanking all of them.
LEMMA AfterTwice ==
  ASSUME NEW d \in Dialect, NEW T, "none" \in T, NEW line \in Line(d, T), NEW ids, NEW more,
         ids \cap more = {}, Worthy(d, line, ids \cup more)
  PROVE  After(d, After(d, line, ids), more) = After(d, line, ids \cup more)
<1> DEFINE once == After(d, line, ids)
<1>1. once \in Line(d, T) /\ Len(once) = Len(line)
  BY AfterLine
<1>2. \A j \in 1..Len(line) : Turns(line[j], once[j], ids)
  BY AfterNode
<1>3. once = [j \in 1..Len(line) |-> Wiped(d, line[j], ids)]
  <2>1. Worthy(d, line, ids)
    BY DEF Worthy
  <2> QED  BY <2>1, AfterIs
<1> HIDE DEF once
<1>4. Worthy(d, once, more)
  <2>1. \A j \in 1..Len(line) : once[j].id \in more => once[j] = line[j]
    BY <1>2 DEF Turns
  <2> QED  BY <1>1, <2>1 DEF Worthy
<1>5. After(d, once, more) = [j \in 1..Len(line) |-> Wiped(d, once[j], more)]
  BY <1>1, <1>4, AfterIs
<1>6. After(d, line, ids \cup more) = [j \in 1..Len(line) |-> Wiped(d, line[j], ids \cup more)]
  <2> DEFINE both == ids \cup more
  <2>1. Worthy(d, line, both)
    OBVIOUS
  <2> HIDE DEF both
  <2>2. After(d, line, both) = [j \in 1..Len(line) |-> Wiped(d, line[j], both)]
    BY <2>1, AfterIs
  <2> QED  BY <2>2 DEF both
<1>7. ASSUME NEW j \in 1..Len(line)
      PROVE  Wiped(d, once[j], more) = Wiped(d, line[j], ids \cup more)
  <2> DEFINE n == line[j]
             m == once[j]
  <2>1. m.id = n.id /\ m = Wiped(d, n, ids)
    BY <1>2, <1>3 DEF Turns
  <2>0. SUFFICES Wiped(d, m, more) = Wiped(d, n, ids \cup more)
    OBVIOUS
  <2> HIDE DEF n, m
  <2>2. CASE n.id \in ids
    <3>1. n.id \notin more
      BY <2>2
    <3> QED  BY <2>1, <2>2, <3>1 DEF Wiped
  <2>3. CASE n.id \notin ids
    <3>1. m = n
      BY <2>1, <2>3 DEF Wiped
    <3> QED  BY <2>3, <3>1 DEF Wiped
  <2> QED  BY <2>2, <2>3
<1> QED  BY <1>5, <1>6, <1>7 DEF once

LEMMA RewrittenTwice ==
  ASSUME NEW d \in Dialect, NEW l \in Seq(Line(d, Given)), NEW ids, NEW more,
         ids \cap more = {},
         d = "gemini" => \A m \in NodesOf(l) : m.id \in ids \cup more => m.text # "tiny"
  PROVE  Rewritten(d, Rewritten(d, l, ids), more) = Rewritten(d, l, ids \cup more)
<1> DEFINE once == Rewritten(d, l, ids)
<1>1. "none" \in Given
  BY DEF Given, Arg
<1>2. Len(once) = Len(l) /\ \A k \in 1..Len(l) : once[k] = After(d, l[k], ids)
  BY RewrittenFacts DEF Rewritten
<1> HIDE DEF once
<1>3. ASSUME NEW k \in 1..Len(l)
      PROVE  After(d, once[k], more) = After(d, l[k], ids \cup more)
  <2>1. l[k] \in Line(d, Given)
    BY LogFacts
  <2>2. Worthy(d, l[k], ids \cup more)
    <3>1. \A j \in 1..Len(l[k]) : l[k][j] \in NodesOf(l)
      BY InNodes
    <3> QED  BY <3>1 DEF Worthy
  <2> QED  BY <1>1, <1>2, <2>1, <2>2, AfterTwice
<1>4. Rewritten(d, once, more) = [k \in 1..Len(l) |-> After(d, once[k], more)]
  BY <1>2 DEF Rewritten
<1>5. Rewritten(d, l, ids \cup more) = [k \in 1..Len(l) |-> After(d, l[k], ids \cup more)]
  BY DEF Rewritten
<1> QED  BY <1>3, <1>4, <1>5 DEF once

\* Nothing chosen, nothing changed.
LEMMA RewrittenNot ==
  ASSUME NEW d \in Dialect, NEW l \in Seq(Line(d, Given))
  PROVE  Rewritten(d, l, {}) = l
<1>1. \A k \in 1..Len(l) : After(d, l[k], {}) = l[k]
  <2> TAKE k \in 1..Len(l)
  <2>1. l[k] \in Line(d, Given)
    BY LogFacts
  <2>2. Worthy(d, l[k], {})
    BY DEF Worthy
  <2>3. After(d, l[k], {}) = [j \in 1..Len(l[k]) |-> Wiped(d, l[k][j], {})]
    BY <2>1, <2>2, AfterIs
  <2>4. \A j \in 1..Len(l[k]) : Wiped(d, l[k][j], {}) = l[k][j]
    BY DEF Wiped
  <2>5. l[k] = [j \in 1..Len(l[k]) |-> l[k][j]]
    BY <2>1, LineFacts
  <2> QED  BY <2>3, <2>4, <2>5
<1> DEFINE D == Line(d, Given)
<1>2. l \in Seq(D)
  OBVIOUS
<1> HIDE DEF D
<1>3. l = [k \in 1..Len(l) |-> l[k]]
  BY <1>2
<1> QED  BY <1>1, <1>3 DEF Rewritten

-----------------------------------------------------------------------------
(* A call that could be taken has an output worth it: Settled              *)
Ripe(d, l, n) == \A i \in Takeable(d, l, n) : "full" \in Texts(l, i)

\* A batch of one.
LEMMA ChooseOne ==
  ASSUME NEW d, NEW l, NEW n, Orderly(d, l, n), NEW g \in Glob
  PROVE  ChooseBatch(d, l, <<g>>) = Choice(d, l, n, g, {})
<1> DEFINE s == <<g>>
           c == ChooseBatch(d, l, s)
           D == SUBSET Takeable(d, l, n)
           f == Choosing(d, l, n)
<1>1. s \in Seq(Glob) /\ Len(s) = 1 /\ s[1] = g /\ n \in Nat
  BY DEF Orderly
<1> HIDE DEF s
<1>2. ChosenBy(d, l, n, s, c)
  BY <1>1, ChooseRuns
<1> HIDE DEF c
<1>3. PICK r : IsRun(r, D, f, {}, s) /\ r[Len(s)] = c
  BY <1>2 DEF ChosenBy
<1>4. {} \in D /\ \A e \in D, h \in Glob : f[<<e, h>>] = Choice(d, l, n, h, e)
  BY <1>1, ChoosingType
<1> HIDE DEF D, f
<1>5. 1 \in 1..1 /\ 1 - 1 = 0
  OBVIOUS
<1>6. r[0] = {} /\ r[1] = f[<<r[0], g>>]
  BY <1>1, <1>3, <1>5 DEF IsRun
<1>7. c = Choice(d, l, n, g, {})
  BY <1>1, <1>3, <1>4, <1>6
<1> QED  BY <1>7 DEF c, s

\* What is left to a needle in a transcript that lost some outputs.
LEMMA PreyLeft ==
  ASSUME NEW d, NEW l, NEW n, Orderly(d, l, n), Ripe(d, l, n), NEW ids, ids \subseteq Takeable(d, l, n), NEW g
  PROVE  Prey(d, Rewritten(d, l, ids), n, g) = Prey(d, l, n, g) \ ids
<1> DEFINE new == Rewritten(d, l, ids)
<1>1. d \in Dialect /\ l \in Seq(Line(d, Given))
  BY DEF Orderly
<1>2. ASSUME NEW i \in 1..n, i \in ids PROVE i \in Pruned(d, new)
  <2>1. "full" \in Texts(l, i)
    BY <1>2 DEF Ripe
  <2> QED  BY <1>1, <1>2, <2>1, RewriteTakes
<1>3. ASSUME NEW i \in 1..n, i \notin ids
      PROVE  (i \in Pruned(d, new) <=> i \in Pruned(d, l)) /\ ArgIs(new, i) = ArgIs(l, i)
  <2>1. i \in Pruned(d, new) <=> i \in Pruned(d, l)
    BY <1>1, <1>3, RewriteKeeps
  <2>2. ArgIs(new, i) = IF i \in ids THEN ArgAfter(d, ArgIs(l, i)) ELSE ArgIs(l, i)
    BY RewriteInOrder
  <2> QED  BY <1>3, <2>1, <2>2
<1> HIDE DEF new
<1>4. \A i \in 1..n : i \in Prey(d, new, n, g) <=> i \in Prey(d, l, n, g) /\ i \notin ids
  BY <1>2, <1>3 DEF Prey
<1>5. Prey(d, new, n, g) \subseteq 1..n /\ Prey(d, l, n, g) \subseteq 1..n
  BY DEF Prey
<1>6. Prey(d, new, n, g) = Prey(d, l, n, g) \ ids
  BY <1>4, <1>5
<1> QED  BY <1>6 DEF new

\* One more target, on what the others left.
LEMMA PruneNext ==
  ASSUME NEW d, NEW l, NEW n, Orderly(d, l, n), Ripe(d, l, n), NEW ids \in SUBSET Takeable(d, l, n), NEW g \in Glob
  PROVE  PruneBatch(d, Rewritten(d, l, ids), <<g>>).log = Rewritten(d, l, Choice(d, l, n, g, ids))
<1> DEFINE new == Rewritten(d, l, ids)
           W == Prey(d, l, n, g) \ ids
           one == Choice(d, new, n, g, {})
<1>1. d \in Dialect /\ l \in Seq(Line(d, Given)) /\ n \in Nat
  BY DEF Orderly
<1>2. Orderly(d, new, n)
  BY RewriteInOrder
<1>3. PruneBatch(d, new, <<g>>).log = Rewritten(d, new, one)
  <2>1. ChooseBatch(d, new, <<g>>) = one
    BY <1>2, ChooseOne
  <2>2. PruneBatch(d, new, <<g>>).log = Rewritten(d, new, ChooseBatch(d, new, <<g>>))
    BY BatchIs
  <2> QED  BY <2>1, <2>2
<1>4. Prey(d, new, n, g) = W
  BY PreyLeft
<1>5. one = IF W = {} THEN {} ELSE {Max(W)}
  BY <1>4 DEF Choice
<1>6. Choice(d, l, n, g, ids) = IF W = {} THEN ids ELSE ids \cup {Max(W)}
  BY DEF Choice
<1>7. W \in SUBSET (1..n) /\ W \subseteq Takeable(d, l, n) /\ W \cap ids = {}
  BY DEF Prey, Takeable
<1> HIDE DEF W, one
<1>8. W # {} => Max(W) \in W
  BY <1>1, <1>7, GreatestIndex
<1>9. /\ one \subseteq Takeable(d, l, n) /\ ids \cap one = {}
      /\ Choice(d, l, n, g, ids) = ids \cup one
  BY <1>5, <1>6, <1>7, <1>8
<1>10. ASSUME d = "gemini", NEW m \in NodesOf(l), m.id \in ids \cup one PROVE m.text # "tiny"
  <2>1. "full" \in Texts(l, m.id)
    BY <1>9, <1>10 DEF Ripe
  <2>2. PICK o \in NodesOf(l) : o.id = m.id /\ o.text = "full"
    BY <2>1 DEF Texts
  <2> QED  BY <1>10, <2>2 DEF Orderly, Even
<1>11. Rewritten(d, new, one) = Rewritten(d, l, ids \cup one)
  BY <1>1, <1>9, <1>10, RewrittenTwice
<1> QED  BY <1>3, <1>9, <1>11

\* One target after the other does what the batch does.
LEMMA EachIsBatch ==
  ASSUME NEW d, NEW l, NEW n, Orderly(d, l, n), Ripe(d, l, n), NEW targets \in Seq(Glob)
  PROVE  PruneEach(d, l, targets) = PruneBatch(d, l, targets).log
<1> DEFINE N == Len(targets)
           D == SUBSET Takeable(d, l, n)
           Op(t, g) == PruneBatch(d, t, <<g>>).log
           IsIter(h) == h = [t \in SUBSET (1..N) |-> IF t = {} THEN l
                                ELSE Op(h[t \ {Max(t)}], targets[Max(t)])]
           iter == CHOOSE h : IsIter(h)
<1>1. DOMAIN targets = 1..N /\ N \in Nat /\ n \in Nat /\ \A i \in 1..N : targets[i] \in Glob
  BY DEF Orderly
<1>2. PruneEach(d, l, targets) = iter[1..N]
  BY <1>1 DEF PruneEach, FoldLeft, MapThenFoldSet
<1>3. \A c \in D, g \in Glob : Op(Rewritten(d, l, c), g) = Rewritten(d, l, Choice(d, l, n, g, c))
  BY PruneNext
<1>4. Rewritten(d, l, {}) = l
  BY RewrittenNot DEF Orderly
<1> HIDE DEF Op
<1>5. PICK chosen \in [SUBSET (1..N) -> D] : FoldsOver(chosen, d, l, n, targets)
  BY <1>1, FoldOfChoices
<1>6. chosen[{}] = {} /\ \A t \in SUBSET (1..N) : t # {} =>
         chosen[t] = Choice(d, l, n, targets[Max(t)], chosen[t \ {Max(t)}])
  BY <1>5 DEF FoldsOver
<1> HIDE DEF D
<1>7. ASSUME NEW t \in SUBSET (1..N), t # {}
      PROVE  Op(Rewritten(d, l, chosen[t \ {Max(t)}]), targets[Max(t)]) = Rewritten(d, l, chosen[t])
  <2>1. Max(t) \in 1..N
    BY <1>1, <1>7, GreatestIndex
  <2>2. chosen[t \ {Max(t)}] \in D /\ targets[Max(t)] \in Glob
    BY <1>1, <1>5, <2>1
  <2> QED  BY <1>3, <1>6, <1>7, <2>2
<1> DEFINE h == [t \in SUBSET (1..N) |-> Rewritten(d, l, chosen[t])]
<1>8. ASSUME NEW t \in SUBSET (1..N)
      PROVE  h[t] = IF t = {} THEN l ELSE Op(h[t \ {Max(t)}], targets[Max(t)])
  <2>1. h[t] = Rewritten(d, l, chosen[t]) /\ h[t \ {Max(t)}] = Rewritten(d, l, chosen[t \ {Max(t)}])
    OBVIOUS
  <2> HIDE DEF h
  <2> QED  BY <1>4, <1>6, <1>7, <2>1
<1>9. IsIter(h)
  <2>1. h = [t \in SUBSET (1..N) |-> h[t]]
    OBVIOUS
  <2> HIDE DEF h
  <2> QED  BY <1>8, <2>1
<1> HIDE DEF h
<1>10. IsIter(iter)
  BY <1>9
<1> HIDE DEF iter
<1>11. iter[{}] = l
  BY <1>10
<1>12. ASSUME NEW t \in SUBSET (1..N), t # {}
       PROVE  iter[t] = Op(iter[t \ {Max(t)}], targets[Max(t)])
  BY <1>10, <1>12
<1> DEFINE same == [t \in SUBSET (1..N) |-> iter[t] = Rewritten(d, l, chosen[t])]
<1>13. \A t \in SUBSET (1..N) : same[t] \in {TRUE} <=> iter[t] = Rewritten(d, l, chosen[t])
  OBVIOUS
<1> HIDE DEF same
<1>14. {} \in SUBSET (1..N) /\ 1..N \in SUBSET (1..N)
  OBVIOUS
<1>15. same[{}] \in {TRUE}
  BY <1>4, <1>6, <1>11, <1>13, <1>14
<1>16. ASSUME NEW t \in SUBSET (1..N), t # {}, same[t \ {Max(t)}] \in {TRUE}
       PROVE  same[t] \in {TRUE}
  <2>1. t \ {Max(t)} \in SUBSET (1..N)
    OBVIOUS
  <2>2. iter[t \ {Max(t)}] = Rewritten(d, l, chosen[t \ {Max(t)}])
    BY <1>13, <1>16, <2>1
  <2>3. iter[t] = Rewritten(d, l, chosen[t])
    BY <1>7, <1>12, <1>16, <2>2
  <2> QED  BY <1>13, <2>3
<1>17. same[1..N] \in {TRUE}
  <2> DEFINE true == {TRUE}
  <2>1. /\ N \in Nat /\ same[{}] \in true
        /\ \A t \in SUBSET (1..N) : t # {} /\ same[t \ {Max(t)}] \in true => same[t] \in true
    BY <1>1, <1>15, <1>16
  <2> HIDE DEF true, N
  <2>2. same[1..N] \in true
    BY <2>1, FoldValue
  <2> QED  BY <2>2 DEF true
<1>18. iter[1..N] = Rewritten(d, l, chosen[1..N])
  BY <1>13, <1>14, <1>17
<1>19. chosen[1..N] = ChooseBatch(d, l, targets)
  <2>1. ChosenBy(d, l, n, targets, chosen[1..N])
    BY <1>1, <1>5, FoldsChoosing
  <2>2. ChosenBy(d, l, n, targets, ChooseBatch(d, l, targets))
    BY ChooseRuns
  <2> QED  BY <2>1, <2>2, ChosenOnce
<1> QED  BY <1>2, <1>18, <1>19, BatchIs

LEMMA SettledIsRipe ==
  ASSUME NEW l, NEW n, Orderly(dialect, l, n), Settled(l)
  PROVE  Ripe(dialect, l, n)
<1>0. {m.id : m \in {o \in NodesOf(l) : o.kind = "call"}} = 1..n /\ n \in Nat
  BY CountIs DEF Orderly
<1>1. ASSUME NEW i \in Takeable(dialect, l, n) PROVE "full" \in Texts(l, i)
  <2>1. i \in 1..n /\ ArgIs(l, i) # "own" /\ i \notin Pruned(dialect, l)
    BY DEF Takeable
  <2>2. \E m \in NodesOf(l) : m.kind = "call" /\ m.id = i
    BY <1>0, <2>1
  <2>3. PICK m \in NodesOf(l) : m.kind = "call" /\ m.id = i /\ m.arg = ArgIs(l, i)
    BY <2>2 DEF ArgIs
  <2> QED  BY <2>1, <2>3 DEF Settled, OutsIn, Texts
<1> QED  BY <1>1 DEF Ripe

\* A batch makes of the transcript it read what its targets would, one after
\* the other, each on what the last one wrote: whatever the dialect, the needles
\* and the order of the calls, once every call has an answer worth pruning.
THEOREM Sequential == Spec => []BatchIsSequential
<1>1. OrderInv => BatchIsSequential
  <2> SUFFICES ASSUME OrderInv, main.at = "rewrite", Settled(seen)
               PROVE  Result.log = PruneEach(dialect, seen, main.reqs)
    BY DEF BatchIsSequential
  <2>1. PICK n : Counted(n)
    BY DEF OrderInv
  <2>2. PICK k : Orderly(dialect, seen, k)
    BY <2>1 DEF Counted
  <2>3. main.reqs \in Seq(Glob)
    <3>1. main \in [at : {"select", "abort", "rewrite", "respawn"}, reqs : Seq(Glob)]
      BY <2>1 DEF Counted, Fitting
    <3> QED  BY <3>1
  <2>4. Ripe(dialect, seen, k)
    BY <2>2, SettledIsRipe
  <2>5. PruneEach(dialect, seen, main.reqs) = PruneBatch(dialect, seen, main.reqs).log
    BY <2>2, <2>3, <2>4, EachIsBatch
  <2> QED  BY <2>5 DEF Result
<1> QED  BY <1>1, InOrder, PTL
=============================================================================
