------------------------ MODULE AdapterStream_proofs ------------------------
(***************************************************************************)
(* AdapterStream: what is shown, signalled, measured and resumed is what   *)
(* the agent did, in each of the six dialects, whatever the number of      *)
(* turns and lines.                                                        *)
(*                                                                         *)
(* Every line is handled by one operator; a lemma for each dialect and     *)
(* line says what it leaves the adapter and what its events come to        *)
(* (Yields).  The steps are then about the CLI's side and the sums.        *)
(***************************************************************************)
EXTENDS AdapterStream, SequenceTheorems, FiniteSetTheorems, WellFoundedInduction, TLAPS

-----------------------------------------------------------------------------
(* Folds of sequences                                                      *)

\* Induction, without an operator for a parameter: what fails for some number
\* fails for a least one.
LEMMA LeastNat ==
  ASSUME NEW T, T \subseteq Nat, T # {}
  PROVE  \E n \in T : \A m \in T : n <= m
<1> DEFINE R == OpToRel(<, Nat)
<1>1. IsWellFoundedOn(R, Nat)
  BY NatLessThanWellFounded
<1> HIDE DEF R
<1>2. PICK n \in T : \A m \in T : ~(<<m, n>> \in R)
  BY <1>1, WFMin
<1>3. \A m \in T : m < n => <<m, n>> \in R
  BY DEF R, OpToRel
<1>4. \A m \in T : ~(m < n)
  BY <1>2, <1>3
<1>5. \A m \in T : m \in Nat /\ n \in Nat
  OBVIOUS
<1>6. \A m \in T : n <= m
  BY <1>4, <1>5
<1> QED  BY <1>6

\* A fold takes the greatest index last.
Folds(g, n, f, base) ==
  \A s \in SUBSET (1..n) :
    g[s] = IF s = {} THEN base ELSE f[<<g[s \ {Max(s)}], Max(s)>>]

LEMMA FoldExists ==
  ASSUME NEW D, NEW base \in D, NEW n \in Nat, NEW f \in [D \X (1..n) -> D]
  PROVE  \E g \in [SUBSET (1..n) -> D] : Folds(g, n, f, base)
<1> DEFINE Bad == {m \in 0..n : ~\E g \in [SUBSET (1..m) -> D] : Folds(g, m, f, base)}
<1>b. Bad \subseteq Nat /\ \A m \in Bad : m \in 0..n
  OBVIOUS
<1>c. \A m \in 0..n : m \notin Bad <=> \E g \in [SUBSET (1..m) -> D] : Folds(g, m, f, base)
  OBVIOUS
<1> HIDE DEF Bad
<1>1. SUFFICES ASSUME Bad # {} PROVE FALSE
  <2>1. n \in 0..n
    OBVIOUS
  <2> QED  BY <2>1, <1>c
<1>2. PICK m \in Bad : \A k \in Bad : m <= k
  BY <1>1, <1>b, LeastNat
<1>3. CASE m = 0
  <2> DEFINE g == [s \in SUBSET (1..m) |-> base]
  <2>1. SUBSET (1..m) = {{}}
    BY <1>3
  <2>2. g \in [SUBSET (1..m) -> D] /\ Folds(g, m, f, base)
    BY <2>1 DEF Folds
  <2> HIDE DEF g
  <2> QED  BY <1>b, <1>c, <2>2
<1>4. CASE m # 0
  <2>1. m - 1 \in 0..n /\ m - 1 \notin Bad /\ m \in 1..n
    BY <1>2, <1>4, <1>b
  <2>2. PICK g \in [SUBSET (1..m - 1) -> D] : Folds(g, m - 1, f, base)
    BY <2>1, <1>c
  <2> DEFINE h == [s \in SUBSET (1..m) |-> IF m \in s THEN f[<<g[s \ {m}], m>>] ELSE g[s]]
  <2>3. ASSUME NEW s \in SUBSET (1..m), m \in s
        PROVE  s \ {m} \in SUBSET (1..m - 1) /\ Max(s) = m
    <3>1. s \ {m} \in SUBSET (1..m - 1)
      BY <2>1, <2>3
    <3>2. \A x \in s : (\A y \in s : x >= y) <=> x = m
      BY <2>1, <2>3
    <3> QED  BY <2>3, <3>1, <3>2 DEF Max
  <2>4. ASSUME NEW s \in SUBSET (1..m), m \notin s
        PROVE  s \in SUBSET (1..m - 1)
    BY <2>1, <2>4
  <2>5. h \in [SUBSET (1..m) -> D]
    BY <2>1, <2>2, <2>3, <2>4
  <2>6. ASSUME NEW s \in SUBSET (1..m)
        PROVE  h[s] = IF s = {} THEN base ELSE f[<<h[s \ {Max(s)}], Max(s)>>]
    <3>1. CASE m \in s
      <4>1. h[s] = f[<<g[s \ {m}], m>>] /\ h[s \ {m}] = g[s \ {m}]
        BY <3>1
      <4> QED  BY <2>3, <3>1, <4>1
    <3>2. CASE m \notin s
      <4>1. h[s] = g[s] /\ h[s \ {Max(s)}] = g[s \ {Max(s)}]
        BY <3>2
      <4> QED  BY <2>2, <2>4, <3>2, <4>1 DEF Folds
    <3> QED  BY <3>1, <3>2
  <2> HIDE DEF h
  <2>7. Folds(h, m, f, base)
    BY <2>6 DEF Folds
  <2> QED  BY <1>b, <1>c, <2>5, <2>7
<1> QED  BY <1>3, <1>4

\* What holds of no index, and of one more each time, holds of all.
LEMMA FoldInSet ==
  ASSUME NEW D, NEW n \in Nat, NEW g, g[{}] \in D,
         \A m \in 1..n : g[1..m - 1] \in D => g[1..m] \in D
  PROVE  g[1..n] \in D
<1> DEFINE Bad == {m \in 0..n : g[1..m] \notin D}
<1>1. Bad \subseteq Nat /\ n \in 0..n
  OBVIOUS
<1>2. \A m \in 0..n : m \notin Bad <=> g[1..m] \in D
  OBVIOUS
<1>3. \A m \in Bad : m \in 0..n
  OBVIOUS
<1> HIDE DEF Bad
<1>4. SUFFICES ASSUME Bad # {} PROVE FALSE
  BY <1>1, <1>2
<1>5. PICK m \in Bad : \A k \in Bad : m <= k
  BY <1>1, <1>4, LeastNat
<1>6. CASE m = 0
  <2>1. 1..m = {}
    BY <1>6
  <2> QED  BY <1>2, <1>3, <1>5, <2>1
<1>7. CASE m # 0
  <2>1. m \in 1..n /\ m - 1 \in 0..n /\ ~(m <= m - 1)
    BY <1>3, <1>7
  <2>2. g[1..m - 1] \in D
    BY <1>2, <1>5, <2>1
  <2> QED  BY <1>2, <1>3, <1>5, <2>1, <2>2
<1> QED  BY <1>6, <1>7

LEMMA GreatestIndex ==
  ASSUME NEW n \in Nat, NEW s \in SUBSET (1..n), s # {}
  PROVE  Max(s) \in s
<1> DEFINE T == {k \in 0..n : n - k \in s}
<1>1. T \subseteq Nat /\ \A x \in s : n - x \in T
  OBVIOUS
<1>2. \A k \in T : n - k \in s
  OBVIOUS
<1> HIDE DEF T
<1>3. PICK k \in T : \A m \in T : k <= m
  BY <1>1, LeastNat
<1>4. ASSUME NEW y \in s PROVE n - k >= y
  <2>1. k <= n - y /\ y \in 1..n /\ k \in Nat
    BY <1>1, <1>3
  <2> QED  BY <2>1
<1>5. n - k \in s
  BY <1>2
<1> QED  BY <1>4, <1>5 DEF Max

LEMMA GreatestOfAll ==
  ASSUME NEW m \in Nat, m # 0
  PROVE  Max(1..m) = m /\ (1..m) \ {m} = 1..m - 1 /\ 1..m # {}
<1>1. \A x \in 1..m : (\A y \in 1..m : x >= y) <=> x = m
  OBVIOUS
<1> QED  BY <1>1 DEF Max

\* The values a fold goes through.
IsRun(r, D, f, base, s) ==
  /\ r \in [0..Len(s) -> D] /\ r[0] = base
  /\ \A i \in 1..Len(s) : r[i] = f[<<r[i - 1], s[i]>>]

\* What the fold's own function does.
Iterates(iter, D, E, f, base, s) ==
  /\ f \in [D \X E -> D] /\ base \in D /\ s \in Seq(E) /\ iter[{}] = base
  /\ \A t \in SUBSET (1..Len(s)) : t # {} /\ iter[t \ {Max(t)}] \in D
            => iter[t] = f[<<iter[t \ {Max(t)}], s[Max(t)]>>]

LEMMA RunOfFold ==
  ASSUME NEW D, NEW E, NEW f, NEW base, NEW s, NEW iter, Iterates(iter, D, E, f, base, s)
  PROVE  \E r : IsRun(r, D, f, base, s) /\ r[Len(s)] = iter[1..Len(s)]
<1> USE DEF Iterates
<1> DEFINE n == Len(s)
<1>1. n \in Nat /\ \A i \in 1..n : s[i] \in E
  OBVIOUS
<1> HIDE DEF n
<1>2. \A t \in SUBSET (1..n) : t # {} /\ iter[t \ {Max(t)}] \in D
            => iter[t] = f[<<iter[t \ {Max(t)}], s[Max(t)]>>]
  BY DEF n
<1>3. ASSUME NEW m \in 1..n, iter[1..m - 1] \in D
      PROVE  iter[1..m] = f[<<iter[1..m - 1], s[m]>>] /\ iter[1..m] \in D
  <2>1. 1..m \in SUBSET (1..n) /\ m \in Nat /\ m # 0
    BY <1>1
  <2>2. Max(1..m) = m /\ (1..m) \ {m} = 1..m - 1 /\ 1..m # {}
    BY <2>1, GreatestOfAll
  <2>3. iter[1..m] = f[<<iter[1..m - 1], s[m]>>]
    BY <1>2, <1>3, <2>1, <2>2
  <2> QED  BY <1>1, <1>3, <2>3
<1>4. ASSUME NEW k \in 0..n PROVE iter[1..k] \in D
  <2>1. k \in Nat /\ (\A m \in 1..k : m \in 1..n) /\ iter[{}] \in D
    BY <1>1
  <2>2. \A m \in 1..k : iter[1..m - 1] \in D => iter[1..m] \in D
    BY <1>3, <2>1
  <2> QED  BY <2>1, <2>2, FoldInSet
<1> DEFINE r == [i \in 0..n |-> iter[1..i]]
<1>5. r \in [0..n -> D]
  BY <1>4
<1>6. r[0] = base
  <2>1. 1..0 = {} /\ 0 \in 0..n
    BY <1>1
  <2> QED  BY <2>1
<1>7. ASSUME NEW i \in 1..n PROVE r[i] = f[<<r[i - 1], s[i]>>]
  <2>1. i \in 0..n /\ i - 1 \in 0..n
    BY <1>1
  <2>2. iter[1..i - 1] \in D
    BY <1>4, <2>1
  <2> QED  BY <1>3, <2>1, <2>2
<1>8. n \in 0..n
  BY <1>1
<1>9. r[n] = iter[1..n]
  BY <1>8
<1> HIDE DEF r
<1> QED  BY <1>5, <1>6, <1>7, <1>9 DEF IsRun, n

\* Two runs agree as far as their sequences do.
Agree(r, q, D, E, f, base, s, e) ==
  /\ s \in Seq(E) /\ e \in E
  /\ IsRun(r, D, f, base, s) /\ IsRun(q, D, f, base, Append(s, e))

LEMMA RunsAgree ==
  ASSUME NEW D, NEW E, NEW f, NEW base, NEW s, NEW e, NEW r, NEW q,
         Agree(r, q, D, E, f, base, s, e)
  PROVE  q[Len(s) + 1] = f[<<r[Len(s)], e>>]
<1> USE DEF Agree
<1> DEFINE n == Len(s)
           t == Append(s, e)
           Bad == {i \in 0..n : q[i] # r[i]}
<1>1. n \in Nat /\ Len(t) = n + 1 /\ t[n + 1] = e /\ \A i \in 1..n : t[i] = s[i]
  OBVIOUS
<1>2. r[0] = base /\ \A i \in 1..n : r[i] = f[<<r[i - 1], s[i]>>]
  BY DEF IsRun
<1>3. q[0] = base /\ \A i \in 1..Len(t) : q[i] = f[<<q[i - 1], t[i]>>]
  BY DEF IsRun
<1> HIDE DEF n, t
<1>4. q[0] = base /\ q[n + 1] = f[<<q[n], e>>] /\ \A i \in 1..n : q[i] = f[<<q[i - 1], s[i]>>]
  BY <1>1, <1>3
<1>5. Bad \subseteq Nat /\ (\A i \in Bad : i \in 0..n) /\ \A i \in 0..n : i \notin Bad <=> q[i] = r[i]
  BY <1>1
<1> HIDE DEF Bad
<1>6. Bad = {}
  <2> SUFFICES ASSUME Bad # {} PROVE FALSE
    OBVIOUS
  <2>1. PICK i \in Bad : \A k \in Bad : i <= k
    BY <1>5, LeastNat
  <2>2. i \in 0..n /\ i # 0
    BY <1>2, <1>4, <1>5
  <2>3. i \in 1..n /\ i - 1 \in 0..n /\ ~(i <= i - 1)
    BY <1>1, <2>2
  <2>4. q[i - 1] = r[i - 1]
    BY <1>5, <2>1, <2>3
  <2> QED  BY <1>2, <1>4, <1>5, <2>2, <2>3, <2>4
<1>7. n \in 0..n
  BY <1>1
<1>8. q[n] = r[n]
  BY <1>5, <1>6, <1>7
<1> QED  BY <1>4, <1>8 DEF n

-----------------------------------------------------------------------------
(* Blocks and events                                                       *)

Aside == {"thinking", "meta", "bare", "raw"}
Block == {Text(n) : n \in Nat} \cup {Tool(n) : n \in Nat} \cup {Output(n) : n \in Nat}
           \cup {Raw(n) : n \in Nat} \cup {End(n, ok) : n \in Nat, ok \in BOOLEAN}
           \cup {Why(n) : n \in Nat} \cup {File(n) : n \in Nat}
           \cup {Hidden(kind, n) : kind \in Aside, n \in Nat}
Signal == [k : {"result"}, task : BOOLEAN] \cup [k : {"started", "finished", "compact"}, n : Nat]
            \cup [k : {"cue"}]
Event == [k : {"frame"}, say : Seq(Block)] \cup [k : {"tokens", "sid"}, n : Nat] \cup Signal
Got == [known : Nat, shown : Seq(Block), signals : Seq(Signal), reading : Nat]

LEMMA TakesType ==
  ASSUME NEW g \in Got, NEW e \in Event
  PROVE  Takes(g, e) \in Got
<1>1. CASE e \in [k : {"frame"}, say : Seq(Block)]
  <2>1. e.k = "frame" /\ g.shown \o e.say \in Seq(Block)
    BY <1>1 DEF Got
  <2> QED  BY <2>1 DEF Takes, Got
<1>2. CASE e \in [k : {"tokens", "sid"}, n : Nat]
  BY <1>2 DEF Takes, Got
<1>3. CASE e \in Signal
  <2>1. e.k \notin {"frame", "tokens", "sid"} /\ (e.k = "compact" => e.n \in Nat)
    BY <1>3 DEF Signal
  <2>2. Append(g.signals, e) \in Seq(Signal)
    BY <1>3 DEF Got
  <2>3. CASE e.k = "compact"
    BY <2>1, <2>2, <2>3 DEF Takes, Got
  <2>4. CASE e.k # "compact"
    BY <2>1, <2>2, <2>4 DEF Takes, Got
  <2> QED  BY <2>3, <2>4
<1> QED  BY <1>1, <1>2, <1>3 DEF Event

LEMMA ReceivedRuns ==
  ASSUME NEW had \in Got, NEW s \in Seq(Event)
  PROVE  \E r : IsRun(r, Got, [p \in Got \X Event |-> Takes(p[1], p[2])], had, s)
                /\ r[Len(s)] = Received(had, s)
<1> DEFINE n == Len(s)
           IsIter(g) == g = [t \in SUBSET (1..n) |-> IF t = {} THEN had
                                ELSE Takes(g[t \ {Max(t)}], s[Max(t)])]
           iter == CHOOSE g : IsIter(g)
           f == [p \in Got \X Event |-> Takes(p[1], p[2])]
           h == [p \in Got \X (1..n) |-> Takes(p[1], s[p[2]])]
<1>1. DOMAIN s = 1..n /\ n \in Nat /\ \A i \in 1..n : s[i] \in Event
  OBVIOUS
<1>2. Received(had, s) = iter[1..n]
  BY <1>1 DEF Received, FoldLeft, MapThenFoldSet
<1> HIDE DEF n
<1>3. had \in Got /\ \A a \in Got, e \in Event : Takes(a, e) \in Got
  BY TakesType
<1>4. h \in [Got \X (1..n) -> Got] /\ f \in [Got \X Event -> Got]
  BY <1>1, <1>3
<1>5. /\ \A a \in Got, i \in 1..n : h[<<a, i>>] = Takes(a, s[i])
      /\ \A a \in Got, e \in Event : f[<<a, e>>] = Takes(a, e)
  OBVIOUS
<1> HIDE DEF h, f
<1>6. PICK g \in [SUBSET (1..n) -> Got] : Folds(g, n, h, had)
  BY <1>1, <1>3, <1>4, FoldExists
<1>7. ASSUME NEW t \in SUBSET (1..n)
      PROVE  g[t] = IF t = {} THEN had ELSE Takes(g[t \ {Max(t)}], s[Max(t)])
  <2>1. CASE t = {}
    BY <1>6, <2>1 DEF Folds
  <2>2. CASE t # {}
    <3>1. Max(t) \in 1..n /\ g[t \ {Max(t)}] \in Got
      BY <1>1, <2>2, GreatestIndex
    <3>2. g[t] = h[<<g[t \ {Max(t)}], Max(t)>>]
      BY <1>6, <2>2 DEF Folds
    <3> QED  BY <1>5, <2>2, <3>1, <3>2
  <2> QED  BY <2>1, <2>2
<1>8. IsIter(g)
  <2>1. g = [t \in SUBSET (1..n) |-> g[t]]
    OBVIOUS
  <2> QED  BY <1>7, <2>1
<1>9. IsIter(iter)
  BY <1>8
<1> HIDE DEF iter
<1>10. /\ iter[{}] = had
       /\ \A t \in SUBSET (1..n) : t # {} => iter[t] = Takes(iter[t \ {Max(t)}], s[Max(t)])
  BY <1>9
<1>11. ASSUME NEW t \in SUBSET (1..n), t # {}, iter[t \ {Max(t)}] \in Got
       PROVE  iter[t] = f[<<iter[t \ {Max(t)}], s[Max(t)]>>]
  <2>1. Max(t) \in 1..n
    BY <1>1, <1>11, GreatestIndex
  <2> QED  BY <1>1, <1>5, <1>10, <1>11, <2>1
<1>12. \E r : IsRun(r, Got, f, had, s) /\ r[Len(s)] = iter[1..Len(s)]
  <2>1. iter[{}] = had /\ had \in Got /\ f \in [Got \X Event -> Got]
    BY <1>3, <1>4, <1>10
  <2>2. \A t \in SUBSET (1..Len(s)) : t # {} /\ iter[t \ {Max(t)}] \in Got
            => iter[t] = f[<<iter[t \ {Max(t)}], s[Max(t)]>>]
    BY <1>11 DEF n
  <2>3. Iterates(iter, Got, Event, f, had, s)
    BY <2>1, <2>2 DEF Iterates
  <2> QED  BY <2>3, RunOfFold
<1> QED  BY <1>2, <1>12 DEF f, n

\* Received is the fold it looks like.
LEMMA ReceivedNone ==
  ASSUME NEW had \in Got
  PROVE  Received(had, <<>>) = had
<1>1. <<>> \in Seq(Event) /\ Len(<<>>) = 0
  OBVIOUS
<1>2. PICK r : /\ IsRun(r, Got, [p \in Got \X Event |-> Takes(p[1], p[2])], had, <<>>)
               /\ r[Len(<<>>)] = Received(had, <<>>)
  BY <1>1, ReceivedRuns
<1> QED  BY <1>1, <1>2 DEF IsRun

LEMMA ReceivedAppend ==
  ASSUME NEW had \in Got, NEW s \in Seq(Event), NEW e \in Event
  PROVE  /\ Received(had, s) \in Got
         /\ Received(had, Append(s, e)) = Takes(Received(had, s), e)
<1> DEFINE f == [p \in Got \X Event |-> Takes(p[1], p[2])]
<1>1. f \in [Got \X Event -> Got] /\ \A a \in Got, x \in Event : f[<<a, x>>] = Takes(a, x)
  BY TakesType
<1>2. PICK r : IsRun(r, Got, f, had, s) /\ r[Len(s)] = Received(had, s)
  BY ReceivedRuns
<1>3. Append(s, e) \in Seq(Event) /\ Len(Append(s, e)) = Len(s) + 1 /\ Len(s) \in Nat
  OBVIOUS
<1>4. PICK q : IsRun(q, Got, f, had, Append(s, e)) /\ q[Len(Append(s, e))] = Received(had, Append(s, e))
  BY <1>3, ReceivedRuns
<1> HIDE DEF f
<1>5. q[Len(s) + 1] = f[<<r[Len(s)], e>>]
  <2>1. Agree(r, q, Got, Event, f, had, s, e)
    BY <1>2, <1>4 DEF Agree
  <2> QED  BY <2>1, RunsAgree
<1>6. r[Len(s)] \in Got
  BY <1>2, <1>3 DEF IsRun
<1> QED  BY <1>1, <1>2, <1>3, <1>4, <1>5, <1>6

Kept(kept, x) == IF Renderable(x) THEN Append(kept, x) ELSE kept

LEMMA RenderedRuns ==
  ASSUME NEW s \in Seq(Block)
  PROVE  \E r : IsRun(r, Seq(Block), [p \in Seq(Block) \X Block |-> Kept(p[1], p[2])], <<>>, s)
                /\ r[Len(s)] = Rendered(s)
<1> DEFINE n == Len(s)
           IsIter(g) == g = [t \in SUBSET (1..n) |-> IF t = {} THEN <<>>
                                ELSE Kept(g[t \ {Max(t)}], s[Max(t)])]
           iter == CHOOSE g : IsIter(g)
           f == [p \in Seq(Block) \X Block |-> Kept(p[1], p[2])]
           h == [p \in Seq(Block) \X (1..n) |-> Kept(p[1], s[p[2]])]
<1>1. DOMAIN s = 1..n /\ n \in Nat /\ \A i \in 1..n : s[i] \in Block
  OBVIOUS
<1>2. Rendered(s) = iter[1..n]
  BY <1>1 DEF Rendered, FoldLeft, MapThenFoldSet, Kept
<1> HIDE DEF n
<1>3. <<>> \in Seq(Block) /\ \A a \in Seq(Block), e \in Block : Kept(a, e) \in Seq(Block)
  BY DEF Kept
<1>4. h \in [Seq(Block) \X (1..n) -> Seq(Block)] /\ f \in [Seq(Block) \X Block -> Seq(Block)]
  BY <1>1, <1>3
<1>5. /\ \A a \in Seq(Block), i \in 1..n : h[<<a, i>>] = Kept(a, s[i])
      /\ \A a \in Seq(Block), e \in Block : f[<<a, e>>] = Kept(a, e)
  OBVIOUS
<1> HIDE DEF h, f
<1>6. PICK g \in [SUBSET (1..n) -> Seq(Block)] : Folds(g, n, h, <<>>)
  BY <1>1, <1>3, <1>4, FoldExists
<1>7. ASSUME NEW t \in SUBSET (1..n)
      PROVE  g[t] = IF t = {} THEN <<>> ELSE Kept(g[t \ {Max(t)}], s[Max(t)])
  <2>1. CASE t = {}
    BY <1>6, <2>1 DEF Folds
  <2>2. CASE t # {}
    <3>1. Max(t) \in 1..n /\ g[t \ {Max(t)}] \in Seq(Block)
      BY <1>1, <2>2, GreatestIndex
    <3>2. g[t] = h[<<g[t \ {Max(t)}], Max(t)>>]
      BY <1>6, <2>2 DEF Folds
    <3> QED  BY <1>5, <2>2, <3>1, <3>2
  <2> QED  BY <2>1, <2>2
<1>8. IsIter(g)
  <2>1. g = [t \in SUBSET (1..n) |-> g[t]]
    OBVIOUS
  <2> QED  BY <1>7, <2>1
<1>9. IsIter(iter)
  BY <1>8
<1> HIDE DEF iter
<1>10. /\ iter[{}] = <<>>
       /\ \A t \in SUBSET (1..n) : t # {} => iter[t] = Kept(iter[t \ {Max(t)}], s[Max(t)])
  BY <1>9
<1>11. ASSUME NEW t \in SUBSET (1..n), t # {}, iter[t \ {Max(t)}] \in Seq(Block)
       PROVE  iter[t] = f[<<iter[t \ {Max(t)}], s[Max(t)]>>]
  <2>1. Max(t) \in 1..n
    BY <1>1, <1>11, GreatestIndex
  <2> QED  BY <1>1, <1>5, <1>10, <1>11, <2>1
<1>12. \E r : IsRun(r, Seq(Block), f, <<>>, s) /\ r[Len(s)] = iter[1..Len(s)]
  <2>1. iter[{}] = <<>> /\ <<>> \in Seq(Block) /\ f \in [Seq(Block) \X Block -> Seq(Block)]
    BY <1>3, <1>4, <1>10
  <2>2. \A t \in SUBSET (1..Len(s)) : t # {} /\ iter[t \ {Max(t)}] \in Seq(Block)
            => iter[t] = f[<<iter[t \ {Max(t)}], s[Max(t)]>>]
    BY <1>11 DEF n
  <2>3. Iterates(iter, Seq(Block), Block, f, <<>>, s)
    BY <2>1, <2>2 DEF Iterates
  <2> QED  BY <2>3, RunOfFold
<1> QED  BY <1>2, <1>12 DEF f, n

\* So is Rendered.
LEMMA RenderedNone ==
  Rendered(<<>>) = <<>>
<1>1. <<>> \in Seq(Block) /\ Len(<<>>) = 0
  OBVIOUS
<1>2. PICK r : /\ IsRun(r, Seq(Block), [p \in Seq(Block) \X Block |-> Kept(p[1], p[2])], <<>>, <<>>)
               /\ r[Len(<<>>)] = Rendered(<<>>)
  BY <1>1, RenderedRuns
<1> QED  BY <1>1, <1>2 DEF IsRun

LEMMA RenderedAppend ==
  ASSUME NEW s \in Seq(Block), NEW e \in Block
  PROVE  /\ Rendered(s) \in Seq(Block)
         /\ Rendered(Append(s, e)) = Kept(Rendered(s), e)
<1> DEFINE f == [p \in Seq(Block) \X Block |-> Kept(p[1], p[2])]
<1>1. f \in [Seq(Block) \X Block -> Seq(Block)]
        /\ \A a \in Seq(Block), x \in Block : f[<<a, x>>] = Kept(a, x)
  BY DEF Kept
<1>2. PICK r : IsRun(r, Seq(Block), f, <<>>, s) /\ r[Len(s)] = Rendered(s)
  BY RenderedRuns
<1>3. Append(s, e) \in Seq(Block) /\ Len(Append(s, e)) = Len(s) + 1 /\ Len(s) \in Nat
  OBVIOUS
<1>4. PICK q : IsRun(q, Seq(Block), f, <<>>, Append(s, e))
        /\ q[Len(Append(s, e))] = Rendered(Append(s, e))
  BY <1>3, RenderedRuns
<1> HIDE DEF f
<1>5. q[Len(s) + 1] = f[<<r[Len(s)], e>>]
  <2>1. Agree(r, q, Seq(Block), Block, f, <<>>, s, e)
    BY <1>2, <1>4 DEF Agree
  <2> QED  BY <2>1, RunsAgree
<1>6. r[Len(s)] \in Seq(Block)
  BY <1>2, <1>3 DEF IsRun
<1> QED  BY <1>1, <1>2, <1>3, <1>4, <1>5, <1>6

-----------------------------------------------------------------------------
(* What events come to                                                     *)

\* Induction over the sequences of a set.
LEMMA BySequence ==
  ASSUME NEW S, NEW P, <<>> \in P,
         \A s \in Seq(S), e \in S : s \in P => Append(s, e) \in P
  PROVE  \A s \in Seq(S) : s \in P
<1> DEFINE Bad == {n \in Nat : \E s \in Seq(S) : Len(s) = n /\ s \notin P}
<1>1. Bad \subseteq Nat /\ \A s \in Seq(S) : s \notin P => Len(s) \in Bad
  OBVIOUS
<1>2. \A n \in Bad : \E s \in Seq(S) : Len(s) = n /\ s \notin P
  OBVIOUS
<1> HIDE DEF Bad
<1>3. SUFFICES ASSUME Bad # {} PROVE FALSE
  BY <1>1
<1>4. PICK n \in Bad : \A m \in Bad : n <= m
  BY <1>1, <1>3, LeastNat
<1>5. PICK s \in Seq(S) : Len(s) = n /\ s \notin P
  BY <1>2
<1>6. PICK t \in Seq(S), e \in S : s = Append(t, e)
  BY <1>5, SequenceEmptyOrAppend
<1>7. Len(t) \in Nat /\ n = Len(t) + 1
  BY <1>5, <1>6
<1>8. t \notin P
  BY <1>5, <1>6
<1> QED  BY <1>1, <1>4, <1>7, <1>8

LEMMA ConcatAppend ==
  ASSUME NEW S, NEW s \in Seq(S), NEW t \in Seq(S), NEW e \in S
  PROVE  s \o Append(t, e) = Append(s \o t, e) /\ s \o t \in Seq(S)
<1>1. <<e>> \in Seq(S) /\ s \o t \in Seq(S)
  OBVIOUS
<1>2. Append(t, e) = t \o <<e>> /\ Append(s \o t, e) = (s \o t) \o <<e>>
  BY <1>1, AppendIsConcat
<1> QED  BY <1>1, <1>2, ConcatAssociative

LEMMA Assoc ==
  ASSUME NEW S, NEW a \in Seq(S), NEW b \in Seq(S), NEW c \in Seq(S)
  PROVE  (a \o b) \o c = a \o (b \o c)
BY ConcatAssociative

LEMMA SaysAssoc == \A a, b, c \in Seq(Block) : (a \o b) \o c = a \o (b \o c)
BY Assoc

LEMMA SignalsAssoc == \A a, b, c \in Seq(Signal) : (a \o b) \o c = a \o (b \o c)
BY Assoc

LEMMA ReceivedConcat ==
  ASSUME NEW had \in Got, NEW s \in Seq(Event), NEW t \in Seq(Event)
  PROVE  Received(had, s \o t) = Received(Received(had, s), t)
<1> DEFINE P == {u \in Seq(Event) : Received(had, s \o u) = Received(Received(had, s), u)}
<1>1. ASSUME NEW e \in Event PROVE Received(had, s) \in Got
  BY ReceivedAppend
<1>2. Cue \in Event
  BY DEF Cue, Event, Signal
<1>3. Received(had, s) \in Got
  BY <1>1, <1>2
<1>4. <<>> \in P
  <2>1. s \o <<>> = s /\ <<>> \in Seq(Event)
    BY ConcatEmptySeq
  <2> QED  BY <1>3, <2>1, ReceivedNone
<1>5. ASSUME NEW u \in Seq(Event), NEW e \in Event, u \in P PROVE Append(u, e) \in P
  <2>1. s \o Append(u, e) = Append(s \o u, e) /\ s \o u \in Seq(Event)
    BY ConcatAppend
  <2>2. Received(had, Append(s \o u, e)) = Takes(Received(had, s \o u), e)
    BY <2>1, ReceivedAppend
  <2>3. Received(Received(had, s), Append(u, e)) = Takes(Received(Received(had, s), u), e)
    BY <1>3, ReceivedAppend
  <2>4. Received(had, s \o u) = Received(Received(had, s), u) /\ Append(u, e) \in Seq(Event)
    BY <1>5
  <2> QED  BY <2>1, <2>2, <2>3, <2>4
<1> HIDE DEF P
<1>6. \A u \in Seq(Event) : u \in P
  BY <1>4, <1>5, BySequence
<1> QED  BY <1>6 DEF P

\* What was had before, with what is said, signalled, measured (0: nothing)
\* and announced (NoSid: nothing) in addition.
After(g, say, signals, n, sid) ==
  [known |-> IF sid = NoSid THEN g.known ELSE sid, shown |-> g.shown \o say,
   signals |-> g.signals \o signals, reading |-> IF n = 0 THEN g.reading ELSE n]

Yields(evs, say, signals, n, sid) ==
  /\ evs \in Seq(Event) /\ say \in Seq(Block) /\ signals \in Seq(Signal)
  /\ n \in Nat /\ sid \in Nat
  /\ \A g \in Got : Received(g, evs) = After(g, say, signals, n, sid)

LEMMA AfterType ==
  ASSUME NEW g \in Got, NEW say \in Seq(Block), NEW signals \in Seq(Signal),
         NEW n \in Nat, NEW sid \in Nat
  PROVE  After(g, say, signals, n, sid) \in Got
<1>1. g.shown \o say \in Seq(Block) /\ g.signals \o signals \in Seq(Signal)
  BY DEF Got
<1> QED  BY <1>1 DEF After, Got

LEMMA YieldsNothing == Yields(<<>>, <<>>, <<>>, 0, NoSid)
<1>1. \A g \in Got : g.shown \o <<>> = g.shown /\ g.signals \o <<>> = g.signals
  BY ConcatEmptySeq DEF Got
<1>2. ASSUME NEW g \in Got PROVE Received(g, <<>>) = After(g, <<>>, <<>>, 0, NoSid)
  BY <1>1, ReceivedNone DEF After, Got
<1> QED  BY <1>2 DEF Yields, NoSid

LEMMA ReceivedOne ==
  ASSUME NEW g \in Got, NEW e \in Event
  PROVE  Received(g, <<e>>) = Takes(g, e) /\ <<e>> \in Seq(Event)
<1>1. <<>> \in Seq(Event) /\ <<e>> = Append(<<>>, e)
  OBVIOUS
<1>2. Received(g, Append(<<>>, e)) = Takes(Received(g, <<>>), e)
  BY <1>1, ReceivedAppend
<1>3. <<e>> \in Seq(Event)
  OBVIOUS
<1> QED  BY <1>1, <1>2, <1>3, ReceivedNone

LEMMA YieldsFrame ==
  ASSUME NEW say \in Seq(Block)
  PROVE  Yields(<<Frame(say)>>, say, <<>>, 0, NoSid)
<1>1. Frame(say) \in Event
  BY DEF Frame, Event
<1>2. <<Frame(say)>> \in Seq(Event)
  BY <1>1
<1>3. ASSUME NEW g \in Got PROVE Received(g, <<Frame(say)>>) = After(g, say, <<>>, 0, NoSid)
  <2>1. g.signals \o <<>> = g.signals
    BY ConcatEmptySeq DEF Got
  <2>2. Takes(g, Frame(say)) = After(g, say, <<>>, 0, NoSid)
    BY <2>1 DEF Takes, Frame, After, Got
  <2> QED  BY <1>1, <2>2, ReceivedOne
<1> QED  BY <1>2, <1>3 DEF Yields, NoSid

LEMMA YieldsNumber ==
  ASSUME NEW n \in Nat, n # 0
  PROVE  /\ Yields(<<Tokens(n)>>, <<>>, <<>>, n, NoSid)
         /\ Yields(<<Harvested(n)>>, <<>>, <<>>, 0, n)
<1>1. Tokens(n) \in Event /\ Harvested(n) \in Event
  BY DEF Tokens, Harvested, Event
<1>2. <<Tokens(n)>> \in Seq(Event) /\ <<Harvested(n)>> \in Seq(Event)
  BY <1>1
<1>3. ASSUME NEW g \in Got
      PROVE  /\ Received(g, <<Tokens(n)>>) = After(g, <<>>, <<>>, n, NoSid)
             /\ Received(g, <<Harvested(n)>>) = After(g, <<>>, <<>>, 0, n)
  <2>1. g.shown \o <<>> = g.shown /\ g.signals \o <<>> = g.signals
    BY ConcatEmptySeq DEF Got
  <2>2. Takes(g, Tokens(n)) = After(g, <<>>, <<>>, n, NoSid)
    BY <2>1 DEF Takes, Tokens, After, Got
  <2>3. Takes(g, Harvested(n)) = After(g, <<>>, <<>>, 0, n)
    BY <2>1 DEF Takes, Harvested, After, Got, NoSid
  <2> QED  BY <1>1, <2>2, <2>3, ReceivedOne
<1> QED  BY <1>2, <1>3 DEF Yields, NoSid

LEMMA YieldsSignal ==
  ASSUME NEW e \in Signal, e.k # "compact"
  PROVE  Yields(<<e>>, <<>>, <<e>>, 0, NoSid)
<1>1. e \in Event /\ <<e>> \in Seq(Signal) /\ <<e>> \in Seq(Event)
  BY DEF Event
<1>2. e.k \notin {"frame", "tokens", "sid", "compact"}
  BY DEF Signal
<1>3. ASSUME NEW g \in Got PROVE Received(g, <<e>>) = After(g, <<>>, <<e>>, 0, NoSid)
  <2>1. g.shown \o <<>> = g.shown
    BY ConcatEmptySeq DEF Got
  <2>2. Append(g.signals, e) = g.signals \o <<e>>
    BY AppendIsConcat DEF Got
  <2>3. Takes(g, e) = After(g, <<>>, <<e>>, 0, NoSid)
    BY <1>2, <2>1, <2>2 DEF Takes, After, Got
  <2> QED  BY <1>1, <2>3, ReceivedOne
<1> QED  BY <1>1, <1>3 DEF Yields, NoSid

\* A compaction is a signal and a reading.
LEMMA YieldsCompacted ==
  ASSUME NEW n \in Nat, n # 0
  PROVE  Yields(<<Compacted(n)>>, <<>>, <<Compacted(n)>>, n, NoSid)
<1> DEFINE e == Compacted(n)
<1>1. e \in Signal /\ e.k = "compact" /\ e.n = n
  BY DEF Compacted, Signal
<1> HIDE DEF e
<1>2. e \in Event /\ <<e>> \in Seq(Signal) /\ <<e>> \in Seq(Event)
  BY <1>1 DEF Event
<1>3. ASSUME NEW g \in Got PROVE Received(g, <<e>>) = After(g, <<>>, <<e>>, n, NoSid)
  <2>1. g.shown \o <<>> = g.shown
    BY ConcatEmptySeq DEF Got
  <2>2. Append(g.signals, e) = g.signals \o <<e>>
    BY <1>1, AppendIsConcat DEF Got
  <2>3. Takes(g, e) = After(g, <<>>, <<e>>, n, NoSid)
    BY <1>1, <2>1, <2>2 DEF Takes, After, Got
  <2> QED  BY <1>2, <2>3, ReceivedOne
<1> QED  BY <1>2, <1>3 DEF Yields, NoSid, e

\* Events one after the other.
LEMMA YieldsBoth ==
  ASSUME NEW s, NEW say1, NEW sig1, NEW n1, NEW sid1, Yields(s, say1, sig1, n1, sid1),
         NEW t, NEW say2, NEW sig2, NEW n2, NEW sid2, Yields(t, say2, sig2, n2, sid2)
  PROVE  Yields(s \o t, say1 \o say2, sig1 \o sig2, IF n2 = 0 THEN n1 ELSE n2,
                IF sid2 = NoSid THEN sid1 ELSE sid2)
<1>1. /\ s \in Seq(Event) /\ say1 \in Seq(Block) /\ sig1 \in Seq(Signal) /\ n1 \in Nat /\ sid1 \in Nat
      /\ t \in Seq(Event) /\ say2 \in Seq(Block) /\ sig2 \in Seq(Signal) /\ n2 \in Nat /\ sid2 \in Nat
  BY DEF Yields
<1>2. ASSUME NEW g \in Got
      PROVE  Received(g, s \o t) = After(g, say1 \o say2, sig1 \o sig2, IF n2 = 0 THEN n1 ELSE n2,
                                         IF sid2 = NoSid THEN sid1 ELSE sid2)
  <2>1. Received(g, s) = After(g, say1, sig1, n1, sid1) /\ After(g, say1, sig1, n1, sid1) \in Got
    BY <1>1, AfterType DEF Yields
  <2>2. Received(g, s \o t) = After(After(g, say1, sig1, n1, sid1), say2, sig2, n2, sid2)
    BY <1>1, <2>1, ReceivedConcat DEF Yields
  <2>3. g.shown \in Seq(Block) /\ g.signals \in Seq(Signal)
    BY DEF Got
  <2>4. (g.shown \o say1) \o say2 = g.shown \o (say1 \o say2)
    BY <1>1, <2>3, SaysAssoc
  <2>5. (g.signals \o sig1) \o sig2 = g.signals \o (sig1 \o sig2)
    BY <1>1, <2>3, SignalsAssoc
  <2> QED  BY <2>2, <2>4, <2>5 DEF After
<1>3. s \o t \in Seq(Event) /\ say1 \o say2 \in Seq(Block) /\ sig1 \o sig2 \in Seq(Signal)
  BY <1>1
<1> QED  BY <1>1, <1>2, <1>3 DEF Yields

LEMMA YieldsEnvelope ==
  ASSUME NEW say \in Seq(Block)
  PROVE  Yields(Envelope(say), say, <<>>, 0, NoSid)
<1>1. CASE say = <<>>
  BY <1>1, YieldsNothing DEF Envelope, Unless
<1>2. CASE say # <<>>
  BY <1>2, YieldsFrame DEF Envelope, Unless
<1> QED  BY <1>1, <1>2

LEMMA YieldsEnvelopes ==
  ASSUME NEW say \in Seq(Block)
  PROVE  Yields(Envelopes(say), say, <<>>, 0, NoSid)
<1> DEFINE P == {s \in Seq(Block) : Yields(Envelopes(s), s, <<>>, 0, NoSid)}
<1>1. <<>> \in P
  <2>1. Envelopes(<<>>) = <<>> /\ <<>> \in Seq(Block)
    BY DEF Envelopes
  <2> QED  BY <2>1, YieldsNothing
<1>2. ASSUME NEW s \in Seq(Block), NEW x \in Block, s \in P PROVE Append(s, x) \in P
  <2>1. Append(s, x) \in Seq(Block) /\ Append(s, x) = s \o <<x>> /\ <<x>> \in Seq(Block)
    BY AppendIsConcat
  <2>2. Envelopes(s) \in Seq(Event) /\ <<Frame(<<x>>)>> \in Seq(Event)
    BY <1>2, <2>1, YieldsFrame DEF Yields
  <2>3. Envelopes(Append(s, x)) = Envelopes(s) \o <<Frame(<<x>>)>>
    <3>1. /\ Len(Append(s, x)) = Len(s) + 1 /\ Len(s) \in Nat /\ Append(s, x)[Len(s) + 1] = x
          /\ \A i \in 1..Len(s) : Append(s, x)[i] = s[i]
      OBVIOUS
    <3> QED  BY <2>2, <3>1 DEF Envelopes
  <2>4. Yields(Envelopes(s), s, <<>>, 0, NoSid) /\ Yields(<<Frame(<<x>>)>>, <<x>>, <<>>, 0, NoSid)
    BY <1>2, <2>1, YieldsFrame
  <2>5. Yields(Envelopes(s) \o <<Frame(<<x>>)>>, s \o <<x>>, <<>> \o <<>>, IF 0 = 0 THEN 0 ELSE 0,
               IF NoSid = NoSid THEN NoSid ELSE NoSid)
    BY <2>4, YieldsBoth
  <2>6. <<>> \o <<>> = <<>>
    OBVIOUS
  <2> QED  BY <2>1, <2>3, <2>5, <2>6
<1> HIDE DEF P
<1>3. \A s \in Seq(Block) : s \in P
  BY <1>1, <1>2, BySequence
<1> QED  BY <1>3 DEF P

-----------------------------------------------------------------------------
(* Handling a line                                                         *)

Adapters ==
  [text : Seq(Block), cues : SUBSET Nat, shown : SUBSET Nat, calls : SUBSET Nat,
   unnamed : BOOLEAN, last : Nat, resumed : BOOLEAN]

\* What a handler does: the adapter it leaves, and what its events come to.
Leaves(does, b, say, signals, n, sid) ==
  does.a = b /\ Yields(does.ev, say, signals, n, sid)

LEMMA NoEvents ==
  /\ <<>> \o <<>> = <<>>
  /\ \A s \in Seq(Event) : s \o <<>> = s /\ <<>> \o s = s
BY ConcatEmptySeq

LEMMA NoBlocks ==
  /\ \A s \in Seq(Block) : s \o <<>> = s /\ <<>> \o s = s
  /\ \A s \in Seq(Signal) : s \o <<>> = s /\ <<>> \o s = s
BY ConcatEmptySeq

LEMMA SignalsOf ==
  /\ Cue \in Signal /\ \A b \in BOOLEAN : Ended(b) \in Signal
  /\ \A i \in Nat : /\ TaskStarted(i) \in Signal /\ TaskFinished(i) \in Signal
                    /\ Compacted(i) \in Signal
                    /\ TaskStarted(i).k # "compact" /\ TaskFinished(i).k # "compact"
  /\ Cue.k # "compact" /\ \A b : Ended(b).k # "compact"
BY DEF Cue, Compacted, Ended, TaskStarted, TaskFinished, Signal

LEMMA DoesFields ==
  ASSUME NEW a, NEW evs
  PROVE  Does(a, evs).a = a /\ Does(a, evs).ev = evs
BY DEF Does

\* Events of which the second part only signals.
LEMMA YieldsWithSignal ==
  ASSUME NEW s, NEW say, Yields(s, say, <<>>, 0, NoSid), NEW e \in Signal, e.k # "compact"
  PROVE  Yields(s \o <<e>>, say, <<e>>, 0, NoSid)
<1>1. Yields(<<e>>, <<>>, <<e>>, 0, NoSid)
  BY YieldsSignal
<1>2. Yields(s \o <<e>>, say \o <<>>, <<>> \o <<e>>, IF 0 = 0 THEN 0 ELSE 0,
             IF NoSid = NoSid THEN NoSid ELSE NoSid)
  BY <1>1, YieldsBoth
<1>3. say \in Seq(Block) /\ <<e>> \in Seq(Signal)
  BY DEF Yields
<1> QED  BY <1>2, <1>3, NoBlocks

\* The same, where a cue may or may not follow.
LEMMA YieldsWithCue ==
  ASSUME NEW s, NEW say, Yields(s, say, <<>>, 0, NoSid), NEW c \in BOOLEAN
  PROVE  Yields(s \o Unless(c, <<Cue>>), say, Unless(c, <<Cue>>), 0, NoSid)
<1>1. CASE c
  BY <1>1, NoEvents DEF Unless, Yields
<1>2. CASE ~c
  BY <1>2, YieldsWithSignal, SignalsOf DEF Unless
<1> QED  BY <1>1, <1>2

LEMMA ObserveLeaves ==
  ASSUME NEW a \in Adapters, NEW n \in Nat
  PROVE  Leaves(Observe(a, n), IF n = 0 THEN a ELSE [a EXCEPT !.last = n], <<>>, <<>>,
                IF n = a.last THEN 0 ELSE n, NoSid)
<1>1. CASE n = 0 \/ n = a.last
  <2>1. Observe(a, n) = Does(a, <<>>)
    BY <1>1 DEF Observe
  <2>2. n = a.last => [a EXCEPT !.last = n] = a
    BY DEF Adapters
  <2> QED  BY <1>1, <2>1, <2>2, DoesFields, YieldsNothing DEF Leaves
<1>2. CASE ~(n = 0 \/ n = a.last)
  <2>1. Observe(a, n) = Does([a EXCEPT !.last = n], <<Tokens(n)>>)
    BY <1>2 DEF Observe
  <2>2. Yields(<<Tokens(n)>>, <<>>, <<>>, n, NoSid)
    BY <1>2, YieldsNumber
  <2> QED  BY <1>2, <2>1, <2>2, DoesFields DEF Leaves
<1> QED  BY <1>1, <1>2

LEMMA AwaitedLeaves ==
  ASSUME NEW a \in Adapters, NEW line
  PROVE  Leaves(Awaited(a, line), [a EXCEPT !.cues = @ \ {line.id}], <<>>,
                Unless(line.id \notin a.cues, <<Cue>>), 0, NoSid)
<1>1. CASE line.id \in a.cues
  BY <1>1, DoesFields, YieldsSignal, SignalsOf DEF Awaited, Leaves, Unless
<1>2. CASE line.id \notin a.cues
  <2>1. a.cues \ {line.id} = a.cues
    BY <1>2
  <2>2. [a EXCEPT !.cues = @ \ {line.id}] = a
    BY <2>1 DEF Adapters
  <2> QED  BY <1>2, <2>2, DoesFields, YieldsNothing DEF Awaited, Leaves, Unless
<1> QED  BY <1>1, <1>2

LEMMA AwaitingType ==
  ASSUME NEW a \in Adapters, NEW line, line.id \in Nat
  PROVE  Awaiting(a, line) \in Adapters
BY DEF Awaiting, Adapters

-----------------------------------------------------------------------------
(* What is rendered                                                        *)

LEMMA RenderedConcat ==
  ASSUME NEW s \in Seq(Block), NEW t \in Seq(Block)
  PROVE  Rendered(s \o t) = Rendered(s) \o Rendered(t) /\ Rendered(s) \in Seq(Block)
<1>0. \A u \in Seq(Block) : Rendered(u) \in Seq(Block)
  <2>1. Text(0) \in Block
    BY DEF Block
  <2> QED  BY <2>1, RenderedAppend
<1> DEFINE P == {u \in Seq(Block) : Rendered(s \o u) = Rendered(s) \o Rendered(u)}
<1>1. <<>> \in P
  <2>1. s \o <<>> = s /\ Rendered(s) \o <<>> = Rendered(s) /\ <<>> \in Seq(Block)
    BY <1>0, ConcatEmptySeq
  <2> QED  BY <2>1, RenderedNone
<1>2. ASSUME NEW u \in Seq(Block), NEW e \in Block, u \in P PROVE Append(u, e) \in P
  <2>1. s \o Append(u, e) = Append(s \o u, e) /\ s \o u \in Seq(Block) /\ Append(u, e) \in Seq(Block)
    BY ConcatAppend
  <2>2. Rendered(Append(s \o u, e)) = Kept(Rendered(s \o u), e)
    BY <2>1, RenderedAppend
  <2>3. Rendered(Append(u, e)) = Kept(Rendered(u), e)
    BY RenderedAppend
  <2>4. Rendered(s \o u) = Rendered(s) \o Rendered(u) /\ Rendered(s) \in Seq(Block)
          /\ Rendered(u) \in Seq(Block)
    BY <1>0, <1>2
  <2>5. Rendered(s) \o Append(Rendered(u), e) = Append(Rendered(s) \o Rendered(u), e)
    BY <2>4, ConcatAppend
  <2>6. Kept(Rendered(s) \o Rendered(u), e) = Rendered(s) \o Kept(Rendered(u), e)
    BY <2>5 DEF Kept
  <2> QED  BY <2>1, <2>2, <2>3, <2>4, <2>6
<1> HIDE DEF P
<1>3. \A u \in Seq(Block) : u \in P
  BY <1>1, <1>2, BySequence
<1> QED  BY <1>0, <1>3 DEF P

LEMMA RenderedOne ==
  ASSUME NEW x \in Block
  PROVE  Rendered(<<x>>) = IF Renderable(x) THEN <<x>> ELSE <<>>
<1>1. <<>> \in Seq(Block) /\ <<x>> = Append(<<>>, x)
  OBVIOUS
<1>2. Rendered(Append(<<>>, x)) = Kept(<<>>, x)
  BY <1>1, RenderedAppend, RenderedNone
<1> QED  BY <1>1, <1>2 DEF Kept

LEMMA Pair ==
  ASSUME NEW S, NEW x \in S, NEW y \in S
  PROVE  <<x>> \o <<y>> = <<x, y>> /\ <<x, y>> \in Seq(S)
<1>1. <<x>> \in Seq(S) /\ <<x, y>> \in Seq(S)
  OBVIOUS
<1>2. Append(<<x>>, y) = <<x>> \o <<y>>
  BY <1>1, AppendIsConcat
<1>3. Append(<<x>>, y) \in Seq(S) /\ Len(Append(<<x>>, y)) = 2 /\ Len(<<x, y>>) = 2
  BY <1>1
<1>4. \A i \in 1..2 : Append(<<x>>, y)[i] = <<x, y>>[i]
  BY <1>1
<1> QED  BY <1>1, <1>2, <1>3, <1>4, SeqEqual

LEMMA Triple ==
  ASSUME NEW S, NEW x \in S, NEW y \in S, NEW z \in S
  PROVE  <<x, y>> \o <<z>> = <<x, y, z>>
<1>1. <<x, y>> \in Seq(S) /\ <<x, y, z>> \in Seq(S)
  OBVIOUS
<1>2. Append(<<x, y>>, z) = <<x, y>> \o <<z>>
  BY <1>1, AppendIsConcat
<1>3. Append(<<x, y>>, z) \in Seq(S) /\ Len(Append(<<x, y>>, z)) = 3 /\ Len(<<x, y, z>>) = 3
  BY <1>1
<1>4. \A i \in 1..3 : Append(<<x, y>>, z)[i] = <<x, y, z>>[i]
  BY <1>1
<1> QED  BY <1>1, <1>2, <1>3, <1>4, SeqEqual

LEMMA RenderedTwo ==
  ASSUME NEW x \in Block, NEW y \in Block, Renderable(x), Renderable(y)
  PROVE  Rendered(<<x, y>>) = <<x, y>> /\ <<x, y>> \in Seq(Block)
<1>1. <<x>> \in Seq(Block) /\ <<y>> \in Seq(Block) /\ <<x, y>> \in Seq(Block)
  OBVIOUS
<1>3. <<x>> \o <<y>> = <<x, y>>
  BY Pair
<1>2. Rendered(<<x>> \o <<y>>) = Rendered(<<x>>) \o Rendered(<<y>>)
  BY <1>1, RenderedConcat
<1> QED  BY <1>1, <1>2, <1>3, RenderedOne

\* The blocks of this agent.
LEMMA Blocks ==
  ASSUME NEW n \in Nat
  PROVE  /\ Text(n) \in Block /\ Tool(n) \in Block /\ Output(n) \in Block /\ Raw(n) \in Block
         /\ Why(n) \in Block /\ File(n) \in Block /\ \A ok \in BOOLEAN : End(n, ok) \in Block
         /\ \A kind \in Aside : Hidden(kind, n) \in Block
BY DEF Block

LEMMA Visible ==
  ASSUME NEW n
  PROVE  /\ Renderable(Text(n)) /\ Renderable(Tool(n)) /\ Renderable(File(n))
         /\ \A kind \in {"thinking", "meta", "bare"} : ~Renderable(Hidden(kind, n))
BY DEF Text, Tool, File, Hidden, Renderable

-----------------------------------------------------------------------------
(* claude                                                                  *)

\* The parts of which a line of claude is handled.
LEMMA ClaudeParts ==
  ASSUME NEW a, NEW line
  PROVE  LET usage == ClaudeUsage(a, line)
             marks == ClaudePruneIds(usage.a, line)
             sees == ClaudeCue(marks.a, line) IN
         /\ HandleClaude(a, line).a = sees.a
         /\ HandleClaude(a, line).ev =
              ((usage.ev \o marks.ev) \o ((ClaudeInit(line) \o ClaudeTask(line)) \o sees.ev))
                \o (ClaudeResult(line) \o Unless(ClaudeSkip(line), Envelope(line.say)))
BY DEF HandleClaude, Then, Does

\* What those parts come to.
ClaudeComesTo(a, line, b, n, t, sid, task, cue, res, say) ==
  LET usage == ClaudeUsage(a, line)
      marks == ClaudePruneIds(usage.a, line)
      sees == ClaudeCue(marks.a, line) IN
  /\ sees.a = b
  /\ Yields(usage.ev, <<>>, <<>>, n, NoSid) /\ Yields(marks.ev, <<>>, <<>>, 0, NoSid)
  /\ Yields(ClaudeInit(line), <<>>, <<>>, 0, sid)
  /\ Yields(ClaudeTask(line), <<>>, task, t, NoSid) /\ Yields(sees.ev, <<>>, cue, 0, NoSid)
  /\ Yields(ClaudeResult(line), <<>>, res, 0, NoSid)
  /\ Yields(Unless(ClaudeSkip(line), Envelope(line.say)), say, <<>>, 0, NoSid)

\* Parts of which the second measures nothing, and one at most names a session.
LEMMA YieldsMore ==
  ASSUME NEW s, NEW say1, NEW sig1, NEW n, NEW sid1, Yields(s, say1, sig1, n, sid1),
         NEW t, NEW say2, NEW sig2, NEW sid2, Yields(t, say2, sig2, 0, sid2),
         sid1 = NoSid \/ sid2 = NoSid
  PROVE  Yields(s \o t, say1 \o say2, sig1 \o sig2, n, IF sid1 = NoSid THEN sid2 ELSE sid1)
<1>1. Yields(s \o t, say1 \o say2, sig1 \o sig2, IF 0 = 0 THEN n ELSE 0,
             IF sid2 = NoSid THEN sid1 ELSE sid2)
  BY YieldsBoth
<1>2. (IF sid2 = NoSid THEN sid1 ELSE sid2) = (IF sid1 = NoSid THEN sid2 ELSE sid1)
  OBVIOUS
<1> QED  BY <1>1, <1>2

LEMMA ClaudeLeaves ==
  ASSUME NEW a, NEW line, NEW b, NEW n, NEW t, NEW sid, NEW task, NEW cue, NEW res, NEW say,
         ClaudeComesTo(a, line, b, n, t, sid, task, cue, res, say)
  PROVE  Leaves(HandleClaude(a, line), b, say, (task \o cue) \o res, IF t = 0 THEN n ELSE t, sid)
<1> DEFINE usage == ClaudeUsage(a, line)
           marks == ClaudePruneIds(usage.a, line)
           sees == ClaudeCue(marks.a, line)
           u == usage.ev
           i == marks.ev
           q == sees.ev
           r == IF t = 0 THEN n ELSE t
           env == Unless(ClaudeSkip(line), Envelope(line.say))
<1>1. /\ Yields(u, <<>>, <<>>, n, NoSid) /\ Yields(i, <<>>, <<>>, 0, NoSid)
           /\ Yields(ClaudeInit(line), <<>>, <<>>, 0, sid)
      /\ Yields(ClaudeTask(line), <<>>, task, t, NoSid) /\ Yields(q, <<>>, cue, 0, NoSid)
      /\ Yields(ClaudeResult(line), <<>>, res, 0, NoSid) /\ Yields(env, say, <<>>, 0, NoSid)
  BY DEF ClaudeComesTo
<1>2. /\ HandleClaude(a, line).a = b
      /\ HandleClaude(a, line).ev =
           ((u \o i) \o ((ClaudeInit(line) \o ClaudeTask(line)) \o q)) \o (ClaudeResult(line) \o env)
  BY ClaudeParts DEF ClaudeComesTo
<1> HIDE DEF usage, marks, sees, u, i, q, env
<1>3. Yields(u \o i, <<>>, <<>>, n, NoSid)
  <2>1. Yields(u \o i, <<>> \o <<>>, <<>> \o <<>>, n, IF NoSid = NoSid THEN NoSid ELSE NoSid)
    BY <1>1, YieldsMore
  <2> QED  BY <2>1, NoEvents
<1>4. Yields(ClaudeInit(line) \o ClaudeTask(line), <<>>, task, t, sid)
  <2>1. Yields(ClaudeInit(line) \o ClaudeTask(line), <<>> \o <<>>, <<>> \o task,
               IF t = 0 THEN 0 ELSE t, IF NoSid = NoSid THEN sid ELSE NoSid)
    BY <1>1, YieldsBoth
  <2>2. task \in Seq(Signal)
    BY <1>1 DEF Yields
  <2> QED  BY <2>1, <2>2, NoEvents, NoBlocks
<1>5. Yields((ClaudeInit(line) \o ClaudeTask(line)) \o q, <<>>, task \o cue, t, sid)
  <2>1. Yields((ClaudeInit(line) \o ClaudeTask(line)) \o q, <<>> \o <<>>, task \o cue, t,
          IF sid = NoSid THEN NoSid ELSE sid)
    BY <1>1, <1>4, YieldsMore
  <2> QED  BY <2>1, NoEvents
<1>6. Yields((u \o i) \o ((ClaudeInit(line) \o ClaudeTask(line)) \o q), <<>>, task \o cue, r, sid)
  <2>1. Yields((u \o i) \o ((ClaudeInit(line) \o ClaudeTask(line)) \o q), <<>> \o <<>>,
               <<>> \o (task \o cue), IF t = 0 THEN n ELSE t, IF sid = NoSid THEN NoSid ELSE sid)
    BY <1>3, <1>5, YieldsBoth
  <2>2. task \o cue \in Seq(Signal)
    BY <1>5 DEF Yields
  <2> QED  BY <2>1, <2>2, NoEvents, NoBlocks
<1>7. Yields(ClaudeResult(line) \o env, say, res, 0, NoSid)
  <2>1. Yields(ClaudeResult(line) \o env, <<>> \o say, res \o <<>>, 0,
          IF NoSid = NoSid THEN NoSid ELSE NoSid)
    BY <1>1, YieldsMore
  <2>2. say \in Seq(Block) /\ res \in Seq(Signal)
    BY <1>1 DEF Yields
  <2> QED  BY <2>1, <2>2, NoBlocks
<1>8. Yields(((u \o i) \o ((ClaudeInit(line) \o ClaudeTask(line)) \o q)) \o (ClaudeResult(line) \o env),
             say, (task \o cue) \o res, r, sid)
  <2>1. Yields(((u \o i) \o ((ClaudeInit(line) \o ClaudeTask(line)) \o q))
          \o (ClaudeResult(line) \o env),
               <<>> \o say, (task \o cue) \o res, r, IF sid = NoSid THEN NoSid ELSE sid)
    BY <1>6, <1>7, YieldsMore
  <2>2. say \in Seq(Block)
    BY <1>1 DEF Yields
  <2> QED  BY <2>1, <2>2, NoBlocks
<1> QED  BY <1>2, <1>8 DEF Leaves

LEMMA NoSignals ==
  ASSUME NEW s \in Seq(Signal)
  PROVE  /\ (<<>> \o <<>>) \o s = s /\ (<<>> \o s) \o <<>> = s /\ (s \o <<>>) \o <<>> = s
BY NoBlocks, NoEvents

LEMMA ClaudeInitLine ==
  ASSUME NEW a \in Adapters, NEW line, line.holds = {}, line.ty = "init", line.sid \in Nat \ {0}
  PROVE  Leaves(HandleClaude(a, line), a, <<>>, <<>>, 0, line.sid)
<1>1. ClaudeUsage(a, line) = Does(a, <<>>) /\ ClaudePruneIds(a, line) = Does(a, <<>>)
  BY DEF ClaudeUsage, ClaudePruneIds
<1>2. /\ ClaudeInit(line) = <<Harvested(line.sid)>> /\ ClaudeTask(line) = <<>>
      /\ ClaudeResult(line) = <<>> /\ ClaudeCue(a, line) = Does(a, <<>>)
      /\ Unless(ClaudeSkip(line), Envelope(line.say)) = <<>>
  BY DEF ClaudeInit, ClaudeTask, ClaudeResult, ClaudeSkip, ClaudeHidden, ClaudeIsResult, HasType,
         ClaudeCue, Unless
<1>3. Yields(<<Harvested(line.sid)>>, <<>>, <<>>, 0, line.sid)
  BY YieldsNumber
<1>4. ClaudeComesTo(a, line, a, 0, 0, line.sid, <<>>, <<>>, <<>>, <<>>)
  BY <1>1, <1>2, <1>3, DoesFields, YieldsNothing DEF ClaudeComesTo
<1>5. Leaves(HandleClaude(a, line), a, <<>>, (<<>> \o <<>>) \o <<>>, IF 0 = 0 THEN 0 ELSE 0, line.sid)
  BY <1>4, ClaudeLeaves
<1> QED  BY <1>5, NoEvents

LEMMA ClaudeUserLine ==
  ASSUME NEW a \in Adapters, NEW line, line.holds = {}, line.ty = "user"
  PROVE  Leaves(HandleClaude(a, line), [a EXCEPT !.cues = @ \ {line.id}], <<>>,
                Unless(line.id \notin a.cues, <<Cue>>), 0, NoSid)
<1> DEFINE b == [a EXCEPT !.cues = @ \ {line.id}]
           cue == Unless(line.id \notin a.cues, <<Cue>>)
<1>1. ClaudeUsage(a, line) = Does(a, <<>>) /\ ClaudePruneIds(a, line) = Does(a, <<>>)
  BY DEF ClaudeUsage, ClaudePruneIds
<1>2. /\ ClaudeInit(line) = <<>> /\ ClaudeTask(line) = <<>> /\ ClaudeResult(line) = <<>>
      /\ ClaudeCue(a, line) = Awaited(a, line)
      /\ Unless(ClaudeSkip(line), Envelope(line.say)) = <<>>
  BY DEF ClaudeInit, ClaudeTask, ClaudeResult, ClaudeSkip, ClaudeHidden, ClaudeIsResult, HasType,
         ClaudeCue, Unless
<1>3. Awaited(a, line).a = b /\ Yields(Awaited(a, line).ev, <<>>, cue, 0, NoSid)
  BY AwaitedLeaves DEF Leaves
<1>4. cue \in Seq(Signal)
  BY <1>3 DEF Yields
<1> HIDE DEF b, cue
<1>5. ClaudeComesTo(a, line, b, 0, 0, NoSid, <<>>, cue, <<>>, <<>>)
  BY <1>1, <1>2, <1>3, DoesFields, YieldsNothing DEF ClaudeComesTo
<1>6. Leaves(HandleClaude(a, line), b, <<>>, (<<>> \o cue) \o <<>>, IF 0 = 0 THEN 0 ELSE 0, NoSid)
  BY <1>5, ClaudeLeaves
<1>7. Leaves(HandleClaude(a, line), b, <<>>, cue, 0, NoSid)
  BY <1>4, <1>6, NoSignals
<1> QED  BY <1>7 DEF b, cue

\* The agent's words and calls, and the subagent's, with whatever is in them.
LEMMA ClaudeAnyAssistantLine ==
  ASSUME NEW a \in Adapters, NEW line, line.ty = "assistant", line.id \in Nat, line.tok \in Nat,
         line.say \in Seq(Block), line.task \in BOOLEAN, line.ok
  PROVE  LET own == ~line.big /\ ~line.sub
             b == IF own /\ line.tok # 0 THEN [a EXCEPT !.last = line.tok] ELSE a IN
         Leaves(HandleClaude(a, line), Awaiting(b, line),
                IF ClaudeHidden(line) THEN <<>> ELSE line.say,
                IF ClaudeIsResult(line) THEN <<Ended(line.task)>> ELSE <<>>,
                IF own /\ line.tok # a.last THEN line.tok ELSE 0, NoSid)
<1> DEFINE own == ~line.big /\ ~line.sub
           b == IF own /\ line.tok # 0 THEN [a EXCEPT !.last = line.tok] ELSE a
           n == IF own /\ line.tok # a.last THEN line.tok ELSE 0
           usage == ClaudeUsage(a, line)
           shows == IF ClaudeHidden(line) THEN <<>> ELSE line.say
           ended == IF ClaudeIsResult(line) THEN <<Ended(line.task)>> ELSE <<>>
<1>1. usage.a = b /\ Yields(usage.ev, <<>>, <<>>, n, NoSid)
  <2>1. CASE own
    <3>1. usage = Observe(a, line.tok)
      BY <2>1 DEF ClaudeUsage
    <3> QED  BY <2>1, <3>1, ObserveLeaves DEF Leaves
  <2>2. CASE ~own
    <3>1. usage = Does(a, <<>>)
      BY <2>2 DEF ClaudeUsage
    <3> QED  BY <2>2, <3>1, DoesFields, YieldsNothing
  <2> QED  BY <2>1, <2>2
<1> HIDE DEF own, b, n, usage
<1>2. ClaudePruneIds(b, line) = Does(Awaiting(b, line), <<>>)
  BY DEF ClaudePruneIds
<1>3. /\ ClaudeInit(line) = <<>> /\ ClaudeTask(line) = <<>> /\ ClaudeResult(line) = ended
      /\ ClaudeCue(Awaiting(b, line), line) = Does(Awaiting(b, line), <<>>)
      /\ Unless(ClaudeSkip(line), Envelope(line.say))
           = IF ClaudeHidden(line) THEN <<>> ELSE Envelope(line.say)
  BY DEF ClaudeInit, ClaudeTask, ClaudeResult, ClaudeSkip, ClaudeCue, Unless
<1>4. Yields(Unless(ClaudeSkip(line), Envelope(line.say)), shows, <<>>, 0, NoSid)
  BY <1>3, YieldsEnvelope, YieldsNothing
<1>5. Yields(ended, <<>>, ended, 0, NoSid)
  BY YieldsSignal, YieldsNothing, SignalsOf
<1> HIDE DEF shows, ended
<1>6. ended \in Seq(Signal)
  BY <1>5 DEF Yields
<1>7. ClaudeComesTo(a, line, Awaiting(b, line), n, 0, NoSid, <<>>, <<>>, ended, shows)
  BY <1>1, <1>2, <1>3, <1>4, <1>5, DoesFields, YieldsNothing DEF ClaudeComesTo, usage
<1>8. Leaves(HandleClaude(a, line), Awaiting(b, line), shows, (<<>> \o <<>>) \o ended,
             IF 0 = 0 THEN n ELSE 0, NoSid)
  BY <1>7, ClaudeLeaves
<1>9. Leaves(HandleClaude(a, line), Awaiting(b, line), shows, ended, n, NoSid)
  BY <1>6, <1>8, NoSignals
<1> QED  BY <1>9 DEF own, b, n, shows, ended

LEMMA ClaudeAssistantLine ==
  ASSUME NEW a \in Adapters, NEW line, line.ty = "assistant", line.id \in Nat, line.tok \in Nat,
         line.say \in Seq(Block), line.task \in BOOLEAN, line.ok, line.holds = {},
         Rendered(line.say) # <<>>
  PROVE  LET own == ~line.big /\ ~line.sub
             b == IF own /\ line.tok # 0 THEN [a EXCEPT !.last = line.tok] ELSE a IN
         Leaves(HandleClaude(a, line), Awaiting(b, line), line.say, <<>>,
                IF own /\ line.tok # a.last THEN line.tok ELSE 0, NoSid)
<1>1. ~ClaudeHidden(line) /\ ~ClaudeIsResult(line)
  BY DEF ClaudeHidden, ClaudeIsResult, HasType
<1> QED  BY <1>1, ClaudeAnyAssistantLine

LEMMA ClaudeQuietLine ==
  ASSUME NEW a \in Adapters, NEW line,
         \/ line.ty \in {"system", "stream_event"}
         \/ line.ty = "assistant" /\ line.big /\ ~line.own /\ Rendered(line.say) = <<>>
  PROVE  Leaves(HandleClaude(a, line), a, <<>>, <<>>, 0, NoSid)
<1>1. ClaudeUsage(a, line) = Does(a, <<>>) /\ ClaudePruneIds(a, line) = Does(a, <<>>)
  BY DEF ClaudeUsage, ClaudePruneIds, Awaiting
<1>2. /\ ClaudeInit(line) = <<>> /\ ClaudeTask(line) = <<>> /\ ClaudeResult(line) = <<>>
      /\ ClaudeCue(a, line) = Does(a, <<>>)
      /\ Unless(ClaudeSkip(line), Envelope(line.say)) = <<>>
  BY DEF ClaudeInit, ClaudeTask, ClaudeResult, ClaudeSkip, ClaudeHidden, ClaudeIsResult, HasType,
         ClaudeCue, Unless
<1>3. ClaudeComesTo(a, line, a, 0, 0, NoSid, <<>>, <<>>, <<>>, <<>>)
  BY <1>1, <1>2, DoesFields, YieldsNothing DEF ClaudeComesTo
<1>4. Leaves(HandleClaude(a, line), a, <<>>, (<<>> \o <<>>) \o <<>>, IF 0 = 0 THEN 0 ELSE 0, NoSid)
  BY <1>3, ClaudeLeaves
<1> QED  BY <1>4, NoEvents

LEMMA ClaudeOtherLine ==
  ASSUME NEW a \in Adapters, NEW line, line.holds = {}, line.ty = "other", line.say \in Seq(Block)
  PROVE  Leaves(HandleClaude(a, line), a, line.say, <<>>, 0, NoSid)
<1>1. ClaudeUsage(a, line) = Does(a, <<>>) /\ ClaudePruneIds(a, line) = Does(a, <<>>)
  BY DEF ClaudeUsage, ClaudePruneIds
<1>2. /\ ClaudeInit(line) = <<>> /\ ClaudeTask(line) = <<>> /\ ClaudeResult(line) = <<>>
      /\ ClaudeCue(a, line) = Does(a, <<>>)
      /\ Unless(ClaudeSkip(line), Envelope(line.say)) = Envelope(line.say)
  BY DEF ClaudeInit, ClaudeTask, ClaudeResult, ClaudeSkip, ClaudeHidden, ClaudeIsResult, HasType,
         ClaudeCue, Unless
<1>3. ClaudeComesTo(a, line, a, 0, 0, NoSid, <<>>, <<>>, <<>>, line.say)
  BY <1>1, <1>2, DoesFields, YieldsNothing, YieldsEnvelope DEF ClaudeComesTo
<1>4. Leaves(HandleClaude(a, line), a, line.say, (<<>> \o <<>>) \o <<>>, IF 0 = 0 THEN 0 ELSE 0, NoSid)
  BY <1>3, ClaudeLeaves
<1> QED  BY <1>4, NoEvents

LEMMA ClaudeTaskLine ==
  ASSUME NEW a \in Adapters, NEW line, line.id \in Nat, line.ok \in BOOLEAN, line.holds = {},
         line.ty \in {"task_started", "task_notification", "task_updated", "compact_boundary"},
         line.ty = "compact_boundary" => line.tok \in Nat \ {0}
  PROVE  Leaves(HandleClaude(a, line), a, <<>>, ClaudeTask(line),
                IF line.ty = "compact_boundary" THEN line.tok ELSE 0, NoSid)
<1> DEFINE t == IF line.ty = "compact_boundary" THEN line.tok ELSE 0
<1>1. ClaudeUsage(a, line) = Does(a, <<>>) /\ ClaudePruneIds(a, line) = Does(a, <<>>)
  BY DEF ClaudeUsage, ClaudePruneIds
<1>2. /\ ClaudeInit(line) = <<>> /\ ClaudeResult(line) = <<>>
      /\ ClaudeCue(a, line) = Does(a, <<>>)
      /\ Unless(ClaudeSkip(line), Envelope(line.say)) = <<>>
  BY DEF ClaudeInit, ClaudeResult, ClaudeSkip, ClaudeHidden, ClaudeIsResult, HasType,
         ClaudeCue, Unless
<1>3. Yields(ClaudeTask(line), <<>>, ClaudeTask(line), t, NoSid)
  <2>1. CASE line.ty = "task_started"
    BY <2>1, YieldsSignal, SignalsOf DEF ClaudeTask
  <2>2. CASE line.ty = "task_notification" \/ (line.ty = "task_updated" /\ line.ok)
    BY <2>2, YieldsSignal, SignalsOf DEF ClaudeTask
  <2>3. CASE line.ty = "compact_boundary"
    <3>1. ClaudeTask(line) = <<Compacted(line.tok)>>
      BY <2>3 DEF ClaudeTask
    <3> QED  BY <2>3, <3>1, YieldsCompacted
  <2>4. CASE line.ty = "task_updated" /\ ~line.ok
    BY <2>4, YieldsNothing DEF ClaudeTask
  <2> QED  BY <2>1, <2>2, <2>3, <2>4
<1>4. ClaudeTask(line) \in Seq(Signal)
  BY <1>3 DEF Yields
<1> HIDE DEF t
<1>5. ClaudeComesTo(a, line, a, 0, t, NoSid, ClaudeTask(line), <<>>, <<>>, <<>>)
  BY <1>1, <1>2, <1>3, DoesFields, YieldsNothing DEF ClaudeComesTo
<1>6. Leaves(HandleClaude(a, line), a, <<>>, (ClaudeTask(line) \o <<>>) \o <<>>,
             IF t = 0 THEN 0 ELSE t, NoSid)
  BY <1>5, ClaudeLeaves
<1>7. (IF t = 0 THEN 0 ELSE t) = t
  OBVIOUS
<1>8. Leaves(HandleClaude(a, line), a, <<>>, ClaudeTask(line), t, NoSid)
  BY <1>4, <1>6, <1>7, NoSignals
<1> QED  BY <1>8 DEF t

LEMMA ClaudeResultLine ==
  ASSUME NEW a \in Adapters, NEW line, line.ty = "result", line.holds = {}, line.task \in BOOLEAN,
         line.ok \in BOOLEAN, line.say \in Seq(Block)
  PROVE  Leaves(HandleClaude(a, line), a, IF line.ok THEN line.say ELSE <<>>,
                <<Ended(line.task)>>, 0, NoSid)
<1> DEFINE shows == IF line.ok THEN line.say ELSE <<>>
           ended == <<Ended(line.task)>>
<1>1. ClaudeUsage(a, line) = Does(a, <<>>) /\ ClaudePruneIds(a, line) = Does(a, <<>>)
  BY DEF ClaudeUsage, ClaudePruneIds
<1>2. /\ ClaudeInit(line) = <<>> /\ ClaudeTask(line) = <<>>
      /\ ClaudeResult(line) = ended /\ ClaudeCue(a, line) = Does(a, <<>>)
      /\ Unless(ClaudeSkip(line), Envelope(line.say)) = IF line.ok THEN Envelope(line.say) ELSE <<>>
  BY DEF ClaudeInit, ClaudeTask, ClaudeResult, ClaudeSkip, ClaudeHidden, ClaudeIsResult, HasType,
         ClaudeCue, Unless
<1>3. Yields(Unless(ClaudeSkip(line), Envelope(line.say)), shows, <<>>, 0, NoSid)
  BY <1>2, YieldsEnvelope, YieldsNothing
<1>4. Yields(ended, <<>>, ended, 0, NoSid)
  BY YieldsSignal, SignalsOf
<1> HIDE DEF shows, ended
<1>5. ended \in Seq(Signal)
  BY <1>4 DEF Yields
<1>6. ClaudeComesTo(a, line, a, 0, 0, NoSid, <<>>, <<>>, ended, shows)
  BY <1>1, <1>2, <1>3, <1>4, DoesFields, YieldsNothing DEF ClaudeComesTo
<1>7. Leaves(HandleClaude(a, line), a, shows, (<<>> \o <<>>) \o ended, IF 0 = 0 THEN 0 ELSE 0, NoSid)
  BY <1>6, ClaudeLeaves
<1>8. Leaves(HandleClaude(a, line), a, shows, ended, 0, NoSid)
  BY <1>5, <1>7, NoSignals
<1> QED  BY <1>8 DEF shows, ended

-----------------------------------------------------------------------------
(* codex                                                                   *)

LEMMA EnvelopesEmpty ==
  ASSUME NEW say \in Seq(Block)
  PROVE  Envelopes(say) = <<>> <=> say = <<>>
<1>1. Len(say) \in Nat /\ (say = <<>> <=> Len(say) = 0)
  OBVIOUS
<1>2. DOMAIN Envelopes(say) = 1..Len(say)
  BY DEF Envelopes
<1>3. say = <<>> => Envelopes(say) = <<>>
  BY DEF Envelopes
<1>4. ASSUME Envelopes(say) = <<>> PROVE Len(say) = 0
  <2>1. 1..Len(say) = {}
    BY <1>2, <1>4
  <2>2. Len(say) > 0 => 1 \in 1..Len(say)
    BY <1>1
  <2> QED  BY <1>1, <2>1, <2>2
<1> QED  BY <1>1, <1>3, <1>4

LEMMA CodexDedupLeaves ==
  ASSUME NEW a \in Adapters, NEW line, line.id \in Nat, line.say \in Seq(Block)
  PROVE  LET r == Rendered(line.say) IN
         Leaves(CodexDedup(a, line),
                IF r # <<>> THEN [a EXCEPT !.shown = @ \cup {line.id}] ELSE a,
                IF line.id \in a.shown THEN <<>> ELSE r, <<>>, 0, NoSid)
<1> DEFINE r == Rendered(line.say)
<1>1. r \in Seq(Block)
  BY RenderedConcat
<1>2. CodexRender(line) = Envelopes(r) /\ (Envelopes(r) = <<>> <=> r = <<>>)
  BY <1>1, EnvelopesEmpty DEF CodexRender
<1>3. Yields(Envelopes(r), r, <<>>, 0, NoSid)
  BY <1>1, YieldsEnvelopes
<1> HIDE DEF r
<1>4. CASE r = <<>> \/ line.id \in a.shown
  <2>1. CodexDedup(a, line) = Does(a, <<>>)
    BY <1>2, <1>4 DEF CodexDedup
  <2>2. CASE r = <<>>
    BY <2>1, <2>2, DoesFields, YieldsNothing DEF Leaves, r
  <2>3. CASE r # <<>> /\ line.id \in a.shown
    <3>1. a.shown \cup {line.id} = a.shown
      BY <2>3
    <3>2. [a EXCEPT !.shown = @ \cup {line.id}] = a
      BY <3>1 DEF Adapters
    <3>3. Leaves(CodexDedup(a, line), a, <<>>, <<>>, 0, NoSid)
      BY <2>1, DoesFields, YieldsNothing DEF Leaves
    <3>4. Leaves(CodexDedup(a, line), [a EXCEPT !.shown = @ \cup {line.id}], <<>>, <<>>, 0, NoSid)
      BY <3>2, <3>3
    <3> QED  BY <2>3, <3>4 DEF r
  <2> QED  BY <1>4, <2>2, <2>3
<1>5. CASE ~(r = <<>> \/ line.id \in a.shown)
  <2>1. CodexDedup(a, line) = Does([a EXCEPT !.shown = @ \cup {line.id}], Envelopes(r))
    BY <1>2, <1>5 DEF CodexDedup
  <2> QED  BY <1>3, <1>5, <2>1, DoesFields DEF Leaves, r
<1> QED  BY <1>4, <1>5

IsItem(line) ==
  /\ line.ty \in {"item.started", "item.completed"}
  /\ line.id \in Nat /\ line.own \in BOOLEAN /\ line.say \in Seq(Block)

LEMMA CodexItemLine ==
  ASSUME NEW a \in Adapters, NEW line, IsItem(line)
  PROVE  LET r == Rendered(line.say) IN
         Leaves(HandleCodex(a, line),
                IF r # <<>> THEN [a EXCEPT !.shown = @ \cup {line.id}] ELSE a,
                IF line.id \in a.shown THEN <<>> ELSE r,
                Unless(line.ty = "item.started" \/ ~line.own, <<Cue>>), 0, NoSid)
<1> DEFINE r == Rendered(line.say)
           b == IF r # <<>> THEN [a EXCEPT !.shown = @ \cup {line.id}] ELSE a
           say == IF line.id \in a.shown THEN <<>> ELSE r
           dedup == CodexDedup(a, line)
<1>0. /\ line.ty \in {"item.started", "item.completed"}
      /\ line.id \in Nat /\ line.own \in BOOLEAN /\ line.say \in Seq(Block)
  BY DEF IsItem
<1>1. dedup.a = b /\ Yields(dedup.ev, say, <<>>, 0, NoSid)
  BY <1>0, CodexDedupLeaves DEF Leaves
<1> HIDE DEF b, say
<1>2. CASE line.ty = "item.started"
  <2>1. HandleCodex(a, line) = dedup
    BY <1>2 DEF HandleCodex, CodexDrops, CodexStarted
  <2> QED  BY <1>1, <1>2, <2>1 DEF Leaves, Unless, b, say
<1>3. CASE line.ty = "item.completed"
  <2>1. HandleCodex(a, line) = CodexCompleted(a, line)
    BY <1>3 DEF HandleCodex, CodexDrops
  <2>2. CodexCompleted(a, line).a = dedup.a /\ CodexCompleted(a, line).ev = dedup.ev
          \o Unless(~line.own, <<Cue>>)
    BY DEF CodexCompleted, Then, Does
  <2> HIDE DEF dedup
  <2>3. Yields(dedup.ev \o Unless(~line.own, <<Cue>>), say, Unless(~line.own, <<Cue>>), 0, NoSid)
    BY <1>0, <1>1, YieldsWithCue
  <2>4. (line.ty = "item.started" \/ ~line.own) = ~line.own
    BY <1>0, <1>3
  <2> QED  BY <1>1, <2>1, <2>2, <2>3, <2>4 DEF Leaves, b, say
<1> QED  BY <1>0, <1>2, <1>3

IsEnd(line) == line.ty \in {"turn.completed", "turn.failed"} /\ line.say \in Seq(Block)

LEMMA CodexEndLine ==
  ASSUME NEW a \in Adapters, NEW line, IsEnd(line)
  PROVE  Leaves(HandleCodex(a, line), a, line.say, <<Ended(FALSE)>>, 0, NoSid)
<1> USE DEF IsEnd
<1>1. HandleCodex(a, line) = Does(a, Envelope(line.say) \o <<Ended(FALSE)>>)
  BY DEF HandleCodex, CodexDrops, CodexCompletedTurn, CodexFailedTurn
<1>2. Yields(Envelope(line.say) \o <<Ended(FALSE)>>, line.say, <<Ended(FALSE)>>, 0, NoSid)
  BY YieldsEnvelope, YieldsWithSignal, SignalsOf
<1> QED  BY <1>1, <1>2, DoesFields DEF Leaves

LEMMA CodexThreadLine ==
  ASSUME NEW a \in Adapters, NEW line, line.ty = "thread.started", line.sid \in Nat \ {0}, ~line.big
  PROVE  Leaves(HandleCodex(a, line), a, <<>>, <<>>, 0, line.sid)
<1>1. HandleCodex(a, line) = Does(a, <<Harvested(line.sid)>>)
  BY DEF HandleCodex, CodexDrops
<1>2. Yields(<<Harvested(line.sid)>>, <<>>, <<>>, 0, line.sid)
  BY YieldsNumber
<1> QED  BY <1>1, <1>2, DoesFields DEF Leaves

LEMMA CodexQuietLine ==
  ASSUME NEW a \in Adapters, NEW line, line.ty = "other" \/ (line.ty = "thread.started" /\ line.big)
  PROVE  Leaves(HandleCodex(a, line), a, <<>>, <<>>, 0, NoSid)
<1>1. HandleCodex(a, line) = Does(a, <<>>)
  <2>1. CASE line.ty = "other"
    BY <2>1 DEF HandleCodex, CodexDrops
  <2>2. CASE line.ty = "thread.started" /\ line.big
    BY <2>2 DEF HandleCodex, CodexDrops
  <2> QED  BY <2>1, <2>2
<1> QED  BY <1>1, DoesFields, YieldsNothing DEF Leaves

-----------------------------------------------------------------------------
(* cursor                                                                  *)

LEMMA CursorInitLine ==
  ASSUME NEW a \in Adapters, NEW line, line.holds = {}, line.ty = "init", line.sid \in Nat \ {0}, ~line.big
  PROVE  Leaves(HandleCursor(a, line), a, <<>>, <<>>, 0, line.sid)
<1>1. HandleCursor(a, line) = Does(a, <<Harvested(line.sid)>>)
  BY DEF HandleCursor, CursorDrops, HasType
<1>2. Yields(<<Harvested(line.sid)>>, <<>>, <<>>, 0, line.sid)
  BY YieldsNumber
<1> QED  BY <1>1, <1>2, DoesFields DEF Leaves

LEMMA CursorQuietLine ==
  ASSUME NEW a \in Adapters, NEW line, line.ty \in {"other", "tool_call.started"}
  PROVE  Leaves(HandleCursor(a, line), a, <<>>, <<>>, 0, NoSid)
<1>1. HandleCursor(a, line) = Does(a, <<>>)
  BY DEF HandleCursor, CursorDrops, HasType
<1> QED  BY <1>1, DoesFields, YieldsNothing DEF Leaves

\* A line in which the type of one that is dropped is found.
LEMMA CursorDroppedLine ==
  ASSUME NEW a \in Adapters, NEW line, CursorDrops(line)
  PROVE  Leaves(HandleCursor(a, line), a, <<>>, <<>>, 0, NoSid)
<1>1. HandleCursor(a, line) = Does(a, <<>>)
  BY DEF HandleCursor
<1> QED  BY <1>1, DoesFields, YieldsNothing DEF Leaves

LEMMA CursorToolLine ==
  ASSUME NEW a \in Adapters, NEW line, line.ty = "tool_call.completed", line.holds = {},
         line.big \in BOOLEAN, line.own \in BOOLEAN, line.say \in Seq(Block)
  PROVE  Leaves(HandleCursor(a, line), IF line.big THEN a ELSE CursorModelCall(a, line),
                Rendered(line.say), Unless(line.big \/ ~line.own, <<Cue>>), 0, NoSid)
<1> DEFINE r == Rendered(line.say)
<1>1. r \in Seq(Block) /\ Yields(Envelope(r), r, <<>>, 0, NoSid)
  BY RenderedConcat, YieldsEnvelope
<1>2. CASE line.big
  <2>1. HandleCursor(a, line) = Does(a, Envelope(r))
    BY <1>2 DEF HandleCursor, CursorDrops, HasType, CursorOversize
  <2> QED  BY <1>1, <1>2, <2>1, DoesFields DEF Leaves, Unless
<1>3. CASE ~line.big
  <2>1. HandleCursor(a, line) = Does(CursorModelCall(a, line), Envelope(r)
          \o Unless(~line.own, <<Cue>>))
    BY <1>3 DEF HandleCursor, CursorDrops, HasType, CursorCompleted, CursorToolFrame
  <2>2. Yields(Envelope(r) \o Unless(~line.own, <<Cue>>), r, Unless(~line.own, <<Cue>>), 0, NoSid)
    BY <1>1, YieldsWithCue
  <2>3. (line.big \/ ~line.own) = ~line.own
    BY <1>3
  <2> QED  BY <1>3, <2>1, <2>2, <2>3, DoesFields DEF Leaves
<1> QED  BY <1>2, <1>3

LEMMA CursorAssistantLine ==
  ASSUME NEW a \in Adapters, NEW line, line.ty = "assistant", line.holds = {}, line.say \in Seq(Block),
         Rendered(line.say) # <<>>
  PROVE  Leaves(HandleCursor(a, line),
                IF line.call = 0 THEN [a EXCEPT !.unnamed = TRUE]
                ELSE [a EXCEPT !.calls = @ \cup {line.call}], line.say, <<>>, 0, NoSid)
<1>1. HandleCursor(a, line) =
        Does(IF line.call = 0 THEN [a EXCEPT !.unnamed = TRUE]
             ELSE [a EXCEPT !.calls = @ \cup {line.call}], Envelope(line.say))
  BY DEF HandleCursor, CursorDrops, HasType, CursorAssistant, CursorModelCall, CursorAssistantFrame, Unless
<1> QED  BY <1>1, DoesFields, YieldsEnvelope DEF Leaves

LEMMA CursorResultLine ==
  ASSUME NEW a \in Adapters, NEW line, line.ty = "result", line.holds = {}, line.say \in Seq(Block),
         NEW n \in Nat,
         \/ line.tok = 0 /\ n = 0
         \/ line.tok # 0 /\ n # 0 /\ line.tok \div CursorCalls(a) = n
  PROVE  Leaves(HandleCursor(a, line), [a EXCEPT !.calls = {}, !.unnamed = FALSE],
                line.say, <<Ended(FALSE)>>, n, NoSid)
<1> DEFINE tokens == Unless(line.tok = 0, <<Tokens(line.tok \div CursorCalls(a))>>)
<1>1. Yields(tokens, <<>>, <<>>, n, NoSid)
  BY YieldsNothing, YieldsNumber DEF Unless
<1>2. HandleCursor(a, line) = Does([a EXCEPT !.calls = {}, !.unnamed = FALSE],
                                   tokens \o Envelope(line.say) \o <<Ended(FALSE)>>)
  BY DEF HandleCursor, CursorDrops, HasType, CursorResult
<1> HIDE DEF tokens
<1>3. Yields(tokens \o Envelope(line.say), line.say, <<>>, n, NoSid)
  <2>1. Yields(tokens \o Envelope(line.say), <<>> \o line.say, <<>> \o <<>>, n,
               IF NoSid = NoSid THEN NoSid ELSE NoSid)
    BY <1>1, YieldsEnvelope, YieldsMore
  <2> QED  BY <2>1, NoBlocks, NoEvents
<1>4. Yields(tokens \o Envelope(line.say) \o <<Ended(FALSE)>>, line.say, <<Ended(FALSE)>>, n, NoSid)
  <2>1. Yields(<<Ended(FALSE)>>, <<>>, <<Ended(FALSE)>>, 0, NoSid)
    BY YieldsSignal, SignalsOf
  <2>2. Yields(tokens \o Envelope(line.say) \o <<Ended(FALSE)>>, line.say \o <<>>,
               <<>> \o <<Ended(FALSE)>>, n, IF NoSid = NoSid THEN NoSid ELSE NoSid)
    BY <1>3, <2>1, YieldsMore
  <2>3. <<Ended(FALSE)>> \in Seq(Signal)
    BY <2>1 DEF Yields
  <2> QED  BY <2>2, <2>3, NoBlocks
<1> QED  BY <1>2, <1>4, DoesFields DEF Leaves


-----------------------------------------------------------------------------
(* gemini                                                                  *)

LEMMA FlushLeaves ==
  ASSUME NEW a \in Adapters
  PROVE  Leaves(FlushText(a), [a EXCEPT !.text = <<>>], a.text, <<>>, 0, NoSid)
<1>1. a.text \in Seq(Block)
  BY DEF Adapters
<1> QED  BY <1>1, DoesFields, YieldsEnvelope DEF FlushText, Leaves

LEMMA GeminiInitLine ==
  ASSUME NEW a \in Adapters, NEW line, line.ty = "init", ~line.big, line.sid \in Nat \ {0}
  PROVE  Leaves(HandleGemini(a, line), [a EXCEPT !.text = <<>>], a.text, <<>>, 0,
                IF a.resumed THEN NoSid ELSE line.sid)
<1> DEFINE b == [a EXCEPT !.text = <<>>]
           flush == FlushText(a)
           names == Unless(a.resumed, <<Harvested(line.sid)>>)
           sid == IF a.resumed THEN NoSid ELSE line.sid
<1>1. flush.a = b /\ Yields(flush.ev, a.text, <<>>, 0, NoSid)
  BY FlushLeaves DEF Leaves
<1>2. HandleGemini(a, line).a = b /\ HandleGemini(a, line).ev = flush.ev \o names
  <2>1. HandleGemini(a, line) = GeminiInit(a, line)
    BY DEF HandleGemini, GeminiDrops
  <2>2. GeminiInit(a, line).a = b /\ GeminiInit(a, line).ev = flush.ev
          \o Unless(flush.a.resumed, <<Harvested(line.sid)>>)
    BY <1>1 DEF GeminiInit, Then, Does
  <2>3. flush.a.resumed = a.resumed
    BY <1>1 DEF Adapters
  <2> QED  BY <2>1, <2>2, <2>3
<1>3. Yields(names, <<>>, <<>>, 0, sid)
  <2>1. Yields(<<Harvested(line.sid)>>, <<>>, <<>>, 0, line.sid)
    BY YieldsNumber
  <2> QED  BY <2>1, YieldsNothing DEF Unless
<1>4. a.text \in Seq(Block)
  BY DEF Adapters
<1> HIDE DEF b, flush, names, sid
<1>5. Yields(flush.ev \o names, a.text \o <<>>, <<>> \o <<>>, 0, IF NoSid = NoSid THEN sid ELSE NoSid)
  BY <1>1, <1>3, YieldsMore
<1>6. Yields(flush.ev \o names, a.text, <<>>, 0, sid)
  BY <1>4, <1>5, NoBlocks, NoEvents
<1> QED  BY <1>2, <1>6 DEF Leaves, b, sid

LEMMA GeminiMessageLine ==
  ASSUME NEW a \in Adapters, NEW line, line.ty = "message"
  PROVE  Leaves(HandleGemini(a, line), [a EXCEPT !.text = @ \o line.say], <<>>, <<>>, 0, NoSid)
<1>1. HandleGemini(a, line) = Does([a EXCEPT !.text = @ \o line.say], <<>>)
  BY DEF HandleGemini, GeminiDrops, GeminiMessage
<1> QED  BY <1>1, DoesFields, YieldsNothing DEF Leaves

LEMMA GeminiToolLine ==
  ASSUME NEW a \in Adapters, NEW line, line.ty = "tool_use", line.id \in Nat, line.say \in Seq(Block)
  PROVE  LET r == Rendered(line.say)
             b == Awaiting(a, line) IN
         Leaves(HandleGemini(a, line), IF r = <<>> THEN b ELSE [b EXCEPT !.text = <<>>],
                IF r = <<>> THEN <<>> ELSE a.text \o r, <<>>, 0, NoSid)
<1> DEFINE r == Rendered(line.say)
           b == Awaiting(a, line)
           flush == FlushText(b)
<1>1. r \in Seq(Block) /\ Yields(Envelope(r), r, <<>>, 0, NoSid) /\ GeminiRender(line) = Envelope(r)
  BY RenderedConcat, YieldsEnvelope DEF GeminiRender
<1>2. Envelope(r) = <<>> <=> r = <<>>
  <2>1. <<Frame(r)>> # <<>>
    OBVIOUS
  <2> QED  BY <2>1 DEF Envelope, Unless
<1>3. b \in Adapters /\ b.text = a.text
  BY AwaitingType DEF Awaiting, Adapters
<1>4. HandleGemini(a, line) = GeminiToolUse(a, line)
  BY DEF HandleGemini, GeminiDrops
<1>5. CASE r = <<>>
  <2>1. GeminiToolUse(a, line) = Does(b, <<>>)
    BY <1>1, <1>2, <1>5 DEF GeminiToolUse
  <2> QED  BY <1>4, <1>5, <2>1, DoesFields, YieldsNothing DEF Leaves
<1>6. CASE r # <<>>
  <2>1. flush.a = [b EXCEPT !.text = <<>>] /\ Yields(flush.ev, b.text, <<>>, 0, NoSid)
    BY <1>3, FlushLeaves DEF Leaves
  <2>2. GeminiToolUse(a, line).a = flush.a /\ GeminiToolUse(a, line).ev = flush.ev \o GeminiRender(line)
    BY <1>1, <1>2, <1>6 DEF GeminiToolUse, Then, Does
  <2> HIDE DEF r, b, flush
  <2>3. Yields(flush.ev \o Envelope(r), b.text \o r, <<>> \o <<>>, 0,
          IF NoSid = NoSid THEN NoSid ELSE NoSid)
    BY <1>1, <2>1, YieldsMore
  <2>4. Yields(flush.ev \o Envelope(r), a.text \o r, <<>>, 0, NoSid)
    BY <1>3, <2>3, NoEvents
  <2>5. HandleGemini(a, line).a = [b EXCEPT !.text = <<>>]
          /\ HandleGemini(a, line).ev = flush.ev \o Envelope(r)
    BY <1>1, <1>4, <2>1, <2>2
  <2>6. Leaves(HandleGemini(a, line), [b EXCEPT !.text = <<>>], a.text \o r, <<>>, 0, NoSid)
    BY <2>4, <2>5 DEF Leaves
  <2> QED  BY <1>6, <2>6 DEF r, b
<1> QED  BY <1>5, <1>6

LEMMA GeminiAnswerLine ==
  ASSUME NEW a \in Adapters, NEW line, line.ty = "tool_result", line.big => line.id \notin a.cues
  PROVE  Leaves(HandleGemini(a, line), [a EXCEPT !.cues = @ \ {line.id}], <<>>,
                Unless(line.id \notin a.cues, <<Cue>>), 0, NoSid)
<1>1. CASE line.big
  <2>1. HandleGemini(a, line) = Does(a, <<>>) /\ line.id \notin a.cues
    BY <1>1 DEF HandleGemini, GeminiDrops
  <2>2. a.cues \ {line.id} = a.cues
    BY <2>1
  <2>3. [a EXCEPT !.cues = @ \ {line.id}] = a
    BY <2>2 DEF Adapters
  <2>4. Leaves(HandleGemini(a, line), a, <<>>, <<>>, 0, NoSid)
    BY <2>1, DoesFields, YieldsNothing DEF Leaves
  <2>5. Leaves(HandleGemini(a, line), [a EXCEPT !.cues = @ \ {line.id}], <<>>, <<>>, 0, NoSid)
    BY <2>3, <2>4
  <2>6. Unless(line.id \notin a.cues, <<Cue>>) = <<>>
    BY <2>1 DEF Unless
  <2> QED  BY <2>5, <2>6
<1>2. CASE ~line.big
  <2>1. HandleGemini(a, line) = Awaited(a, line)
    BY <1>2 DEF HandleGemini, GeminiDrops
  <2> QED  BY <2>1, AwaitedLeaves
<1> QED  BY <1>1, <1>2

LEMMA GeminiQuietLine ==
  ASSUME NEW a \in Adapters, NEW line, line.ty = "other"
  PROVE  Leaves(HandleGemini(a, line), a, <<>>, <<>>, 0, NoSid)
<1>1. HandleGemini(a, line) = Does(a, <<>>)
  BY DEF HandleGemini, GeminiDrops
<1> QED  BY <1>1, DoesFields, YieldsNothing DEF Leaves

LEMMA GeminiGoodLine ==
  ASSUME NEW a \in Adapters, NEW line, line.ty = "result", line.ok, line.say \in Seq(Block),
         NEW n \in Nat, GeminiReading(line) = n
  PROVE  Leaves(HandleGemini(a, line),
                IF n = 0 THEN [a EXCEPT !.text = <<>>] ELSE [a EXCEPT !.text = <<>>, !.last = n],
                a.text \o line.say, <<Ended(FALSE)>>, IF n = a.last THEN 0 ELSE n, NoSid)
<1> DEFINE flush == FlushText(a)
           b == [a EXCEPT !.text = <<>>]
           seen == Observe(b, n)
           c == IF n = 0 THEN b ELSE [b EXCEPT !.last = n]
           env == Envelope(line.say)
           m == IF n = b.last THEN 0 ELSE n
<1>1. flush.a = b /\ Yields(flush.ev, a.text, <<>>, 0, NoSid)
  BY FlushLeaves DEF Leaves
<1>2. b \in Adapters /\ b.last = a.last /\ a.text \in Seq(Block)
  <2>1. a.text \in Seq(Block) /\ <<>> \in Seq(Block)
    BY DEF Adapters
  <2>2. b \in Adapters /\ b.last = a.last
    BY <2>1 DEF Adapters
  <2> QED  BY <2>1, <2>2
<1>3. seen.a = c /\ Yields(seen.ev, <<>>, <<>>, m, NoSid)
  <2> HIDE DEF b
  <2>1. Leaves(Observe(b, n), IF n = 0 THEN b ELSE [b EXCEPT !.last = n], <<>>, <<>>,
               IF n = b.last THEN 0 ELSE n, NoSid)
    BY <1>2, ObserveLeaves
  <2> QED  BY <2>1 DEF Leaves
<1>4. HandleGemini(a, line).a = c /\ HandleGemini(a, line).ev = flush.ev
        \o (seen.ev \o (env \o <<Ended(FALSE)>>))
  <2>1. HandleGemini(a, line) = GeminiResult(a, line)
    BY DEF HandleGemini, GeminiDrops
  <2>2. /\ GeminiResult(a, line).a = GeminiGood(b, line).a
        /\ GeminiResult(a, line).ev = flush.ev \o GeminiGood(b, line).ev
    BY <1>1 DEF GeminiResult, Then, Does
  <2>3. GeminiGood(b, line).a = seen.a /\ GeminiGood(b, line).ev = seen.ev \o (env \o <<Ended(FALSE)>>)
    BY DEF GeminiGood, Then, Does
  <2> QED  BY <1>3, <2>1, <2>2, <2>3
<1>5. Yields(env \o <<Ended(FALSE)>>, line.say, <<Ended(FALSE)>>, 0, NoSid)
  BY YieldsEnvelope, YieldsWithSignal, SignalsOf
<1> HIDE DEF flush, b, seen, c, env, m
<1>6. Yields(seen.ev \o (env \o <<Ended(FALSE)>>), line.say, <<Ended(FALSE)>>, m, NoSid)
  <2>1. Yields(seen.ev \o (env \o <<Ended(FALSE)>>), <<>> \o line.say, <<>> \o <<Ended(FALSE)>>, m,
               IF NoSid = NoSid THEN NoSid ELSE NoSid)
    BY <1>3, <1>5, YieldsMore
  <2>2. <<Ended(FALSE)>> \in Seq(Signal)
    BY <1>5 DEF Yields
  <2> QED  BY <2>1, <2>2, NoBlocks
<1>7. Yields(flush.ev \o (seen.ev \o (env \o <<Ended(FALSE)>>)), a.text \o line.say,
        <<Ended(FALSE)>>, m, NoSid)
  <2>1. Yields(flush.ev \o (seen.ev \o (env \o <<Ended(FALSE)>>)), a.text \o line.say, <<>>
          \o <<Ended(FALSE)>>,
               IF m = 0 THEN 0 ELSE m, IF NoSid = NoSid THEN NoSid ELSE NoSid)
    BY <1>1, <1>6, YieldsBoth
  <2>2. <<Ended(FALSE)>> \in Seq(Signal) /\ (IF m = 0 THEN 0 ELSE m) = m
    BY <1>5 DEF Yields
  <2> QED  BY <2>1, <2>2, NoBlocks
<1>8. m = (IF n = a.last THEN 0 ELSE n)
  BY <1>2 DEF m
<1>9. c = IF n = 0 THEN [a EXCEPT !.text = <<>>] ELSE [a EXCEPT !.text = <<>>, !.last = n]
  BY DEF c, b
<1> QED  BY <1>4, <1>7, <1>8, <1>9 DEF Leaves

LEMMA GeminiBadLine ==
  ASSUME NEW a \in Adapters, NEW line, NEW x \in Block, NEW y \in Block,
         line.ty = "result", ~line.ok, line.say = <<x, y>>
  PROVE  Leaves(HandleGemini(a, line), [a EXCEPT !.text = <<>>], a.text \o line.say,
                <<Ended(FALSE)>>, 0, NoSid)
<1> DEFINE flush == FlushText(a)
           bad == <<Frame(<<x>>), Frame(<<y>>), Ended(FALSE)>>
<1>1. flush.a = [a EXCEPT !.text = <<>>] /\ Yields(flush.ev, a.text, <<>>, 0, NoSid)
  BY FlushLeaves DEF Leaves
<1>2. HandleGemini(a, line).a = flush.a /\ HandleGemini(a, line).ev = flush.ev \o bad
  <2>1. HandleGemini(a, line) = GeminiResult(a, line)
    BY DEF HandleGemini, GeminiDrops
  <2>2. GeminiBad(flush.a, line) = Does(flush.a, bad)
    BY DEF GeminiBad
  <2> HIDE DEF bad
  <2>3. GeminiResult(a, line).a = GeminiBad(flush.a, line).a
          /\ GeminiResult(a, line).ev = flush.ev \o GeminiBad(flush.a, line).ev
    BY DEF GeminiResult, Then, Does
  <2>4. GeminiBad(flush.a, line).a = flush.a /\ GeminiBad(flush.a, line).ev = bad
    BY <2>2, DoesFields
  <2> QED  BY <2>1, <2>3, <2>4
<1>3. Yields(bad, line.say, <<Ended(FALSE)>>, 0, NoSid)
  <2>1. <<x>> \in Seq(Block) /\ <<y>> \in Seq(Block)
    OBVIOUS
  <2>2. /\ Yields(<<Frame(<<x>>)>>, <<x>>, <<>>, 0, NoSid)
             /\ Yields(<<Frame(<<y>>)>>, <<y>>, <<>>, 0, NoSid)
        /\ Yields(<<Ended(FALSE)>>, <<>>, <<Ended(FALSE)>>, 0, NoSid)
    BY <2>1, YieldsFrame, YieldsSignal, SignalsOf
  <2>3. Yields(<<Frame(<<x>>)>> \o <<Frame(<<y>>)>>, <<x>> \o <<y>>, <<>>, 0, NoSid)
    <3>1. Yields(<<Frame(<<x>>)>> \o <<Frame(<<y>>)>>, <<x>> \o <<y>>, <<>> \o <<>>, 0,
            IF NoSid = NoSid THEN NoSid ELSE NoSid)
      BY <2>2, YieldsMore
    <3> QED  BY <3>1, NoEvents
  <2>4. Yields((<<Frame(<<x>>)>> \o <<Frame(<<y>>)>>) \o <<Ended(FALSE)>>, <<x>> \o <<y>>,
          <<Ended(FALSE)>>, 0, NoSid)
    BY <2>3, YieldsWithSignal, SignalsOf
  <2>5. (<<Frame(<<x>>)>> \o <<Frame(<<y>>)>>) \o <<Ended(FALSE)>> = bad
    <3>1. Frame(<<x>>) \in Event /\ Frame(<<y>>) \in Event /\ Ended(FALSE) \in Event
      <4>1. Ended(FALSE) \in Signal
        BY SignalsOf
      <4>2. Signal \subseteq Event
        BY DEF Event
      <4> QED  BY <2>1, <4>1, <4>2 DEF Frame, Event
    <3> HIDE DEF bad
    <3>2. <<Frame(<<x>>)>> \o <<Frame(<<y>>)>> = <<Frame(<<x>>), Frame(<<y>>)>>
      BY <3>1, Pair
    <3>3. <<Frame(<<x>>), Frame(<<y>>)>> \o <<Ended(FALSE)>>
            = <<Frame(<<x>>), Frame(<<y>>), Ended(FALSE)>>
      BY <3>1, Triple
    <3> QED  BY <3>2, <3>3 DEF bad
  <2>6. <<x>> \o <<y>> = <<x, y>>
    BY Pair
  <2> QED  BY <2>4, <2>5, <2>6
<1> HIDE DEF flush, bad
<1>4. Yields(flush.ev \o bad, a.text \o line.say, <<>> \o <<Ended(FALSE)>>, 0,
        IF NoSid = NoSid THEN NoSid ELSE NoSid)
  BY <1>1, <1>3, YieldsMore
<1>5. <<Ended(FALSE)>> \in Seq(Signal)
  BY <1>3 DEF Yields
<1>6. Yields(flush.ev \o bad, a.text \o line.say, <<Ended(FALSE)>>, 0, NoSid)
  BY <1>4, <1>5, NoBlocks
<1> QED  BY <1>1, <1>2, <1>6 DEF Leaves

-----------------------------------------------------------------------------
(* pi                                                                      *)

LEMMA PiSessionLine ==
  ASSUME NEW a \in Adapters, NEW line, line.ty = "session", ~line.big, line.sid \in Nat \ {0}
  PROVE  Leaves(HandlePi(a, line), a, <<>>, <<>>, 0, IF a.resumed THEN NoSid ELSE line.sid)
<1>1. HandlePi(a, line) = Does(a, Unless(a.resumed, <<Harvested(line.sid)>>))
  BY DEF HandlePi, PiDrops, PiSession
<1>2. Yields(<<Harvested(line.sid)>>, <<>>, <<>>, 0, line.sid)
  BY YieldsNumber
<1>3. Yields(Unless(a.resumed, <<Harvested(line.sid)>>), <<>>, <<>>, 0,
        IF a.resumed THEN NoSid ELSE line.sid)
  BY <1>2, YieldsNothing DEF Unless
<1> QED  BY <1>1, <1>3, DoesFields DEF Leaves

LEMMA PiQuietLine ==
  ASSUME NEW a \in Adapters, NEW line,
         line.ty \in {"other", "tool_execution_end"} \/ (line.ty = "session" /\ line.big)
  PROVE  Leaves(HandlePi(a, line), a, <<>>, <<>>, 0, NoSid)
<1>1. HandlePi(a, line) = Does(a, <<>>)
  <2>1. CASE line.ty \in {"other", "tool_execution_end"}
    BY <2>1 DEF HandlePi, PiDrops
  <2>2. CASE line.ty = "session" /\ line.big
    BY <2>2 DEF HandlePi, PiDrops
  <2> QED  BY <2>1, <2>2
<1> QED  BY <1>1, DoesFields, YieldsNothing DEF Leaves

LEMMA PiMessageLine ==
  ASSUME NEW a \in Adapters, NEW line, line.ty = "message_end", line.say \in Seq(Block),
         line.tok \in Nat
  PROVE  Leaves(HandlePi(a, line), IF line.tok = 0 THEN a ELSE [a EXCEPT !.last = line.tok],
                Rendered(line.say), <<>>, IF line.tok = a.last THEN 0 ELSE line.tok, NoSid)
<1> DEFINE r == Rendered(line.say)
           seen == Observe(a, line.tok)
           b == IF line.tok = 0 THEN a ELSE [a EXCEPT !.last = line.tok]
           n == IF line.tok = a.last THEN 0 ELSE line.tok
<1>1. r \in Seq(Block) /\ Yields(Envelopes(r), r, <<>>, 0, NoSid)
  BY RenderedConcat, YieldsEnvelopes
<1>2. seen.a = b /\ Yields(seen.ev, <<>>, <<>>, n, NoSid)
  BY ObserveLeaves DEF Leaves
<1>3. HandlePi(a, line) = Does(seen.a, Envelopes(r) \o seen.ev)
  BY DEF HandlePi, PiDrops, PiMessageEnd, PiReading, PiBlocks
<1> HIDE DEF r, seen, b, n
<1>4. Yields(Envelopes(r) \o seen.ev, r \o <<>>, <<>> \o <<>>, IF n = 0 THEN 0 ELSE n,
             IF NoSid = NoSid THEN NoSid ELSE NoSid)
  BY <1>1, <1>2, YieldsBoth
<1>5. (IF n = 0 THEN 0 ELSE n) = n
  OBVIOUS
<1>6. Yields(Envelopes(r) \o seen.ev, r, <<>>, n, NoSid)
  BY <1>1, <1>4, <1>5, NoBlocks, NoEvents
<1> QED  BY <1>2, <1>3, <1>6, DoesFields DEF Leaves, r, b, n

LEMMA PiEndLine ==
  ASSUME NEW a \in Adapters, NEW line, line.ty = "agent_end", line.say \in Seq(Block)
  PROVE  Leaves(HandlePi(a, line), a, line.say, <<Ended(FALSE)>>, 0, NoSid)
<1>1. HandlePi(a, line) = Does(a, Envelope(line.say) \o <<Ended(FALSE)>>)
  BY DEF HandlePi, PiDrops, PiAgentEnd
<1>2. Yields(Envelope(line.say) \o <<Ended(FALSE)>>, line.say, <<Ended(FALSE)>>, 0, NoSid)
  BY YieldsEnvelope, YieldsWithSignal, SignalsOf
<1> QED  BY <1>1, <1>2, DoesFields DEF Leaves

-----------------------------------------------------------------------------
(* hermes                                                                  *)

LEMMA HermesInitLine ==
  ASSUME NEW a \in Adapters, NEW line, line.ty = "init", ~line.big, line.sid \in Nat \ {0}
  PROVE  Leaves(HandleHermes(a, line), a, <<>>, <<>>, 0, line.sid)
<1>1. HandleHermes(a, line) = Does(a, <<Harvested(line.sid)>>)
  BY DEF HandleHermes, HermesForwards
<1>2. Yields(<<Harvested(line.sid)>>, <<>>, <<>>, 0, line.sid)
  BY YieldsNumber
<1> QED  BY <1>1, <1>2, DoesFields DEF Leaves

LEMMA HermesReportLine ==
  ASSUME NEW a \in Adapters, NEW line, line.ty = "context_tokens", ~line.big, line.tok \in Nat
  PROVE  Leaves(HandleHermes(a, line), IF line.tok = 0 THEN a ELSE [a EXCEPT !.last = line.tok],
                <<>>, <<>>, IF line.tok = a.last THEN 0 ELSE line.tok, NoSid)
<1>1. HandleHermes(a, line) = Observe(a, line.tok)
  BY DEF HandleHermes, HermesForwards
<1> QED  BY <1>1, ObserveLeaves

LEMMA HermesEndLine ==
  ASSUME NEW a \in Adapters, NEW line, line.ty = "error" \/ (line.ty = "result" /\ ~line.big),
         line.say \in Seq(Block)
  PROVE  Leaves(HandleHermes(a, line), a, line.say, <<Ended(FALSE)>>, 0, NoSid)
<1>1. HandleHermes(a, line) = Does(a, Envelope(line.say) \o <<Ended(FALSE)>>)
  <2>1. CASE line.ty = "error"
    BY <2>1 DEF HandleHermes, HermesForwards, HermesError
  <2>2. CASE line.ty = "result" /\ ~line.big
    BY <2>2 DEF HandleHermes, HermesForwards, HermesError
  <2> QED  BY <2>1, <2>2
<1>2. Yields(Envelope(line.say) \o <<Ended(FALSE)>>, line.say, <<Ended(FALSE)>>, 0, NoSid)
  BY YieldsEnvelope, YieldsWithSignal, SignalsOf
<1> QED  BY <1>1, <1>2, DoesFields DEF Leaves

LEMMA HermesShowsLine ==
  ASSUME NEW a \in Adapters, NEW line, line.ty \in {"assistant", "user", "other"},
           line.say \in Seq(Block)
  PROVE  Leaves(HandleHermes(a, line), a, line.say, <<>>, 0, NoSid)
<1>1. HandleHermes(a, line) = Does(a, Envelope(line.say))
  BY DEF HandleHermes, HermesForwards
<1> QED  BY <1>1, DoesFields, YieldsEnvelope DEF Leaves

-----------------------------------------------------------------------------
(* What a step comes to                                                    *)

\* Handling a line leaves b, and what was had before has become what the step
\* says it should; m is the reading given (0: none).
Tells(d, a, line, b, says, signals, m, sid) ==
  /\ Handle(d, a, line).a = b /\ b \in Adapters
  /\ says \in Seq(Block) /\ signals \in Seq(Signal) /\ m \in Nat
  /\ \A g \in Got :
       LET h == Received(g, Handle(d, a, line).ev) IN
       /\ h \in Got
       /\ h.shown \o b.text = (g.shown \o a.text) \o says
       /\ h.signals = g.signals \o signals
       /\ h.known = IF sid = NoSid THEN g.known ELSE sid
       /\ h.reading = IF m = 0 THEN g.reading ELSE m

LEMMA TellsFrom ==
  ASSUME NEW d, NEW a, NEW line, NEW b, NEW say, NEW says, NEW signals, NEW m, NEW sid,
         Leaves(Handle(d, a, line), b, say, signals, m, sid),
         a \in Adapters, b \in Adapters, says \in Seq(Block), say \o b.text = a.text \o says
  PROVE  Tells(d, a, line, b, says, signals, m, sid)
<1> DEFINE evs == Handle(d, a, line).ev
<1>1. /\ Handle(d, a, line).a = b /\ Yields(evs, say, signals, m, sid)
  BY DEF Leaves
<1>2. say \in Seq(Block) /\ signals \in Seq(Signal) /\ m \in Nat /\ sid \in Nat
  BY <1>1 DEF Yields
<1>3. a.text \in Seq(Block) /\ b.text \in Seq(Block)
  BY DEF Adapters
<1> HIDE DEF evs
<1>4. ASSUME NEW g \in Got
      PROVE  LET h == Received(g, evs) IN
             /\ h \in Got
             /\ h.shown \o b.text = (g.shown \o a.text) \o says
             /\ h.signals = g.signals \o signals
             /\ h.known = IF sid = NoSid THEN g.known ELSE sid
             /\ h.reading = IF m = 0 THEN g.reading ELSE m
  <2> DEFINE h == Received(g, evs)
  <2>1. h = After(g, say, signals, m, sid)
    BY <1>1 DEF Yields
  <2>2. h \in Got
    BY <1>2, <2>1, AfterType
  <2>3. /\ h.shown = g.shown \o say /\ h.signals = g.signals \o signals
        /\ h.known = (IF sid = NoSid THEN g.known ELSE sid)
        /\ h.reading = (IF m = 0 THEN g.reading ELSE m)
    BY <2>1 DEF After
  <2> HIDE DEF h
  <2>4. g.shown \in Seq(Block)
    BY DEF Got
  <2>5. h.shown \o b.text = (g.shown \o a.text) \o says
    <3>1. (g.shown \o say) \o b.text = g.shown \o (say \o b.text)
      BY <1>2, <1>3, <2>4, SaysAssoc
    <3>2. (g.shown \o a.text) \o says = g.shown \o (a.text \o says)
      BY <1>3, <2>4, SaysAssoc
    <3> QED  BY <2>3, <3>1, <3>2
  <2> QED  BY <2>2, <2>3, <2>5 DEF h
<1> QED  BY <1>1, <1>2, <1>4 DEF Tells, evs

\* The most usual case: no text is gathered.
LEMMA TellsPlainly ==
  ASSUME NEW d, NEW a, NEW line, NEW b, NEW says, NEW signals, NEW m, NEW sid,
         Leaves(Handle(d, a, line), b, says, signals, m, sid),
         a \in Adapters, b \in Adapters, a.text = <<>>, b.text = <<>>
  PROVE  Tells(d, a, line, b, says, signals, m, sid)
<1>1. says \in Seq(Block)
  BY DEF Leaves, Yields
<1>2. says \o b.text = a.text \o says
  BY <1>1, NoBlocks
<1> QED  BY <1>1, <1>2, TellsFrom

\* What a reader sees of a line.
LineIs(line, ty, id, big, own, tok, say) ==
  /\ line.ty = ty /\ line.id = id /\ line.big = big /\ line.own = own
  /\ line.sub = FALSE /\ line.tok = tok /\ line.say = say /\ line.holds = {}
  /\ line.task = FALSE /\ line.ok = TRUE

-----------------------------------------------------------------------------
(* Arithmetic                                                              *)

LEMMA TimesLeq ==
  ASSUME NEW k \in Nat, NEW x \in Nat, NEW y \in Nat, x <= y
  PROVE  k * x <= k * y
<1>1. PICK d \in Nat : y = x + d
  <2>1. y - x \in Nat /\ y = x + (y - x)
    OBVIOUS
  <2> QED  BY <2>1
<1>2. k * y = k * x + k * d
  BY <1>1
<1>3. k * d \in Nat /\ k * x \in Nat
  OBVIOUS
<1> QED  BY <1>2, <1>3

\* The mean of n numbers is between the lowest and the highest of them.
LEMMA MeanBetween ==
  ASSUME NEW n \in Nat \ {0}, NEW s \in Nat, NEW lo \in Nat, NEW hi \in Nat,
         n * lo <= s, s <= n * hi
  PROVE  s \div n \in Nat /\ lo <= s \div n /\ s \div n <= hi
<1> DEFINE q == s \div n
           r == s % n
<1>1. q \in Int /\ s = n * q + r /\ r \in 0..(n - 1)
  OBVIOUS
<1> HIDE DEF q, r
<1>2. q \in Nat
  <2>1. SUFFICES ASSUME q <= 0 - 1 PROVE FALSE
    BY <1>1
  <2>2. PICK d \in Nat : q = 0 - 1 - d
    <3>1. 0 - 1 - q \in Nat /\ q = 0 - 1 - (0 - 1 - q)
      BY <1>1, <2>1
    <3> QED  BY <3>1
  <2>3. n * q = 0 - n - n * d /\ n * d \in Nat
    BY <2>2
  <2> QED  BY <1>1, <2>3
<1>3. lo <= q
  <2>1. SUFFICES ASSUME q + 1 <= lo PROVE FALSE
    BY <1>2
  <2>2. n * (q + 1) <= n * lo /\ n * (q + 1) = n * q + n
    BY <1>2, <2>1, TimesLeq
  <2>3. n * q \in Nat /\ n * lo \in Nat
    BY <1>2
  <2> QED  BY <1>1, <2>2, <2>3
<1>4. q <= hi
  <2>1. SUFFICES ASSUME hi + 1 <= q PROVE FALSE
    BY <1>2
  <2>2. n * (hi + 1) <= n * q /\ n * (hi + 1) = n * hi + n
    BY <1>2, <2>1, TimesLeq
  <2>3. n * q \in Nat /\ n * hi \in Nat
    BY <1>2
  <2> QED  BY <1>1, <2>2, <2>3
<1> QED  BY <1>2, <1>3, <1>4 DEF q

\* Fewer of them have a higher mean.
LEMMA MeanOfFewer ==
  ASSUME NEW n \in Nat, NEW m \in 1..n, NEW s \in Nat, n <= s
  PROVE  s \div m \in Nat \ {0}
<1>1. m * 1 <= s /\ s <= m * s
  <2>1. m * s = s * m /\ s * 1 <= s * m
    BY TimesLeq
  <2> QED  BY <2>1
<1>2. s \div m \in Nat /\ 1 <= s \div m
  BY <1>1, MeanBetween
<1> QED  BY <1>2

\* One call more is billed.
LEMMA OneMore ==
  ASSUME NEW k \in Nat, NEW low \in Nat, NEW high \in Nat, NEW sum \in Nat, NEW s \in Nat,
         NEW lo \in Nat, NEW hi \in Nat, lo <= s, s <= hi,
         k * low <= sum, sum <= k * high, k = 0 \/ lo <= low, high <= hi
  PROVE  (k + 1) * lo <= sum + s /\ sum + s <= (k + 1) * hi
<1>1. (k + 1) * lo = k * lo + lo /\ (k + 1) * hi = k * hi + hi
  OBVIOUS
<1>2. k * lo <= k * low
  <2>1. CASE k = 0
    BY <2>1
  <2>2. CASE lo <= low
    BY <2>2, TimesLeq
  <2> QED  BY <2>1, <2>2
<1>3. k * high <= k * hi
  BY TimesLeq
<1>4. k * lo \in Nat /\ k * low \in Nat /\ k * hi \in Nat /\ k * high \in Nat
  OBVIOUS
<1> QED  BY <1>1, <1>2, <1>3, <1>4

-----------------------------------------------------------------------------
(* The invariant                                                           *)

Gauges == [low : Nat, high : Nat, told : Nat, packed : BOOLEAN, blurred : BOOLEAN]
Bills == [sum : Nat, low : Nat, high : Nat]
Turn == [at : {"off", "opening", "talking", "over", "cut", "failed"}, resumed : BOOLEAN, sid : Nat,
         n : Nat, open : SUBSET Nat, own : SUBSET Nat, shown : SUBSET Nat, wide : SUBSET Nat,
         calls : Nat, tools : Nat, final : BOOLEAN, tasks : SUBSET Nat, gauge : Gauges,
         bill : Bills, mid : BOOLEAN]

\* The agent has named no call it has not made yet.
Named(c) == \A s \in {c.open, c.own, c.shown, c.wide, c.tasks} : s \subseteq 1..c.n

\* Only gemini's adapter gathers text, and codex's has shown the calls that
\* have been shown; none of cursor's is before it is answered.
TextKept(d, a, c) ==
  /\ d # "gemini" \/ c.at \in {"over", "off"} => a.text = <<>>
  /\ d = "codex" => a.shown \subseteq 1..c.n /\ a.shown \cap c.open = c.shown \cap c.open
  /\ d = "cursor" => c.open \cap c.shown = {}

\* The adapter awaits the results of the agent's own prune calls.
CuesKept(d, a, c) ==
  /\ d \in {"claude", "gemini"} => a.cues = c.own \cap c.open
  /\ d \in {"pi", "hermes"} => c.own = {}

\* The reading is between the bounds of the gauge; it is the last one the
\* adapter sent, unless claude has compacted its context since.  codex and
\* gemini tell it when the turn is over.
GaugeKept(d, a, c, reading) ==
  /\ ~c.gauge.blurred => c.gauge.low <= reading /\ reading <= c.gauge.high
  /\ d = "claude" => a.last = c.gauge.told /\ (c.gauge.packed \/ reading = a.last)
  /\ d \in {"gemini", "pi", "hermes"} => a.last = reading
  /\ d = "codex" => c.gauge.low = reading /\ c.gauge.high = reading
  /\ d = "codex" /\ c.at \in {"opening", "talking", "over"} => reading = 0
  /\ d = "gemini" /\ c.at \in {"opening", "talking"} => reading = 0

\* cursor's adapter has met the model calls of the turn but for those a line
\* it did not read hid.
CallsKept(d, a, c) ==
  d = "cursor" /\ c.at \in {"opening", "talking"} =>
    /\ a.unnamed = c.final /\ a.calls \subseteq 1..c.calls
    /\ c.final => c.calls > 0 /\ c.calls \notin a.calls /\ c.open = {}
    /\ ~c.gauge.blurred => /\ 1..(c.calls - 1) \subseteq a.calls
                           /\ (~c.final /\ c.open = {} /\ c.calls > 0) => c.calls \in a.calls

\* The sum is between those of so many calls at the lowest and the highest
\* bill; gemini has made a tool call in each, but for the one it is in.
BillKept(d, c) ==
  d \in {"cursor", "gemini"} =>
    /\ c.calls <= c.bill.sum
    /\ c.calls * c.bill.low <= c.bill.sum /\ c.bill.sum <= c.calls * c.bill.high
    /\ d = "gemini" => /\ c.calls <= c.tools + 1
                       /\ ~c.mid \/ c.open # {} => c.calls <= c.tools

TurnInv(d, a, c, reading) ==
  /\ c \in Turn /\ Named(c)
  /\ TextKept(d, a, c) /\ CuesKept(d, a, c) /\ GaugeKept(d, a, c, reading) /\ CallsKept(d, a, c)
  /\ BillKept(d, c)

\* Handling the line makes the step, and the invariant holds of its outcome.
Goes(d, a, c, reading, line, after, says, signals) ==
  \E b, m : /\ Tells(d, a, line, b, says, signals, m, NoSid)
            /\ TurnInv(d, b, after, IF m = 0 THEN reading ELSE m)

LEMMA GoesBy ==
  ASSUME NEW d, NEW a, NEW c, NEW reading, NEW line, NEW after, NEW says, NEW signals, NEW b, NEW m,
         Tells(d, a, line, b, says, signals, m, NoSid),
         TurnInv(d, b, after, IF m = 0 THEN reading ELSE m)
  PROVE  Goes(d, a, c, reading, line, after, says, signals)
BY Zenon DEF Goes

\* A turn in which the agent goes on.
Going(d, a, c, reading) ==
  a \in Adapters /\ reading \in Nat /\ c.at = "talking" /\ TurnInv(d, a, c, reading)

LEMMA SeqOfOne ==
  ASSUME NEW x \in Block
  PROVE  <<x>> \in Seq(Block) /\ <<x>> # <<>>
OBVIOUS

\* What a line renders when all of it is for the chat.
LEMMA RenderedText ==
  ASSUME NEW n \in Nat
  PROVE  Rendered(<<Text(n)>>) = <<Text(n)>> /\ <<Text(n)>> \in Seq(Block) /\ <<Text(n)>> # <<>>
BY Blocks, Visible, RenderedOne, SeqOfOne

-----------------------------------------------------------------------------
(* The agent says something                                                *)

\* How the agent's side differs after it has said something.
HasSaid(d, c, e, k, s, big, last) ==
  /\ e \in Turn /\ Named(e)
  /\ e.at = c.at /\ e.n = c.n + 1 /\ e.open = c.open /\ e.own = c.own /\ e.shown = c.shown
  /\ e.calls = k /\ e.final = last
  /\ e.gauge = Measured(d, c.gauge, s, big) /\ BillKept(d, e)

\* A reading of claude's adapter is of the context as it is, unless it is
\* like the last, and that is from before a compaction.
LEMMA ClaudeGauge ==
  ASSUME NEW a, NEW c \in Turn, NEW reading, GaugeKept("claude", a, c, reading),
         NEW s \in Nat \ {0}, NEW big \in BOOLEAN, NEW b, b.last = (IF big THEN a.last ELSE s),
         NEW e, e.gauge = Measured("claude", c.gauge, s, big)
  PROVE  LET m == IF ~big /\ s # a.last THEN s ELSE 0 IN
         GaugeKept("claude", b, e, IF m = 0 THEN reading ELSE m)
<1>1. c.gauge \in Gauges /\ s # 0 /\ s <= s
  BY DEF Turn
<1>2. a.last = c.gauge.told /\ (c.gauge.packed \/ reading = a.last)
  BY DEF GaugeKept
<1>3. CASE big
  <2>1. e.gauge = [c.gauge EXCEPT !.blurred = TRUE]
    BY <1>3 DEF Measured
  <2>2. e.gauge.blurred /\ e.gauge.told = c.gauge.told /\ e.gauge.packed = c.gauge.packed
    BY <1>1, <2>1 DEF Gauges
  <2> QED  BY <1>2, <1>3, <2>2 DEF GaugeKept
<1>4. CASE ~big
  <2>1. /\ e.gauge.low = s /\ e.gauge.high = s /\ e.gauge.told = s
        /\ e.gauge.packed = (c.gauge.packed /\ s = c.gauge.told)
        /\ e.gauge.blurred = (c.gauge.packed /\ s = c.gauge.told)
    BY <1>4 DEF Measured
  <2>2. CASE s = a.last
    BY <1>1, <1>2, <1>4, <2>1, <2>2 DEF GaugeKept
  <2>3. CASE s # a.last
    BY <1>1, <1>2, <1>4, <2>1, <2>3 DEF GaugeKept
  <2> QED  BY <2>2, <2>3
<1> QED  BY <1>3, <1>4

LEMMA ClaudeSays ==
  ASSUME NEW a, NEW c, NEW reading, Going("claude", a, c, reading),
         NEW k, NEW s \in Nat \ {0}, NEW big \in BOOLEAN,
         NEW e, HasSaid("claude", c, e, k, s, big, FALSE),
         NEW line, LineIs(line, "assistant", c.n + 1, big, FALSE, s, <<Text(c.n + 1)>>)
  PROVE  Goes("claude", a, c, reading, line, e, <<Text(c.n + 1)>>, <<>>)
<1> DEFINE says == <<Text(c.n + 1)>>
           b == IF big THEN a ELSE [a EXCEPT !.last = s]
           m == IF ~big /\ s # a.last THEN s ELSE 0
<1>1. /\ a \in Adapters /\ reading \in Nat /\ c \in Turn /\ Named(c) /\ c.at = "talking"
      /\ TextKept("claude", a, c) /\ CuesKept("claude", a, c) /\ GaugeKept("claude", a, c, reading)
  BY DEF Going, TurnInv
<1>2. c.n + 1 \in Nat
  BY <1>1 DEF Turn
<1>3. Leaves(HandleClaude(a, line), b, says, <<>>, m, NoSid)
  <2>1. line.say = says /\ line.say \in Seq(Block) /\ Rendered(line.say) # <<>>
    BY <1>2, RenderedText DEF LineIs
  <2>2. /\ line.ty = "assistant" /\ line.id \in Nat /\ line.tok = s /\ line.big = big
        /\ line.own = FALSE /\ line.sub = FALSE /\ line.holds = {} /\ line.ok /\ line.task \in BOOLEAN
    BY <1>2 DEF LineIs
  <2> HIDE DEF says
  <2>3. LET own == ~line.big /\ ~line.sub
            p == IF own /\ line.tok # 0 THEN [a EXCEPT !.last = line.tok] ELSE a IN
        Leaves(HandleClaude(a, line), Awaiting(p, line), line.say, <<>>,
               IF own /\ line.tok # a.last THEN line.tok ELSE 0, NoSid)
    BY <1>1, <2>1, <2>2, ClaudeAssistantLine
  <2> QED  BY <2>1, <2>2, <2>3 DEF Awaiting
<1>4. /\ b \in Adapters /\ b.text = a.text /\ b.cues = a.cues
      /\ b.last = IF big THEN a.last ELSE s
  BY <1>1 DEF Adapters
<1>5. a.text = <<>>
  BY <1>1 DEF TextKept
<1>6. Tells("claude", a, line, b, says, <<>>, m, NoSid)
  <2>2. Handle("claude", a, line) = HandleClaude(a, line)
    BY DEF Handle
  <2> HIDE DEF b, says, m
  <2> QED  BY <1>1, <1>3, <1>4, <1>5, <2>2, TellsPlainly
<1>7. TurnInv("claude", b, e, IF m = 0 THEN reading ELSE m)
  <2>1. /\ e \in Turn /\ Named(e) /\ e.at = c.at /\ e.open = c.open /\ e.own = c.own
        /\ e.gauge = Measured("claude", c.gauge, s, big) /\ BillKept("claude", e)
    BY DEF HasSaid
  <2> HIDE DEF b
  <2>2. TextKept("claude", b, e) /\ CallsKept("claude", b, e)
    BY <1>4, <1>5 DEF TextKept, CallsKept
  <2>3. CuesKept("claude", b, e)
    BY <1>1, <1>4, <2>1 DEF CuesKept
  <2>4. GaugeKept("claude", b, e, IF m = 0 THEN reading ELSE m)
    BY <1>1, <1>4, <2>1, ClaudeGauge
  <2> QED  BY <2>1, <2>2, <2>3, <2>4 DEF TurnInv
<1> HIDE DEF says, b, m
<1> QED  BY <1>6, <1>7, GoesBy DEF says

LEMMA GoesPlainly ==
  ASSUME NEW d, NEW a, NEW c, NEW reading, NEW line, NEW e, NEW says, NEW signals, NEW b, NEW m,
         Leaves(Handle(d, a, line), b, says, signals, m, NoSid),
         a \in Adapters, b \in Adapters, a.text = <<>>, b.text = <<>>,
         TurnInv(d, b, e, IF m = 0 THEN reading ELSE m)
  PROVE  Goes(d, a, c, reading, line, e, says, signals)
<1>1. Tells(d, a, line, b, says, signals, m, NoSid)
  BY TellsPlainly
<1> QED  BY <1>1, GoesBy

\* What is read of a line leaves the gauge of these as it was.
LEMMA NotMeasured ==
  ASSUME NEW d, d \notin {"claude", "pi"}
  PROVE  \A g, s, big : Measured(d, g, s, big) = g
BY DEF Measured

LEMMA CodexSays ==
  ASSUME NEW a, NEW c, NEW reading, Going("codex", a, c, reading),
         NEW k, NEW s, NEW big \in BOOLEAN, NEW e, HasSaid("codex", c, e, k, s, big, FALSE),
         NEW line, LineIs(line, "item.completed", c.n + 1, big, FALSE, s, <<Text(c.n + 1)>>)
  PROVE  Goes("codex", a, c, reading, line, e, <<Text(c.n + 1)>>, <<>>)
<1> DEFINE n == c.n + 1
           says == <<Text(n)>>
           b == [a EXCEPT !.shown = @ \cup {n}]
<1>1. /\ a \in Adapters /\ reading \in Nat /\ c \in Turn /\ Named(c) /\ c.at = "talking"
      /\ TextKept("codex", a, c) /\ CuesKept("codex", a, c) /\ GaugeKept("codex", a, c, reading)
  BY DEF Going, TurnInv
<1>2. n \in Nat /\ c.n \in Nat /\ c.open \subseteq 1..c.n /\ a.text = <<>> /\ a.shown \subseteq 1..c.n
  BY <1>1 DEF Turn, Named, TextKept
<1>3. Rendered(says) = says /\ says \in Seq(Block) /\ says # <<>>
  BY <1>2, RenderedText
<1>4. n \notin a.shown /\ n \notin c.open
  BY <1>2
<1>5. /\ line.ty = "item.completed" /\ line.id = n /\ line.own = FALSE /\ line.say = says
      /\ line.id \in Nat /\ line.own \in BOOLEAN /\ line.say \in Seq(Block)
  BY <1>2, <1>3 DEF LineIs
<1>6. b \in Adapters /\ b.text = <<>> /\ b.shown = a.shown \cup {n}
  BY <1>1, <1>2 DEF Adapters
<1> HIDE DEF n, says
<1>7. Leaves(Handle("codex", a, line), b, says, <<>>, 0, NoSid)
  <2>1. LET r == Rendered(line.say) IN
        Leaves(HandleCodex(a, line),
               IF r # <<>> THEN [a EXCEPT !.shown = @ \cup {line.id}] ELSE a,
               IF line.id \in a.shown THEN <<>> ELSE r,
               Unless(line.ty = "item.started" \/ ~line.own, <<Cue>>), 0, NoSid)
    BY <1>1, <1>5, CodexItemLine DEF IsItem
  <2>2. Unless(line.ty = "item.started" \/ ~line.own, <<Cue>>) = <<>>
    BY <1>5 DEF Unless
  <2>3. Handle("codex", a, line) = HandleCodex(a, line)
    BY DEF Handle
  <2> QED  BY <1>3, <1>4, <1>5, <2>1, <2>2, <2>3
<1>8. TurnInv("codex", b, e, reading)
  <2>1. /\ e \in Turn /\ Named(e) /\ e.at = c.at /\ e.open = c.open /\ e.own = c.own
        /\ e.shown = c.shown /\ e.gauge = c.gauge /\ BillKept("codex", e) /\ e.n = n
    BY NotMeasured DEF HasSaid, n
  <2> HIDE DEF b
  <2>2. TextKept("codex", b, e)
    <3>1. b.shown \subseteq 1..n
      BY <1>2, <1>6 DEF n
    <3>2. b.shown \cap c.open = a.shown \cap c.open
      BY <1>4, <1>6
    <3> QED  BY <1>1, <1>6, <2>1, <3>1, <3>2 DEF TextKept
  <2>3. CuesKept("codex", b, e) /\ CallsKept("codex", b, e)
    BY DEF CuesKept, CallsKept
  <2>4. GaugeKept("codex", b, e, reading)
    BY <1>1, <2>1 DEF GaugeKept
  <2> QED  BY <2>1, <2>2, <2>3, <2>4 DEF TurnInv
<1> HIDE DEF b
<1> QED  BY <1>1, <1>2, <1>6, <1>7, <1>8, GoesPlainly DEF says, n

\* The model call a word or a tool call of cursor belongs to.
OfCall(c, k) == k = c.calls \/ (c.open = {} /\ k = c.calls + 1)

LEMMA CursorSays ==
  ASSUME NEW a, NEW c, NEW reading, Going("cursor", a, c, reading), ~c.final,
         NEW k \in Nat \ {0}, OfCall(c, k), NEW s, NEW big \in BOOLEAN, NEW last \in BOOLEAN, last
         => k > c.calls,
         NEW e, HasSaid("cursor", c, e, k, s, big, last), NEW line,
         LineIs(line, "assistant", c.n + 1, big, FALSE, s, <<Text(c.n + 1)>>),
         line.call = IF last THEN 0 ELSE k
  PROVE  Goes("cursor", a, c, reading, line, e, <<Text(c.n + 1)>>, <<>>)
<1> DEFINE says == <<Text(c.n + 1)>>
           b == IF last THEN [a EXCEPT !.unnamed = TRUE] ELSE [a EXCEPT !.calls = @ \cup {k}]
<1>1. /\ a \in Adapters /\ reading \in Nat /\ c \in Turn /\ Named(c) /\ c.at = "talking"
      /\ TextKept("cursor", a, c) /\ CallsKept("cursor", a, c) /\ GaugeKept("cursor", a, c, reading)
  BY DEF Going, TurnInv
<1>2. c.n + 1 \in Nat /\ c.calls \in Nat /\ c.gauge.blurred \in BOOLEAN /\ a.text = <<>>
  BY <1>1 DEF Turn, TextKept, Gauges
<1>3. /\ line.say = says /\ line.say \in Seq(Block) /\ Rendered(line.say) # <<>>
           /\ line.ty = "assistant" /\ line.holds = {}
      /\ (line.call = 0 <=> last) /\ (~last => line.call = k)
  BY <1>2, RenderedText DEF LineIs
<1>4. /\ b \in Adapters /\ b.text = <<>> /\ b.calls = (IF last THEN a.calls ELSE a.calls \cup {k})
      /\ b.unnamed = (last \/ a.unnamed)
  <2>1. a.unnamed \in BOOLEAN
    BY <1>1 DEF Adapters
  <2>2. CASE last
    BY <1>1, <1>2, <2>1, <2>2 DEF Adapters
  <2>3. CASE ~last
    BY <1>1, <1>2, <2>1, <2>3 DEF Adapters
  <2> QED  BY <2>2, <2>3
<1>5. Leaves(Handle("cursor", a, line), b, says, <<>>, 0, NoSid)
  <2>1. Leaves(HandleCursor(a, line),
               IF line.call = 0 THEN [a EXCEPT !.unnamed = TRUE]
               ELSE [a EXCEPT !.calls = @ \cup {line.call}], line.say, <<>>, 0, NoSid)
    BY <1>1, <1>3, CursorAssistantLine
  <2>2. Handle("cursor", a, line) = HandleCursor(a, line)
    BY DEF Handle
  <2> HIDE DEF says
  <2>3. CASE last
    BY <1>3, <2>1, <2>2, <2>3
  <2>4. CASE ~last
    BY <1>3, <2>1, <2>2, <2>4
  <2> QED  BY <2>3, <2>4
<1> HIDE DEF says, b
<1>6. TurnInv("cursor", b, e, reading)
  <2>1. /\ e \in Turn /\ Named(e) /\ e.at = "talking" /\ e.open = c.open /\ e.shown = c.shown
        /\ e.gauge = c.gauge /\ BillKept("cursor", e) /\ e.calls = k /\ e.final = last
    BY <1>1, NotMeasured DEF HasSaid
  <2>2. TextKept("cursor", b, e) /\ CuesKept("cursor", b, e)
    BY <1>1, <1>4, <2>1 DEF TextKept, CuesKept
  <2>3. GaugeKept("cursor", b, e, reading)
    BY <1>1, <2>1 DEF GaugeKept
  <2>4. CallsKept("cursor", b, e)
    <3>1. /\ a.unnamed = FALSE /\ a.calls \subseteq 1..c.calls
          /\ ~c.gauge.blurred => /\ 1..(c.calls - 1) \subseteq a.calls
                                 /\ (c.open = {} /\ c.calls > 0) => c.calls \in a.calls
      <4>1. a.unnamed \in BOOLEAN
        BY <1>1 DEF Adapters
      <4> QED  BY <1>1, <4>1 DEF CallsKept
    <3>2. k = c.calls \/ (c.open = {} /\ k = c.calls + 1)
      BY DEF OfCall
    <3>3. a.calls \subseteq 1..k /\ (last => k \notin a.calls /\ c.open = {})
      BY <1>2, <3>1, <3>2
    <3>4. ~c.gauge.blurred => 1..(k - 1) \subseteq a.calls
      <4>1. CASE k = c.calls
        BY <3>1, <4>1
      <4>2. CASE c.open = {} /\ k = c.calls + 1
        BY <1>2, <3>1, <4>2
      <4> QED  BY <3>2, <4>1, <4>2
    <3> QED  BY <1>2, <1>4, <2>1, <3>1, <3>3, <3>4 DEF CallsKept
  <2> QED  BY <2>1, <2>2, <2>3, <2>4 DEF TurnInv
<1> QED  BY <1>1, <1>2, <1>4, <1>5, <1>6, GoesPlainly DEF says

LEMMA GeminiSays ==
  ASSUME NEW a, NEW c, NEW reading, Going("gemini", a, c, reading),
         NEW k, NEW s, NEW big \in BOOLEAN, NEW e, HasSaid("gemini", c, e, k, s, big, FALSE),
         NEW line, LineIs(line, "message", c.n + 1, big, FALSE, s, <<Text(c.n + 1)>>)
  PROVE  Goes("gemini", a, c, reading, line, e, <<Text(c.n + 1)>>, <<>>)
<1> DEFINE says == <<Text(c.n + 1)>>
           b == [a EXCEPT !.text = @ \o says]
<1>1. /\ a \in Adapters /\ reading \in Nat /\ c \in Turn /\ Named(c) /\ c.at = "talking"
      /\ CuesKept("gemini", a, c) /\ GaugeKept("gemini", a, c, reading)
  BY DEF Going, TurnInv
<1>2. c.n + 1 \in Nat /\ a.text \in Seq(Block)
  BY <1>1 DEF Turn, Adapters
<1>3. says \in Seq(Block) /\ line.ty = "message" /\ line.say = says
  BY <1>2, RenderedText DEF LineIs
<1> HIDE DEF says
<1>4. a.text \o says \in Seq(Block)
  BY <1>2, <1>3
<1>5. b \in Adapters /\ b.text = a.text \o says /\ b.cues = a.cues /\ b.last = a.last
  BY <1>1, <1>4 DEF Adapters
<1>6. Leaves(Handle("gemini", a, line), b, <<>>, <<>>, 0, NoSid)
  <2>1. Leaves(HandleGemini(a, line), [a EXCEPT !.text = @ \o line.say], <<>>, <<>>, 0, NoSid)
    BY <1>1, <1>3, GeminiMessageLine
  <2>2. Handle("gemini", a, line) = HandleGemini(a, line)
    BY DEF Handle
  <2> QED  BY <1>3, <2>1, <2>2
<1>7. Tells("gemini", a, line, b, says, <<>>, 0, NoSid)
  <2>1. <<>> \o b.text = a.text \o says
    BY <1>4, <1>5, NoBlocks
  <2> HIDE DEF b
  <2> QED  BY <1>1, <1>3, <1>5, <1>6, <2>1, TellsFrom
<1> HIDE DEF b
<1>8. TurnInv("gemini", b, e, reading)
  <2>1. /\ e \in Turn /\ Named(e) /\ e.at = "talking" /\ e.open = c.open /\ e.own = c.own
        /\ e.gauge = c.gauge /\ BillKept("gemini", e)
    BY <1>1, NotMeasured DEF HasSaid
  <2>2. TextKept("gemini", b, e) /\ CallsKept("gemini", b, e)
    BY <2>1 DEF TextKept, CallsKept
  <2>3. CuesKept("gemini", b, e) /\ GaugeKept("gemini", b, e, reading)
    BY <1>1, <1>5, <2>1 DEF CuesKept, GaugeKept
  <2> QED  BY <2>1, <2>2, <2>3 DEF TurnInv
<1> QED  BY <1>7, <1>8, GoesBy DEF says

LEMMA PiSays ==
  ASSUME NEW a, NEW c, NEW reading, Going("pi", a, c, reading),
         NEW k, NEW s \in Nat \ {0}, NEW big \in BOOLEAN, NEW e, HasSaid("pi", c, e, k, s, big, FALSE),
         NEW line, LineIs(line, "message_end", c.n + 1, big, FALSE, s, <<Text(c.n + 1)>>)
  PROVE  Goes("pi", a, c, reading, line, e, <<Text(c.n + 1)>>, <<>>)
<1> DEFINE says == <<Text(c.n + 1)>>
           b == [a EXCEPT !.last = s]
           m == IF s = a.last THEN 0 ELSE s
<1>1. /\ a \in Adapters /\ reading \in Nat /\ c \in Turn /\ Named(c) /\ c.at = "talking"
      /\ TextKept("pi", a, c) /\ CuesKept("pi", a, c) /\ GaugeKept("pi", a, c, reading)
  BY DEF Going, TurnInv
<1>2. c.n + 1 \in Nat /\ a.text = <<>> /\ c.own = {}
  BY <1>1 DEF Turn, TextKept, CuesKept
<1>3. /\ line.say = says /\ line.say \in Seq(Block) /\ Rendered(says) = says
      /\ line.ty = "message_end" /\ line.tok = s
  BY <1>2, RenderedText DEF LineIs
<1>4. b \in Adapters /\ b.text = <<>> /\ b.last = s
  BY <1>1, <1>2 DEF Adapters
<1> HIDE DEF says
<1>5. Leaves(Handle("pi", a, line), b, says, <<>>, m, NoSid)
  <2>1. Leaves(HandlePi(a, line), IF line.tok = 0 THEN a ELSE [a EXCEPT !.last = line.tok],
               Rendered(line.say), <<>>, IF line.tok = a.last THEN 0 ELSE line.tok, NoSid)
    BY <1>1, <1>3, PiMessageLine
  <2>2. Handle("pi", a, line) = HandlePi(a, line)
    BY DEF Handle
  <2> QED  BY <1>3, <2>1, <2>2
<1>6. (IF m = 0 THEN reading ELSE m) = s
  BY <1>1 DEF GaugeKept
<1> HIDE DEF b, m
<1>7. TurnInv("pi", b, e, s)
  <2>1. /\ e \in Turn /\ Named(e) /\ e.own = c.own /\ BillKept("pi", e)
        /\ e.gauge = Measured("pi", c.gauge, s, big)
    BY DEF HasSaid
  <2>4. e.gauge.low = s /\ e.gauge.high = s
    BY <1>1, <2>1 DEF Measured, Turn, Gauges
  <2>2. TextKept("pi", b, e) /\ CallsKept("pi", b, e)
    BY <1>4 DEF TextKept, CallsKept
  <2>3. CuesKept("pi", b, e) /\ GaugeKept("pi", b, e, s)
    BY <1>2, <1>4, <2>1, <2>4 DEF CuesKept, GaugeKept
  <2> QED  BY <2>1, <2>2, <2>3 DEF TurnInv
<1> QED  BY <1>1, <1>2, <1>4, <1>5, <1>6, <1>7, GoesPlainly DEF says

LEMMA HermesSays ==
  ASSUME NEW a, NEW c, NEW reading, Going("hermes", a, c, reading),
         NEW k, NEW s, NEW big \in BOOLEAN, NEW e, HasSaid("hermes", c, e, k, s, big, FALSE),
         NEW line, LineIs(line, "assistant", c.n + 1, big, FALSE, s, <<Text(c.n + 1)>>)
  PROVE  Goes("hermes", a, c, reading, line, e, <<Text(c.n + 1)>>, <<>>)
<1> DEFINE says == <<Text(c.n + 1)>>
<1>1. /\ a \in Adapters /\ reading \in Nat /\ c \in Turn /\ Named(c) /\ c.at = "talking"
      /\ TextKept("hermes", a, c) /\ CuesKept("hermes", a, c) /\ GaugeKept("hermes", a, c, reading)
  BY DEF Going, TurnInv
<1>2. c.n + 1 \in Nat /\ a.text = <<>>
  BY <1>1 DEF Turn, TextKept
<1>3. line.say = says /\ line.say \in Seq(Block) /\ line.ty = "assistant"
  BY <1>2, RenderedText DEF LineIs
<1> HIDE DEF says
<1>4. Leaves(Handle("hermes", a, line), a, says, <<>>, 0, NoSid)
  <2>1. Leaves(HandleHermes(a, line), a, line.say, <<>>, 0, NoSid)
    BY <1>1, <1>3, HermesShowsLine
  <2>2. Handle("hermes", a, line) = HandleHermes(a, line)
    BY DEF Handle
  <2> QED  BY <1>3, <2>1, <2>2
<1>5. TurnInv("hermes", a, e, reading)
  <2>1. e \in Turn /\ Named(e) /\ e.own = c.own /\ e.gauge = c.gauge /\ BillKept("hermes", e)
    BY NotMeasured DEF HasSaid
  <2>2. TextKept("hermes", a, e) /\ CallsKept("hermes", a, e)
    BY <1>2 DEF TextKept, CallsKept
  <2>3. CuesKept("hermes", a, e) /\ GaugeKept("hermes", a, e, reading)
    BY <1>1, <2>1 DEF CuesKept, GaugeKept
  <2> QED  BY <2>1, <2>2, <2>3 DEF TurnInv
<1> QED  BY <1>1, <1>2, <1>4, <1>5, GoesPlainly DEF says

-----------------------------------------------------------------------------
(* The agent calls a tool                                                  *)

HasCalled(d, c, e, k, s, own, shows, big) ==
  /\ e \in Turn /\ Named(e)
  /\ e.at = c.at /\ e.n = c.n + 1 /\ e.open = c.open \cup {c.n + 1}
  /\ e.own = (IF own THEN c.own \cup {c.n + 1} ELSE c.own)
  /\ e.shown = (IF shows = <<>> THEN c.shown ELSE c.shown \cup {c.n + 1})
  /\ e.calls = k /\ e.final = c.final
  /\ e.gauge = Measured(d, c.gauge, s, big) /\ BillKept(d, e)

LEMMA ClaudeCalls ==
  ASSUME NEW a, NEW c, NEW reading, Going("claude", a, c, reading),
         NEW k, NEW s \in Nat \ {0}, NEW big \in BOOLEAN, NEW own \in BOOLEAN,
         NEW shows \in Seq(Block), shows # <<>>, Rendered(shows) = shows,
         NEW e, HasCalled("claude", c, e, k, s, own, shows, big),
         NEW line, LineIs(line, "assistant", c.n + 1, big, own, s, shows)
  PROVE  Goes("claude", a, c, reading, line, e, shows, <<>>)
<1> DEFINE p == IF big THEN a ELSE [a EXCEPT !.last = s]
           b == IF own THEN [p EXCEPT !.cues = @ \cup {c.n + 1}] ELSE p
           m == IF ~big /\ s # a.last THEN s ELSE 0
<1>1. /\ a \in Adapters /\ reading \in Nat /\ c \in Turn /\ Named(c) /\ c.at = "talking"
      /\ TextKept("claude", a, c) /\ CuesKept("claude", a, c) /\ GaugeKept("claude", a, c, reading)
  BY DEF Going, TurnInv
<1>2. c.n + 1 \in Nat /\ c.n \in Nat /\ c.own \subseteq 1..c.n
  BY <1>1 DEF Turn, Named
<1>3. Leaves(Handle("claude", a, line), b, shows, <<>>, m, NoSid)
  <2>1. /\ line.ty = "assistant" /\ line.id = c.n + 1 /\ line.tok = s /\ line.big = big
        /\ line.own = own /\ line.sub = FALSE /\ line.say = shows
        /\ line.holds = {} /\ line.ok /\ line.task \in BOOLEAN
        /\ line.id \in Nat /\ line.tok \in Nat /\ line.say \in Seq(Block) /\ Rendered(line.say) # <<>>
    BY <1>2 DEF LineIs
  <2>2. LET mine == ~line.big /\ ~line.sub
            q == IF mine /\ line.tok # 0 THEN [a EXCEPT !.last = line.tok] ELSE a IN
        Leaves(HandleClaude(a, line), Awaiting(q, line), line.say, <<>>,
               IF mine /\ line.tok # a.last THEN line.tok ELSE 0, NoSid)
    BY <1>1, <2>1, ClaudeAssistantLine
  <2>3. Handle("claude", a, line) = HandleClaude(a, line)
    BY DEF Handle
  <2>4. Awaiting(p, line) = b
    BY <2>1 DEF Awaiting
  <2> HIDE DEF b
  <2> QED  BY <2>1, <2>2, <2>3, <2>4
<1>4. /\ b \in Adapters /\ b.text = a.text /\ b.last = (IF big THEN a.last ELSE s)
      /\ b.cues = (IF own THEN a.cues \cup {c.n + 1} ELSE a.cues)
  <2>1. p \in Adapters /\ p.text = a.text /\ p.last = (IF big THEN a.last ELSE s) /\ p.cues = a.cues
    BY <1>1 DEF Adapters
  <2> HIDE DEF p
  <2> QED  BY <1>2, <2>1 DEF Adapters
<1>5. a.text = <<>>
  BY <1>1 DEF TextKept
<1> HIDE DEF b
<1>6. TurnInv("claude", b, e, IF m = 0 THEN reading ELSE m)
  <2>1. /\ e \in Turn /\ Named(e) /\ e.open = c.open \cup {c.n + 1}
        /\ e.own = (IF own THEN c.own \cup {c.n + 1} ELSE c.own)
        /\ e.gauge = Measured("claude", c.gauge, s, big) /\ BillKept("claude", e)
    BY DEF HasCalled
  <2>2. TextKept("claude", b, e) /\ CallsKept("claude", b, e)
    BY <1>4, <1>5 DEF TextKept, CallsKept
  <2>3. CuesKept("claude", b, e)
    <3>1. a.cues = c.own \cap c.open /\ c.n + 1 \notin c.own
      BY <1>1, <1>2 DEF CuesKept
    <3>2. b.cues = e.own \cap e.open
      BY <1>4, <2>1, <3>1
    <3> QED  BY <3>2 DEF CuesKept
  <2>4. GaugeKept("claude", b, e, IF m = 0 THEN reading ELSE m)
    BY <1>1, <1>4, <2>1, ClaudeGauge
  <2> QED  BY <2>1, <2>2, <2>3, <2>4 DEF TurnInv
<1> HIDE DEF m
<1> QED  BY <1>1, <1>3, <1>4, <1>5, <1>6, GoesPlainly

LEMMA CodexCalls ==
  ASSUME NEW a, NEW c, NEW reading, Going("codex", a, c, reading),
         NEW k, NEW s, NEW big \in BOOLEAN, NEW own \in BOOLEAN, NEW say \in Seq(Block),
         NEW shows \in Seq(Block), Rendered(say) = shows,
         NEW e, HasCalled("codex", c, e, k, s, own, shows, big),
         NEW line, LineIs(line, "item.started", c.n + 1, big, own, s, say)
  PROVE  Goes("codex", a, c, reading, line, e, shows, <<>>)
<1> DEFINE n == c.n + 1
           b == IF shows # <<>> THEN [a EXCEPT !.shown = @ \cup {n}] ELSE a
<1>1. /\ a \in Adapters /\ reading \in Nat /\ c \in Turn /\ Named(c) /\ c.at = "talking"
      /\ TextKept("codex", a, c) /\ GaugeKept("codex", a, c, reading)
  BY DEF Going, TurnInv
<1>2. /\ n \in Nat /\ c.n \in Nat /\ c.open \subseteq 1..c.n /\ c.shown \subseteq 1..c.n
      /\ a.text = <<>> /\ a.shown \subseteq 1..c.n /\ a.shown \cap c.open = c.shown \cap c.open
  BY <1>1 DEF Turn, Named, TextKept
<1>3. n \notin a.shown /\ n \notin c.shown
  BY <1>2
<1>4. /\ line.ty = "item.started" /\ line.id = n /\ line.say = say
      /\ line.id \in Nat /\ line.own \in BOOLEAN
  BY <1>2 DEF LineIs
<1>5. /\ b \in Adapters /\ b.text = <<>>
      /\ b.shown = (IF shows # <<>> THEN a.shown \cup {n} ELSE a.shown)
  BY <1>1, <1>2 DEF Adapters
<1> HIDE DEF n
<1>6. Leaves(Handle("codex", a, line), b, shows, <<>>, 0, NoSid)
  <2>1. LET r == Rendered(line.say) IN
        Leaves(HandleCodex(a, line),
               IF r # <<>> THEN [a EXCEPT !.shown = @ \cup {line.id}] ELSE a,
               IF line.id \in a.shown THEN <<>> ELSE r,
               Unless(line.ty = "item.started" \/ ~line.own, <<Cue>>), 0, NoSid)
    BY <1>1, <1>4, CodexItemLine DEF IsItem
  <2>2. Unless(line.ty = "item.started" \/ ~line.own, <<Cue>>) = <<>>
    BY <1>4 DEF Unless
  <2>3. Handle("codex", a, line) = HandleCodex(a, line)
    BY DEF Handle
  <2> QED  BY <1>3, <1>4, <2>1, <2>2, <2>3
<1> HIDE DEF b
<1>7. TurnInv("codex", b, e, reading)
  <2>1. /\ e \in Turn /\ Named(e) /\ e.at = c.at /\ e.n = n /\ e.open = c.open \cup {n}
        /\ e.shown = (IF shows = <<>> THEN c.shown ELSE c.shown \cup {n})
        /\ e.gauge = c.gauge /\ BillKept("codex", e)
    BY NotMeasured DEF HasCalled, n
  <2>2. TextKept("codex", b, e)
    <3>1. b.shown \subseteq 1..n
      BY <1>2, <1>5 DEF n
    <3>2. b.shown \cap e.open = e.shown \cap e.open
      <4>1. CASE shows = <<>>
        BY <1>2, <1>3, <1>5, <2>1, <4>1
      <4>2. CASE shows # <<>>
        BY <1>2, <1>3, <1>5, <2>1, <4>2
      <4> QED  BY <4>1, <4>2
    <3> QED  BY <1>5, <2>1, <3>1, <3>2 DEF TextKept
  <2>3. CuesKept("codex", b, e) /\ CallsKept("codex", b, e)
    BY DEF CuesKept, CallsKept
  <2>4. GaugeKept("codex", b, e, reading)
    BY <1>1, <2>1 DEF GaugeKept
  <2> QED  BY <2>1, <2>2, <2>3, <2>4 DEF TurnInv
<1> QED  BY <1>1, <1>2, <1>5, <1>6, <1>7, GoesPlainly

LEMMA CursorCalling ==
  ASSUME NEW a, NEW c, NEW reading, Going("cursor", a, c, reading), ~c.final,
         NEW k \in Nat \ {0}, OfCall(c, k), NEW s, NEW big \in BOOLEAN, NEW own \in BOOLEAN,
         NEW e, HasCalled("cursor", c, e, k, s, own, <<>>, big),
         NEW line, line.ty = "tool_call.started"
  PROVE  Goes("cursor", a, c, reading, line, e, <<>>, <<>>)
<1>1. /\ a \in Adapters /\ reading \in Nat /\ c \in Turn /\ Named(c) /\ c.at = "talking"
      /\ TextKept("cursor", a, c) /\ CallsKept("cursor", a, c) /\ GaugeKept("cursor", a, c, reading)
  BY DEF Going, TurnInv
<1>2. /\ c.n \in Nat /\ c.calls \in Nat /\ c.gauge.blurred \in BOOLEAN /\ c.final \in BOOLEAN
      /\ a.text = <<>> /\ c.shown \subseteq 1..c.n
  BY <1>1 DEF Turn, TextKept, Named, Gauges
<1>3. Leaves(Handle("cursor", a, line), a, <<>>, <<>>, 0, NoSid)
  <2>1. Handle("cursor", a, line) = HandleCursor(a, line)
    BY DEF Handle
  <2> QED  BY <1>1, <2>1, CursorQuietLine
<1>4. TurnInv("cursor", a, e, reading)
  <2>1. /\ e \in Turn /\ Named(e) /\ e.at = "talking" /\ e.open = c.open \cup {c.n + 1}
        /\ e.shown = c.shown /\ e.gauge = c.gauge /\ BillKept("cursor", e) /\ e.calls = k
             /\ e.final = c.final
    BY <1>1, NotMeasured DEF HasCalled
  <2>2. TextKept("cursor", a, e) /\ CuesKept("cursor", a, e)
    <3>1. c.open \cap c.shown = {} /\ c.n + 1 \notin c.shown
      BY <1>1, <1>2 DEF TextKept
    <3> QED  BY <1>2, <2>1, <3>1 DEF TextKept, CuesKept
  <2>3. GaugeKept("cursor", a, e, reading)
    BY <1>1, <2>1 DEF GaugeKept
  <2>4. CallsKept("cursor", a, e)
    <3>1. /\ a.unnamed = c.final /\ a.calls \subseteq 1..c.calls
          /\ ~c.gauge.blurred => /\ 1..(c.calls - 1) \subseteq a.calls
                                 /\ (c.open = {} /\ c.calls > 0) => c.calls \in a.calls
      BY <1>1 DEF CallsKept
    <3>2. k = c.calls \/ (c.open = {} /\ k = c.calls + 1)
      BY DEF OfCall
    <3>3. a.calls \subseteq 1..k
      BY <1>2, <3>1, <3>2
    <3>4. ~c.gauge.blurred => 1..(k - 1) \subseteq a.calls
      <4>1. CASE k = c.calls
        BY <3>1, <4>1
      <4>2. CASE c.open = {} /\ k = c.calls + 1
        BY <1>2, <3>1, <4>2
      <4> QED  BY <3>2, <4>1, <4>2
    <3>5. e.open # {}
      BY <2>1
    <3> QED  BY <1>2, <2>1, <3>1, <3>3, <3>4, <3>5 DEF CallsKept
  <2> QED  BY <2>1, <2>2, <2>3, <2>4 DEF TurnInv
<1> QED  BY <1>1, <1>2, <1>3, <1>4, GoesPlainly

LEMMA GeminiCalls ==
  ASSUME NEW a, NEW c, NEW reading, Going("gemini", a, c, reading),
         NEW k, NEW s, NEW big \in BOOLEAN, NEW own \in BOOLEAN, NEW say \in Seq(Block),
         NEW shows \in Seq(Block), Rendered(say) = shows,
         NEW e, HasCalled("gemini", c, e, k, s, own, shows, big),
         NEW line, LineIs(line, "tool_use", c.n + 1, big, own, s, say)
  PROVE  Goes("gemini", a, c, reading, line, e, shows, <<>>)
<1> DEFINE p == Awaiting(a, line)
           b == IF shows = <<>> THEN p ELSE [p EXCEPT !.text = <<>>]
           speaks == IF shows = <<>> THEN <<>> ELSE a.text \o shows
<1>1. /\ a \in Adapters /\ reading \in Nat /\ c \in Turn /\ Named(c) /\ c.at = "talking"
      /\ CuesKept("gemini", a, c) /\ GaugeKept("gemini", a, c, reading)
  BY DEF Going, TurnInv
<1>2. c.n + 1 \in Nat /\ c.n \in Nat /\ c.own \subseteq 1..c.n /\ a.text \in Seq(Block)
  BY <1>1 DEF Turn, Named, Adapters
<1>3. /\ line.ty = "tool_use" /\ line.id = c.n + 1 /\ line.say = say /\ line.own = own
      /\ line.id \in Nat
  BY <1>2 DEF LineIs
<1>4. /\ p \in Adapters /\ p.text = a.text /\ p.last = a.last
      /\ p.cues = (IF own THEN a.cues \cup {c.n + 1} ELSE a.cues)
  BY <1>1, <1>2, <1>3 DEF Awaiting, Adapters
<1>5. /\ b \in Adapters /\ b.last = a.last /\ b.cues = p.cues
      /\ b.text = (IF shows = <<>> THEN a.text ELSE <<>>)
  <2> HIDE DEF p
  <2>1. <<>> \in Seq(Block)
    OBVIOUS
  <2> QED  BY <1>4, <2>1 DEF Adapters
<1>6. Leaves(Handle("gemini", a, line), b, speaks, <<>>, 0, NoSid)
  <2>1. LET r == Rendered(line.say)
            q == Awaiting(a, line) IN
        Leaves(HandleGemini(a, line), IF r = <<>> THEN q ELSE [q EXCEPT !.text = <<>>],
               IF r = <<>> THEN <<>> ELSE a.text \o r, <<>>, 0, NoSid)
    BY <1>1, <1>3, GeminiToolLine
  <2>2. Handle("gemini", a, line) = HandleGemini(a, line)
    BY DEF Handle
  <2> QED  BY <1>3, <2>1, <2>2
<1>7. speaks \o b.text = a.text \o shows
  <2>1. a.text \o shows \in Seq(Block)
    BY <1>2
  <2>2. CASE shows = <<>>
    BY <1>2, <1>5, <2>2, NoBlocks
  <2>3. CASE shows # <<>>
    BY <1>5, <2>1, <2>3, NoBlocks
  <2> QED  BY <2>2, <2>3
<1> HIDE DEF b, p, speaks
<1>8. Tells("gemini", a, line, b, shows, <<>>, 0, NoSid)
  BY <1>1, <1>5, <1>6, <1>7, TellsFrom
<1>9. TurnInv("gemini", b, e, reading)
  <2>1. /\ e \in Turn /\ Named(e) /\ e.at = "talking" /\ e.open = c.open \cup {c.n + 1}
        /\ e.own = (IF own THEN c.own \cup {c.n + 1} ELSE c.own)
        /\ e.gauge = c.gauge /\ BillKept("gemini", e)
    BY <1>1, NotMeasured DEF HasCalled
  <2>2. TextKept("gemini", b, e) /\ CallsKept("gemini", b, e)
    BY <2>1 DEF TextKept, CallsKept
  <2>3. CuesKept("gemini", b, e)
    <3>1. a.cues = c.own \cap c.open /\ c.n + 1 \notin c.own
      BY <1>1, <1>2 DEF CuesKept
    <3>2. b.cues = e.own \cap e.open
      BY <1>4, <1>5, <2>1, <3>1
    <3> QED  BY <3>2 DEF CuesKept
  <2>4. GaugeKept("gemini", b, e, reading)
    BY <1>1, <1>5, <2>1 DEF GaugeKept
  <2> QED  BY <2>1, <2>2, <2>3, <2>4 DEF TurnInv
<1> QED  BY <1>8, <1>9, GoesBy

LEMMA PiCalls ==
  ASSUME NEW a, NEW c, NEW reading, Going("pi", a, c, reading),
         NEW k, NEW s \in Nat \ {0}, NEW big \in BOOLEAN, NEW say \in Seq(Block),
         NEW shows \in Seq(Block), Rendered(say) = shows,
         NEW e, HasCalled("pi", c, e, k, s, FALSE, shows, big),
         NEW line, LineIs(line, "message_end", c.n + 1, big, FALSE, s, say)
  PROVE  Goes("pi", a, c, reading, line, e, shows, <<>>)
<1> DEFINE b == [a EXCEPT !.last = s]
           m == IF s = a.last THEN 0 ELSE s
<1>1. /\ a \in Adapters /\ reading \in Nat /\ c \in Turn /\ Named(c) /\ c.at = "talking"
      /\ TextKept("pi", a, c) /\ CuesKept("pi", a, c) /\ GaugeKept("pi", a, c, reading)
  BY DEF Going, TurnInv
<1>2. a.text = <<>> /\ c.own = {}
  BY <1>1 DEF TextKept, CuesKept
<1>3. line.say = say /\ line.ty = "message_end" /\ line.tok = s
  BY DEF LineIs
<1>4. b \in Adapters /\ b.text = <<>> /\ b.last = s
  BY <1>1, <1>2 DEF Adapters
<1>5. Leaves(Handle("pi", a, line), b, shows, <<>>, m, NoSid)
  <2>1. Leaves(HandlePi(a, line), IF line.tok = 0 THEN a ELSE [a EXCEPT !.last = line.tok],
               Rendered(line.say), <<>>, IF line.tok = a.last THEN 0 ELSE line.tok, NoSid)
    BY <1>1, <1>3, PiMessageLine
  <2>2. Handle("pi", a, line) = HandlePi(a, line)
    BY DEF Handle
  <2> QED  BY <1>3, <2>1, <2>2
<1>6. (IF m = 0 THEN reading ELSE m) = s
  BY <1>1 DEF GaugeKept
<1> HIDE DEF b, m
<1>7. TurnInv("pi", b, e, s)
  <2>1. /\ e \in Turn /\ Named(e) /\ e.own = c.own /\ BillKept("pi", e)
        /\ e.gauge = Measured("pi", c.gauge, s, big)
    BY DEF HasCalled
  <2>4. e.gauge.low = s /\ e.gauge.high = s
    BY <1>1, <2>1 DEF Measured, Turn, Gauges
  <2>2. TextKept("pi", b, e) /\ CallsKept("pi", b, e)
    BY <1>4 DEF TextKept, CallsKept
  <2>3. CuesKept("pi", b, e) /\ GaugeKept("pi", b, e, s)
    BY <1>2, <1>4, <2>1, <2>4 DEF CuesKept, GaugeKept
  <2> QED  BY <2>1, <2>2, <2>3 DEF TurnInv
<1> QED  BY <1>1, <1>2, <1>4, <1>5, <1>6, <1>7, GoesPlainly

LEMMA HermesCalls ==
  ASSUME NEW a, NEW c, NEW reading, Going("hermes", a, c, reading),
         NEW k, NEW s, NEW big \in BOOLEAN, NEW shows \in Seq(Block),
         NEW e, HasCalled("hermes", c, e, k, s, FALSE, shows, big),
         NEW line, LineIs(line, "assistant", c.n + 1, big, FALSE, s, shows)
  PROVE  Goes("hermes", a, c, reading, line, e, shows, <<>>)
<1>1. /\ a \in Adapters /\ reading \in Nat /\ c \in Turn /\ Named(c) /\ c.at = "talking"
      /\ TextKept("hermes", a, c) /\ CuesKept("hermes", a, c) /\ GaugeKept("hermes", a, c, reading)
  BY DEF Going, TurnInv
<1>2. a.text = <<>>
  BY <1>1 DEF TextKept
<1>3. line.say = shows /\ line.say \in Seq(Block) /\ line.ty = "assistant"
  BY DEF LineIs
<1>4. Leaves(Handle("hermes", a, line), a, shows, <<>>, 0, NoSid)
  <2>1. Leaves(HandleHermes(a, line), a, line.say, <<>>, 0, NoSid)
    BY <1>1, <1>3, HermesShowsLine
  <2>2. Handle("hermes", a, line) = HandleHermes(a, line)
    BY DEF Handle
  <2> QED  BY <1>3, <2>1, <2>2
<1>5. TurnInv("hermes", a, e, reading)
  <2>1. e \in Turn /\ Named(e) /\ e.own = c.own /\ e.gauge = c.gauge /\ BillKept("hermes", e)
    BY NotMeasured DEF HasCalled
  <2>2. TextKept("hermes", a, e) /\ CallsKept("hermes", a, e)
    BY <1>2 DEF TextKept, CallsKept
  <2>3. CuesKept("hermes", a, e) /\ GaugeKept("hermes", a, e, reading)
    BY <1>1, <2>1 DEF CuesKept, GaugeKept
  <2> QED  BY <2>1, <2>2, <2>3 DEF TurnInv
<1> QED  BY <1>1, <1>2, <1>4, <1>5, GoesPlainly

-----------------------------------------------------------------------------
(* A tool call is answered                                                 *)

HasAnswered(d, c, e, i, big) ==
  /\ e \in Turn /\ Named(e)
  /\ e.at = c.at /\ e.n = c.n + 1 /\ e.open = c.open \ {i} /\ e.own = c.own
  /\ e.shown = c.shown \cup {i} /\ e.calls = c.calls /\ e.final = c.final
  /\ e.gauge = [c.gauge EXCEPT !.blurred = @ \/ (d = "cursor" /\ big)] /\ BillKept(d, e)

\* Nothing is read of them, but by cursor's adapter.
LEMMA AnsweredGauge ==
  ASSUME NEW d, d # "cursor", NEW c \in Turn, NEW e, NEW i, NEW big, HasAnswered(d, c, e, i, big)
  PROVE  e.gauge = c.gauge
<1>1. e.gauge = [c.gauge EXCEPT !.blurred = @ \/ (d = "cursor" /\ big)] /\ c.gauge \in Gauges
  BY DEF HasAnswered, Turn
<1>2. (c.gauge.blurred \/ (d = "cursor" /\ big)) = c.gauge.blurred
  BY <1>1 DEF Gauges
<1> QED  BY <1>1, <1>2 DEF Gauges

CueFor(c, i) == Unless(i \notin c.own, <<Cue>>)

LEMMA CueForType == \A c, i : CueFor(c, i) \in Seq(Signal)
<1>1. Yields(<<>>, <<>>, <<>>, 0, NoSid) /\ Yields(<<Cue>>, <<>>, <<Cue>>, 0, NoSid)
  BY YieldsNothing, YieldsSignal, SignalsOf
<1>2. <<>> \in Seq(Signal) /\ <<Cue>> \in Seq(Signal)
  BY <1>1 DEF Yields
<1> QED  BY <1>2 DEF CueFor, Unless

\* claude and gemini wait for the result of the agent's own call.
LEMMA ClaudeAnswers ==
  ASSUME NEW d \in {"claude", "gemini"}, NEW a, NEW c, NEW reading, Going(d, a, c, reading),
         NEW i \in c.open, NEW big \in BOOLEAN, i \in c.own => ~big,
         NEW e, HasAnswered(d, c, e, i, big),
         NEW line, line.ty = (IF d = "claude" THEN "user" ELSE "tool_result"),
         line.id = i, line.big = big, line.holds = {}
  PROVE  Goes(d, a, c, reading, line, e, <<>>, CueFor(c, i))
<1> DEFINE b == [a EXCEPT !.cues = @ \ {i}]
<1>1. /\ a \in Adapters /\ reading \in Nat /\ c \in Turn /\ Named(c) /\ c.at = "talking"
      /\ TextKept(d, a, c) /\ CuesKept(d, a, c) /\ GaugeKept(d, a, c, reading)
  BY DEF Going, TurnInv
<1>2. a.cues = c.own \cap c.open /\ (i \in a.cues <=> i \in c.own) /\ a.text \in Seq(Block)
  BY <1>1 DEF CuesKept, Adapters
<1>3. b \in Adapters /\ b.text = a.text /\ b.last = a.last /\ b.cues = a.cues \ {i}
  BY <1>1 DEF Adapters
<1>4. Leaves(Handle(d, a, line), b, <<>>, CueFor(c, i), 0, NoSid)
  <2>1. Unless(line.id \notin a.cues, <<Cue>>) = CueFor(c, i)
    BY <1>2 DEF Unless, CueFor
  <2>2. CASE d = "claude"
    <3>1. Leaves(HandleClaude(a, line), [a EXCEPT !.cues = @ \ {line.id}], <<>>,
                 Unless(line.id \notin a.cues, <<Cue>>), 0, NoSid)
      BY <1>1, <2>2, ClaudeUserLine
    <3>2. Handle(d, a, line) = HandleClaude(a, line)
      BY <2>2 DEF Handle
    <3> QED  BY <2>1, <3>1, <3>2
  <2>3. CASE d = "gemini"
    <3>1. Leaves(HandleGemini(a, line), [a EXCEPT !.cues = @ \ {line.id}], <<>>,
                 Unless(line.id \notin a.cues, <<Cue>>), 0, NoSid)
      BY <1>1, <1>2, <2>3, GeminiAnswerLine
    <3>2. Handle(d, a, line) = HandleGemini(a, line)
      BY <2>3 DEF Handle
    <3> QED  BY <2>1, <3>1, <3>2
  <2> QED  BY <2>2, <2>3
<1> HIDE DEF b
<1>5. Tells(d, a, line, b, <<>>, CueFor(c, i), 0, NoSid)
  <2>1. <<>> \o b.text = a.text \o <<>> /\ <<>> \in Seq(Block)
    BY <1>2, <1>3, NoBlocks
  <2> QED  BY <1>1, <1>3, <1>4, <2>1, TellsFrom
<1>6. TurnInv(d, b, e, reading)
  <2>0. e.gauge = c.gauge
    BY <1>1, AnsweredGauge
  <2>1. /\ e \in Turn /\ Named(e) /\ e.at = "talking" /\ e.open = c.open \ {i} /\ e.own = c.own
        /\ e.gauge = c.gauge /\ BillKept(d, e)
    BY <1>1, <2>0 DEF HasAnswered
  <2>2. TextKept(d, b, e) /\ CallsKept(d, b, e)
    BY <1>1, <1>3, <2>1 DEF TextKept, CallsKept
  <2>3. CuesKept(d, b, e)
    <3>1. b.cues = e.own \cap e.open
      BY <1>2, <1>3, <2>1
    <3> QED  BY <3>1 DEF CuesKept
  <2>4. GaugeKept(d, b, e, reading)
    BY <1>1, <1>3, <2>1 DEF GaugeKept
  <2> QED  BY <2>1, <2>2, <2>3, <2>4 DEF TurnInv
<1> QED  BY <1>5, <1>6, GoesBy

LEMMA CodexAnswers ==
  ASSUME NEW a, NEW c, NEW reading, Going("codex", a, c, reading),
         NEW i \in c.open, NEW big \in BOOLEAN, NEW say \in Seq(Block), Rendered(say) = say, say # <<>>,
         NEW e, HasAnswered("codex", c, e, i, big),
         NEW line, line.ty = "item.completed", line.id = i, line.own = (i \in c.own), line.say = say
  PROVE  Goes("codex", a, c, reading, line, e, IF i \in c.shown THEN <<>> ELSE say, CueFor(c, i))
<1> DEFINE b == [a EXCEPT !.shown = @ \cup {i}]
           says == IF i \in c.shown THEN <<>> ELSE say
<1>1. /\ a \in Adapters /\ reading \in Nat /\ c \in Turn /\ Named(c) /\ c.at = "talking"
      /\ TextKept("codex", a, c) /\ GaugeKept("codex", a, c, reading)
  BY DEF Going, TurnInv
<1>2. /\ c.n \in Nat /\ c.open \subseteq 1..c.n /\ i \in 1..c.n /\ i \in Nat
      /\ a.text = <<>> /\ a.shown \subseteq 1..c.n /\ a.shown \cap c.open = c.shown \cap c.open
  BY <1>1 DEF Turn, Named, TextKept
<1>3. i \in a.shown <=> i \in c.shown
  BY <1>2
<1>4. b \in Adapters /\ b.text = <<>> /\ b.shown = a.shown \cup {i}
  BY <1>1, <1>2 DEF Adapters
<1>5. Leaves(Handle("codex", a, line), b, says, CueFor(c, i), 0, NoSid)
  <2>1. LET r == Rendered(line.say) IN
        Leaves(HandleCodex(a, line),
               IF r # <<>> THEN [a EXCEPT !.shown = @ \cup {line.id}] ELSE a,
               IF line.id \in a.shown THEN <<>> ELSE r,
               Unless(line.ty = "item.started" \/ ~line.own, <<Cue>>), 0, NoSid)
    <3>1. line.id \in Nat /\ line.own \in BOOLEAN
      BY <1>2
    <3>2. line.ty \in {"item.started", "item.completed"} /\ line.say \in Seq(Block)
      OBVIOUS
    <3>3. IsItem(line)
      BY <3>1, <3>2 DEF IsItem
    <3> QED  BY <1>1, <3>3, CodexItemLine
  <2>2. Unless(line.ty = "item.started" \/ ~line.own, <<Cue>>) = CueFor(c, i)
    BY DEF Unless, CueFor
  <2>3. Handle("codex", a, line) = HandleCodex(a, line)
    BY DEF Handle
  <2> QED  BY <1>3, <2>1, <2>2, <2>3
<1> HIDE DEF b, says
<1>6. TurnInv("codex", b, e, reading)
  <2>0. e.gauge = c.gauge
    BY <1>1, AnsweredGauge
  <2>1. /\ e \in Turn /\ Named(e) /\ e.at = c.at /\ e.n = c.n + 1 /\ e.open = c.open \ {i}
        /\ e.shown = c.shown \cup {i} /\ e.gauge = c.gauge /\ BillKept("codex", e)
    BY <1>1, <2>0 DEF HasAnswered
  <2>2. TextKept("codex", b, e)
    <3>1. b.shown \subseteq 1..(c.n + 1)
      BY <1>2, <1>4
    <3>2. b.shown \cap e.open = e.shown \cap e.open
      BY <1>2, <1>4, <2>1
    <3> QED  BY <1>4, <2>1, <3>1, <3>2 DEF TextKept
  <2>3. CuesKept("codex", b, e) /\ CallsKept("codex", b, e)
    BY DEF CuesKept, CallsKept
  <2>4. GaugeKept("codex", b, e, reading)
    BY <1>1, <2>1 DEF GaugeKept
  <2> QED  BY <2>1, <2>2, <2>3, <2>4 DEF TurnInv
<1> QED  BY <1>1, <1>2, <1>4, <1>5, <1>6, GoesPlainly DEF says

LEMMA CursorAnswers ==
  ASSUME NEW a, NEW c, NEW reading, Going("cursor", a, c, reading),
         NEW i \in c.open, NEW big \in BOOLEAN, i \in c.own => ~big,
         NEW say \in Seq(Block), Rendered(say) = say,
         NEW e, HasAnswered("cursor", c, e, i, big),
         NEW line, line.ty = "tool_call.completed", line.big = big, line.own = (i \in c.own),
         line.say = say, line.call = c.calls, line.holds = {}
  PROVE  /\ Goes("cursor", a, c, reading, line, e, say, CueFor(c, i))
         /\ i \notin c.shown
<1> DEFINE b == IF big \/ c.calls = 0 THEN a ELSE [a EXCEPT !.calls = @ \cup {c.calls}]
<1>1. /\ a \in Adapters /\ reading \in Nat /\ c \in Turn /\ Named(c) /\ c.at = "talking"
      /\ TextKept("cursor", a, c) /\ CallsKept("cursor", a, c) /\ GaugeKept("cursor", a, c, reading)
  BY DEF Going, TurnInv
<1>2. /\ c.calls \in Nat /\ c.gauge.blurred \in BOOLEAN /\ c.final \in BOOLEAN
      /\ a.text = <<>> /\ c.open \cap c.shown = {} /\ i \notin c.shown
  BY <1>1 DEF Turn, TextKept, Gauges
<1>3. /\ b \in Adapters /\ b.text = <<>> /\ b.unnamed = a.unnamed
      /\ b.calls = (IF big \/ c.calls = 0 THEN a.calls ELSE a.calls \cup {c.calls})
  <2>1. CASE big \/ c.calls = 0
    BY <1>1, <1>2, <2>1
  <2>2. CASE ~(big \/ c.calls = 0)
    BY <1>1, <1>2, <2>2 DEF Adapters
  <2> QED  BY <2>1, <2>2
<1>4. Leaves(Handle("cursor", a, line), b, say, CueFor(c, i), 0, NoSid)
  <2>1. Leaves(HandleCursor(a, line), IF line.big THEN a ELSE CursorModelCall(a, line),
               Rendered(line.say), Unless(line.big \/ ~line.own, <<Cue>>), 0, NoSid)
    <3>1. line.big \in BOOLEAN /\ line.own \in BOOLEAN /\ line.say \in Seq(Block)
      OBVIOUS
    <3> QED  BY <1>1, <3>1, CursorToolLine
  <2>2. Unless(line.big \/ ~line.own, <<Cue>>) = CueFor(c, i)
    BY DEF Unless, CueFor
  <2>3. Handle("cursor", a, line) = HandleCursor(a, line)
    BY DEF Handle
  <2>4. (IF line.big THEN a ELSE CursorModelCall(a, line)) = b
    BY DEF CursorModelCall
  <2> HIDE DEF b
  <2> QED  BY <2>1, <2>2, <2>3, <2>4
<1> HIDE DEF b
<1>5. TurnInv("cursor", b, e, reading)
  <2>1. /\ e \in Turn /\ Named(e) /\ e.at = "talking" /\ e.open = c.open \ {i}
        /\ e.shown = c.shown \cup {i} /\ BillKept("cursor", e)
        /\ e.calls = c.calls /\ e.final = c.final
        /\ e.gauge = [c.gauge EXCEPT !.blurred = @ \/ big]
    BY <1>1 DEF HasAnswered
  <2>5. /\ e.gauge.blurred = (c.gauge.blurred \/ big)
        /\ e.gauge.low = c.gauge.low /\ e.gauge.high = c.gauge.high
    BY <1>1, <2>1 DEF Turn, Gauges
  <2>2. TextKept("cursor", b, e) /\ CuesKept("cursor", b, e)
    <3>1. e.open \cap e.shown = {}
      BY <1>2, <2>1
    <3> QED  BY <1>3, <3>1 DEF TextKept, CuesKept
  <2>3. GaugeKept("cursor", b, e, reading)
    BY <1>1, <1>2, <2>5 DEF GaugeKept
  <2>4. CallsKept("cursor", b, e)
    <3>1. /\ a.unnamed = c.final /\ a.calls \subseteq 1..c.calls
          /\ ~c.gauge.blurred => 1..(c.calls - 1) \subseteq a.calls
          /\ ~c.final
      BY <1>1 DEF CallsKept
    <3>2. b.calls \subseteq 1..c.calls
      BY <1>2, <1>3, <3>1
    <3>3. ~e.gauge.blurred => 1..(c.calls - 1) \subseteq b.calls
      BY <1>3, <2>5, <3>1
    <3>4. ~e.gauge.blurred /\ c.calls > 0 => c.calls \in b.calls
      BY <1>2, <1>3, <2>5
    <3> QED  BY <1>3, <2>1, <3>1, <3>2, <3>3, <3>4 DEF CallsKept
  <2> QED  BY <2>1, <2>2, <2>3, <2>4 DEF TurnInv
<1>6. Goes("cursor", a, c, reading, line, e, say, CueFor(c, i))
  BY <1>1, <1>2, <1>3, <1>4, <1>5, GoesPlainly
<1> QED  BY <1>2, <1>6

\* pi says nothing of it, hermes shows it; neither has calls of its own.
LEMMA PiAnswers ==
  ASSUME NEW d \in {"pi", "hermes"}, NEW a, NEW c, NEW reading, Going(d, a, c, reading),
         NEW i \in c.open, NEW big \in BOOLEAN, NEW say \in Seq(Block),
         NEW e, HasAnswered(d, c, e, i, big),
         NEW line, line.ty = (IF d = "pi" THEN "tool_execution_end" ELSE "user"), line.say = say
  PROVE  Goes(d, a, c, reading, line, e, IF d = "pi" THEN <<>> ELSE say, <<>>)
<1> DEFINE says == IF d = "pi" THEN <<>> ELSE say
<1>1. /\ a \in Adapters /\ reading \in Nat /\ c \in Turn /\ Named(c) /\ c.at = "talking"
      /\ TextKept(d, a, c) /\ CuesKept(d, a, c) /\ GaugeKept(d, a, c, reading)
  BY DEF Going, TurnInv
<1>2. a.text = <<>>
  BY <1>1 DEF TextKept
<1>3. Leaves(Handle(d, a, line), a, says, <<>>, 0, NoSid)
  <2>1. CASE d = "pi"
    <3>1. Leaves(HandlePi(a, line), a, <<>>, <<>>, 0, NoSid)
      BY <1>1, <2>1, PiQuietLine
    <3>2. Handle(d, a, line) = HandlePi(a, line)
      BY <2>1 DEF Handle
    <3> QED  BY <2>1, <3>1, <3>2
  <2>2. CASE d = "hermes"
    <3>1. Leaves(HandleHermes(a, line), a, line.say, <<>>, 0, NoSid)
      BY <1>1, <2>2, HermesShowsLine
    <3>2. Handle(d, a, line) = HandleHermes(a, line)
      BY <2>2 DEF Handle
    <3> QED  BY <2>2, <3>1, <3>2
  <2> QED  BY <2>1, <2>2
<1> HIDE DEF says
<1>4. TurnInv(d, a, e, reading)
  <2>0. e.gauge = c.gauge
    BY <1>1, AnsweredGauge
  <2>1. e \in Turn /\ Named(e) /\ e.own = c.own /\ e.gauge = c.gauge /\ BillKept(d, e)
    BY <1>1, <2>0 DEF HasAnswered
  <2>2. TextKept(d, a, e) /\ CallsKept(d, a, e)
    BY <1>2 DEF TextKept, CallsKept
  <2>3. CuesKept(d, a, e) /\ GaugeKept(d, a, e, reading)
    BY <1>1, <2>1 DEF CuesKept, GaugeKept
  <2> QED  BY <2>1, <2>2, <2>3 DEF TurnInv
<1> QED  BY <1>1, <1>2, <1>3, <1>4, GoesPlainly DEF says

-----------------------------------------------------------------------------
(* Lines that are no words or calls of the agent                           *)

HasPassed(d, c, e) ==
  /\ e \in Turn /\ Named(e)
  /\ e.at = c.at /\ e.n = c.n + 1 /\ e.open = c.open /\ e.own = c.own /\ e.shown = c.shown
  /\ e.calls = c.calls /\ e.final = c.final /\ e.gauge = c.gauge /\ BillKept(d, e)

\* They leave the adapter as it was.
LEMMA PassesBy ==
  ASSUME NEW d, NEW a, NEW c, NEW reading, Going(d, a, c, reading), NEW e, HasPassed(d, c, e),
         NEW line, NEW says, NEW signals, d # "gemini" \/ says = <<>>,
         Leaves(Handle(d, a, line), a, says, signals, 0, NoSid)
  PROVE  Goes(d, a, c, reading, line, e, says, signals)
<1>1. /\ a \in Adapters /\ reading \in Nat /\ c \in Turn /\ Named(c) /\ c.at = "talking"
      /\ TextKept(d, a, c) /\ CuesKept(d, a, c) /\ GaugeKept(d, a, c, reading) /\ CallsKept(d, a, c)
  BY DEF Going, TurnInv
<1>2. c.n \in Nat /\ a.text \in Seq(Block)
  BY <1>1 DEF Turn, Adapters
<1>3. TurnInv(d, a, e, reading)
  <2>1. /\ e \in Turn /\ Named(e) /\ e.at = c.at /\ e.n = c.n + 1 /\ e.open = c.open
        /\ e.own = c.own /\ e.shown = c.shown /\ e.calls = c.calls /\ e.final = c.final
        /\ e.gauge = c.gauge /\ BillKept(d, e)
    BY DEF HasPassed
  <2>2. TextKept(d, a, e)
    <3>1. d = "codex" => a.shown \subseteq 1..(c.n + 1)
      <4>1. 1..c.n \subseteq 1..(c.n + 1)
        BY <1>2
      <4> QED  BY <1>1, <4>1 DEF TextKept
    <3> QED  BY <1>1, <2>1, <3>1 DEF TextKept
  <2>3. CuesKept(d, a, e) /\ GaugeKept(d, a, e, reading)
    BY <1>1, <2>1 DEF CuesKept, GaugeKept
  <2>4. CallsKept(d, a, e)
    BY <1>1, <2>1 DEF CallsKept
  <2> QED  BY <2>1, <2>2, <2>3, <2>4 DEF TurnInv
<1>4. CASE d # "gemini"
  <2>1. a.text = <<>>
    BY <1>1, <1>4 DEF TextKept
  <2> QED  BY <1>1, <1>3, <2>1, GoesPlainly
<1>5. CASE d = "gemini"
  <2>1. says = <<>> /\ <<>> \in Seq(Block) /\ <<>> \o a.text = a.text \o <<>>
    BY <1>2, <1>5, NoBlocks
  <2>2. Leaves(Handle(d, a, line), a, <<>>, signals, 0, NoSid)
    BY <2>1
  <2>3. Tells(d, a, line, a, <<>>, signals, 0, NoSid)
    BY <1>1, <2>1, <2>2, TellsFrom
  <2> QED  BY <1>3, <2>1, <2>3, GoesBy
<1> QED  BY <1>4, <1>5

\* Asides are not for the chat.
LEMMA HiddenAside ==
  ASSUME NEW n \in Nat
  PROVE  /\ Rendered(<<Hidden("thinking", n)>>) = <<>> /\ <<Hidden("thinking", n)>> \in Seq(Block)
         /\ Rendered(<<Hidden("bare", n)>>) = <<>> /\ <<Hidden("bare", n)>> \in Seq(Block)
         /\ Rendered(<<Hidden("meta", n)>>) = <<>> /\ <<Hidden("meta", n)>> \in Seq(Block)
<1>1. \A kind \in {"thinking", "bare", "meta"} : Hidden(kind, n) \in Block
        /\ ~Renderable(Hidden(kind, n))
  BY Blocks, Visible DEF Aside
<1> QED  BY <1>1, RenderedOne, SeqOfOne

\* What the CLI of claude or the plugin of hermes writes beside its JSON.
LEMMA RawLine ==
  ASSUME NEW d \in {"claude", "hermes"}, NEW a, NEW c, NEW reading, Going(d, a, c, reading),
         NEW e, HasPassed(d, c, e), NEW line, line.ty = "other", line.holds = {}, line.say \in Seq(Block)
  PROVE  Goes(d, a, c, reading, line, e, line.say, <<>>)
<1>1. a \in Adapters
  BY DEF Going
<1>2. Leaves(HandleClaude(a, line), a, line.say, <<>>, 0, NoSid)
  BY <1>1, ClaudeOtherLine
<1>3. Leaves(HandleHermes(a, line), a, line.say, <<>>, 0, NoSid)
  BY <1>1, HermesShowsLine
<1>4. Handle(d, a, line) = HandleClaude(a, line) \/ Handle(d, a, line) = HandleHermes(a, line)
  BY DEF Handle
<1>5. Leaves(Handle(d, a, line), a, line.say, <<>>, 0, NoSid)
  BY <1>2, <1>3, <1>4
<1>6. d # "gemini"
  OBVIOUS
<1> QED  BY <1>5, <1>6, PassesBy

\* A line nothing is made of.
LEMMA QuietLine ==
  ASSUME NEW d, NEW a, NEW c, NEW reading, Going(d, a, c, reading), NEW e, HasPassed(d, c, e),
         NEW line, line.holds = {},
         \/ d \in {"codex", "cursor", "gemini", "pi"} /\ line.ty = "other"
         \/ d = "claude" /\ line.ty \in {"stream_event", "system"}
         \/ d = "claude" /\ line.ty = "user" /\ line.id = c.n + 1
         \/ d = "claude" /\ LineIs(line, "assistant", c.n + 1, TRUE, FALSE, 0,
              <<Hidden("thinking", c.n + 1)>>)
         \/ d = "codex" /\ LineIs(line, "item.completed", c.n + 1, FALSE, FALSE, 0,
              <<Hidden("thinking", c.n + 1)>>)
         \/ d = "codex" /\ line.ty = "thread.started" /\ line.big = TRUE
         \/ d = "pi" /\ line.ty = "session" /\ line.big = TRUE
  PROVE  Goes(d, a, c, reading, line, e, <<>>, <<>>)
<1>1. /\ a \in Adapters /\ c \in Turn /\ Named(c) /\ CuesKept(d, a, c)
  BY DEF Going, TurnInv
<1>2. c.n + 1 \in Nat /\ c.n \in Nat /\ c.own \subseteq 1..c.n
  BY <1>1 DEF Turn, Named
<1>3. SUFFICES Leaves(Handle(d, a, line), a, <<>>, <<>>, 0, NoSid)
  BY PassesBy
<1>4. CASE d \in {"codex", "cursor", "gemini", "pi"} /\ line.ty = "other"
  <2>1. CASE d = "codex"
    BY <1>1, <1>4, <2>1, CodexQuietLine DEF Handle
  <2>2. CASE d = "cursor"
    BY <1>1, <1>4, <2>2, CursorQuietLine DEF Handle
  <2>3. CASE d = "gemini"
    BY <1>1, <1>4, <2>3, GeminiQuietLine DEF Handle
  <2>4. CASE d = "pi"
    BY <1>1, <1>4, <2>4, PiQuietLine DEF Handle
  <2> QED  BY <1>4, <2>1, <2>2, <2>3, <2>4
<1>5. CASE d = "claude" /\ line.ty \in {"stream_event", "system"}
  BY <1>1, <1>5, ClaudeQuietLine DEF Handle
<1>6. CASE d = "claude" /\ line.ty = "user" /\ line.id = c.n + 1
  <2>1. Leaves(HandleClaude(a, line), [a EXCEPT !.cues = @ \ {line.id}], <<>>,
               Unless(line.id \notin a.cues, <<Cue>>), 0, NoSid)
    BY <1>1, <1>6, ClaudeUserLine
  <2>2. line.id \notin a.cues
    BY <1>1, <1>2, <1>6 DEF CuesKept
  <2>3. a.cues \ {line.id} = a.cues
    BY <2>2
  <2>4. [a EXCEPT !.cues = @ \ {line.id}] = a
    BY <1>1, <2>3 DEF Adapters
  <2>5. Unless(line.id \notin a.cues, <<Cue>>) = <<>>
    BY <2>2 DEF Unless
  <2>6. Handle(d, a, line) = HandleClaude(a, line)
    BY <1>6 DEF Handle
  <2> QED  BY <2>1, <2>4, <2>5, <2>6
<1>7. CASE d = "claude" /\ LineIs(line, "assistant", c.n + 1, TRUE, FALSE, 0,
             <<Hidden("thinking", c.n + 1)>>)
  <2>1. Rendered(<<Hidden("thinking", c.n + 1)>>) = <<>>
    BY <1>2, HiddenAside
  <2>2. line.ty = "assistant" /\ line.big /\ ~line.own /\ Rendered(line.say) = <<>>
    BY <1>7, <2>1 DEF LineIs
  <2>3. Handle(d, a, line) = HandleClaude(a, line)
    BY <1>7 DEF Handle
  <2> QED  BY <1>1, <2>2, <2>3, ClaudeQuietLine
<1>8. CASE d = "codex" /\ LineIs(line, "item.completed", c.n + 1, FALSE, FALSE, 0,
             <<Hidden("thinking", c.n + 1)>>)
  <2>1. Rendered(<<Hidden("thinking", c.n + 1)>>) = <<>>
          /\ <<Hidden("thinking", c.n + 1)>> \in Seq(Block)
    BY <1>2, HiddenAside
  <2>2. /\ line.ty \in {"item.started", "item.completed"} /\ line.id \in Nat /\ line.own = FALSE
        /\ line.own \in BOOLEAN /\ line.say \in Seq(Block) /\ Rendered(line.say) = <<>>
    BY <1>2, <1>8, <2>1 DEF LineIs
  <2>3. LET r == Rendered(line.say) IN
        Leaves(HandleCodex(a, line),
               IF r # <<>> THEN [a EXCEPT !.shown = @ \cup {line.id}] ELSE a,
               IF line.id \in a.shown THEN <<>> ELSE r,
               Unless(line.ty = "item.started" \/ ~line.own, <<Cue>>), 0, NoSid)
    <3>1. IsItem(line)
      BY <2>2 DEF IsItem
    <3> QED  BY <1>1, <3>1, CodexItemLine
  <2>4. Unless(line.ty = "item.started" \/ ~line.own, <<Cue>>) = <<>>
    BY <2>2 DEF Unless
  <2>5. Handle(d, a, line) = HandleCodex(a, line)
    BY <1>8 DEF Handle
  <2> QED  BY <2>2, <2>3, <2>4, <2>5
<1>9. CASE d = "codex" /\ line.ty = "thread.started" /\ line.big = TRUE
  BY <1>1, <1>9, CodexQuietLine DEF Handle
<1>10. CASE d = "pi" /\ line.ty = "session" /\ line.big = TRUE
  BY <1>1, <1>10, PiQuietLine DEF Handle
<1> QED  BY <1>4, <1>5, <1>6, <1>7, <1>8, <1>9, <1>10

\* claude: the words of a subagent, with the subagent's usage.
LEMMA SubagentLine ==
  ASSUME NEW a, NEW c, NEW reading, Going("claude", a, c, reading), NEW e, HasPassed("claude", c, e),
         NEW line, line.ty = "assistant", line.sub, line.holds = {}, line.own = FALSE, line.id = c.n + 1,
         line.tok \in Nat, line.task = FALSE, line.ok, line.say = <<Text(c.n + 1)>>
  PROVE  Goes("claude", a, c, reading, line, e, <<Text(c.n + 1)>>, <<>>)
<1>1. a \in Adapters /\ c.n + 1 \in Nat
  BY DEF Going, TurnInv, Turn
<1>2. line.say \in Seq(Block) /\ Rendered(line.say) # <<>>
  BY <1>1, RenderedText
<1>3. LET own == ~line.big /\ ~line.sub
          b == IF own /\ line.tok # 0 THEN [a EXCEPT !.last = line.tok] ELSE a IN
      Leaves(HandleClaude(a, line), Awaiting(b, line), line.say, <<>>,
             IF own /\ line.tok # a.last THEN line.tok ELSE 0, NoSid)
  BY <1>1, <1>2, ClaudeAssistantLine
<1>4. Awaiting(a, line) = a
  BY DEF Awaiting
<1>5. Handle("claude", a, line) = HandleClaude(a, line)
  BY DEF Handle
<1>6. Leaves(Handle("claude", a, line), a, line.say, <<>>, 0, NoSid)
  BY <1>3, <1>4, <1>5
<1> QED  BY <1>6, PassesBy

\* claude: the lines of its background tasks, and of a compaction.
LEMMA TaskLine ==
  ASSUME NEW a, NEW c, NEW reading, Going("claude", a, c, reading), NEW e, HasPassed("claude", c, e),
         NEW line, line.id \in Nat, line.ok \in BOOLEAN, line.holds = {},
         line.ty \in {"task_started", "task_notification", "task_updated"}
  PROVE  Goes("claude", a, c, reading, line, e, <<>>, ClaudeTask(line))
<1>1. a \in Adapters
  BY DEF Going
<1>2. Handle("claude", a, line) = HandleClaude(a, line)
  BY DEF Handle
<1>3. Leaves(HandleClaude(a, line), a, <<>>, ClaudeTask(line),
             IF line.ty = "compact_boundary" THEN line.tok ELSE 0, NoSid)
  BY <1>1, ClaudeTaskLine
<1>4. Leaves(Handle("claude", a, line), a, <<>>, ClaudeTask(line), 0, NoSid)
  BY <1>2, <1>3
<1> QED  BY <1>4, PassesBy

\* claude's compaction: a reading the adapter does not keep.
LEMMA CompactLine ==
  ASSUME NEW a, NEW c, NEW reading, Going("claude", a, c, reading), NEW s \in Nat \ {0},
         NEW e, e \in Turn, Named(e), e.open = c.open, e.own = c.own,
         e.gauge = [low |-> s, high |-> s, told |-> c.gauge.told, packed |-> TRUE, blurred |-> FALSE],
         NEW line, line.id \in Nat, line.ok \in BOOLEAN, line.holds = {},
         line.ty = "compact_boundary", line.tok = s
  PROVE  Goes("claude", a, c, reading, line, e, <<>>, ClaudeTask(line))
<1>1. /\ a \in Adapters /\ reading \in Nat /\ c \in Turn /\ Named(c)
      /\ TextKept("claude", a, c) /\ CuesKept("claude", a, c) /\ GaugeKept("claude", a, c, reading)
  BY DEF Going, TurnInv
<1>2. Handle("claude", a, line) = HandleClaude(a, line)
  BY DEF Handle
<1>3. Leaves(HandleClaude(a, line), a, <<>>, ClaudeTask(line),
             IF line.ty = "compact_boundary" THEN line.tok ELSE 0, NoSid)
  BY <1>1, ClaudeTaskLine
<1>4. Leaves(Handle("claude", a, line), a, <<>>, ClaudeTask(line), s, NoSid)
  BY <1>2, <1>3
<1>5. a.text = <<>>
  BY <1>1 DEF TextKept
<1>6. TurnInv("claude", a, e, IF s = 0 THEN reading ELSE s)
  <2>1. TextKept("claude", a, e) /\ CallsKept("claude", a, e) /\ BillKept("claude", e)
    BY <1>5 DEF TextKept, CallsKept, BillKept
  <2>2. CuesKept("claude", a, e)
    BY <1>1 DEF CuesKept
  <2>3. GaugeKept("claude", a, e, IF s = 0 THEN reading ELSE s)
    <3>1. /\ e.gauge.low = s /\ e.gauge.high = s /\ e.gauge.told = c.gauge.told
          /\ e.gauge.packed = TRUE /\ s # 0 /\ s <= s
      OBVIOUS
    <3>2. a.last = c.gauge.told
      BY <1>1 DEF GaugeKept
    <3> QED  BY <3>1, <3>2 DEF GaugeKept
  <2> QED  BY <2>1, <2>2, <2>3 DEF TurnInv
<1> QED  BY <1>1, <1>4, <1>5, <1>6, GoesPlainly

\* hermes: a report of the size of the context.
LEMMA ReportLine ==
  ASSUME NEW a, NEW c, NEW reading, Going("hermes", a, c, reading), NEW s \in Nat \ {0},
         NEW e, e \in Turn, Named(e), e.own = c.own, e.gauge.low = s, e.gauge.high = s,
         NEW line, line.ty = "context_tokens", line.big = FALSE, line.tok = s
  PROVE  Goes("hermes", a, c, reading, line, e, <<>>, <<>>)
<1> DEFINE b == [a EXCEPT !.last = s]
           m == IF s = a.last THEN 0 ELSE s
<1>1. /\ a \in Adapters /\ reading \in Nat /\ c \in Turn /\ Named(c) /\ c.at = "talking"
      /\ TextKept("hermes", a, c) /\ CuesKept("hermes", a, c) /\ GaugeKept("hermes", a, c, reading)
  BY DEF Going, TurnInv
<1>2. a.text = <<>> /\ c.own = {}
  BY <1>1 DEF TextKept, CuesKept
<1>3. b \in Adapters /\ b.text = <<>> /\ b.last = s
  BY <1>1, <1>2 DEF Adapters
<1>4. Leaves(Handle("hermes", a, line), b, <<>>, <<>>, m, NoSid)
  <2>1. Leaves(HandleHermes(a, line), IF line.tok = 0 THEN a ELSE [a EXCEPT !.last = line.tok],
               <<>>, <<>>, IF line.tok = a.last THEN 0 ELSE line.tok, NoSid)
    <3>1. line.tok \in Nat /\ ~line.big
      OBVIOUS
    <3> QED  BY <1>1, <3>1, HermesReportLine
  <2>2. Handle("hermes", a, line) = HandleHermes(a, line)
    BY DEF Handle
  <2> QED  BY <2>1, <2>2
<1>5. (IF m = 0 THEN reading ELSE m) = s
  BY <1>1 DEF GaugeKept
<1> HIDE DEF b, m
<1>6. TurnInv("hermes", b, e, s)
  <2>1. TextKept("hermes", b, e) /\ CallsKept("hermes", b, e) /\ BillKept("hermes", e)
    BY <1>3 DEF TextKept, CallsKept, BillKept
  <2>2. CuesKept("hermes", b, e) /\ GaugeKept("hermes", b, e, s)
    BY <1>2, <1>3 DEF CuesKept, GaugeKept
  <2> QED  BY <2>1, <2>2 DEF TurnInv
<1> QED  BY <1>1, <1>2, <1>3, <1>4, <1>5, <1>6, GoesPlainly

-----------------------------------------------------------------------------
(* A call whose arguments hold a type field                                *)

\* claude: it is not shown, or it is, and ends a turn.
LEMMA QuotedCall ==
  ASSUME NEW a, NEW c, NEW reading, Going("claude", a, c, reading), NEW s \in Nat \ {0},
         NEW ty \in {"system", "user", "stream_event", "result"},
         NEW e, e \in Turn, Named(e), e.own = c.own, e.open = c.open \cup {c.n + 1},
         e.gauge = Measured("claude", c.gauge, s, FALSE),
         NEW line, line.ty = "assistant", line.holds = {ty}, line.id = c.n + 1, line.big = FALSE,
         line.sub = FALSE, line.own = FALSE, line.tok = s, line.task = FALSE, line.ok,
         line.say = <<Tool(c.n + 1)>>
  PROVE  Goes("claude", a, c, reading, line, e, Unless(ty # "result", <<Tool(c.n + 1)>>),
              Unless(ty # "result", <<Ended(FALSE)>>))
<1> DEFINE n == c.n + 1
           b == [a EXCEPT !.last = s]
           m == IF s # a.last THEN s ELSE 0
<1>1. /\ a \in Adapters /\ reading \in Nat /\ c \in Turn /\ Named(c)
      /\ TextKept("claude", a, c) /\ CuesKept("claude", a, c) /\ GaugeKept("claude", a, c, reading)
  BY DEF Going, TurnInv
<1>2. n \in Nat /\ c.n \in Nat /\ c.own \subseteq 1..c.n /\ n \notin c.own
  BY <1>1 DEF Turn, Named
<1>3. /\ b \in Adapters /\ b.text = <<>> /\ a.text = <<>> /\ b.last = s /\ b.cues = a.cues
  BY <1>1 DEF Adapters, TextKept
<1>4. Leaves(Handle("claude", a, line), b, Unless(ty # "result", <<Tool(n)>>),
             Unless(ty # "result", <<Ended(FALSE)>>), m, NoSid)
  <2>1. Tool(n) \in Block /\ Renderable(Tool(n))
    BY <1>2, Blocks, Visible
  <2>2. <<Tool(n)>> \in Seq(Block) /\ Rendered(<<Tool(n)>>) = <<Tool(n)>> /\ <<Tool(n)>> # <<>>
    BY <2>1, SeqOfOne, RenderedOne
  <2>3. ClaudeHidden(line) <=> ty # "result"
    BY <2>2 DEF ClaudeHidden, HasType
  <2>4. ClaudeIsResult(line) <=> ty = "result"
    BY <2>3 DEF ClaudeIsResult, HasType
  <2>5. LET own == ~line.big /\ ~line.sub
            p == IF own /\ line.tok # 0 THEN [a EXCEPT !.last = line.tok] ELSE a IN
        Leaves(HandleClaude(a, line), Awaiting(p, line),
               IF ClaudeHidden(line) THEN <<>> ELSE line.say,
               IF ClaudeIsResult(line) THEN <<Ended(line.task)>> ELSE <<>>,
               IF own /\ line.tok # a.last THEN line.tok ELSE 0, NoSid)
    <3>1. /\ line.id \in Nat /\ line.tok \in Nat /\ line.say \in Seq(Block) /\ line.task \in BOOLEAN
      BY <1>2, <2>2
    <3> QED  BY <1>1, <3>1, ClaudeAnyAssistantLine
  <2>6. Awaiting(b, line) = b
    BY DEF Awaiting
  <2>7. Handle("claude", a, line) = HandleClaude(a, line)
    BY DEF Handle
  <2> HIDE DEF b
  <2>8. Leaves(HandleClaude(a, line), b, IF ClaudeHidden(line) THEN <<>> ELSE line.say,
               IF ClaudeIsResult(line) THEN <<Ended(line.task)>> ELSE <<>>, m, NoSid)
    <3>1. (IF ~line.big /\ ~line.sub /\ line.tok # 0 THEN [a EXCEPT !.last = line.tok] ELSE a) = b
      BY DEF b
    <3>2. (IF (~line.big /\ ~line.sub) /\ line.tok # a.last THEN line.tok ELSE 0) = m
      OBVIOUS
    <3> HIDE DEF m
    <3> QED  BY <2>5, <2>6, <3>1, <3>2
  <2>9. /\ (IF ClaudeHidden(line) THEN <<>> ELSE line.say) = Unless(ty # "result", <<Tool(n)>>)
        /\ (IF ClaudeIsResult(line) THEN <<Ended(line.task)>> ELSE <<>>)
             = Unless(ty # "result", <<Ended(FALSE)>>)
    BY <2>3, <2>4 DEF Unless
  <2> HIDE DEF m
  <2> QED  BY <2>7, <2>8, <2>9
<1> HIDE DEF b
<1>5. TurnInv("claude", b, e, IF m = 0 THEN reading ELSE m)
  <2>1. TextKept("claude", b, e) /\ CallsKept("claude", b, e) /\ BillKept("claude", e)
    BY <1>3 DEF TextKept, CallsKept, BillKept
  <2>2. CuesKept("claude", b, e)
    <3>1. a.cues = c.own \cap c.open
      BY <1>1 DEF CuesKept
    <3>2. b.cues = e.own \cap e.open
      BY <1>2, <1>3, <3>1
    <3> QED  BY <3>2 DEF CuesKept
  <2>3. GaugeKept("claude", b, e, IF m = 0 THEN reading ELSE m)
    <3> DEFINE big == FALSE
    <3>1. /\ b.last = (IF big THEN a.last ELSE s) /\ big \in BOOLEAN
          /\ e.gauge = Measured("claude", c.gauge, s, big)
      BY <1>3
    <3>2. m = (IF ~big /\ s # a.last THEN s ELSE 0)
      OBVIOUS
    <3> HIDE DEF big, m
    <3> QED  BY <1>1, <3>1, <3>2, ClaudeGauge
  <2> QED  BY <2>1, <2>2, <2>3 DEF TurnInv
<1> HIDE DEF m
<1> QED  BY <1>1, <1>3, <1>4, <1>5, GoesPlainly DEF n

\* cursor: its result is passed over.
LEMMA QuotedAnswer ==
  ASSUME NEW a, NEW c, NEW reading, Going("cursor", a, c, reading), NEW i \in c.open,
         NEW e, e \in Turn, Named(e), e.at = c.at, e.open = c.open \ {i}, e.shown = c.shown,
         e.calls = c.calls, e.final = c.final, e.gauge = [c.gauge EXCEPT !.blurred = TRUE],
         BillKept("cursor", e),
         NEW line, line.holds \cap {"thinking", "user", "tool_call.started"} # {}
  PROVE  Goes("cursor", a, c, reading, line, e, <<>>, <<>>)
<1>1. /\ a \in Adapters /\ reading \in Nat /\ c \in Turn /\ Named(c) /\ c.at = "talking"
      /\ TextKept("cursor", a, c) /\ CallsKept("cursor", a, c)
  BY DEF Going, TurnInv
<1>2. a.text = <<>> /\ c.open \cap c.shown = {} /\ ~c.final
  BY <1>1 DEF TextKept, CallsKept
<1>3. Leaves(Handle("cursor", a, line), a, <<>>, <<>>, 0, NoSid)
  <2>1. Handle("cursor", a, line) = HandleCursor(a, line)
    BY DEF Handle
  <2>2. CursorDrops(line)
    BY DEF CursorDrops, HasType
  <2> QED  BY <1>1, <2>1, <2>2, CursorDroppedLine
<1>4. TurnInv("cursor", a, e, reading)
  <2>1. e.gauge.blurred
    BY <1>1 DEF Turn, Gauges
  <2>2. e.open \cap e.shown = {}
    BY <1>2
  <2>3. TextKept("cursor", a, e) /\ CuesKept("cursor", a, e) /\ GaugeKept("cursor", a, e, reading)
    BY <1>2, <2>1, <2>2 DEF TextKept, CuesKept, GaugeKept
  <2>4. CallsKept("cursor", a, e)
    BY <1>1, <1>2, <2>1 DEF CallsKept
  <2> QED  BY <2>3, <2>4 DEF TurnInv
<1> QED  BY <1>1, <1>2, <1>3, <1>4, GoesPlainly

-----------------------------------------------------------------------------
(* A turn ends                                                             *)

\* A total that was told moves the bounds of the gauge to those of the bill.
HasEnded(d, c, e, total) ==
  /\ e \in Turn /\ Named(e)
  /\ e.at = (IF d = "claude" THEN c.at ELSE "over") /\ e.n = c.n + 1 /\ e.open = c.open
  /\ e.own = c.own /\ e.shown = c.shown /\ e.calls = c.calls /\ e.final = c.final
  /\ BillKept(d, e)
  /\ e.gauge = IF total = 0 THEN c.gauge
               ELSE [c.gauge EXCEPT !.low = IF d = "cursor" \/ c.calls = c.tools + 1
                                            THEN c.bill.low ELSE 0,
                                    !.high = c.bill.high]

LEMMA ClaudeEnds ==
  ASSUME NEW a, NEW c, NEW reading, Going("claude", a, c, reading), NEW e, HasEnded("claude", c, e, 0),
         NEW say \in Seq(Block), NEW line, line.ty = "result", line.holds = {}, line.task \in BOOLEAN,
         line.ok \in BOOLEAN, line.say = say, ~line.ok => say = <<>>
  PROVE  Goes("claude", a, c, reading, line, e, say, <<Ended(line.task)>>)
<1>1. a \in Adapters
  BY DEF Going
<1>2. HasPassed("claude", c, e)
  BY DEF HasEnded, HasPassed
<1>3. Leaves(HandleClaude(a, line), a, IF line.ok THEN line.say ELSE <<>>, <<Ended(line.task)>>, 0,
        NoSid)
  BY <1>1, ClaudeResultLine
<1>4. Handle("claude", a, line) = HandleClaude(a, line)
  BY DEF Handle
<1>5. (IF line.ok THEN line.say ELSE <<>>) = say
  OBVIOUS
<1>6. Leaves(Handle("claude", a, line), a, say, <<Ended(line.task)>>, 0, NoSid)
  BY <1>3, <1>4, <1>5
<1> QED  BY <1>2, <1>6, PassesBy

\* The adapters that are left as they were.
LEMMA EndsBy ==
  ASSUME NEW d \in {"codex", "pi", "hermes"}, NEW a, NEW c, NEW reading, Going(d, a, c, reading),
         NEW e, HasEnded(d, c, e, 0), NEW line, NEW say, NEW signals,
         Leaves(Handle(d, a, line), a, say, signals, 0, NoSid)
  PROVE  Goes(d, a, c, reading, line, e, say, signals)
<1>1. /\ a \in Adapters /\ reading \in Nat /\ c \in Turn /\ Named(c) /\ c.at = "talking"
      /\ TextKept(d, a, c) /\ CuesKept(d, a, c) /\ GaugeKept(d, a, c, reading)
  BY DEF Going, TurnInv
<1>2. a.text = <<>> /\ c.n \in Nat
  BY <1>1 DEF TextKept, Turn
<1>3. TurnInv(d, a, e, reading)
  <2>1. /\ e \in Turn /\ Named(e) /\ e.at = "over" /\ e.n = c.n + 1 /\ e.open = c.open /\ e.own = c.own
        /\ e.shown = c.shown /\ e.gauge = c.gauge /\ BillKept(d, e)
    BY DEF HasEnded
  <2>2. TextKept(d, a, e)
    <3>1. d = "codex" => a.shown \subseteq 1..(c.n + 1)
      <4>1. 1..c.n \subseteq 1..(c.n + 1)
        BY <1>2
      <4> QED  BY <1>1, <4>1 DEF TextKept
    <3> QED  BY <1>1, <1>2, <2>1, <3>1 DEF TextKept
  <2>3. CuesKept(d, a, e) /\ CallsKept(d, a, e)
    BY <1>1, <2>1 DEF CuesKept, CallsKept
  <2>4. GaugeKept(d, a, e, reading)
    BY <1>1, <2>1 DEF GaugeKept
  <2> QED  BY <2>1, <2>2, <2>3, <2>4 DEF TurnInv
<1> QED  BY <1>1, <1>2, <1>3, GoesPlainly

LEMMA CodexEnds ==
  ASSUME NEW a, NEW c, NEW reading, Going("codex", a, c, reading), NEW e, HasEnded("codex", c, e, 0),
         NEW line, line.say \in Seq(Block), line.ty \in {"turn.completed", "turn.failed"}
  PROVE  Goes("codex", a, c, reading, line, e, line.say, <<Ended(FALSE)>>)
<1>1. a \in Adapters
  BY DEF Going
<1>2. Leaves(HandleCodex(a, line), a, line.say, <<Ended(FALSE)>>, 0, NoSid)
  <2>1. IsEnd(line)
    BY DEF IsEnd
  <2> QED  BY <1>1, <2>1, CodexEndLine
<1>3. Handle("codex", a, line) = HandleCodex(a, line)
  BY DEF Handle
<1>4. Leaves(Handle("codex", a, line), a, line.say, <<Ended(FALSE)>>, 0, NoSid)
  BY <1>2, <1>3
<1> QED  BY <1>4, EndsBy

LEMMA PiEnds ==
  ASSUME NEW a, NEW c, NEW reading, Going("pi", a, c, reading), NEW e, HasEnded("pi", c, e, 0),
         NEW line, line.say \in Seq(Block), line.ty = "agent_end"
  PROVE  Goes("pi", a, c, reading, line, e, line.say, <<Ended(FALSE)>>)
<1>1. a \in Adapters
  BY DEF Going
<1>2. Leaves(HandlePi(a, line), a, line.say, <<Ended(FALSE)>>, 0, NoSid)
  BY <1>1, PiEndLine
<1>3. Handle("pi", a, line) = HandlePi(a, line)
  BY DEF Handle
<1>4. Leaves(Handle("pi", a, line), a, line.say, <<Ended(FALSE)>>, 0, NoSid)
  BY <1>2, <1>3
<1> QED  BY <1>4, EndsBy

\* hermes: an oversize result is shown, and the end of the turn is missed.
LEMMA HermesEnds ==
  ASSUME NEW a, NEW c, NEW reading, Going("hermes", a, c, reading), NEW e, HasEnded("hermes", c, e, 0),
         NEW line, NEW say \in Seq(Block), line.say = say, line.ty \in {"result", "error"},
         line.big \in BOOLEAN
  PROVE  Goes("hermes", a, c, reading, line, e, say,
              IF line.ty = "result" /\ line.big THEN <<>> ELSE <<Ended(FALSE)>>)
<1>1. a \in Adapters
  BY DEF Going
<1>2. Handle("hermes", a, line) = HandleHermes(a, line)
  BY DEF Handle
<1>3. CASE line.ty = "result" /\ line.big
  <2>1. HandleHermes(a, line) = Does(a, Envelope(say))
    BY <1>3 DEF HandleHermes, HermesForwards
  <2>2. Leaves(Handle("hermes", a, line), a, say, <<>>, 0, NoSid)
    BY <1>2, <2>1, DoesFields, YieldsEnvelope DEF Leaves
  <2>3. Goes("hermes", a, c, reading, line, e, say, <<>>)
    BY <2>2, EndsBy
  <2> QED  BY <1>3, <2>3
<1>4. CASE ~(line.ty = "result" /\ line.big)
  <2>1. line.ty = "error" \/ (line.ty = "result" /\ ~line.big)
    BY <1>4
  <2>2. Leaves(HandleHermes(a, line), a, line.say, <<Ended(FALSE)>>, 0, NoSid)
    BY <1>1, <2>1, HermesEndLine
  <2>3. Leaves(Handle("hermes", a, line), a, say, <<Ended(FALSE)>>, 0, NoSid)
    BY <1>2, <2>2
  <2>4. Goes("hermes", a, c, reading, line, e, say, <<Ended(FALSE)>>)
    BY <2>3, EndsBy
  <2> QED  BY <1>4, <2>4
<1> QED  BY <1>3, <1>4

\* How many model calls cursor's adapter counts.
LEMMA CursorCounts ==
  ASSUME NEW a \in Adapters, NEW c \in Turn, CallsKept("cursor", a, c), c.at = "talking",
         c.open = {}, c.calls > 0
  PROVE  CursorCalls(a) \in 1..c.calls /\ (~c.gauge.blurred => CursorCalls(a) = c.calls)
<1> DEFINE k == c.calls
           n == Cardinality(a.calls)
<1>1. /\ a.unnamed = c.final /\ a.calls \subseteq 1..k /\ (c.final => k \notin a.calls)
      /\ ~c.gauge.blurred => (1..(k - 1) \subseteq a.calls /\ (~c.final => k \in a.calls))
  BY DEF CallsKept
<1>2. k \in Nat /\ k > 0 /\ c.final \in BOOLEAN /\ c.gauge.blurred \in BOOLEAN
  BY DEF Turn, Gauges
<1> HIDE DEF k, n
<1>3. /\ IsFiniteSet(1..k) /\ Cardinality(1..k) = k
      /\ IsFiniteSet(1..(k - 1)) /\ Cardinality(1..(k - 1)) = k - 1
  <2>1. 1 \in Int /\ k \in Int /\ k - 1 \in Int
    BY <1>2
  <2>2. /\ IsFiniteSet(1..k) /\ Cardinality(1..k) = IF 1 > k THEN 0 ELSE k - 1 + 1
        /\ IsFiniteSet(1..(k - 1)) /\ Cardinality(1..(k - 1)) = IF 1 > k - 1 THEN 0 ELSE (k - 1) - 1 + 1
    BY <2>1, FS_Interval
  <2> QED  BY <1>2, <2>2
<1>4. n \in Nat /\ n <= k
  <2>1. IsFiniteSet(a.calls) /\ Cardinality(a.calls) <= Cardinality(1..k)
    BY <1>1, <1>3, FS_Subset
  <2>2. Cardinality(a.calls) \in Nat
    BY <2>1, FS_CardinalityType
  <2> QED  BY <1>3, <2>1, <2>2 DEF n
<1>5. CASE c.final
  <2>1. a.calls \subseteq 1..(k - 1)
    BY <1>1, <1>2, <1>5
  <2>2. n <= k - 1
    <3>1. Cardinality(a.calls) <= Cardinality(1..(k - 1))
      BY <1>3, <2>1, FS_Subset
    <3> QED  BY <1>3, <3>1 DEF n
  <2>3. ~c.gauge.blurred => n = k - 1
    BY <1>1, <1>3, <2>1 DEF n
  <2>4. CursorCalls(a) = n + 1
    BY <1>1, <1>4, <1>5 DEF CursorCalls, n
  <2> QED  BY <1>2, <1>4, <2>2, <2>3, <2>4 DEF k
<1>6. CASE ~c.final
  <2>1. ~c.gauge.blurred => a.calls = 1..k
    <3>1. 1..k = 1..(k - 1) \cup {k}
      BY <1>2
    <3> QED  BY <1>1, <1>6, <3>1
  <2>2. CursorCalls(a) = IF n = 0 THEN 1 ELSE n
    BY <1>1, <1>4, <1>6 DEF CursorCalls, n
  <2>3. ~c.gauge.blurred => n = k
    BY <1>3, <2>1 DEF n
  <2> QED  BY <1>2, <1>4, <2>2, <2>3 DEF k
<1> QED  BY <1>2, <1>5, <1>6

LEMMA CursorEnds ==
  ASSUME NEW a, NEW c, NEW reading, Going("cursor", a, c, reading), c.open = {}, NEW ok \in BOOLEAN,
         NEW total, total = (IF ok THEN c.bill.sum ELSE 0),
         NEW e, HasEnded("cursor", c, e, total),
         NEW line, NEW say \in Seq(Block), line.say = say, line.ty = "result", line.holds = {},
         line.tok = total
  PROVE  Goes("cursor", a, c, reading, line, e, say, <<Ended(FALSE)>>)
<1> DEFINE b == [a EXCEPT !.calls = {}, !.unnamed = FALSE]
           n == IF total = 0 THEN 0 ELSE total \div CursorCalls(a)
<1>1. /\ a \in Adapters /\ reading \in Nat /\ c \in Turn /\ Named(c) /\ c.at = "talking"
      /\ TextKept("cursor", a, c) /\ CallsKept("cursor", a, c) /\ GaugeKept("cursor", a, c, reading)
      /\ BillKept("cursor", c)
  BY DEF Going, TurnInv
<1>2. /\ a.text = <<>> /\ c.calls \in Nat /\ c.bill.sum \in Nat /\ c.bill.low \in Nat
      /\ c.bill.high \in Nat /\ total \in Nat /\ c.gauge \in Gauges
  BY <1>1 DEF TextKept, Turn, Bills
<1>3. b \in Adapters /\ b.text = <<>>
  BY <1>1, <1>2 DEF Adapters
<1>4. /\ n \in Nat /\ (total # 0 => n # 0 /\ total \div CursorCalls(a) = n)
      /\ ~c.gauge.blurred /\ total # 0 => c.bill.low <= n /\ n <= c.bill.high
  <2>1. CASE total = 0
    BY <2>1
  <2>2. CASE total # 0
    <3>1. /\ total = c.bill.sum /\ c.calls <= total
          /\ c.calls * c.bill.low <= total /\ total <= c.calls * c.bill.high
      BY <1>1, <2>2 DEF BillKept
    <3>2. c.calls # 0
      BY <1>2, <2>2, <3>1
    <3>3. CursorCalls(a) \in 1..c.calls /\ (~c.gauge.blurred => CursorCalls(a) = c.calls)
      BY <1>1, <1>2, <3>2, CursorCounts
    <3>4. total \div CursorCalls(a) \in Nat \ {0}
      BY <1>2, <3>1, <3>3, MeanOfFewer
    <3>5. c.bill.low <= total \div c.calls /\ total \div c.calls <= c.bill.high
      BY <1>2, <3>1, <3>2, MeanBetween
    <3> QED  BY <2>2, <3>3, <3>4, <3>5
  <2> QED  BY <2>1, <2>2
<1>5. (line.tok = 0 /\ n = 0) \/ (line.tok # 0 /\ n # 0 /\ line.tok \div CursorCalls(a) = n)
  BY <1>4
<1> HIDE DEF n
<1>6. Leaves(Handle("cursor", a, line), b, say, <<Ended(FALSE)>>, n, NoSid)
  <2>1. Leaves(HandleCursor(a, line), [a EXCEPT !.calls = {}, !.unnamed = FALSE],
               line.say, <<Ended(FALSE)>>, n, NoSid)
    BY <1>1, <1>4, <1>5, CursorResultLine
  <2>2. Handle("cursor", a, line) = HandleCursor(a, line)
    BY DEF Handle
  <2> QED  BY <2>1, <2>2
<1> HIDE DEF b
<1>7. TurnInv("cursor", b, e, IF n = 0 THEN reading ELSE n)
  <2>1. /\ e \in Turn /\ Named(e) /\ e.at = "over" /\ e.open = c.open /\ e.shown = c.shown
        /\ BillKept("cursor", e)
        /\ e.gauge = IF total = 0 THEN c.gauge
                     ELSE [c.gauge EXCEPT !.low = c.bill.low, !.high = c.bill.high]
    BY DEF HasEnded
  <2>2. TextKept("cursor", b, e)
    BY <1>1, <1>3, <2>1 DEF TextKept
  <2>3. CuesKept("cursor", b, e) /\ CallsKept("cursor", b, e)
    BY <2>1 DEF CuesKept, CallsKept
  <2>4. GaugeKept("cursor", b, e, IF n = 0 THEN reading ELSE n)
    <3>1. CASE total = 0
      <4>1. n = 0 /\ e.gauge = c.gauge
        BY <1>5, <2>1, <3>1
      <4> QED  BY <1>1, <2>1, <4>1 DEF GaugeKept
    <3>2. CASE total # 0
      <4>1. /\ e.gauge.low = c.bill.low /\ e.gauge.high = c.bill.high
            /\ e.gauge.blurred = c.gauge.blurred
        BY <1>2, <2>1, <3>2 DEF Gauges
      <4>2. n # 0 /\ (~c.gauge.blurred => c.bill.low <= n /\ n <= c.bill.high)
        BY <1>4, <1>5, <3>2
      <4> QED  BY <4>1, <4>2 DEF GaugeKept
    <3> QED  BY <3>1, <3>2
  <2> QED  BY <2>1, <2>2, <2>3, <2>4 DEF TurnInv
<1> QED  BY <1>1, <1>2, <1>3, <1>6, <1>7, GoesPlainly

\* gemini's sum is divided by at least as many as there were calls.
LEMMA GeminiMean ==
  ASSUME NEW c \in Turn, BillKept("gemini", c)
  PROVE  LET n == c.bill.sum \div (c.tools + 1) IN
         /\ n \in Nat /\ n <= c.bill.high
         /\ c.calls = c.tools + 1 => c.bill.low <= n
<1> DEFINE k == c.tools + 1
<1>1. /\ c.calls \in Nat /\ c.tools \in Nat /\ c.bill.sum \in Nat /\ c.bill.low \in Nat
      /\ c.bill.high \in Nat /\ k \in Nat \ {0}
  BY DEF Turn, Bills
<1>2. /\ c.calls <= k /\ c.calls * c.bill.low <= c.bill.sum /\ c.bill.sum <= c.calls * c.bill.high
  BY DEF BillKept
<1>3. c.bill.sum <= k * c.bill.high
  <2>1. /\ c.bill.high * c.calls <= c.bill.high * k
        /\ c.bill.high * c.calls = c.calls * c.bill.high /\ c.bill.high * k = k * c.bill.high
    BY <1>1, <1>2, TimesLeq
  <2>2. c.calls * c.bill.high \in Nat /\ k * c.bill.high \in Nat
    BY <1>1
  <2> QED  BY <1>1, <1>2, <2>1, <2>2
<1> HIDE DEF k
<1>4. c.bill.sum \div k \in Nat /\ c.bill.sum \div k <= c.bill.high
  <2>1. k * 0 <= c.bill.sum
    BY <1>1
  <2> QED  BY <1>1, <1>3, <2>1, MeanBetween
<1>5. ASSUME c.calls = k PROVE c.bill.low <= c.bill.sum \div k
  BY <1>1, <1>2, <1>3, <1>5, MeanBetween
<1> QED  BY <1>4, <1>5 DEF k

LEMMA GeminiEnds ==
  ASSUME NEW a, NEW c, NEW reading, Going("gemini", a, c, reading), NEW ok \in BOOLEAN,
         NEW total, total = (IF ok THEN c.bill.sum ELSE 0),
         NEW e, HasEnded("gemini", c, e, total),
         NEW line, NEW say \in Seq(Block), line.say = say, line.ty = "result", line.ok = ok,
         line.tok = total, line.call = c.tools,
         ~ok => \E x, y \in Block : say = <<x, y>>
  PROVE  Goes("gemini", a, c, reading, line, e, say, <<Ended(FALSE)>>)
<1> DEFINE n == IF ok THEN total \div (c.tools + 1) ELSE 0
           b == IF n # 0 THEN [a EXCEPT !.text = <<>>, !.last = n] ELSE [a EXCEPT !.text = <<>>]
<1>1. /\ a \in Adapters /\ reading \in Nat /\ c \in Turn /\ Named(c) /\ c.at = "talking"
      /\ CuesKept("gemini", a, c) /\ GaugeKept("gemini", a, c, reading) /\ BillKept("gemini", c)
  BY DEF Going, TurnInv
<1>2. /\ a.text \in Seq(Block) /\ c.tools \in Nat /\ <<>> \in Seq(Block) /\ c.gauge \in Gauges
      /\ c.bill.low \in Nat /\ c.bill.high \in Nat
  BY <1>1 DEF Adapters, Turn, Bills
<1>3. reading = 0 /\ a.last = 0
  BY <1>1 DEF GaugeKept
<1>4. /\ n \in Nat /\ (ok => n <= c.bill.high)
      /\ ok /\ c.calls = c.tools + 1 => c.bill.low <= n
  BY <1>1, GeminiMean
<1>5. total = 0 => n = 0
  <2>1. SUFFICES ASSUME ok, c.bill.sum = 0 PROVE n = 0
    OBVIOUS
  <2>2. c.tools + 1 \in Nat \ {0} /\ (c.tools + 1) * 0 <= 0 /\ 0 <= (c.tools + 1) * 0
    BY <1>2
  <2>3. 0 \div (c.tools + 1) \in Nat /\ 0 \div (c.tools + 1) <= 0
    BY <2>2, MeanBetween
  <2> QED  BY <2>1, <2>3
<1>6. ok => GeminiReading(line) = n
  BY DEF GeminiReading
<1> HIDE DEF n
<1>7. b \in Adapters /\ b.text = <<>> /\ b.cues = a.cues /\ b.last = n
  <2>1. CASE n # 0
    BY <1>1, <1>2, <1>4, <2>1 DEF Adapters
  <2>2. CASE n = 0
    BY <1>1, <1>2, <1>3, <2>2 DEF Adapters
  <2> QED  BY <2>1, <2>2
<1>8. Leaves(Handle("gemini", a, line), b, a.text \o say, <<Ended(FALSE)>>, n, NoSid)
  <2>1. Handle("gemini", a, line) = HandleGemini(a, line)
    BY DEF Handle
  <2>2. CASE ok
    <3>1. Leaves(HandleGemini(a, line),
                 IF n = 0 THEN [a EXCEPT !.text = <<>>] ELSE [a EXCEPT !.text = <<>>, !.last = n],
                 a.text \o line.say, <<Ended(FALSE)>>, IF n = a.last THEN 0 ELSE n, NoSid)
      BY <1>1, <1>4, <1>6, <2>2, GeminiGoodLine
    <3>2. (IF n = a.last THEN 0 ELSE n) = n
      BY <1>3
    <3> QED  BY <2>1, <2>2, <3>1, <3>2
  <2>3. CASE ~ok
    <3>1. PICK p \in Block, q \in Block : say = <<p, q>>
      BY <2>3
    <3>2. Leaves(HandleGemini(a, line), [a EXCEPT !.text = <<>>], a.text \o line.say,
                 <<Ended(FALSE)>>, 0, NoSid)
      BY <1>1, <2>3, <3>1, GeminiBadLine
    <3>3. n = 0
      BY <1>5, <2>3
    <3> QED  BY <2>1, <2>3, <3>2, <3>3
  <2> QED  BY <2>2, <2>3
<1> HIDE DEF b
<1>9. Tells("gemini", a, line, b, say, <<Ended(FALSE)>>, n, NoSid)
  <2>1. a.text \o say \in Seq(Block)
    BY <1>2
  <2>2. (a.text \o say) \o b.text = a.text \o say
    BY <1>7, <2>1, NoBlocks
  <2> QED  BY <1>1, <1>7, <1>8, <2>2, TellsFrom
<1>10. TurnInv("gemini", b, e, IF n = 0 THEN reading ELSE n)
  <2>1. /\ e \in Turn /\ Named(e) /\ e.at = "over" /\ e.open = c.open /\ e.own = c.own
        /\ BillKept("gemini", e)
        /\ e.gauge = IF total = 0 THEN c.gauge
                     ELSE [c.gauge EXCEPT !.low = IF c.calls = c.tools + 1 THEN c.bill.low ELSE 0,
                                          !.high = c.bill.high]
    BY DEF HasEnded
  <2>2. TextKept("gemini", b, e) /\ CallsKept("gemini", b, e)
    BY <1>7 DEF TextKept, CallsKept
  <2>3. CuesKept("gemini", b, e)
    BY <1>1, <1>7, <2>1 DEF CuesKept
  <2>4. (IF n = 0 THEN reading ELSE n) = n
    BY <1>3
  <2>5. GaugeKept("gemini", b, e, n)
    <3>1. CASE total = 0
      <4>1. n = 0 /\ e.gauge = c.gauge
        BY <1>5, <2>1, <3>1
      <4> QED  BY <1>1, <1>3, <1>7, <2>1, <4>1 DEF GaugeKept
    <3>2. CASE total # 0
      <4>1. ok
        BY <3>2
      <4>2. e.gauge.low = (IF c.calls = c.tools + 1 THEN c.bill.low ELSE 0)
        BY <1>2, <2>1, <3>2 DEF Gauges
      <4>3. e.gauge.high = c.bill.high
        BY <1>2, <2>1, <3>2 DEF Gauges
      <4>4. e.gauge.low <= n /\ n <= e.gauge.high
        BY <1>4, <4>1, <4>2, <4>3
      <4> QED  BY <1>7, <2>1, <4>4 DEF GaugeKept
    <3> QED  BY <3>1, <3>2
  <2> QED  BY <2>1, <2>2, <2>3, <2>4, <2>5 DEF TurnInv
<1> QED  BY <1>9, <1>10, GoesBy

-----------------------------------------------------------------------------
(* The session is announced                                                *)

HasOpened(d, c, e) ==
  /\ e \in Turn /\ Named(e)
  /\ e.at = "talking" /\ e.n = c.n /\ e.open = c.open /\ e.own = c.own /\ e.shown = c.shown
  /\ e.calls = c.calls /\ e.final = c.final /\ e.gauge = c.gauge /\ BillKept(d, e)

\* gemini and pi do not take the id a resumed session announces.
Announced(d, a, line) == IF d \in {"gemini", "pi"} /\ a.resumed THEN NoSid ELSE line.sid

LEMMA OpensLine ==
  ASSUME NEW d \in Dialect, NEW a \in Adapters, NEW line, line.holds = {}, ~line.big, line.sid \in Nat \ {0},
         line.ty = (IF d = "codex" THEN "thread.started" ELSE IF d = "pi" THEN "session" ELSE "init")
  PROVE  Leaves(Handle(d, a, line), IF d = "gemini" THEN [a EXCEPT !.text = <<>>] ELSE a,
                IF d = "gemini" THEN a.text ELSE <<>>, <<>>, 0, Announced(d, a, line))
<1>1. CASE d = "claude"
  <2>1. Leaves(HandleClaude(a, line), a, <<>>, <<>>, 0, line.sid)
    BY <1>1, ClaudeInitLine
  <2> QED  BY <1>1, <2>1 DEF Handle, Announced
<1>2. CASE d = "codex"
  <2>1. Leaves(HandleCodex(a, line), a, <<>>, <<>>, 0, line.sid)
    BY <1>2, CodexThreadLine
  <2> QED  BY <1>2, <2>1 DEF Handle, Announced
<1>3. CASE d = "cursor"
  <2>1. Leaves(HandleCursor(a, line), a, <<>>, <<>>, 0, line.sid)
    BY <1>3, CursorInitLine
  <2> QED  BY <1>3, <2>1 DEF Handle, Announced
<1>4. CASE d = "gemini"
  <2>1. Leaves(HandleGemini(a, line), [a EXCEPT !.text = <<>>], a.text, <<>>, 0,
               IF a.resumed THEN NoSid ELSE line.sid)
    BY <1>4, GeminiInitLine
  <2> QED  BY <1>4, <2>1 DEF Handle, Announced
<1>5. CASE d = "pi"
  <2>1. Leaves(HandlePi(a, line), a, <<>>, <<>>, 0, IF a.resumed THEN NoSid ELSE line.sid)
    BY <1>5, PiSessionLine
  <2> QED  BY <1>5, <2>1 DEF Handle, Announced
<1>6. CASE d = "hermes"
  <2>1. Leaves(HandleHermes(a, line), a, <<>>, <<>>, 0, line.sid)
    BY <1>6, HermesInitLine
  <2> QED  BY <1>6, <2>1 DEF Handle, Announced
<1> QED  BY <1>1, <1>2, <1>3, <1>4, <1>5, <1>6 DEF Dialect

LEMMA OpensGoes ==
  ASSUME NEW d \in Dialect, NEW a \in Adapters, NEW c, NEW reading \in Nat, TurnInv(d, a, c, reading),
         c.at = "opening", NEW e, HasOpened(d, c, e),
         NEW line, line.holds = {}, ~line.big, line.sid \in Nat \ {0},
         line.ty = (IF d = "codex" THEN "thread.started" ELSE IF d = "pi" THEN "session" ELSE "init")
  PROVE  \E b : /\ Tells(d, a, line, b, <<>>, <<>>, 0, Announced(d, a, line))
                /\ TurnInv(d, b, e, reading)
<1> DEFINE b == IF d = "gemini" THEN [a EXCEPT !.text = <<>>] ELSE a
           say == IF d = "gemini" THEN a.text ELSE <<>>
<1>1. /\ c \in Turn /\ Named(c)
      /\ TextKept(d, a, c) /\ CuesKept(d, a, c) /\ GaugeKept(d, a, c, reading) /\ CallsKept(d, a, c)
  BY DEF TurnInv
<1>2. a.text \in Seq(Block) /\ <<>> \in Seq(Block) /\ (d # "gemini" => a.text = <<>>)
  BY <1>1 DEF Adapters, TextKept
<1>3. /\ b \in Adapters /\ b.text = <<>> /\ b.cues = a.cues /\ b.last = a.last /\ b.shown = a.shown
      /\ b.calls = a.calls /\ b.unnamed = a.unnamed
  <2>1. CASE d = "gemini"
    BY <1>2, <2>1 DEF Adapters
  <2>2. CASE d # "gemini"
    BY <1>2, <2>2
  <2> QED  BY <2>1, <2>2
<1>4. Leaves(Handle(d, a, line), b, say, <<>>, 0, Announced(d, a, line))
  BY OpensLine
<1>5. say = a.text
  BY <1>2
<1> HIDE DEF b, say
<1>6. say \o b.text = a.text \o <<>>
  <2>1. a.text \o b.text = a.text \o <<>>
    BY <1>2, <1>3, NoBlocks
  <2> QED  BY <1>2, <1>3, <1>5, <2>1, NoBlocks
<1>7. Tells(d, a, line, b, <<>>, <<>>, 0, Announced(d, a, line))
  BY <1>2, <1>3, <1>4, <1>6, TellsFrom
<1>8. TurnInv(d, b, e, reading)
  <2>1. /\ e \in Turn /\ Named(e) /\ e.at = "talking" /\ e.n = c.n /\ e.open = c.open /\ e.own = c.own
        /\ e.shown = c.shown /\ e.calls = c.calls /\ e.final = c.final /\ e.gauge = c.gauge
        /\ BillKept(d, e)
    BY DEF HasOpened
  <2>2. TextKept(d, b, e)
    BY <1>1, <1>3, <2>1 DEF TextKept
  <2>3. CuesKept(d, b, e) /\ CallsKept(d, b, e)
    BY <1>1, <1>3, <2>1 DEF CuesKept, CallsKept
  <2>4. GaugeKept(d, b, e, reading)
    BY <1>1, <1>3, <2>1 DEF GaugeKept
  <2> QED  BY <2>1, <2>2, <2>3, <2>4 DEF TurnInv
<1> QED  BY <1>7, <1>8, Zenon

-----------------------------------------------------------------------------
(* The invariant of the chat                                               *)

Types ==
  /\ dialect \in Dialects /\ place \in [project : BOOLEAN, worktree : BOOLEAN] /\ tree \in BOOLEAN
  /\ ids \in Nat /\ store \subseteq 1..ids /\ turns \in 0..MaxTurns
  /\ cli.n <= Lines /\ adapter \in Adapters /\ got \in Got
  /\ said \in Seq(Block) /\ due \in Seq(Signal)

\* What the spawner knows of sessions is what there is, and a session's
\* worktree has been made.
SessionInv ==
  /\ got.known \in store \cup {NoSid}
  /\ store # {} => got.known # NoSid
  /\ cli.at = "opening" => /\ cli.sid = got.known /\ cli.resumed = (got.known # NoSid)
                           /\ adapter.resumed = cli.resumed
  /\ cli.at = "failed" => store = {}
  /\ (/\ dialect \in {"codex", "gemini", "pi"} /\ place.project /\ place.worktree
      /\ (got.known # NoSid \/ cli.at \in {"opening", "talking", "over"})) => tree

Inv ==
  /\ Types /\ TurnInv(dialect, adapter, cli, got.reading)
  /\ got.shown \o adapter.text = said
  /\ "hermes" \notin BigResult => got.signals = due
  /\ SessionInv

-----------------------------------------------------------------------------
(* The steps within a turn                                                 *)

\* What Goes says of the events.
LEMMA GoesMeans ==
  ASSUME NEW d, NEW a, NEW c, NEW g \in Got, NEW line, NEW e, NEW says, NEW signals,
         Goes(d, a, c, g.reading, line, e, says, signals)
  PROVE  LET b == Handle(d, a, line).a
             h == Received(g, Handle(d, a, line).ev) IN
         /\ b \in Adapters /\ h \in Got /\ h.known = g.known
         /\ says \in Seq(Block) /\ signals \in Seq(Signal)
         /\ h.shown \o b.text = (g.shown \o a.text) \o says
         /\ h.signals = g.signals \o signals
         /\ TurnInv(d, b, e, h.reading)
<1> DEFINE h == Received(g, Handle(d, a, line).ev)
<1>1. PICK b, m : /\ Tells(d, a, line, b, says, signals, m, NoSid)
                  /\ TurnInv(d, b, e, IF m = 0 THEN g.reading ELSE m)
  BY Zenon DEF Goes
<1>2. /\ Handle(d, a, line).a = b /\ b \in Adapters
      /\ says \in Seq(Block) /\ signals \in Seq(Signal)
  BY <1>1 DEF Tells
<1>3. /\ h \in Got /\ h.known = g.known
      /\ h.shown \o b.text = (g.shown \o a.text) \o says
      /\ h.signals = g.signals \o signals
      /\ h.reading = IF m = 0 THEN g.reading ELSE m
  BY <1>1 DEF Tells
<1>4. TurnInv(d, b, e, h.reading)
  BY <1>1, <1>3
<1> QED  BY <1>2, <1>3, <1>4

\* A line that makes the step leaves the invariant ("gives" is what hermes
\* gives in place of what is due).
LEMMA WritesKeeps ==
  ASSUME Inv, NEW line, NEW c, NEW says, NEW signals, NEW gives, Writes(line, c, says, signals),
         Goes(dialect, adapter, cli, got.reading, line, c, says, gives),
         "hermes" \notin BigResult => gives = signals, signals \in Seq(Signal),
         UNCHANGED <<dialect, place, tree, store, ids, turns>>,
         cli.at = "talking", c.at \in {"talking", "over"}, c.n <= Lines
  PROVE  Inv'
<1> DEFINE h == Received(got, Handle(dialect, adapter, line).ev)
           b == Handle(dialect, adapter, line).a
<1>1. /\ adapter' = b /\ got' = h /\ cli' = c
      /\ said' = said \o says /\ due' = due \o signals
  BY DEF Writes
<1>2. Types /\ SessionInv /\ got \in Got
  BY DEF Inv, Types
<1>3. /\ b \in Adapters /\ h \in Got /\ h.known = got.known
      /\ says \in Seq(Block) /\ gives \in Seq(Signal)
      /\ h.shown \o b.text = (got.shown \o adapter.text) \o says
      /\ h.signals = got.signals \o gives
      /\ TurnInv(dialect, b, c, h.reading)
  BY <1>2, GoesMeans
<1> HIDE DEF h, b
<1>4. Types'
  <2>1. said \o says \in Seq(Block) /\ due \o signals \in Seq(Signal)
    BY <1>2, <1>3 DEF Types
  <2> QED  BY <1>1, <1>2, <1>3, <2>1 DEF Types, Lines
<1>5. TurnInv(dialect', adapter', cli', got'.reading)
  BY <1>1, <1>3
<1>6. got'.shown \o adapter'.text = said'
  <2>1. got.shown \o adapter.text = said
    BY DEF Inv
  <2> QED  BY <1>1, <1>3, <2>1
<1>7. "hermes" \notin BigResult => got'.signals = due'
  <2>1. "hermes" \notin BigResult => got.signals = due
    BY DEF Inv
  <2> QED  BY <1>1, <1>3, <2>1
<1>8. SessionInv'
  <2>1. got'.known = got.known /\ cli'.at \in {"talking", "over"}
    BY <1>1, <1>3
  <2> QED  BY <1>2, <2>1 DEF SessionInv
<1>9. TurnInv(dialect, adapter, cli, got.reading)'
  BY <1>5
<1> QED  BY <1>4, <1>5, <1>6, <1>7, <1>8, <1>9 DEF Inv

\* A turn in which the agent goes on, with lines to go.
LEMMA TalksMeans ==
  ASSUME Inv, Talks
  PROVE  /\ Going(dialect, adapter, cli, got.reading) /\ cli.at = "talking"
         /\ cli.n \in Nat /\ cli.n + 1 <= Lines /\ cli.n + 1 \in Nat /\ cli \in Turn /\ Named(cli)
         /\ 1..cli.n \subseteq 1..(cli.n + 1) /\ cli.n + 1 \in 1..(cli.n + 1)
         /\ dialect \in Dialect /\ Lines \in Nat
<1>1. cli \in Turn /\ Named(cli) /\ cli.at = "talking" /\ cli.n < Lines
  BY DEF Inv, TurnInv, Talks
<1>2. cli.n \in Nat /\ Lines \in Nat /\ dialect \in Dialect
  <2>1. dialect \in Dialect
    BY StreamAssumption DEF Inv, Types
  <2>2. MaxLines[dialect] \in Nat
    BY <2>1, StreamAssumption
  <2> QED  BY <1>1, <2>2, <2>1 DEF Turn, Lines
<1>3. Going(dialect, adapter, cli, got.reading)
  <2>1. got.reading \in Nat
    BY DEF Inv, Types, Got
  <2> QED  BY <1>1, <2>1 DEF Going, Inv, Types
<1> QED  BY <1>1, <1>2, <1>3 DEF Inv, Types

-----------------------------------------------------------------------------
(* What the agent's words and calls are measured at                        *)

LEMMA MeasuredType ==
  ASSUME NEW d, NEW g \in Gauges, NEW s \in Nat, NEW big \in BOOLEAN
  PROVE  Measured(d, g, s, big) \in Gauges
<1>1. CASE d = "claude" /\ ~big
  <2>1. (g.packed /\ s = g.told) \in BOOLEAN
    BY DEF Gauges
  <2> QED  BY <1>1, <2>1 DEF Measured, Gauges
<1>2. CASE d = "claude" /\ big
  BY <1>2 DEF Measured, Gauges
<1>3. CASE d = "pi"
  BY <1>3 DEF Measured, Gauges
<1>4. CASE d \notin {"claude", "pi"}
  BY <1>4, NotMeasured
<1> QED  BY <1>1, <1>2, <1>3, <1>4

LEMMA BilledType ==
  ASSUME NEW b \in Bills, NEW k, NEW s \in Nat
  PROVE  Billed(b, k, s) \in Bills
<1>1. CASE k = cli.calls \/ ~Summed
  BY <1>1 DEF Billed
<1>2. CASE ~(k = cli.calls \/ ~Summed)
  <2>1. Billed(b, k, s) = [sum |-> b.sum + s,
                           low |-> IF cli.calls = 0 \/ s < b.low THEN s ELSE b.low,
                           high |-> IF s > b.high THEN s ELSE b.high]
    BY <1>2 DEF Billed
  <2>2. b.sum + s \in Nat /\ b.low \in Nat /\ b.high \in Nat
    BY DEF Bills
  <2> HIDE DEF Billed
  <2> QED  BY <2>1, <2>2 DEF Bills
<1> QED  BY <1>1, <1>2

\* The bill of the turn after a word (tools as they were) or a call.
LEMMA BilledKeeps ==
  ASSUME cli \in Turn, BillKept(dialect, cli), NEW k \in Nat \ {0}, InCall(k), NEW s \in Nat \ {0},
         NEW e, e.calls = k, e.bill = Billed(cli.bill, k, s), e.mid = Summed,
         \/ e.tools = cli.tools /\ e.open = cli.open
         \/ e.tools = cli.tools + 1
  PROVE  BillKept(dialect, e)
<1>1. SUFFICES ASSUME Summed PROVE BillKept(dialect, e)
  BY DEF Summed, BillKept
<1>2. /\ cli.calls \in Nat /\ cli.tools \in Nat /\ cli.mid \in BOOLEAN
      /\ cli.bill \in Bills /\ cli.bill.sum \in Nat /\ cli.bill.low \in Nat /\ cli.bill.high \in Nat
  BY DEF Turn, Bills
<1>3. /\ cli.calls <= cli.bill.sum
      /\ cli.calls * cli.bill.low <= cli.bill.sum /\ cli.bill.sum <= cli.calls * cli.bill.high
  BY <1>1 DEF BillKept, Summed
<1>4. \/ cli.mid /\ k = cli.calls
      \/ cli.open = {} /\ k = cli.calls + 1 /\ (dialect = "gemini" => ~cli.mid)
  BY <1>1 DEF InCall
<1>5. /\ e.calls <= e.bill.sum
      /\ e.calls * e.bill.low <= e.bill.sum /\ e.bill.sum <= e.calls * e.bill.high
  <2>1. CASE k = cli.calls
    <3>1. e.bill = cli.bill
      BY <2>1 DEF Billed
    <3> QED  BY <1>3, <2>1, <3>1
  <2>2. CASE k = cli.calls + 1
    <3> DEFINE lo == IF cli.calls = 0 \/ s < cli.bill.low THEN s ELSE cli.bill.low
               hi == IF s > cli.bill.high THEN s ELSE cli.bill.high
    <3>1. e.bill = [sum |-> cli.bill.sum + s, low |-> lo, high |-> hi]
      BY <1>1, <1>2, <2>2 DEF Billed
    <3>2. /\ lo \in Nat /\ hi \in Nat /\ lo <= s /\ s <= hi /\ cli.bill.high <= hi
          /\ cli.calls = 0 \/ lo <= cli.bill.low
      BY <1>2
    <3> HIDE DEF lo, hi
    <3>3. (cli.calls + 1) * lo <= cli.bill.sum + s /\ cli.bill.sum + s <= (cli.calls + 1) * hi
      BY <1>2, <1>3, <3>2, OneMore
    <3>4. cli.calls + 1 <= cli.bill.sum + s
      BY <1>2, <1>3
    <3>5. e.bill.sum = cli.bill.sum + s /\ e.bill.low = lo /\ e.bill.high = hi
      BY <3>1
    <3> QED  BY <2>2, <3>3, <3>4, <3>5
  <2> QED  BY <1>4, <2>1, <2>2
<1>6. dialect = "gemini" => /\ e.calls <= e.tools + 1
                            /\ ~e.mid \/ e.open # {} => e.calls <= e.tools
  <2>1. SUFFICES ASSUME dialect = "gemini"
                 PROVE  e.calls <= e.tools + 1 /\ (e.open # {} => e.calls <= e.tools)
    BY <1>1
  <2>2. cli.calls <= cli.tools + 1 /\ (~cli.mid \/ cli.open # {} => cli.calls <= cli.tools)
    BY <2>1 DEF BillKept
  <2>3. CASE e.tools = cli.tools /\ e.open = cli.open
    BY <1>2, <1>4, <2>1, <2>2, <2>3
  <2>4. CASE e.tools = cli.tools + 1
    BY <1>2, <1>4, <2>1, <2>2, <2>4
  <2> QED  BY <2>3, <2>4
<1> QED  BY <1>5, <1>6 DEF BillKept

-----------------------------------------------------------------------------
(* The agent speaks                                                        *)

LEMMA SaysKeeps ==
  ASSUME Inv, Says
  PROVE  Inv'
<1>1. Talks /\ ~cli.final
  BY DEF Says
<1>2. /\ Going(dialect, adapter, cli, got.reading) /\ cli.at = "talking"
      /\ cli.n \in Nat /\ cli.n + 1 <= Lines /\ cli.n + 1 \in Nat /\ cli \in Turn /\ Named(cli)
      /\ 1..cli.n \subseteq 1..(cli.n + 1) /\ dialect \in Dialect /\ Lines \in Nat
  BY <1>1, TalksMeans
<1> DEFINE n == cli.n + 1
           says == <<Text(n)>>
           line(k, s, big, last) == SayLine(dialect, n, IF last THEN 0 ELSE k, s, big, says)
           after(k, s, big, last) ==
             [cli EXCEPT !.n = n, !.calls = k, !.mid = Summed, !.final = last,
                         !.gauge = Measured(dialect, cli.gauge, s, big),
                         !.bill = Billed(cli.bill, k, s)]
<1>3. PICK k \in 1..Lines, s \in Sizes, big \in BOOLEAN, last \in BOOLEAN :
        /\ InCall(k) /\ (last => dialect = "cursor" /\ k > cli.calls)
        /\ Writes(line(k, s, big, last), after(k, s, big, last), says, <<>>)
  BY DEF Says
<1> DEFINE e == after(k, s, big, last)
           l == line(k, s, big, last)
<1>4. k \in Nat \ {0} /\ s \in Nat \ {0} /\ (dialect = "cursor" => OfCall(cli, k))
  <2>1. k \in Nat \ {0} /\ s \in Nat \ {0}
    BY <1>2, <1>3, StreamAssumption
  <2>2. dialect = "cursor" => Summed
    BY DEF Summed
  <2> QED  BY <1>3, <2>1, <2>2 DEF InCall, OfCall
<1>5. HasSaid(dialect, cli, e, k, s, big, last) /\ e.at = "talking" /\ e.n = n
  <2> DEFINE gauge == Measured(dialect, cli.gauge, s, big)
             bill == Billed(cli.bill, k, s)
  <2>1. gauge \in Gauges /\ bill \in Bills
    BY <1>2, <1>4, MeasuredType, BilledType DEF Turn
  <2>2. Summed \in BOOLEAN
    BY DEF Summed
  <2> HIDE DEF n, gauge, bill
  <2>3. e \in Turn
    BY <1>2, <1>4, <2>1, <2>2 DEF Turn, n, gauge, bill
  <2>4. /\ e.at = cli.at /\ e.n = n /\ e.open = cli.open /\ e.own = cli.own /\ e.shown = cli.shown
        /\ e.wide = cli.wide /\ e.tasks = cli.tasks /\ e.tools = cli.tools /\ e.mid = Summed
        /\ e.calls = k /\ e.final = last /\ e.gauge = gauge /\ e.bill = bill
    BY <1>2 DEF Turn, gauge, bill
  <2> HIDE DEF e
  <2>5. Named(e)
    BY <1>2, <2>4 DEF Named, n
  <2>6. BillKept(dialect, e)
    <3>1. BillKept(dialect, cli)
      BY DEF Inv, TurnInv
    <3> QED  BY <1>2, <1>3, <1>4, <2>4, <3>1, BilledKeeps DEF bill
  <2> QED  BY <1>2, <2>3, <2>4, <2>5, <2>6 DEF HasSaid, n, gauge
<1>6. Goes(dialect, adapter, cli, got.reading, l, e, says, <<>>)
  <2> HIDE DEF e
  <2>1. dialect # "cursor" => last = FALSE
    BY <1>3
  <2>2. LineIs(l, CASE dialect = "codex" -> "item.completed" [] dialect = "gemini" -> "message"
                    [] dialect = "pi" -> "message_end" [] OTHER -> "assistant", n, big, FALSE, s, says)
    BY DEF SayLine, Line, LineIs
  <2>3. l.call = IF last THEN 0 ELSE k
    BY DEF SayLine, Line
  <2> HIDE DEF l
  <2>4. CASE dialect = "claude"
    <3>1. LineIs(l, "assistant", cli.n + 1, big, FALSE, s, <<Text(cli.n + 1)>>)
      BY <2>2, <2>4
    <3>2. HasSaid("claude", cli, e, k, s, big, FALSE) /\ Going("claude", adapter, cli, got.reading)
      BY <1>2, <1>5, <2>1, <2>4
    <3>3. Goes("claude", adapter, cli, got.reading, l, e, <<Text(cli.n + 1)>>, <<>>)
      BY <1>4, <3>1, <3>2, ClaudeSays
    <3> QED  BY <2>4, <3>3
  <2>5. CASE dialect = "codex"
    <3>1. LineIs(l, "item.completed", cli.n + 1, big, FALSE, s, <<Text(cli.n + 1)>>)
      BY <2>2, <2>5
    <3>2. HasSaid("codex", cli, e, k, s, big, FALSE) /\ Going("codex", adapter, cli, got.reading)
      BY <1>2, <1>5, <2>1, <2>5
    <3>3. Goes("codex", adapter, cli, got.reading, l, e, <<Text(cli.n + 1)>>, <<>>)
      BY <1>4, <3>1, <3>2, CodexSays
    <3> QED  BY <2>5, <3>3
  <2>6. CASE dialect = "cursor"
    <3>1. LineIs(l, "assistant", cli.n + 1, big, FALSE, s, <<Text(cli.n + 1)>>)
      BY <2>2, <2>6
    <3>2. HasSaid("cursor", cli, e, k, s, big, last) /\ Going("cursor", adapter, cli, got.reading)
      BY <1>2, <1>5, <2>6
    <3>0. OfCall(cli, k) /\ k \in Nat \ {0} /\ (last => k > cli.calls) /\ ~cli.final
      BY <1>1, <1>3, <1>4, <2>6
    <3>3. Goes("cursor", adapter, cli, got.reading, l, e, <<Text(cli.n + 1)>>, <<>>)
      BY <2>3, <3>0, <3>1, <3>2, CursorSays
    <3> QED  BY <2>6, <3>3
  <2>7. CASE dialect = "gemini"
    <3>1. LineIs(l, "message", cli.n + 1, big, FALSE, s, <<Text(cli.n + 1)>>)
      BY <2>2, <2>7
    <3>2. HasSaid("gemini", cli, e, k, s, big, FALSE) /\ Going("gemini", adapter, cli, got.reading)
      BY <1>2, <1>5, <2>1, <2>7
    <3>3. Goes("gemini", adapter, cli, got.reading, l, e, <<Text(cli.n + 1)>>, <<>>)
      BY <1>4, <3>1, <3>2, GeminiSays
    <3> QED  BY <2>7, <3>3
  <2>8. CASE dialect = "pi"
    <3>1. LineIs(l, "message_end", cli.n + 1, big, FALSE, s, <<Text(cli.n + 1)>>)
      BY <2>2, <2>8
    <3>2. HasSaid("pi", cli, e, k, s, big, FALSE) /\ Going("pi", adapter, cli, got.reading)
      BY <1>2, <1>5, <2>1, <2>8
    <3>3. Goes("pi", adapter, cli, got.reading, l, e, <<Text(cli.n + 1)>>, <<>>)
      BY <1>4, <3>1, <3>2, PiSays
    <3> QED  BY <2>8, <3>3
  <2>9. CASE dialect = "hermes"
    <3>1. LineIs(l, "assistant", cli.n + 1, big, FALSE, s, <<Text(cli.n + 1)>>)
      BY <2>2, <2>9
    <3>2. HasSaid("hermes", cli, e, k, s, big, FALSE) /\ Going("hermes", adapter, cli, got.reading)
      BY <1>2, <1>5, <2>1, <2>9
    <3>3. Goes("hermes", adapter, cli, got.reading, l, e, <<Text(cli.n + 1)>>, <<>>)
      BY <1>4, <3>1, <3>2, HermesSays
    <3> QED  BY <2>9, <3>3
  <2> QED  BY <1>2, <2>4, <2>5, <2>6, <2>7, <2>8, <2>9 DEF Dialect
<1>7. UNCHANGED <<dialect, place, tree, store, ids, turns>> /\ <<>> \in Seq(Signal)
  BY <1>1 DEF Talks
<1> HIDE DEF line, after
<1> QED  BY <1>2, <1>3, <1>5, <1>6, <1>7, WritesKeeps DEF n

-----------------------------------------------------------------------------
(* The agent calls a tool, and is answered                                 *)

LEMMA RendersAfter ==
  ASSUME NEW front \in Seq(Block), Rendered(front) = <<>>,
         NEW shows \in Seq(Block), Rendered(shows) = shows
  PROVE  front \o shows \in Seq(Block) /\ Rendered(front \o shows) = shows
<1>1. front \o shows \in Seq(Block)
  OBVIOUS
<1>2. Rendered(front \o shows) = Rendered(front) \o Rendered(shows)
  BY RenderedConcat
<1> QED  BY <1>1, <1>2, NoBlocks

\* What a call renders, whatever it thinks or leaves blank before.
LEMMA CallRenders ==
  ASSUME NEW n \in Nat, NEW thinks \in {<<>>, <<Hidden("thinking", n)>>},
         NEW blanks \in {<<>>, <<Hidden("meta", n)>>, <<Hidden("bare", n)>>},
         NEW shows \in {<<>>, <<Tool(n)>>, <<Text(n), Tool(n)>>, <<Tool(n), File(n)>>}
  PROVE  /\ thinks \o blanks \o shows \in Seq(Block) /\ shows \in Seq(Block)
         /\ Rendered(shows) = shows /\ Rendered(thinks \o blanks \o shows) = shows
<1>1. /\ thinks \in Seq(Block) /\ Rendered(thinks) = <<>>
      /\ blanks \in Seq(Block) /\ Rendered(blanks) = <<>>
  <2>1. <<>> \in Seq(Block) /\ Rendered(<<>>) = <<>>
    BY RenderedNone
  <2> QED  BY <2>1, HiddenAside
<1>2. /\ Text(n) \in Block /\ Tool(n) \in Block /\ File(n) \in Block
      /\ Renderable(Text(n)) /\ Renderable(Tool(n)) /\ Renderable(File(n))
  BY Blocks, Visible
<1>3. shows \in Seq(Block) /\ Rendered(shows) = shows
  <2>1. CASE shows = <<>>
    BY <2>1, RenderedNone
  <2>2. CASE shows = <<Tool(n)>>
    BY <1>2, <2>2, RenderedOne, SeqOfOne
  <2>3. CASE shows = <<Text(n), Tool(n)>>
    BY <1>2, <2>3, RenderedTwo
  <2>4. CASE shows = <<Tool(n), File(n)>>
    BY <1>2, <2>4, RenderedTwo
  <2> QED  BY <2>1, <2>2, <2>3, <2>4
<1>4. thinks \o blanks \in Seq(Block) /\ Rendered(thinks \o blanks) = Rendered(thinks)
        \o Rendered(blanks)
  BY <1>1, RenderedConcat
<1> DEFINE front == thinks \o blanks
<1>5. Rendered(thinks \o blanks) = <<>>
  BY <1>1, <1>4, NoBlocks
<1>6. front \in Seq(Block) /\ Rendered(front) = <<>>
  BY <1>4, <1>5
<1> HIDE DEF front
<1>7. front \o shows \in Seq(Block) /\ Rendered(front \o shows) = shows
  BY <1>3, <1>6, RendersAfter
<1> QED  BY <1>3, <1>7 DEF front

LEMMA CallsKeeps ==
  ASSUME Inv, Calls
  PROVE  Inv'
<1>1. Talks /\ ~cli.final
  BY DEF Calls
<1>2. /\ Going(dialect, adapter, cli, got.reading) /\ cli.at = "talking"
      /\ cli.n \in Nat /\ cli.n + 1 <= Lines /\ cli.n + 1 \in Nat /\ cli \in Turn /\ Named(cli)
      /\ 1..cli.n \subseteq 1..(cli.n + 1) /\ cli.n + 1 \in 1..(cli.n + 1)
      /\ dialect \in Dialect /\ Lines \in Nat
  BY <1>1, TalksMeans
<1> DEFINE n == cli.n + 1
           blanks(blank) == IF blank THEN <<Hidden(IF dialect = "gemini" THEN "meta" ELSE "bare", n)>>
                            ELSE <<>>
           visible(blank, more) ==
             IF blank \/ dialect = "cursor" THEN <<>>
             ELSE CASE more /\ dialect = "pi" -> <<Text(n), Tool(n)>>
                    [] more /\ dialect = "codex" -> <<Tool(n), File(n)>>
                    [] OTHER -> <<Tool(n)>>
           thinks(more) == IF more /\ dialect = "pi" THEN <<Hidden("thinking", n)>> ELSE <<>>
           line(k, s, own, big, blank, more) ==
             CallLine(dialect, n, own, s, big, thinks(more) \o blanks(blank) \o visible(blank, more))
           owns(own) == IF own THEN cli.own \cup {n} ELSE cli.own
           showing(blank, more) == IF visible(blank, more) = <<>> THEN cli.shown ELSE cli.shown \cup {n}
           widely(more) == IF more THEN cli.wide \cup {n} ELSE cli.wide
           after(k, s, own, big, blank, more) ==
             [cli EXCEPT !.n = n, !.calls = k, !.tools = cli.tools + 1, !.mid = Summed,
                         !.open = cli.open \cup {n}, !.own = owns(own),
                         !.shown = showing(blank, more), !.wide = widely(more),
                         !.gauge = Measured(dialect, cli.gauge, s, big),
                         !.bill = Billed(cli.bill, k, s)]
<1>3. PICK k \in 1..Lines, s \in Sizes, own \in BOOLEAN, big \in BOOLEAN, blank \in BOOLEAN,
          more \in BOOLEAN :
        /\ InCall(k) /\ (dialect = "pi" => cli.open = {})
        /\ (blank => dialect \in {"gemini", "codex"} /\ ~(own /\ dialect = "gemini"))
        /\ (more => dialect \in {"pi", "codex"} /\ ~own)
        /\ (own => dialect \notin {"pi", "hermes"})
        /\ Writes(line(k, s, own, big, blank, more), after(k, s, own, big, blank, more),
                  visible(blank, more), <<>>)
  BY Zenon DEF Calls
<1> DEFINE e == after(k, s, own, big, blank, more)
           l == line(k, s, own, big, blank, more)
           shows == visible(blank, more)
           say == thinks(more) \o blanks(blank) \o shows
<1>4. k \in Nat \ {0} /\ s \in Nat \ {0} /\ (dialect = "cursor" => OfCall(cli, k))
  <2>1. k \in Nat \ {0} /\ s \in Nat \ {0}
    BY <1>2, <1>3, StreamAssumption
  <2>2. dialect = "cursor" => Summed
    BY DEF Summed
  <2> QED  BY <1>3, <2>1, <2>2 DEF InCall, OfCall
<1>5. /\ say \in Seq(Block) /\ shows \in Seq(Block) /\ Rendered(shows) = shows /\ Rendered(say) = shows
      /\ (dialect = "cursor" => shows = <<>>)
      /\ (dialect \in {"claude", "hermes"} => shows = <<Tool(n)>> /\ say = shows)
  <2>1. thinks(more) \in {<<>>, <<Hidden("thinking", n)>>}
    OBVIOUS
  <2>2. blanks(blank) \in {<<>>, <<Hidden("meta", n)>>, <<Hidden("bare", n)>>}
    OBVIOUS
  <2>3. shows \in {<<>>, <<Tool(n)>>, <<Text(n), Tool(n)>>, <<Tool(n), File(n)>>}
    OBVIOUS
  <2>4. dialect = "cursor" => shows = <<>>
    OBVIOUS
  <2>5. dialect \in {"claude", "hermes"} => /\ shows = <<Tool(n)>> /\ thinks(more) = <<>>
                                            /\ blanks(blank) = <<>>
    BY <1>3
  <2> HIDE DEF thinks, blanks, shows, n
  <2>6. /\ say \in Seq(Block) /\ shows \in Seq(Block) /\ Rendered(shows) = shows
        /\ Rendered(say) = shows
    BY <1>2, <2>1, <2>2, <2>3, CallRenders DEF n
  <2>7. thinks(more) = <<>> /\ blanks(blank) = <<>> => say = shows
    BY <2>6, NoBlocks
  <2> QED  BY <2>4, <2>5, <2>6, <2>7
<1>6. HasCalled(dialect, cli, e, k, s, own, shows, big) /\ e.at = "talking" /\ e.n = n
  <2> DEFINE gauge == Measured(dialect, cli.gauge, s, big)
             bill == Billed(cli.bill, k, s)
  <2>1. /\ gauge \in Gauges /\ bill \in Bills /\ Summed \in BOOLEAN
        /\ owns(own) \in SUBSET Nat /\ showing(blank, more) \in SUBSET Nat
        /\ widely(more) \in SUBSET Nat
    <3>1. gauge \in Gauges /\ bill \in Bills
      BY <1>2, <1>4, MeasuredType, BilledType DEF Turn
    <3>2. Summed \in BOOLEAN
      BY DEF Summed
    <3>3. /\ owns(own) \in SUBSET Nat /\ showing(blank, more) \in SUBSET Nat
          /\ widely(more) \in SUBSET Nat
      BY <1>2 DEF Turn
    <3> QED  BY <3>1, <3>2, <3>3
  <2>2. /\ owns(own) = (IF own THEN cli.own \cup {n} ELSE cli.own)
        /\ showing(blank, more) = (IF shows = <<>> THEN cli.shown ELSE cli.shown \cup {n})
    OBVIOUS
  <2>3. /\ owns(own) \subseteq cli.own \cup {n} /\ showing(blank, more) \subseteq cli.shown \cup {n}
        /\ widely(more) \subseteq cli.wide \cup {n}
    OBVIOUS
  <2> HIDE DEF n, gauge, bill, owns, showing, widely
  <2>4. e \in Turn
    <3>1. n \in Nat /\ cli.open \cup {n} \in SUBSET Nat /\ cli.tools + 1 \in Nat /\ cli.n \in Nat
      BY <1>2 DEF Turn, n
    <3> QED  BY <1>2, <1>4, <2>1, <3>1 DEF Turn, gauge, bill
  <2>5. /\ e.at = cli.at /\ e.n = n /\ e.open = cli.open \cup {n} /\ e.own = owns(own)
        /\ e.shown = showing(blank, more) /\ e.wide = widely(more) /\ e.tasks = cli.tasks
        /\ e.calls = k /\ e.final = cli.final /\ e.gauge = gauge /\ e.bill = bill
        /\ e.tools = cli.tools + 1 /\ e.mid = Summed
    BY <1>2 DEF Turn, gauge, bill
  <2> HIDE DEF e, shows
  <2>6. Named(e)
    BY <1>2, <2>3, <2>5 DEF Named, n
  <2>7. BillKept(dialect, e)
    <3>1. BillKept(dialect, cli)
      BY DEF Inv, TurnInv
    <3> QED  BY <1>2, <1>3, <1>4, <2>5, <3>1, BilledKeeps DEF bill
  <2> QED  BY <1>2, <2>2, <2>4, <2>5, <2>6, <2>7 DEF HasCalled, n, gauge
<1>7. Goes(dialect, adapter, cli, got.reading, l, e, shows, <<>>)
  <2> HIDE DEF e, shows, say
  <2>1. LineIs(l, CASE dialect = "codex" -> "item.started" [] dialect = "gemini" -> "tool_use"
                    [] dialect = "pi" -> "message_end" [] dialect = "cursor" -> "tool_call.started"
                    [] OTHER -> "assistant", n, big, own, s, say)
    BY DEF CallLine, Line, LineIs, say, shows
  <2> HIDE DEF l
  <2>2. CASE dialect = "claude"
    <3>1. say = shows /\ shows # <<>> /\ shows \in Seq(Block) /\ Rendered(shows) = shows
      <4>1. shows = <<Tool(n)>> /\ say = shows /\ shows \in Seq(Block) /\ Rendered(shows) = shows
        BY <1>5, <2>2
      <4>2. <<Tool(n)>> # <<>>
        OBVIOUS
      <4> QED  BY <4>1, <4>2
    <3>2. LineIs(l, "assistant", cli.n + 1, big, own, s, shows)
      BY <2>1, <2>2, <3>1
    <3>3. HasCalled("claude", cli, e, k, s, own, shows, big) /\ Going("claude", adapter, cli, got.reading)
      BY <1>2, <1>6, <2>2
    <3>4. Goes("claude", adapter, cli, got.reading, l, e, shows, <<>>)
      <4>1. s \in Nat \ {0} /\ own \in BOOLEAN /\ big \in BOOLEAN
        BY <1>4
      <4> QED  BY <3>1, <3>2, <3>3, <4>1, ClaudeCalls
    <3> QED  BY <2>2, <3>4
  <2>3. CASE dialect = "codex"
    <3>1. LineIs(l, "item.started", cli.n + 1, big, own, s, say)
      BY <2>1, <2>3
    <3>2. HasCalled("codex", cli, e, k, s, own, shows, big) /\ Going("codex", adapter, cli, got.reading)
      BY <1>2, <1>6, <2>3
    <3>3. Goes("codex", adapter, cli, got.reading, l, e, shows, <<>>)
      BY <1>5, <3>1, <3>2, CodexCalls
    <3> QED  BY <2>3, <3>3
  <2>4. CASE dialect = "cursor"
    <3>1. l.ty = "tool_call.started" /\ shows = <<>>
      BY <1>5, <2>1, <2>4 DEF LineIs
    <3>2. HasCalled("cursor", cli, e, k, s, own, <<>>, big) /\ Going("cursor", adapter, cli, got.reading)
      BY <1>2, <1>6, <2>4, <3>1
    <3>0. OfCall(cli, k) /\ k \in Nat \ {0} /\ ~cli.final
      BY <1>1, <1>4, <2>4
    <3>3. Goes("cursor", adapter, cli, got.reading, l, e, <<>>, <<>>)
      BY <3>0, <3>1, <3>2, CursorCalling
    <3> QED  BY <2>4, <3>1, <3>3
  <2>5. CASE dialect = "gemini"
    <3>1. LineIs(l, "tool_use", cli.n + 1, big, own, s, say)
      BY <2>1, <2>5
    <3>2. HasCalled("gemini", cli, e, k, s, own, shows, big) /\ Going("gemini", adapter, cli, got.reading)
      BY <1>2, <1>6, <2>5
    <3>3. Goes("gemini", adapter, cli, got.reading, l, e, shows, <<>>)
      BY <1>5, <3>1, <3>2, GeminiCalls
    <3> QED  BY <2>5, <3>3
  <2>6. CASE dialect = "pi"
    <3>0. own = FALSE
      BY <1>3, <2>6
    <3>1. LineIs(l, "message_end", cli.n + 1, big, FALSE, s, say)
      BY <2>1, <2>6, <3>0
    <3>2. HasCalled("pi", cli, e, k, s, FALSE, shows, big) /\ Going("pi", adapter, cli, got.reading)
      BY <1>2, <1>6, <2>6, <3>0
    <3>3. Goes("pi", adapter, cli, got.reading, l, e, shows, <<>>)
      BY <1>4, <1>5, <3>1, <3>2, PiCalls
    <3> QED  BY <2>6, <3>3
  <2>7. CASE dialect = "hermes"
    <3>0. own = FALSE /\ say = shows
      BY <1>3, <1>5, <2>7
    <3>1. LineIs(l, "assistant", cli.n + 1, big, FALSE, s, shows)
      BY <2>1, <2>7, <3>0
    <3>2. HasCalled("hermes", cli, e, k, s, FALSE, shows, big)
            /\ Going("hermes", adapter, cli, got.reading)
      BY <1>2, <1>6, <2>7, <3>0
    <3>3. Goes("hermes", adapter, cli, got.reading, l, e, shows, <<>>)
      BY <1>5, <3>1, <3>2, HermesCalls
    <3> QED  BY <2>7, <3>3
  <2> QED  BY <1>2, <2>2, <2>3, <2>4, <2>5, <2>6, <2>7 DEF Dialect
<1>8. UNCHANGED <<dialect, place, tree, store, ids, turns>> /\ <<>> \in Seq(Signal)
  BY <1>1 DEF Talks
<1> HIDE DEF line, after, visible
<1> QED  BY <1>2, <1>3, <1>6, <1>7, <1>8, WritesKeeps DEF n

LEMMA AnswersKeeps ==
  ASSUME Inv, Answers
  PROVE  Inv'
<1>1. Talks
  BY DEF Answers
<1>2. /\ Going(dialect, adapter, cli, got.reading) /\ cli.at = "talking"
      /\ cli.n \in Nat /\ cli.n + 1 <= Lines /\ cli.n + 1 \in Nat /\ cli \in Turn /\ Named(cli)
      /\ 1..cli.n \subseteq 1..(cli.n + 1)
      /\ dialect \in Dialect /\ Lines \in Nat
  BY <1>1, TalksMeans
<1> DEFINE own(i) == i \in cli.own
           reveals == dialect \in {"codex", "cursor"}
           say(i) == IF reveals THEN IF i \in cli.wide THEN <<Tool(i), File(i)>> ELSE <<Tool(i)>>
                     ELSE IF dialect = "hermes" THEN <<Output(i)>> ELSE <<>>
           line(i, big) == AnswerLine(dialect, i, own(i), big, say(i))
           gauge(big) == [cli.gauge EXCEPT !.blurred = @ \/ (dialect = "cursor" /\ big)]
           after(i, big) ==
             [cli EXCEPT !.n = cli.n + 1, !.open = cli.open \ {i}, !.mid = FALSE,
                         !.shown = cli.shown \cup {i},
                         !.gauge = gauge(big)]
           says(i) == IF reveals /\ i \in cli.shown THEN <<>> ELSE say(i)
           signals(i) == Unless(~own(i) \/ dialect \in {"pi", "hermes"}, <<Cue>>)
<1>3. PICK i \in cli.open, big \in BOOLEAN :
        (own(i) => ~big) /\ Writes(line(i, big), after(i, big), says(i), signals(i))
  <2>1. \A i \in cli.open, big \in BOOLEAN :
          after(i, big) = [cli EXCEPT !.n = @ + 1, !.open = @ \ {i}, !.mid = FALSE,
                                      !.shown = @ \cup {i},
                                      !.gauge.blurred = @ \/ (dialect = "cursor" /\ big)]
    BY <1>2 DEF Turn, Gauges
  <2> HIDE DEF after
  <2> QED  BY <2>1, Zenon DEF Answers
<1> DEFINE e == after(i, big)
           l == line(i, big)
           s == say(i)
<1>4. i \in Nat /\ i \in 1..cli.n
  BY <1>2 DEF Turn, Named
<1>5. /\ s \in Seq(Block)
      /\ dialect \in {"codex", "cursor"} => s # <<>> /\ Rendered(s) = s
      /\ dialect \in {"claude", "gemini", "pi"} => s = <<>>
  <2>1. /\ Tool(i) \in Block /\ File(i) \in Block /\ Output(i) \in Block
        /\ Renderable(Tool(i)) /\ Renderable(File(i))
    BY <1>4, Blocks, Visible
  <2>2. /\ <<Tool(i)>> \in Seq(Block) /\ <<Tool(i)>> # <<>> /\ Rendered(<<Tool(i)>>) = <<Tool(i)>>
        /\ <<Tool(i), File(i)>> \in Seq(Block) /\ Rendered(<<Tool(i), File(i)>>) = <<Tool(i), File(i)>>
        /\ <<Output(i)>> \in Seq(Block)
    BY <2>1, RenderedOne, RenderedTwo, SeqOfOne
  <2>3. <<Tool(i), File(i)>> # <<>> /\ <<>> \in Seq(Block)
    OBVIOUS
  <2> QED  BY <2>2, <2>3
<1>6. HasAnswered(dialect, cli, e, i, big) /\ e.at = "talking" /\ e.n = cli.n + 1
  <2>1. /\ gauge(big) \in Gauges
        /\ cli.open \ {i} \in SUBSET Nat /\ cli.shown \cup {i} \in SUBSET Nat
    BY <1>2, <1>4 DEF Turn, Gauges
  <2> HIDE DEF gauge
  <2>2. e \in Turn
    BY <1>2, <2>1 DEF Turn
  <2>3. /\ e.at = cli.at /\ e.n = cli.n + 1 /\ e.open = cli.open \ {i} /\ e.own = cli.own
        /\ e.shown = cli.shown \cup {i} /\ e.wide = cli.wide /\ e.tasks = cli.tasks
        /\ e.calls = cli.calls /\ e.final = cli.final /\ e.gauge = gauge(big)
        /\ e.bill = cli.bill /\ e.tools = cli.tools
    BY <1>2 DEF Turn
  <2> HIDE DEF e
  <2>4. Named(e)
    BY <1>2, <1>4, <2>3 DEF Named
  <2>5. BillKept(dialect, e)
    <3>1. BillKept(dialect, cli) /\ cli.open # {}
      BY DEF Inv, TurnInv
    <3>2. dialect = "gemini" => cli.calls <= cli.tools
      BY <3>1 DEF BillKept
    <3> QED  BY <1>2, <2>3, <3>1, <3>2 DEF BillKept, Turn
  <2> QED  BY <1>2, <2>2, <2>3, <2>4, <2>5 DEF HasAnswered, gauge
<1>7. Goes(dialect, adapter, cli, got.reading, l, e, says(i), signals(i))
  <2> HIDE DEF e, s
  <2>1. /\ l.ty = (CASE dialect = "codex" -> "item.completed" [] dialect = "gemini" -> "tool_result"
                     [] dialect = "cursor" -> "tool_call.completed"
                     [] dialect = "pi" -> "tool_execution_end"
                     [] OTHER -> "user")
        /\ l.id = i /\ l.own = (i \in cli.own) /\ l.call = cli.calls /\ l.big = big /\ l.say = s
        /\ l.holds = {}
    BY DEF AnswerLine, Line, s
  <2>2. i \in cli.own => ~big
    BY <1>3
  <2> HIDE DEF l
  <2>3. dialect \in {"claude", "codex", "cursor", "gemini"} => signals(i) = CueFor(cli, i)
    BY DEF CueFor
  <2>4. dialect \in {"pi", "hermes"} => signals(i) = <<>>
    BY DEF Unless
  <2>5. CASE dialect \in {"claude", "gemini"}
    <3>1. says(i) = <<>> /\ signals(i) = CueFor(cli, i)
      BY <2>3, <2>5
    <3>2. l.ty = (IF dialect = "claude" THEN "user" ELSE "tool_result") /\ l.id = i /\ l.big = big
          /\ l.holds = {}
      BY <2>1, <2>5
    <3>3. Goes(dialect, adapter, cli, got.reading, l, e, <<>>, CueFor(cli, i))
      BY <1>2, <1>6, <2>2, <2>5, <3>2, ClaudeAnswers
    <3> QED  BY <3>1, <3>3
  <2>6. CASE dialect = "codex"
    <3>1. /\ says(i) = (IF i \in cli.shown THEN <<>> ELSE s) /\ signals(i) = CueFor(cli, i)
      BY <2>3, <2>6 DEF s
    <3>2. l.ty = "item.completed"
      BY <2>1, <2>6
    <3>3. HasAnswered("codex", cli, e, i, big) /\ Going("codex", adapter, cli, got.reading)
      BY <1>2, <1>6, <2>6
    <3>4. s \in Seq(Block) /\ Rendered(s) = s /\ s # <<>>
      BY <1>5, <2>6
    <3>5. Goes("codex", adapter, cli, got.reading, l, e, IF i \in cli.shown THEN <<>> ELSE s,
            CueFor(cli, i))
      BY <2>1, <3>2, <3>3, <3>4, CodexAnswers
    <3> QED  BY <2>6, <3>1, <3>5
  <2>7. CASE dialect = "cursor"
    <3>2. l.ty = "tool_call.completed"
      BY <2>1, <2>7
    <3>3. HasAnswered("cursor", cli, e, i, big) /\ Going("cursor", adapter, cli, got.reading)
      BY <1>2, <1>6, <2>7
    <3>4. s \in Seq(Block) /\ Rendered(s) = s
      BY <1>5, <2>7
    <3>5. /\ Goes("cursor", adapter, cli, got.reading, l, e, s, CueFor(cli, i))
          /\ i \notin cli.shown
      BY <2>1, <2>2, <3>2, <3>3, <3>4, CursorAnswers
    <3>6. says(i) = s /\ signals(i) = CueFor(cli, i)
      BY <2>3, <2>7, <3>5 DEF s
    <3> QED  BY <2>7, <3>5, <3>6
  <2>8. CASE dialect \in {"pi", "hermes"}
    <3>1. says(i) = (IF dialect = "pi" THEN <<>> ELSE s) /\ signals(i) = <<>>
      BY <2>4, <2>8 DEF s
    <3>2. l.ty = (IF dialect = "pi" THEN "tool_execution_end" ELSE "user")
      BY <2>1, <2>8
    <3>3. Goes(dialect, adapter, cli, got.reading, l, e, IF dialect = "pi" THEN <<>> ELSE s, <<>>)
      BY <1>2, <1>5, <1>6, <2>1, <2>8, <3>2, PiAnswers
    <3> QED  BY <3>1, <3>3
  <2> QED  BY <1>2, <2>5, <2>6, <2>7, <2>8 DEF Dialect
<1>8. UNCHANGED <<dialect, place, tree, store, ids, turns>>
  BY <1>1 DEF Talks
<1>9. signals(i) \in Seq(Signal)
  <2>1. <<>> \in Seq(Signal) /\ CueFor(cli, i) \in Seq(Signal)
    BY CueForType
  <2> QED  BY <2>1 DEF CueFor, Unless
<1> HIDE DEF line, after, says, signals
<1> QED  BY <1>2, <1>3, <1>6, <1>7, <1>8, <1>9, WritesKeeps

-----------------------------------------------------------------------------
(* Other lines of a turn                                                   *)

\* The agent's side after a line that is no words or call of it.
LEMMA PassedType ==
  ASSUME Inv, Talks, NEW t \in SUBSET (1..(cli.n + 1))
  PROVE  LET e == [cli EXCEPT !.n = cli.n + 1, !.tasks = t] IN
         HasPassed(dialect, cli, e) /\ e.at = "talking" /\ e.n = cli.n + 1
<1> DEFINE e == [cli EXCEPT !.n = cli.n + 1, !.tasks = t]
<1>1. /\ cli.at = "talking" /\ cli.n \in Nat /\ cli.n + 1 \in Nat /\ cli \in Turn /\ Named(cli)
      /\ 1..cli.n \subseteq 1..(cli.n + 1)
  BY TalksMeans
<1>2. t \in SUBSET Nat
  BY <1>1
<1>3. e \in Turn
  BY <1>1, <1>2 DEF Turn
<1>4. /\ e.at = cli.at /\ e.n = cli.n + 1 /\ e.open = cli.open /\ e.own = cli.own
      /\ e.shown = cli.shown /\ e.wide = cli.wide /\ e.tasks = t
      /\ e.calls = cli.calls /\ e.final = cli.final /\ e.gauge = cli.gauge /\ e.bill = cli.bill
      /\ e.tools = cli.tools /\ e.mid = cli.mid
  BY <1>1 DEF Turn
<1> HIDE DEF e
<1>5. Named(e)
  BY <1>1, <1>4 DEF Named
<1>6. BillKept(dialect, e)
  <2>1. BillKept(dialect, cli)
    BY DEF Inv, TurnInv
  <2> QED  BY <1>4, <2>1 DEF BillKept
<1>7. HasPassed(dialect, cli, e) /\ e.at = "talking" /\ e.n = cli.n + 1
  BY <1>1, <1>3, <1>4, <1>5, <1>6 DEF HasPassed
<1> QED  BY <1>7 DEF e

\* The tasks are those there were.
LEMMA PassedSame ==
  ASSUME Inv, Talks
  PROVE  LET e == [cli EXCEPT !.n = cli.n + 1] IN
         HasPassed(dialect, cli, e) /\ e.at = "talking" /\ e.n = cli.n + 1
<1>1. cli.tasks \in SUBSET (1..(cli.n + 1)) /\ cli \in Turn
  BY TalksMeans DEF Named
<1>2. [cli EXCEPT !.n = cli.n + 1, !.tasks = cli.tasks] = [cli EXCEPT !.n = cli.n + 1]
  BY <1>1 DEF Turn
<1> QED  BY <1>1, <1>2, PassedType

LEMMA PassesKeeps ==
  ASSUME Inv, Talks, NEW e, HasPassed(dialect, cli, e), e.at = "talking", e.n = cli.n + 1,
         NEW line, NEW says, NEW signals, Writes(line, e, says, signals),
         Goes(dialect, adapter, cli, got.reading, line, e, says, signals),
         signals \in Seq(Signal)
  PROVE  Inv'
<1>1. cli.at = "talking" /\ cli.n + 1 <= Lines
  BY TalksMeans
<1>2. UNCHANGED <<dialect, place, tree, store, ids, turns>>
  BY DEF Talks
<1> QED  BY <1>1, <1>2, WritesKeeps

LEMMA ChattersKeeps ==
  ASSUME Inv, Chatters
  PROVE  Inv'
<1>1. Talks
  BY DEF Chatters
<1>2. /\ Going(dialect, adapter, cli, got.reading) /\ cli.n + 1 \in Nat /\ dialect \in Dialect
  BY <1>1, TalksMeans
<1> DEFINE n == cli.n + 1
           Beside(ty, kind) == [Line(ty) EXCEPT !.id = n, !.say = <<Hidden(kind, n)>>]
           e == [cli EXCEPT !.n = n]
<1>3. HasPassed(dialect, cli, e) /\ e.at = "talking" /\ e.n = cli.n + 1
  BY <1>1, PassedSame
<1>4. <<>> \in Seq(Signal)
  OBVIOUS
<1>5. ASSUME NEW line, Writes(line, e, <<>>, <<>>), line.holds = {},
             \/ dialect \in {"codex", "cursor", "gemini", "pi"} /\ line.ty = "other"
             \/ dialect = "claude" /\ line.ty \in {"stream_event", "system"}
             \/ dialect = "claude" /\ line.ty = "user" /\ line.id = cli.n + 1
             \/ dialect = "claude" /\ LineIs(line, "assistant", cli.n + 1, TRUE, FALSE, 0,
                  <<Hidden("thinking", cli.n + 1)>>)
             \/ dialect = "codex" /\ LineIs(line, "item.completed", cli.n + 1, FALSE, FALSE, 0,
                  <<Hidden("thinking", cli.n + 1)>>)
             \/ dialect = "codex" /\ line.ty = "thread.started" /\ line.big = TRUE
             \/ dialect = "pi" /\ line.ty = "session" /\ line.big = TRUE
      PROVE  Inv'
  <2> HIDE DEF e
  <2>1. Goes(dialect, adapter, cli, got.reading, line, e, <<>>, <<>>)
    BY <1>2, <1>3, <1>5, QuietLine
  <2> QED  BY <1>1, <1>3, <1>4, <1>5, <2>1, PassesKeeps
<1>6. CASE dialect \in {"claude", "hermes"}
           /\ Writes([Line("other") EXCEPT !.say = <<Raw(n)>>], e, <<Raw(n)>>, <<>>)
  <2> DEFINE l == [Line("other") EXCEPT !.say = <<Raw(n)>>]
  <2>1. l.ty = "other" /\ l.say = <<Raw(n)>> /\ l.holds = {}
    BY DEF Line
  <2>2. l.say \in Seq(Block)
    BY <1>2, <2>1, Blocks, SeqOfOne
  <2> HIDE DEF l, e
  <2>3. Goes(dialect, adapter, cli, got.reading, l, e, l.say, <<>>)
    BY <1>2, <1>3, <1>6, <2>1, <2>2, RawLine
  <2>4. Writes(l, e, l.say, <<>>)
    BY <1>6, <2>1 DEF l
  <2> QED  BY <1>1, <1>3, <1>4, <2>3, <2>4, PassesKeeps
<1>7. ASSUME NEW big \in BOOLEAN, dialect \notin {"claude", "hermes"},
             Writes([Beside("other", "raw") EXCEPT !.big = big], e, <<>>, <<>>)
      PROVE  Inv'
  <2> DEFINE l == [Beside("other", "raw") EXCEPT !.big = big]
  <2>1. l.ty = "other" /\ l.holds = {}
    BY DEF Line
  <2> HIDE DEF l, e
  <2> QED  BY <1>2, <1>5, <1>7, <2>1 DEF l, Dialect
<1>8. ASSUME NEW ty \in {"stream_event", "user", "system"}, dialect = "claude",
             Writes(Beside(ty, "raw"), e, <<>>, <<>>)
      PROVE  Inv'
  <2>1. Beside(ty, "raw").ty = ty /\ Beside(ty, "raw").id = cli.n + 1
        /\ Beside(ty, "raw").holds = {}
    BY DEF Line
  <2> HIDE DEF e, Beside
  <2> QED  BY <1>5, <1>8, <2>1
<1>9. CASE dialect = "claude" /\ Writes([Beside("assistant", "thinking") EXCEPT !.big = TRUE], e,
             <<>>, <<>>)
  <2> DEFINE l == [Beside("assistant", "thinking") EXCEPT !.big = TRUE]
  <2>1. LineIs(l, "assistant", cli.n + 1, TRUE, FALSE, 0, <<Hidden("thinking", cli.n + 1)>>)
        /\ l.holds = {}
    BY DEF Line, LineIs
  <2> HIDE DEF l, e
  <2> QED  BY <1>5, <1>9, <2>1 DEF l
<1>10. CASE dialect = "codex" /\ Writes(Beside("item.completed", "thinking"), e, <<>>, <<>>)
  <2> DEFINE l == Beside("item.completed", "thinking")
  <2>1. LineIs(l, "item.completed", cli.n + 1, FALSE, FALSE, 0, <<Hidden("thinking", cli.n + 1)>>)
        /\ l.holds = {}
    BY DEF Line, LineIs
  <2> HIDE DEF l, e
  <2> QED  BY <1>5, <1>10, <2>1 DEF l
<1>11. CASE dialect \in {"codex", "pi"}
            /\ Writes([OpenLine(dialect, NoSid) EXCEPT !.big = TRUE], e, <<>>, <<>>)
  <2> DEFINE l == [OpenLine(dialect, NoSid) EXCEPT !.big = TRUE]
  <2>1. l.big = TRUE /\ l.holds = {} /\ (dialect = "codex" => l.ty = "thread.started")
          /\ (dialect = "pi" => l.ty = "session")
    BY DEF Line, OpenLine
  <2> HIDE DEF l, e
  <2> QED  BY <1>5, <1>11, <2>1 DEF l
<1> QED
  <2> HIDE DEF e, Beside
  <2> QED  BY <1>6, <1>7, <1>8, <1>9, <1>10, <1>11 DEF Chatters, e, Beside

LEMMA SubagentKeeps ==
  ASSUME Inv, SubagentSays
  PROVE  Inv'
<1>1. Talks /\ dialect = "claude"
  BY DEF SubagentSays
<1>2. Going("claude", adapter, cli, got.reading) /\ cli.n + 1 \in Nat
  BY <1>1, TalksMeans
<1> DEFINE n == cli.n + 1
           e == [cli EXCEPT !.n = n]
           l == [Line("assistant") EXCEPT !.id = n, !.sub = TRUE, !.tok = 90, !.say = <<Text(n)>>]
<1>3. HasPassed(dialect, cli, e) /\ e.at = "talking" /\ e.n = cli.n + 1
  BY <1>1, PassedSame
<1>4. /\ l.ty = "assistant" /\ l.sub /\ l.own = FALSE /\ l.id = cli.n + 1
      /\ l.tok \in Nat /\ l.say = <<Text(cli.n + 1)>>
      /\ l.holds = {} /\ l.task = FALSE /\ l.ok
  BY DEF Line
<1>5. Writes(l, e, <<Text(n)>>, <<>>)
  BY DEF SubagentSays
<1> HIDE DEF e, l
<1>6. Goes("claude", adapter, cli, got.reading, l, e, <<Text(cli.n + 1)>>, <<>>)
  <2>1. HasPassed("claude", cli, e)
    BY <1>1, <1>3
  <2> QED  BY <1>2, <1>4, <2>1, SubagentLine
<1>7. Goes(dialect, adapter, cli, got.reading, l, e, <<Text(n)>>, <<>>) /\ <<>> \in Seq(Signal)
  BY <1>1, <1>6
<1> QED  BY <1>1, <1>3, <1>5, <1>7, PassesKeeps

LEMMA Compacting ==
  ASSUME NEW g \in Gauges, NEW s, NEW p, NEW q
  PROVE  [g EXCEPT !.low = s, !.high = s, !.packed = p, !.blurred = q]
           = [low |-> s, high |-> s, told |-> g.told, packed |-> p, blurred |-> q]
<1> DEFINE a == [g EXCEPT !.low = s]
           b == [a EXCEPT !.high = s]
           c == [b EXCEPT !.packed = p]
<1>1. PICK x1, x2, x3, x4 :
        /\ g.told = x2
        /\ a = [low |-> s, high |-> x1, told |-> x2, packed |-> x3, blurred |-> x4]
  <2>1. a = [low |-> s, high |-> g.high, told |-> g.told, packed |-> g.packed,
             blurred |-> g.blurred]
    BY DEF Gauges
  <2> HIDE DEF a
  <2> QED  BY <2>1
<1> HIDE DEF a
<1>2. b = [low |-> s, high |-> s, told |-> x2, packed |-> x3, blurred |-> x4]
  BY <1>1
<1> HIDE DEF b
<1>3. c = [low |-> s, high |-> s, told |-> x2, packed |-> p, blurred |-> x4]
  BY <1>2
<1> HIDE DEF c
<1>4. [c EXCEPT !.blurred = q]
        = [low |-> s, high |-> s, told |-> x2, packed |-> p, blurred |-> q]
  BY <1>3
<1> QED  BY <1>1, <1>4 DEF a, b, c

LEMMA TasksKeeps ==
  ASSUME Inv, Tasks
  PROVE  Inv'
<1>1. Talks /\ dialect = "claude"
  BY DEF Tasks
<1>2. /\ Going("claude", adapter, cli, got.reading) /\ cli.n + 1 \in Nat /\ cli.n \in Nat
      /\ cli \in Turn /\ Named(cli) /\ 1..cli.n \subseteq 1..(cli.n + 1) /\ cli.n + 1 \in 1..(cli.n + 1)
  BY <1>1, TalksMeans
<1>3. ASSUME NEW e, HasPassed(dialect, cli, e) /\ e.at = "talking" /\ e.n = cli.n + 1, NEW line, NEW signals,
             line.ty \in {"task_started", "task_notification", "task_updated"},
             line.holds = {}, line.id \in Nat, line.ok \in BOOLEAN, signals = ClaudeTask(line),
             Writes(line, e, <<>>, signals)
      PROVE  Inv'
  <2>1. Goes("claude", adapter, cli, got.reading, line, e, <<>>, ClaudeTask(line))
    <3>1. HasPassed("claude", cli, e)
      BY <1>1, <1>3
    <3> QED  BY <1>2, <1>3, <3>1, TaskLine
  <2>2. Goes(dialect, adapter, cli, got.reading, line, e, <<>>, signals)
    BY <1>1, <1>3, <2>1
  <2>3. signals \in Seq(Signal)
    <3>1. ClaudeTask(line) = <<>> \/ \E x \in Signal : ClaudeTask(line) = <<x>>
      BY <1>3 DEF ClaudeTask, TaskStarted, TaskFinished, Signal
    <3>2. <<>> \in Seq(Signal) /\ \A x \in Signal : <<x>> \in Seq(Signal)
      OBVIOUS
    <3>3. ClaudeTask(line) \in Seq(Signal)
      BY <3>1, <3>2
    <3> QED  BY <1>3, <3>3
  <2> QED  BY <1>1, <1>3, <2>2, <2>3, PassesKeeps
<1> DEFINE n == cli.n + 1
           with(t) == [cli EXCEPT !.n = n, !.tasks = t]
<1>4. \A t \in SUBSET (1..(cli.n + 1)) :
        HasPassed(dialect, cli, with(t)) /\ with(t).at = "talking" /\ with(t).n = cli.n + 1
  BY <1>1, PassedType
<1>5. HasPassed(dialect, cli, [cli EXCEPT !.n = n]) /\ [cli EXCEPT !.n = n].at = "talking"
        /\ [cli EXCEPT !.n = n].n = cli.n + 1
  BY <1>1, PassedSame
<1>6. cli.tasks \subseteq 1..(cli.n + 1)
  BY <1>2 DEF Named
<1>7. CASE Writes([Line("task_started") EXCEPT !.id = n], with(cli.tasks \cup {n}), <<>>,
             <<TaskStarted(n)>>)
  <2> DEFINE l == [Line("task_started") EXCEPT !.id = n]
             e == with(cli.tasks \cup {n})
  <2>1. /\ l.ty = "task_started" /\ l.id \in Nat /\ l.ok \in BOOLEAN /\ l.holds = {}
        /\ <<TaskStarted(n)>> = ClaudeTask(l)
    BY <1>2 DEF Line, ClaudeTask
  <2>2. HasPassed(dialect, cli, e) /\ e.at = "talking" /\ e.n = cli.n + 1
    <3>1. cli.tasks \cup {n} \in SUBSET (1..(cli.n + 1))
      BY <1>2, <1>6
    <3> HIDE DEF with
    <3> QED  BY <1>4, <3>1
  <2>3. Writes(l, e, <<>>, <<TaskStarted(n)>>)
    BY <1>7
  <2> HIDE DEF l, e
  <2> QED  BY <1>3, <2>1, <2>2, <2>3
<1>8. ASSUME NEW i \in cli.tasks, NEW ty \in {"task_notification", "task_updated"},
             Writes([Line(ty) EXCEPT !.id = i], with(cli.tasks \ {i}), <<>>, <<TaskFinished(i)>>)
      PROVE  Inv'
  <2> DEFINE l == [Line(ty) EXCEPT !.id = i]
             e == with(cli.tasks \ {i})
  <2>1. i \in Nat
    BY <1>2 DEF Turn
  <2>2. /\ l.ty = ty /\ l.id \in Nat /\ l.ok \in BOOLEAN /\ l.holds = {}
        /\ <<TaskFinished(i)>> = ClaudeTask(l)
    <3>1. l.ty = ty /\ l.id = i /\ l.ok = TRUE /\ l.holds = {}
      BY DEF Line
    <3> HIDE DEF l
    <3>2. CASE ty = "task_notification"
      BY <2>1, <3>1, <3>2 DEF ClaudeTask
    <3>3. CASE ty = "task_updated"
      BY <2>1, <3>1, <3>3 DEF ClaudeTask
    <3> QED  BY <3>2, <3>3
  <2>3. HasPassed(dialect, cli, e) /\ e.at = "talking" /\ e.n = cli.n + 1
    <3>1. cli.tasks \ {i} \in SUBSET (1..(cli.n + 1))
      BY <1>6
    <3> HIDE DEF with
    <3> QED  BY <1>4, <3>1
  <2>4. Writes(l, e, <<>>, <<TaskFinished(i)>>)
    BY <1>8
  <2> HIDE DEF l, e
  <2> QED  BY <1>3, <2>2, <2>3, <2>4
<1>9. ASSUME NEW i \in cli.tasks,
             Writes([Line("task_updated") EXCEPT !.id = i, !.ok = FALSE], [cli EXCEPT !.n = n], <<>>,
               <<>>)
      PROVE  Inv'
  <2> DEFINE l == [Line("task_updated") EXCEPT !.id = i, !.ok = FALSE]
             e == [cli EXCEPT !.n = n]
  <2>1. i \in Nat
    BY <1>2 DEF Turn
  <2>2. /\ l.ty = "task_updated" /\ l.id \in Nat /\ l.ok \in BOOLEAN /\ l.holds = {} /\ <<>> = ClaudeTask(l)
    BY <2>1 DEF Line, ClaudeTask
  <2>4. Writes(l, e, <<>>, <<>>) /\ HasPassed(dialect, cli, e) /\ e.at = "talking" /\ e.n = cli.n + 1
    BY <1>5, <1>9
  <2> HIDE DEF l, e
  <2> QED  BY <1>3, <2>2, <2>4
<1>10. ASSUME NEW s \in Sizes,
              Writes([Line("compact_boundary") EXCEPT !.tok = s],
                     [cli EXCEPT !.n = n, !.gauge.low = s, !.gauge.high = s, !.gauge.packed = TRUE,
                                 !.gauge.blurred = FALSE],
                     <<>>, <<Compacted(s)>>)
       PROVE  Inv'
  <2> DEFINE l == [Line("compact_boundary") EXCEPT !.tok = s]
             g == [low |-> s, high |-> s, told |-> cli.gauge.told, packed |-> TRUE,
                   blurred |-> FALSE]
             e == [cli EXCEPT !.n = n, !.gauge.low = s, !.gauge.high = s, !.gauge.packed = TRUE,
                              !.gauge.blurred = FALSE]
  <2>1. s \in Nat \ {0}
    BY StreamAssumption
  <2>2. g \in Gauges /\ cli.gauge \in Gauges
    BY <1>2, <2>1 DEF Turn, Gauges
  <2>3. e = [cli EXCEPT !.n = n, !.gauge = g]
    <3>1. [cli.gauge EXCEPT !.low = s, !.high = s, !.packed = TRUE, !.blurred = FALSE] = g
      BY <2>2, Compacting
    <3>2. e = [cli EXCEPT !.n = n,
                 !.gauge = [cli.gauge EXCEPT !.low = s, !.high = s, !.packed = TRUE,
                                             !.blurred = FALSE]]
      BY <1>2 DEF Turn
    <3> QED  BY <3>1, <3>2
  <2>4. /\ l.ty = "compact_boundary" /\ l.id \in Nat /\ l.ok \in BOOLEAN /\ l.holds = {}
        /\ l.tok = s /\ <<Compacted(s)>> = ClaudeTask(l)
    BY DEF Line, ClaudeTask
  <2>5. Writes(l, e, <<>>, <<Compacted(s)>>)
    BY <1>10
  <2> HIDE DEF l, e, g
  <2>6. e \in Turn
    BY <1>2, <2>2, <2>3 DEF Turn
  <2>7. /\ e.at = cli.at /\ e.n = n /\ e.open = cli.open /\ e.own = cli.own
        /\ e.shown = cli.shown /\ e.wide = cli.wide /\ e.tasks = cli.tasks /\ e.gauge = g
    BY <1>2, <2>3 DEF Turn
  <2>8. Named(e)
    BY <1>2, <2>7 DEF Named
  <2>9. Goes("claude", adapter, cli, got.reading, l, e, <<>>, ClaudeTask(l))
    BY <1>2, <2>1, <2>4, <2>6, <2>7, <2>8, CompactLine DEF g
  <2>10. Goes(dialect, adapter, cli, got.reading, l, e, <<>>, <<Compacted(s)>>)
    BY <1>1, <2>4, <2>9
  <2>11. <<Compacted(s)>> \in Seq(Signal)
    <3>1. Compacted(s) \in Signal
      BY <2>1 DEF Compacted, Signal
    <3> QED  BY <3>1
  <2>12. UNCHANGED <<dialect, place, tree, store, ids, turns>> /\ cli.at = "talking"
         /\ n <= Lines
    BY <1>1, TalksMeans DEF Talks
  <2> QED  BY <2>5, <2>7, <2>10, <2>11, <2>12, WritesKeeps
<1> QED
  <2> HIDE DEF n
  <2> QED  BY <1>7, <1>8, <1>9, <1>10 DEF Tasks, n

LEMMA ReportsKeeps ==
  ASSUME Inv, Reports
  PROVE  Inv'
<1>1. Talks /\ dialect = "hermes" /\ cli.calls > 0
  BY DEF Reports
<1>2. /\ Going("hermes", adapter, cli, got.reading) /\ cli.at = "talking" /\ cli.n + 1 <= Lines
      /\ cli.n + 1 \in Nat /\ cli.n \in Nat /\ cli \in Turn /\ Named(cli)
      /\ 1..cli.n \subseteq 1..(cli.n + 1)
  BY <1>1, TalksMeans
<1>3. PICK s \in Sizes :
        Writes([Line("context_tokens") EXCEPT !.tok = s],
               [cli EXCEPT !.n = @ + 1, !.gauge.low = s, !.gauge.high = s], <<>>, <<>>)
  BY DEF Reports
<1> DEFINE g == [cli.gauge EXCEPT !.low = s, !.high = s]
           e == [cli EXCEPT !.n = cli.n + 1, !.gauge = g]
           l == [Line("context_tokens") EXCEPT !.tok = s]
<1>4. s \in Nat \ {0}
  BY StreamAssumption
<1>5. g \in Gauges /\ g.low = s /\ g.high = s
  BY <1>2, <1>4 DEF Turn, Gauges
<1>6. Writes(l, e, <<>>, <<>>)
  <2>1. [cli EXCEPT !.n = @ + 1, !.gauge.low = s, !.gauge.high = s] = e
    BY <1>2 DEF Turn, Gauges
  <2> QED  BY <1>3, <2>1
<1>7. l.ty = "context_tokens" /\ l.big = FALSE /\ l.tok = s
  BY DEF Line
<1> HIDE DEF g, l
<1>8. e \in Turn
  BY <1>2, <1>5 DEF Turn
<1>9. /\ e.at = cli.at /\ e.n = cli.n + 1 /\ e.open = cli.open /\ e.own = cli.own
      /\ e.shown = cli.shown /\ e.wide = cli.wide /\ e.tasks = cli.tasks /\ e.gauge = g
  BY <1>2 DEF Turn
<1> HIDE DEF e
<1>10. Named(e)
  BY <1>2, <1>9 DEF Named
<1>11. Goes("hermes", adapter, cli, got.reading, l, e, <<>>, <<>>)
  BY <1>2, <1>4, <1>5, <1>7, <1>8, <1>9, <1>10, ReportLine
<1>12. Goes(dialect, adapter, cli, got.reading, l, e, <<>>, <<>>) /\ <<>> \in Seq(Signal)
  BY <1>1, <1>11
<1>13. UNCHANGED <<dialect, place, tree, store, ids, turns>>
  BY <1>1 DEF Talks
<1> QED  BY <1>2, <1>6, <1>9, <1>12, <1>13, WritesKeeps

LEMMA QuotingCallsKeeps ==
  ASSUME Inv, QuotingCalls
  PROVE  Inv'
<1>1. Talks /\ dialect = "claude"
  BY DEF QuotingCalls
<1>2. /\ Going("claude", adapter, cli, got.reading) /\ cli.at = "talking" /\ cli.n + 1 <= Lines
      /\ cli.n + 1 \in Nat /\ cli.n \in Nat /\ cli \in Turn /\ Named(cli)
      /\ 1..cli.n \subseteq 1..(cli.n + 1) /\ cli.n + 1 \in 1..(cli.n + 1)
  BY <1>1, TalksMeans
<1> DEFINE n == cli.n + 1
           line(s, ty) == [CallLine(dialect, n, FALSE, s, FALSE, <<Tool(n)>>) EXCEPT !.holds = {ty}]
           after(s) == [cli EXCEPT !.n = n, !.open = cli.open \cup {n},
                                   !.gauge = Measured(dialect, cli.gauge, s, FALSE)]
           says(ty) == Unless(ty # "result", <<Tool(n)>>)
           signals(ty) == Unless(ty # "result", <<Ended(FALSE)>>)
<1>3. PICK s \in Sizes, ty \in {"system", "user", "stream_event", "result"} :
        Writes(line(s, ty), after(s), says(ty), signals(ty))
  BY Zenon DEF QuotingCalls
<1> DEFINE e == after(s)
           l == line(s, ty)
<1>4. s \in Nat \ {0}
  BY StreamAssumption
<1>5. /\ l.ty = "assistant" /\ l.holds = {ty} /\ l.id = n /\ l.big = FALSE /\ l.sub = FALSE
      /\ l.own = FALSE /\ l.tok = s /\ l.task = FALSE /\ l.ok /\ l.say = <<Tool(n)>>
  BY <1>1 DEF CallLine, Line
<1> HIDE DEF l
<1>6. e \in Turn /\ Named(e) /\ e.at = "talking" /\ e.n = n /\ e.own = cli.own
      /\ e.open = cli.open \cup {n} /\ e.gauge = Measured("claude", cli.gauge, s, FALSE)
  <2> DEFINE g == Measured(dialect, cli.gauge, s, FALSE)
  <2>1. g \in Gauges /\ cli.open \cup {n} \in SUBSET Nat
    <3>1. cli.gauge \in Gauges /\ FALSE \in BOOLEAN /\ s \in Nat
      BY <1>2, <1>4 DEF Turn
    <3>2. g \in Gauges
      BY <3>1, MeasuredType
    <3> QED  BY <1>2, <3>2 DEF Turn
  <2> HIDE DEF g
  <2>2. e = [cli EXCEPT !.n = n, !.open = cli.open \cup {n}, !.gauge = g]
    BY DEF g
  <2> HIDE DEF e
  <2>3. e \in Turn
    BY <1>2, <2>1, <2>2 DEF Turn
  <2>4. /\ e.at = cli.at /\ e.n = n /\ e.open = cli.open \cup {n} /\ e.own = cli.own
        /\ e.shown = cli.shown /\ e.wide = cli.wide /\ e.tasks = cli.tasks /\ e.gauge = g
    BY <1>2, <2>2 DEF Turn
  <2>5. Named(e)
    BY <1>2, <2>4 DEF Named
  <2> QED  BY <1>1, <1>2, <2>3, <2>4, <2>5 DEF g
<1> HIDE DEF e
<1>7. Goes("claude", adapter, cli, got.reading, l, e, says(ty), signals(ty))
  BY <1>2, <1>4, <1>5, <1>6, QuotedCall
<1>8. Goes(dialect, adapter, cli, got.reading, l, e, says(ty), signals(ty))
  BY <1>1, <1>7
<1>9. signals(ty) \in Seq(Signal)
  <2>1. Ended(FALSE) \in Signal
    BY DEF Ended, Signal
  <2>2. <<>> \in Seq(Signal) /\ \A x \in Signal : <<x>> \in Seq(Signal)
    OBVIOUS
  <2>3. <<Ended(FALSE)>> \in Seq(Signal)
    BY <2>1, <2>2
  <2> QED  BY <2>2, <2>3 DEF Unless
<1>10. UNCHANGED <<dialect, place, tree, store, ids, turns>>
  BY <1>1 DEF Talks
<1>11. Writes(l, e, says(ty), signals(ty))
  BY <1>3 DEF l, e
<1> HIDE DEF says, signals
<1> QED  BY <1>2, <1>6, <1>8, <1>9, <1>10, <1>11, WritesKeeps

LEMMA QuotingAnswersKeeps ==
  ASSUME Inv, QuotingAnswers
  PROVE  Inv'
<1>1. Talks /\ dialect = "cursor"
  BY DEF QuotingAnswers
<1>2. /\ Going("cursor", adapter, cli, got.reading) /\ cli.at = "talking" /\ cli.n + 1 <= Lines
      /\ cli.n + 1 \in Nat /\ cli.n \in Nat /\ cli \in Turn /\ Named(cli)
      /\ 1..cli.n \subseteq 1..(cli.n + 1)
  BY <1>1, TalksMeans
<1> DEFINE line(i, ty) ==
             [AnswerLine(dialect, i, FALSE, FALSE, <<Tool(i)>>) EXCEPT !.holds = {ty}]
           g == [cli.gauge EXCEPT !.blurred = TRUE]
           after(i) == [cli EXCEPT !.n = cli.n + 1, !.open = cli.open \ {i}, !.mid = FALSE,
                                   !.gauge = g]
<1>3. PICK i \in cli.open \ cli.own, ty \in {"thinking", "user", "tool_call.started"} :
        Writes(line(i, ty), after(i), <<>>, <<>>)
  <2>1. \A i \in cli.open :
          [cli EXCEPT !.n = @ + 1, !.open = @ \ {i}, !.mid = FALSE,
                      !.gauge.blurred = TRUE] = after(i)
    BY <1>2 DEF Turn, Gauges
  <2> HIDE DEF after
  <2> QED  BY <2>1, Zenon DEF QuotingAnswers
<1> DEFINE e == after(i)
           l == line(i, ty)
<1>4. i \in Nat /\ i \in cli.open
  BY <1>2 DEF Turn
<1>5. l.holds = {ty}
  BY <1>1 DEF AnswerLine, Line
<1> HIDE DEF l
<1>6. g \in Gauges
  BY <1>2 DEF Turn, Gauges
<1> HIDE DEF g
<1>7. e \in Turn
  <2>1. cli.open \ {i} \in SUBSET Nat
    BY <1>2, <1>4 DEF Turn
  <2> QED  BY <1>2, <1>6, <2>1 DEF Turn
<1>8. /\ e.at = cli.at /\ e.n = cli.n + 1 /\ e.open = cli.open \ {i} /\ e.own = cli.own
      /\ e.shown = cli.shown /\ e.wide = cli.wide /\ e.tasks = cli.tasks
      /\ e.calls = cli.calls /\ e.final = cli.final /\ e.gauge = g /\ e.bill = cli.bill
  BY <1>2 DEF Turn
<1> HIDE DEF e
<1>9. Named(e)
  BY <1>2, <1>8 DEF Named
<1>10. BillKept("cursor", e)
  <2>1. BillKept("cursor", cli)
    BY <1>1 DEF Inv, TurnInv
  <2> QED  BY <1>8, <2>1 DEF BillKept
<1>11. Goes("cursor", adapter, cli, got.reading, l, e, <<>>, <<>>)
  <2>1. l.holds \cap {"thinking", "user", "tool_call.started"} # {}
    BY <1>5
  <2>2. e.gauge = [cli.gauge EXCEPT !.blurred = TRUE]
    BY <1>8 DEF g
  <2> QED  BY <1>2, <1>4, <1>7, <1>8, <1>9, <1>10, <2>1, <2>2, QuotedAnswer
<1>12. Goes(dialect, adapter, cli, got.reading, l, e, <<>>, <<>>) /\ <<>> \in Seq(Signal)
  BY <1>1, <1>11
<1>13. UNCHANGED <<dialect, place, tree, store, ids, turns>>
  BY <1>1 DEF Talks
<1>14. Writes(l, e, <<>>, <<>>)
  BY <1>3 DEF l, e
<1> QED  BY <1>2, <1>8, <1>12, <1>13, <1>14, WritesKeeps

-----------------------------------------------------------------------------
(* A turn begins and ends                                                  *)

LEMMA EndsKeeps ==
  ASSUME Inv, Ends
  PROVE  Inv'
<1>1. Talks /\ cli.open = {}
  BY DEF Ends
<1>2. /\ Going(dialect, adapter, cli, got.reading) /\ cli.at = "talking"
      /\ cli.n \in Nat /\ cli.n + 1 <= Lines /\ cli.n + 1 \in Nat /\ cli \in Turn /\ Named(cli)
      /\ 1..cli.n \subseteq 1..(cli.n + 1) /\ dialect \in Dialect
  BY <1>1, TalksMeans
<1> DEFINE n == cli.n + 1
           total(ok) == IF ok /\ dialect \in {"cursor", "gemini"} THEN cli.bill.sum ELSE 0
           mean == dialect = "cursor" \/ cli.calls = cli.tools + 1
           gauge(ok) == IF total(ok) = 0 THEN cli.gauge
                        ELSE [cli.gauge EXCEPT !.low = IF mean THEN cli.bill.low ELSE 0,
                                               !.high = cli.bill.high]
           say(ok) == CASE dialect = "claude" /\ ~ok -> <<>>
                        [] dialect = "gemini" /\ ~ok -> <<Why(n), End(n, ok)>>
                        [] OTHER -> <<End(n, ok)>>
           line(ok, big, task) ==
             [EndLine(dialect, ok, big, total(ok), cli.tools, say(ok)) EXCEPT !.task = task]
           after(ok) == [cli EXCEPT !.n = n, !.at = IF dialect = "claude" THEN cli.at ELSE "over",
                                    !.gauge = gauge(ok)]
<1>3. PICK ok \in BOOLEAN, big \in BOOLEAN, task \in BOOLEAN :
        /\ (big => dialect \in BigResult) /\ (task => dialect = "claude" /\ ok)
        /\ Writes(line(ok, big, task), after(ok), say(ok), <<Ended(task)>>)
  BY Zenon DEF Ends
<1> DEFINE e == after(ok)
           l == line(ok, big, task)
           s == say(ok)
           t == total(ok)
<1>4. /\ s \in Seq(Block)
      /\ dialect = "claude" /\ ~ok => s = <<>>
      /\ dialect = "gemini" /\ ~ok => \E x, y \in Block : s = <<x, y>>
  <2>1. Why(n) \in Block /\ End(n, ok) \in Block
    BY <1>2, Blocks
  <2>2. <<>> \in Seq(Block) /\ <<End(n, ok)>> \in Seq(Block) /\ <<Why(n), End(n, ok)>> \in Seq(Block)
    BY <2>1
  <2> HIDE DEF n
  <2>3. s \in Seq(Block) /\ (dialect = "claude" /\ ~ok => s = <<>>)
    BY <2>2
  <2>4. dialect = "gemini" /\ ~ok => s = <<Why(n), End(n, ok)>>
    OBVIOUS
  <2> QED  BY <2>1, <2>3, <2>4
<1>5. /\ t \in Nat
      /\ dialect \in {"cursor", "gemini"} => t = IF ok THEN cli.bill.sum ELSE 0
      /\ dialect \notin {"cursor", "gemini"} => t = 0
  BY <1>2 DEF Turn, Bills
<1>6. /\ l.ty = (CASE dialect = "codex" -> (IF ok THEN "turn.completed" ELSE "turn.failed")
                   [] dialect = "pi" -> "agent_end" [] dialect = "hermes" /\ ~ok -> "error"
                   [] OTHER -> "result")
      /\ l.ok = ok /\ l.big = big /\ l.tok = t /\ l.call = cli.tools /\ l.say = s /\ l.task = task
      /\ l.holds = {}
  BY DEF EndLine, Line, s, t
<1>7. HasEnded(dialect, cli, e, t) /\ e.at \in {"talking", "over"} /\ e.n = n
  <2> DEFINE at == IF dialect = "claude" THEN cli.at ELSE "over"
             g == gauge(ok)
  <2>1. at \in {"talking", "over"}
    BY <1>2
  <2>2. g \in Gauges
    <3>1. cli.gauge \in Gauges /\ cli.bill.low \in Nat /\ cli.bill.high \in Nat
      BY <1>2 DEF Turn, Bills
    <3>2. (IF mean THEN cli.bill.low ELSE 0) \in Nat
      BY <3>1
    <3> HIDE DEF mean, total
    <3> QED  BY <3>1, <3>2 DEF Gauges
  <2>3. g = IF t = 0 THEN cli.gauge
            ELSE [cli.gauge EXCEPT !.low = IF dialect = "cursor" \/ cli.calls = cli.tools + 1
                                           THEN cli.bill.low ELSE 0,
                                   !.high = cli.bill.high]
    OBVIOUS
  <2>4. e = [cli EXCEPT !.n = n, !.at = at, !.gauge = g]
    OBVIOUS
  <2> HIDE DEF e, at, g, t
  <2>5. e \in Turn
    BY <1>2, <2>1, <2>2, <2>4 DEF Turn
  <2>6. /\ e.at = at /\ e.n = n /\ e.open = cli.open /\ e.own = cli.own
        /\ e.shown = cli.shown /\ e.wide = cli.wide /\ e.tasks = cli.tasks
        /\ e.calls = cli.calls /\ e.final = cli.final /\ e.gauge = g
        /\ e.bill = cli.bill /\ e.tools = cli.tools /\ e.mid = cli.mid
    BY <1>2, <2>4 DEF Turn
  <2>7. Named(e)
    BY <1>2, <2>6 DEF Named
  <2>8. BillKept(dialect, e)
    <3>1. BillKept(dialect, cli)
      BY DEF Inv, TurnInv
    <3> QED  BY <2>6, <3>1 DEF BillKept
  <2> QED  BY <2>1, <2>3, <2>5, <2>6, <2>7, <2>8 DEF HasEnded, at
<1> DEFINE gives == IF dialect = "hermes" /\ l.ty = "result" /\ l.big THEN <<>> ELSE <<Ended(task)>>
<1>8. Goes(dialect, adapter, cli, got.reading, l, e, s, gives)
  <2> HIDE DEF e, l, s, t
  <2>1. CASE dialect = "claude"
    <3>1. l.ty = "result" /\ (~l.ok => s = <<>>) /\ l.task = task /\ l.ok \in BOOLEAN /\ l.say = s
          /\ l.holds = {}
      BY <1>4, <1>6, <2>1
    <3>2. HasEnded("claude", cli, e, 0) /\ Going("claude", adapter, cli, got.reading)
      BY <1>2, <1>5, <1>7, <2>1
    <3>3. Goes("claude", adapter, cli, got.reading, l, e, s, <<Ended(l.task)>>)
      BY <1>4, <3>1, <3>2, ClaudeEnds
    <3> QED  BY <2>1, <3>1, <3>3
  <2>2. CASE dialect = "codex"
    <3>1. l.ty \in {"turn.completed", "turn.failed"} /\ task = FALSE /\ l.say = s
            /\ l.say \in Seq(Block)
      BY <1>3, <1>4, <1>6, <2>2
    <3>2. HasEnded("codex", cli, e, 0) /\ Going("codex", adapter, cli, got.reading)
      BY <1>2, <1>5, <1>7, <2>2
    <3>3. Goes("codex", adapter, cli, got.reading, l, e, l.say, <<Ended(FALSE)>>)
      BY <3>1, <3>2, CodexEnds
    <3> QED  BY <2>2, <3>1, <3>3
  <2>3. CASE dialect = "cursor"
    <3>1. /\ l.ty = "result" /\ task = FALSE /\ l.say = s /\ l.tok = t /\ l.holds = {}
          /\ t = IF ok THEN cli.bill.sum ELSE 0
      BY <1>3, <1>5, <1>6, <2>3
    <3>2. HasEnded("cursor", cli, e, t) /\ Going("cursor", adapter, cli, got.reading)
      BY <1>2, <1>7, <2>3
    <3>3. Goes("cursor", adapter, cli, got.reading, l, e, s, <<Ended(FALSE)>>)
      BY <1>1, <1>4, <3>1, <3>2, CursorEnds
    <3> QED  BY <2>3, <3>1, <3>3
  <2>4. CASE dialect = "gemini"
    <3>1. /\ l.ty = "result" /\ task = FALSE /\ l.say = s /\ l.ok = ok /\ l.call = cli.tools
          /\ l.tok = t /\ t = IF ok THEN cli.bill.sum ELSE 0
      BY <1>3, <1>5, <1>6, <2>4
    <3>2. HasEnded("gemini", cli, e, t) /\ Going("gemini", adapter, cli, got.reading)
      BY <1>2, <1>7, <2>4
    <3>3. ~ok => \E x, y \in Block : s = <<x, y>>
      BY <1>4, <2>4
    <3>4. Goes("gemini", adapter, cli, got.reading, l, e, s, <<Ended(FALSE)>>)
      BY <1>4, <3>1, <3>2, <3>3, GeminiEnds
    <3> QED  BY <2>4, <3>1, <3>4
  <2>5. CASE dialect = "pi"
    <3>1. l.ty = "agent_end" /\ task = FALSE /\ l.say = s /\ l.say \in Seq(Block)
      BY <1>3, <1>4, <1>6, <2>5
    <3>2. HasEnded("pi", cli, e, 0) /\ Going("pi", adapter, cli, got.reading)
      BY <1>2, <1>5, <1>7, <2>5
    <3>3. Goes("pi", adapter, cli, got.reading, l, e, l.say, <<Ended(FALSE)>>)
      BY <3>1, <3>2, PiEnds
    <3> QED  BY <2>5, <3>1, <3>3
  <2>6. CASE dialect = "hermes"
    <3>1. l.ty \in {"result", "error"} /\ task = FALSE /\ l.say = s /\ l.big \in BOOLEAN
      BY <1>3, <1>6, <2>6
    <3>2. HasEnded("hermes", cli, e, 0) /\ Going("hermes", adapter, cli, got.reading)
      BY <1>2, <1>5, <1>7, <2>6
    <3>3. Goes("hermes", adapter, cli, got.reading, l, e, s,
               IF l.ty = "result" /\ l.big THEN <<>> ELSE <<Ended(FALSE)>>)
      BY <1>4, <3>1, <3>2, HermesEnds
    <3>4. CASE l.ty = "result" /\ l.big
      BY <2>6, <3>3, <3>4
    <3>5. CASE ~(l.ty = "result" /\ l.big)
      BY <2>6, <3>1, <3>3, <3>5
    <3> QED  BY <3>4, <3>5
  <2> QED  BY <1>2, <2>1, <2>2, <2>3, <2>4, <2>5, <2>6 DEF Dialect
<1>9. "hermes" \notin BigResult => gives = <<Ended(task)>>
  <2> HIDE DEF l
  <2> QED  BY <1>3, <1>6
<1>10. <<Ended(task)>> \in Seq(Signal)
  <2>1. Ended(task) \in Signal
    BY DEF Ended, Signal
  <2> QED  BY <2>1
<1>11. UNCHANGED <<dialect, place, tree, store, ids, turns>>
  BY <1>1 DEF Talks
<1> HIDE DEF l, e, s, gives
<1>12. Writes(l, e, s, <<Ended(task)>>)
  BY <1>3 DEF l, e, s
<1> QED  BY <1>2, <1>7, <1>8, <1>9, <1>10, <1>11, <1>12, WritesKeeps

\* It is stopped or crashes.
LEMMA CutKeeps ==
  ASSUME Inv, Cut
  PROVE  Inv'
<1> DEFINE e == [cli EXCEPT !.at = "cut"]
<1>1. /\ cli' = e /\ cli.at \in {"opening", "talking"} /\ dialect' = dialect /\ place' = place
      /\ tree' = tree /\ store' = store /\ ids' = ids /\ turns' = turns /\ adapter' = adapter
      /\ got' = got /\ said' = said /\ due' = due
  BY DEF Cut, chat
<1>2. /\ Types /\ SessionInv /\ cli \in Turn /\ Named(cli) /\ TextKept(dialect, adapter, cli)
      /\ CuesKept(dialect, adapter, cli) /\ GaugeKept(dialect, adapter, cli, got.reading)
      /\ CallsKept(dialect, adapter, cli) /\ BillKept(dialect, cli) /\ got.shown \o adapter.text = said
      /\ ("hermes" \notin BigResult => got.signals = due)
  BY DEF Inv, TurnInv
<1>3. e \in Turn
  BY <1>2 DEF Turn
<1>4. /\ e.at = "cut" /\ e.n = cli.n /\ e.open = cli.open /\ e.own = cli.own
      /\ e.shown = cli.shown /\ e.wide = cli.wide /\ e.tasks = cli.tasks
      /\ e.gauge = cli.gauge /\ e.bill = cli.bill /\ e.calls = cli.calls
      /\ e.tools = cli.tools /\ e.mid = cli.mid
  BY <1>2 DEF Turn
<1> HIDE DEF e
<1>5. TurnInv(dialect, adapter, e, got.reading)
  <2>1. Named(e)
    BY <1>2, <1>4 DEF Named
  <2>2. TextKept(dialect, adapter, e) /\ CuesKept(dialect, adapter, e) /\ CallsKept(dialect, adapter, e)
    BY <1>1, <1>2, <1>4 DEF TextKept, CuesKept, CallsKept
  <2>3. GaugeKept(dialect, adapter, e, got.reading)
    BY <1>1, <1>2, <1>4 DEF GaugeKept
  <2>4. BillKept(dialect, e)
    BY <1>2, <1>4 DEF BillKept
  <2> QED  BY <1>3, <2>1, <2>2, <2>3, <2>4 DEF TurnInv
<1>6. Types'
  BY <1>1, <1>2, <1>4 DEF Types, Lines
<1>7. SessionInv'
  BY <1>1, <1>2, <1>4 DEF SessionInv
<1>8. TurnInv(dialect, adapter, cli, got.reading)'
  BY <1>1, <1>5
<1> QED  BY <1>1, <1>2, <1>6, <1>7, <1>8 DEF Inv

\* The agent announces its session.
LEMMA OpensKeeps ==
  ASSUME Inv, Opens
  PROVE  Inv'
<1> DEFINE fresh == ~cli.resumed \/ dialect = "gemini"
           sid == IF fresh THEN ids + 1 ELSE cli.sid
           e == [cli EXCEPT !.at = "talking"]
           l == OpenLine(dialect, sid)
           r == Handle(dialect, adapter, l)
           h == Received(got, r.ev)
           known == Announced(dialect, adapter, l)
<1>1. /\ cli.at = "opening" /\ ids' = ids + 1
      /\ store' = (IF cli.resumed THEN store ELSE store \cup {sid})
      /\ cli' = e /\ adapter' = r.a /\ got' = h /\ said' = said \o <<>> /\ due' = due \o <<>>
      /\ dialect' = dialect /\ place' = place /\ tree' = tree /\ turns' = turns
  BY DEF Opens, Writes
<1>2. /\ Types /\ SessionInv /\ cli \in Turn /\ Named(cli)
           /\ TurnInv(dialect, adapter, cli, got.reading)
      /\ BillKept(dialect, cli)
      /\ got.shown \o adapter.text = said
      /\ ("hermes" \notin BigResult => got.signals = due)
  BY DEF Inv, TurnInv
<1>3. /\ dialect \in Dialect /\ ids \in Nat /\ adapter \in Adapters /\ got \in Got
           /\ got.reading \in Nat
      /\ got.known \in Nat /\ got.signals \in Seq(Signal) /\ said \in Seq(Block) /\ due \in Seq(Signal)
  BY <1>2, StreamAssumption DEF Types, Got
<1>4. /\ cli.sid = got.known /\ cli.resumed = (got.known # NoSid) /\ adapter.resumed = cli.resumed
      /\ got.known \in store \cup {NoSid}
  BY <1>1, <1>2 DEF SessionInv
<1>5. sid \in Nat \ {0} /\ (fresh => sid = ids + 1) /\ (~fresh => sid = got.known)
  <2>1. cli.resumed \in BOOLEAN
    BY <1>2 DEF Turn
  <2>2. CASE fresh
    BY <1>3, <2>2
  <2>3. CASE ~fresh
    <3>1. got.known # NoSid /\ sid = got.known
      BY <1>4, <2>1, <2>3
    <3> QED  BY <1>3, <2>3, <3>1 DEF NoSid
  <2> QED  BY <2>2, <2>3
<1> HIDE DEF sid
<1>6. /\ ~l.big /\ l.sid = sid /\ l.holds = {}
      /\ l.ty = (IF dialect = "codex" THEN "thread.started"
                ELSE IF dialect = "pi" THEN "session" ELSE "init")
  BY DEF OpenLine, Line
<1>7. HasOpened(dialect, cli, e)
  <2>1. e \in Turn
    BY <1>2 DEF Turn
  <2>2. /\ e.at = "talking" /\ e.n = cli.n /\ e.open = cli.open /\ e.own = cli.own
        /\ e.shown = cli.shown /\ e.wide = cli.wide /\ e.tasks = cli.tasks
        /\ e.calls = cli.calls /\ e.final = cli.final /\ e.gauge = cli.gauge
        /\ e.bill = cli.bill /\ e.tools = cli.tools /\ e.mid = cli.mid
    BY <1>2 DEF Turn
  <2> HIDE DEF e
  <2>3. Named(e)
    BY <1>2, <2>2 DEF Named
  <2>4. BillKept(dialect, e)
    BY <1>2, <2>2 DEF BillKept
  <2> QED  BY <2>1, <2>2, <2>3, <2>4 DEF HasOpened
<1> HIDE DEF e, l
<1>8. PICK b : /\ Tells(dialect, adapter, l, b, <<>>, <<>>, 0, known)
               /\ TurnInv(dialect, b, e, got.reading)
  BY <1>1, <1>2, <1>3, <1>5, <1>6, <1>7, OpensGoes
<1> HIDE DEF known
<1>9. /\ r.a = b /\ b \in Adapters /\ h \in Got
      /\ h.shown \o b.text = (got.shown \o adapter.text) \o <<>>
      /\ h.signals = got.signals \o <<>> /\ h.reading = got.reading
      /\ h.known = IF known = NoSid THEN got.known ELSE known
  BY <1>3, <1>8 DEF Tells
<1> HIDE DEF r, h
<1>10. /\ h.shown \o b.text = said /\ said' = said /\ due' = due /\ h.signals = got.signals
  <2>1. said \o <<>> = said /\ due \o <<>> = due /\ got.signals \o <<>> = got.signals
    BY <1>3, ConcatEmptySeq
  <2> QED  BY <1>1, <1>2, <1>9, <2>1
<1>11. got'.known = (IF cli.resumed THEN got.known ELSE ids + 1)
  <2>1. known = IF dialect \in {"gemini", "pi"} /\ adapter.resumed THEN NoSid ELSE sid
    BY <1>6 DEF Announced, known
  <2> QED  BY <1>1, <1>3, <1>4, <1>5, <1>9, <2>1 DEF NoSid
<1>12. store' \subseteq 1..(ids + 1)
  <2>1. store \subseteq 1..ids /\ 1..ids \subseteq 1..(ids + 1) /\ ids + 1 \in 1..(ids + 1)
    BY <1>2, <1>3 DEF Types
  <2>2. ~cli.resumed => sid = ids + 1
    BY <1>5
  <2> QED  BY <1>1, <2>1, <2>2
<1>13. Types'
  <2>1. cli'.n <= Lines'
    BY <1>1, <1>2, <1>7 DEF Types, HasOpened, Lines
  <2> QED  BY <1>1, <1>2, <1>3, <1>9, <1>10, <1>12, <2>1 DEF Types
<1>14. SessionInv'
  <2>1. cli'.at = "talking"
    BY <1>1, <1>7 DEF HasOpened
  <2>2. got'.known \in store' /\ got'.known # NoSid
    BY <1>1, <1>3, <1>4, <1>5, <1>11 DEF NoSid
  <2>3. (dialect \in {"codex", "gemini", "pi"} /\ place.project /\ place.worktree) => tree
    BY <1>1, <1>2 DEF SessionInv
  <2> QED  BY <1>1, <2>1, <2>2, <2>3 DEF SessionInv
<1>15. TurnInv(dialect, adapter, cli, got.reading)'
  BY <1>1, <1>8, <1>9
<1> QED  BY <1>1, <1>2, <1>9, <1>10, <1>13, <1>14, <1>15 DEF Inv

\* The agent's process exits.
LEMMA ExitsKeeps ==
  ASSUME Inv, Exits
  PROVE  Inv'
<1>1. /\ cli.at = "over" \/ (cli.at = "talking" /\ dialect = "claude" /\ cli.open = {})
      /\ dialect' = dialect /\ place' = place /\ tree' = tree /\ store' = store /\ ids' = ids
      /\ turns' = turns /\ adapter' = adapter /\ said' = said /\ due' = due
  BY DEF Exits, chat
<1>2. /\ Types /\ SessionInv /\ cli \in Turn /\ Named(cli) /\ TextKept(dialect, adapter, cli)
      /\ CuesKept(dialect, adapter, cli) /\ GaugeKept(dialect, adapter, cli, got.reading)
      /\ BillKept(dialect, cli) /\ got.shown \o adapter.text = said
      /\ ("hermes" \notin BigResult => got.signals = due)
  BY DEF Inv, TurnInv
<1>3. got \in Got /\ got.reading \in Nat /\ cli.gauge \in Gauges
  BY <1>2 DEF Types, Got, Turn
<1>4. PICK g \in Gauges :
        /\ cli' = [cli EXCEPT !.at = "off", !.gauge = g]
        /\ got' \in Got /\ got'.known = got.known /\ got'.shown = got.shown
        /\ got'.signals = got.signals
        /\ \/ dialect # "codex" /\ g = cli.gauge /\ got'.reading = got.reading
           \/ dialect = "codex" /\ g.low = got'.reading /\ g.high = got'.reading
  <2>1. ASSUME NEW s \in Sizes \cup {0}, dialect = "codex", got' = Received(got, CodexPostTurn(s)),
               cli' = [cli EXCEPT !.at = "off", !.gauge.low = s, !.gauge.high = s]
        PROVE  \E g \in Gauges :
                 /\ cli' = [cli EXCEPT !.at = "off", !.gauge = g]
                 /\ got' \in Got /\ got'.known = got.known /\ got'.shown = got.shown
                 /\ got'.signals = got.signals /\ g.low = got'.reading /\ g.high = got'.reading
    <3> DEFINE g == [cli.gauge EXCEPT !.low = s, !.high = s]
    <3>1. s \in Nat
      BY StreamAssumption
    <3>2. g \in Gauges /\ g.low = s /\ g.high = s
      BY <1>3, <3>1 DEF Gauges
    <3>3. cli' = [cli EXCEPT !.at = "off", !.gauge = g]
      BY <1>2, <2>1 DEF Turn
    <3> HIDE DEF g
    <3>4. got.shown \o <<>> = got.shown /\ got.signals \o <<>> = got.signals
      BY <1>3, ConcatEmptySeq DEF Got
    <3>5. /\ got' \in Got /\ got'.known = got.known /\ got'.shown = got.shown
          /\ got'.signals = got.signals /\ got'.reading = s
      <4>1. CASE s # 0
        <5>1. CodexPostTurn(s) = <<Tokens(s)>>
          BY <4>1 DEF CodexPostTurn, Unless
        <5>2. Yields(<<Tokens(s)>>, <<>>, <<>>, s, NoSid)
          BY <3>1, <4>1, YieldsNumber
        <5>3. got' = After(got, <<>>, <<>>, s, NoSid) /\ <<>> \in Seq(Block) /\ <<>> \in Seq(Signal)
          BY <1>3, <2>1, <5>1, <5>2 DEF Yields
        <5>4. got' \in Got
          BY <1>3, <3>1, <5>3, AfterType DEF NoSid
        <5> QED  BY <3>4, <4>1, <5>3, <5>4 DEF After
      <4>2. CASE s = 0
        <5>1. CodexPostTurn(s) = <<>>
          BY <4>2 DEF CodexPostTurn, Unless
        <5>2. got.reading = 0
          BY <1>1, <1>2, <2>1 DEF GaugeKept
        <5> QED  BY <1>3, <2>1, <4>2, <5>1, <5>2, ReceivedNone
      <4> QED  BY <4>1, <4>2
    <3> QED  BY <3>2, <3>3, <3>5
  <2>2. \E g \in Gauges :
          /\ cli' = [cli EXCEPT !.at = "off", !.gauge = g]
          /\ got' \in Got /\ got'.known = got.known /\ got'.shown = got.shown
          /\ got'.signals = got.signals
          /\ \/ dialect # "codex" /\ g = cli.gauge /\ got'.reading = got.reading
             \/ dialect = "codex" /\ g.low = got'.reading /\ g.high = got'.reading
    <3>1. CASE dialect # "codex" /\ got' = got /\ cli' = [cli EXCEPT !.at = "off"]
      <4>1. cli' = [cli EXCEPT !.at = "off", !.gauge = cli.gauge]
        BY <1>2, <3>1 DEF Turn
      <4> QED  BY <1>3, <3>1, <4>1
    <3>2. CASE \E s \in Sizes \cup {0} :
                 /\ dialect = "codex" /\ got' = Received(got, CodexPostTurn(s))
                 /\ cli' = [cli EXCEPT !.at = "off", !.gauge.low = s, !.gauge.high = s]
      BY <2>1, <3>2
    <3> QED  BY <3>1, <3>2 DEF Exits
  <2> QED  BY <2>2
<1> DEFINE e == [cli EXCEPT !.at = "off", !.gauge = g]
           h == got'
<1>5. got' = h /\ cli' = e /\ h \in Got /\ h.known = got.known /\ h.shown = got.shown
      /\ h.signals = got.signals
  BY <1>4
<1>6. e \in Turn
  BY <1>2 DEF Turn
<1>7. /\ e.at = "off" /\ e.n = cli.n /\ e.open = cli.open /\ e.own = cli.own
      /\ e.shown = cli.shown /\ e.wide = cli.wide /\ e.tasks = cli.tasks /\ e.gauge = g
      /\ e.bill = cli.bill /\ e.calls = cli.calls /\ e.tools = cli.tools /\ e.mid = cli.mid
  BY <1>2 DEF Turn
<1> HIDE DEF e
<1>8. TurnInv(dialect, adapter, e, h.reading)
  <2>1. Named(e)
    BY <1>2, <1>7 DEF Named
  <2>2. TextKept(dialect, adapter, e) /\ CuesKept(dialect, adapter, e) /\ CallsKept(dialect, adapter, e)
    BY <1>1, <1>2, <1>7 DEF TextKept, CuesKept, CallsKept
  <2>3. GaugeKept(dialect, adapter, e, h.reading)
    <3>1. CASE dialect # "codex"
      BY <1>2, <1>4, <1>7, <3>1 DEF GaugeKept
    <3>2. CASE dialect = "codex"
      <4>1. e.gauge.low = h.reading /\ e.gauge.high = h.reading /\ h.reading \in Nat
        BY <1>4, <1>7, <3>2 DEF Got
      <4> QED  BY <1>7, <3>2, <4>1 DEF GaugeKept
    <3> QED  BY <3>1, <3>2
  <2>4. BillKept(dialect, e)
    BY <1>2, <1>7 DEF BillKept
  <2> QED  BY <1>6, <2>1, <2>2, <2>3, <2>4 DEF TurnInv
<1>9. Types'
  BY <1>1, <1>2, <1>5, <1>7 DEF Types, Lines
<1>10. SessionInv'
  BY <1>1, <1>2, <1>5, <1>7 DEF SessionInv
<1>11. TurnInv(dialect, adapter, cli, got.reading)'
  BY <1>1, <1>5, <1>8
<1> QED  BY <1>1, <1>2, <1>5, <1>9, <1>10, <1>11 DEF Inv

-----------------------------------------------------------------------------
(* Where a turn starts from                                                *)

\* The command goes to the chat's worktree only in three of the dialects.
LEMMA CommandIs ==
  ASSUME NEW d \in Dialect, NEW c
  PROVE  LET run == PrepareCommand(d, c) IN
         /\ run.resumes = c.known /\ run.adds \in BOOLEAN
         /\ run.adds => c.project /\ c.worktree /\ c.known = NoSid
         /\ run.cd = "tree" => /\ d \in {"codex", "gemini", "pi"} /\ c.project /\ c.worktree
                               /\ run.adds = (c.known = NoSid)
         /\ d \in {"codex", "gemini", "pi"} /\ c.project /\ c.worktree => run.cd = "tree"
<1>1. CASE d \in {"codex", "gemini", "pi"}
  <2> DEFINE p == WorktreePrefix(c)
  <2>1. PrepareCommand(d, c) = Command(p, c.known)
    BY <1>1 DEF PrepareCommand, CodexCommand, GeminiCommand, PiCommand
  <2>2. /\ p.adds = (c.project /\ c.worktree /\ c.known = NoSid) /\ p.adds \in BOOLEAN
        /\ p.cd = IF ~c.project THEN "home" ELSE IF c.worktree THEN "tree" ELSE "project"
    BY DEF WorktreePrefix
  <2> HIDE DEF p
  <2>3. PrepareCommand(d, c).adds = p.adds /\ PrepareCommand(d, c).cd = p.cd
          /\ PrepareCommand(d, c).resumes = c.known
    BY <2>1 DEF Command
  <2> QED  BY <1>1, <2>2, <2>3
<1>2. CASE d \in {"claude", "cursor", "hermes"}
  <2> DEFINE p == ProjectPrefix(c)
  <2>1. PrepareCommand(d, c) = Command(p, c.known)
    BY <1>2 DEF PrepareCommand, ClaudeCommand, CursorCommand, HermesCommand
  <2>2. p.adds = FALSE /\ p.cd = IF c.project THEN "project" ELSE "home"
    BY DEF ProjectPrefix
  <2> HIDE DEF p
  <2>3. PrepareCommand(d, c).adds = p.adds /\ PrepareCommand(d, c).cd = p.cd
          /\ PrepareCommand(d, c).resumes = c.known
    BY <2>1 DEF Command
  <2> QED  BY <1>2, <2>2, <2>3
<1> QED  BY <1>1, <1>2 DEF Dialect

\* A turn in which nothing has happened yet.
IsNew(d, e, at, resumed, sid, had) ==
  /\ TurnInv(d, NewAdapter(had), e, 0) /\ NewAdapter(had) \in Adapters
  /\ e.at = at /\ e.resumed = resumed /\ e.sid = sid /\ e.n = 0

LEMMA NewTurn ==
  ASSUME NEW d, NEW at \in {"off", "opening", "failed"}, NEW resumed \in BOOLEAN, NEW sid \in Nat,
         NEW had \in BOOLEAN
  PROVE  IsNew(d, [Off EXCEPT !.at = at, !.resumed = resumed, !.sid = sid], at, resumed, sid, had)
<1> DEFINE e == [Off EXCEPT !.at = at, !.resumed = resumed, !.sid = sid]
           a == NewAdapter(had)
<1>1. e \in Turn
  <2>1. Gauge \in Gauges /\ Bill \in Bills
    BY DEF Gauge, Gauges, Bill, Bills
  <2> QED  BY <2>1 DEF Off, Turn, NoSid
<1>2. /\ e.at = at /\ e.resumed = resumed /\ e.sid = sid /\ e.n = 0 /\ e.open = {} /\ e.own = {}
      /\ e.shown = {} /\ e.wide = {} /\ e.tasks = {} /\ e.calls = 0 /\ e.final = FALSE
      /\ e.gauge = Gauge /\ e.bill = Bill /\ e.tools = 0 /\ e.mid = FALSE
  BY DEF Off
<1>3. a \in Adapters
  BY DEF NewAdapter, Adapters
<1>4. a.text = <<>> /\ a.cues = {} /\ a.shown = {} /\ a.calls = {} /\ a.unnamed = FALSE /\ a.last = 0
  BY DEF NewAdapter
<1> HIDE DEF e, a
<1>5. Named(e)
  BY <1>2 DEF Named
<1>6. TextKept(d, a, e) /\ CuesKept(d, a, e) /\ GaugeKept(d, a, e, 0)
  BY <1>2, <1>4 DEF TextKept, CuesKept, GaugeKept, Gauge
<1>7. CallsKept(d, a, e)
  <2>1. 1..(0 - 1) = {} /\ {} \subseteq 1..0 /\ ~(0 > 0)
    OBVIOUS
  <2>2. a.unnamed = e.final /\ a.calls = {} /\ e.calls = 0 /\ e.final = FALSE
    BY <1>2, <1>4
  <2> QED  BY <2>1, <2>2 DEF CallsKept
<1>8. TurnInv(d, a, e, 0)
  <2>1. BillKept(d, e)
    <3>1. e.bill.sum = 0 /\ e.bill.low = 0 /\ e.bill.high = 0
      BY <1>2 DEF Bill
    <3> QED  BY <1>2, <3>1 DEF BillKept
  <2> QED  BY <1>1, <1>5, <1>6, <1>7, <2>1 DEF TurnInv
<1>9. IsNew(d, e, at, resumed, sid, had)
  BY <1>2, <1>3, <1>8 DEF IsNew, a
<1> QED  BY <1>9 DEF e

LEMMA StartTurnKeeps ==
  ASSUME Inv, StartTurn
  PROVE  Inv'
<1> DEFINE run == PrepareCommand(dialect, Chat)
           lost == run.cd = "tree" /\ tree = run.adds
           fails == lost \/ run.resumes \notin store \cup {NoSid}
           at == IF fails THEN "failed" ELSE "opening"
           resumed == run.resumes # NoSid
           e == [Off EXCEPT !.at = at, !.resumed = resumed, !.sid = run.resumes]
           had == got.known # NoSid
           g == [got EXCEPT !.shown = <<>>, !.signals = <<>>, !.reading = 0]
<1>1. /\ turns < MaxTurns /\ turns' = turns + 1 /\ tree' = (tree \/ run.adds) /\ cli' = e
      /\ adapter' = NewAdapter(had) /\ got' = g /\ said' = <<>> /\ due' = <<>>
      /\ dialect' = dialect /\ place' = place /\ store' = store /\ ids' = ids
  BY DEF StartTurn
<1>2. Types /\ SessionInv /\ Lines \in Nat /\ MaxTurns \in Nat /\ dialect \in Dialect
  <2>1. Types /\ SessionInv /\ MaxTurns \in Nat /\ dialect \in Dialect
    BY StreamAssumption DEF Inv, Types
  <2>2. Lines \in Nat
    BY <2>1, StreamAssumption DEF Lines
  <2> QED  BY <2>1, <2>2
<1>3. got \in Got /\ got.known \in Nat /\ tree \in BOOLEAN
  BY <1>2 DEF Types, Got
<1>4. Chat.project = place.project /\ Chat.worktree = place.worktree /\ Chat.known = got.known
  BY DEF Chat
<1>5. /\ run.resumes = got.known /\ run.adds \in BOOLEAN
      /\ run.adds => place.project /\ place.worktree /\ got.known = NoSid
      /\ run.cd = "tree" => /\ dialect \in {"codex", "gemini", "pi"} /\ place.project /\ place.worktree
                            /\ run.adds = (got.known = NoSid)
      /\ dialect \in {"codex", "gemini", "pi"} /\ place.project /\ place.worktree => run.cd = "tree"
  <2>1. LET r == PrepareCommand(dialect, Chat) IN
         /\ r.resumes = Chat.known /\ r.adds \in BOOLEAN
         /\ r.adds => Chat.project /\ Chat.worktree /\ Chat.known = NoSid
         /\ r.cd = "tree" => /\ dialect \in {"codex", "gemini", "pi"} /\ Chat.project /\ Chat.worktree
                             /\ r.adds = (Chat.known = NoSid)
         /\ dialect \in {"codex", "gemini", "pi"} /\ Chat.project /\ Chat.worktree => r.cd = "tree"
    BY <1>2, CommandIs
  <2> QED  BY <1>4, <2>1
<1> HIDE DEF run
<1>6. at \in {"opening", "failed"} /\ (at = "failed" => fails) /\ (at = "opening" => ~fails)
      /\ resumed = (got.known # NoSid) /\ resumed \in BOOLEAN /\ had \in BOOLEAN
  BY <1>5
<1>7. fails => lost
  BY <1>2, <1>5 DEF SessionInv
<1>8. lost => store = {}
  BY <1>2, <1>3, <1>5 DEF SessionInv
<1> HIDE DEF at, resumed, fails
<1>9. /\ TurnInv(dialect, NewAdapter(had), e, 0) /\ NewAdapter(had) \in Adapters
      /\ e.at = at /\ e.resumed = resumed /\ e.sid = got.known /\ e.n = 0
  <2>1. had \in BOOLEAN /\ resumed \in BOOLEAN /\ run.resumes \in Nat
          /\ at \in {"off", "opening", "failed"}
    BY <1>3, <1>5, <1>6
  <2> HIDE DEF had
  <2>2. IsNew(dialect, e, at, resumed, run.resumes, had)
    BY <2>1, NewTurn
  <2> QED  BY <1>5, <2>2 DEF IsNew
<1>10. NewAdapter(had).resumed = had /\ NewAdapter(had).text = <<>>
  BY DEF NewAdapter
<1> HIDE DEF e, had
<1>11. /\ g \in Got /\ g.known = got.known /\ g.shown = <<>> /\ g.signals = <<>> /\ g.reading = 0
  <2>1. <<>> \in Seq(Block) /\ <<>> \in Seq(Signal) /\ 0 \in Nat
    OBVIOUS
  <2> QED  BY <1>3, <2>1 DEF Got
<1> HIDE DEF g
<1>12. Types'
  <2>1. turns + 1 \in 0..MaxTurns /\ cli'.n <= Lines' /\ tree' \in BOOLEAN
    BY <1>1, <1>2, <1>3, <1>5, <1>9 DEF Types, Lines
  <2>2. <<>> \in Seq(Block) /\ <<>> \in Seq(Signal)
    OBVIOUS
  <2> QED  BY <1>1, <1>2, <1>9, <1>11, <2>1, <2>2 DEF Types
<1>13. SessionInv'
  <2>1. got'.known = got.known /\ cli'.at = at /\ cli'.resumed = resumed /\ cli'.sid = got.known
        /\ adapter'.resumed = resumed
    BY <1>1, <1>6, <1>9, <1>10, <1>11 DEF had
  <2>2. cli'.at = "failed" => store' = {}
    BY <1>1, <1>6, <1>7, <1>8, <2>1
  <2>3. (/\ dialect \in {"codex", "gemini", "pi"} /\ place.project /\ place.worktree
         /\ (got.known # NoSid \/ cli'.at = "opening")) => tree'
    <3>1. got.known # NoSid /\ dialect \in {"codex", "gemini", "pi"} /\ place.project
            /\ place.worktree => tree
      BY <1>2 DEF SessionInv
    <3>2. at = "opening" => ~lost
      BY <1>6 DEF fails
    <3> QED  BY <1>1, <1>3, <1>5, <2>1, <3>1, <3>2
  <2>4. cli'.at \in {"opening", "failed"}
    BY <1>6, <2>1
  <2> QED  BY <1>1, <1>2, <1>6, <2>1, <2>2, <2>3, <2>4 DEF SessionInv
<1>14. TurnInv(dialect, adapter, cli, got.reading)'
  BY <1>1, <1>9, <1>11
<1>15. got'.shown \o adapter'.text = said'
  BY <1>1, <1>10, <1>11
<1> QED  BY <1>1, <1>11, <1>12, <1>13, <1>14, <1>15 DEF Inv

LEMMA InitHolds ==
  ASSUME Init
  PROVE  Inv
<1> DEFINE e == [Off EXCEPT !.at = "off", !.resumed = FALSE, !.sid = NoSid]
<1>1. /\ dialect \in Dialects /\ place \in [project : BOOLEAN, worktree : BOOLEAN] /\ tree = FALSE
      /\ store = {} /\ ids = 0 /\ turns = 0 /\ cli = Off /\ adapter = NewAdapter(FALSE)
      /\ said = <<>> /\ due = <<>>
      /\ got = [known |-> NoSid, shown |-> <<>>, signals |-> <<>>, reading |-> 0]
  BY DEF Init
<1>2. cli = e
  <2>0. Gauge \in Gauges /\ Bill \in Bills
    BY DEF Gauge, Gauges, Bill, Bills
  <2>1. Off \in Turn /\ Off.at = "off" /\ Off.resumed = FALSE /\ Off.sid = NoSid
    BY <2>0 DEF Off, Turn, NoSid
  <2>2. e = Off
    BY <2>1 DEF Turn
  <2> QED  BY <1>1, <2>2
<1>3. IsNew(dialect, e, "off", FALSE, NoSid, FALSE)
  BY NewTurn DEF NoSid
<1> HIDE DEF e
<1>4. /\ TurnInv(dialect, adapter, cli, 0) /\ adapter \in Adapters /\ cli.at = "off" /\ cli.n = 0
  BY <1>1, <1>2, <1>3 DEF IsNew
<1>5. /\ got.known = NoSid /\ got.shown = <<>> /\ got.signals = <<>> /\ got.reading = 0
      /\ adapter.text = <<>>
  BY <1>1 DEF NewAdapter
<1>6. Types
  <2>1. <<>> \in Seq(Block) /\ <<>> \in Seq(Signal) /\ 0 \in Nat /\ MaxTurns \in Nat /\ Lines \in Nat
    BY <1>1, StreamAssumption DEF Lines
  <2>2. got \in Got
    BY <1>1, <2>1 DEF Got, NoSid
  <2>3. store \subseteq 1..ids /\ turns \in 0..MaxTurns /\ tree \in BOOLEAN /\ ids \in Nat
    <3>1. 0 \in 0..MaxTurns
      BY <2>1
    <3> QED  BY <1>1, <3>1
  <2>4. cli.n <= Lines
    BY <1>4, <2>1
  <2>5. said \in Seq(Block) /\ due \in Seq(Signal)
    BY <1>1, <2>1
  <2> QED  BY <1>1, <1>4, <2>2, <2>3, <2>4, <2>5 DEF Types
<1>7. SessionInv
  BY <1>1, <1>4, <1>5 DEF SessionInv
<1>8. got.shown \o adapter.text = said
  <2>1. <<>> \in Seq(Block)
    OBVIOUS
  <2> QED  BY <1>1, <1>5, <2>1, NoBlocks
<1>9. got.signals = due
  BY <1>1, <1>5
<1> QED  BY <1>4, <1>5, <1>6, <1>7, <1>8, <1>9 DEF Inv

LEMMA NextKeeps ==
  ASSUME Inv, [Next]_vars
  PROVE  Inv'
<1>1. CASE UNCHANGED vars
  <2>1. /\ dialect' = dialect /\ place' = place /\ tree' = tree /\ store' = store /\ ids' = ids
        /\ turns' = turns /\ cli' = cli /\ adapter' = adapter /\ got' = got /\ said' = said
             /\ due' = due
    BY <1>1 DEF vars, chat
  <2>2. Types' /\ SessionInv'
    BY <2>1 DEF Inv, Types, SessionInv, Lines
  <2>3. TurnInv(dialect, adapter, cli, got.reading)'
    BY <2>1 DEF Inv
  <2> QED  BY <2>1, <2>2, <2>3 DEF Inv
<1>2. CASE StartTurn
  BY <1>2, StartTurnKeeps
<1>3. CASE Opens
  BY <1>3, OpensKeeps
<1>4. CASE Says
  BY <1>4, SaysKeeps
<1>5. CASE Calls
  BY <1>5, CallsKeeps
<1>6. CASE Answers
  BY <1>6, AnswersKeeps
<1>7. CASE Chatters
  BY <1>7, ChattersKeeps
<1>8. CASE SubagentSays
  BY <1>8, SubagentKeeps
<1>9. CASE Tasks
  BY <1>9, TasksKeeps
<1>10. CASE Reports
  BY <1>10, ReportsKeeps
<1>11. CASE Ends
  BY <1>11, EndsKeeps
<1>12. CASE Exits
  BY <1>12, ExitsKeeps
<1>13. CASE Cut
  BY <1>13, CutKeeps
<1>14. CASE QuotingCalls
  BY <1>14, QuotingCallsKeeps
<1>15. CASE QuotingAnswers
  BY <1>15, QuotingAnswersKeeps
<1> QED  BY <1>1, <1>2, <1>3, <1>4, <1>5, <1>6, <1>7, <1>8, <1>9, <1>10, <1>11, <1>12, <1>13, <1>14,
            <1>15 DEF Next

-----------------------------------------------------------------------------
(* What is proved of every chat                                            *)

\* The invariant above holds in every behaviour of a chat, whatever the
\* number of turns and of lines.
THEOREM Invariance == Spec => []Inv
<1>1. Init => Inv
  BY InitHolds
<1>2. Inv /\ [Next]_vars => Inv'
  BY NextKeeps
<1> QED  BY <1>1, <1>2, PTL DEF Spec

\* The variables have their types: the id known is one that was announced,
\* and the calls in hand are those of the turn.
THEOREM TypeCorrect == Spec => []TypeOK
<1>1. Inv => TypeOK
  <2> SUFFICES ASSUME Inv PROVE TypeOK
    OBVIOUS
  <2>1. Types /\ SessionInv /\ cli \in Turn /\ Named(cli)
    BY DEF Inv, TurnInv
  <2>2. ids \in Nat /\ Lines \in Nat /\ cli.n \in Nat /\ cli.n <= Lines /\ store \subseteq 1..ids
    BY <2>1, StreamAssumption DEF Types, Turn, Lines
  <2>3. got.known \in 0..ids
    <3>1. got.known \in store \/ got.known = 0
      BY <2>1 DEF SessionInv, NoSid
    <3>2. 1..ids \subseteq 0..ids /\ 0 \in 0..ids
      BY <2>2
    <3>3. store \subseteq 0..ids
      BY <2>2, <3>2
    <3> QED  BY <3>1, <3>2, <3>3
  <2>4. cli.own \subseteq 1..Lines
    <3>1. cli.own \subseteq 1..cli.n
      BY <2>1 DEF Named
    <3>2. 1..cli.n \subseteq 1..Lines
      BY <2>2
    <3> QED  BY <3>1, <3>2
  <2>5. cli.at \in {"off", "opening", "talking", "over", "cut", "failed"} /\ turns \in 0..MaxTurns
    BY <2>1 DEF Turn, Types
  <2> QED  BY <2>2, <2>3, <2>4, <2>5 DEF TypeOK
<1> QED  BY <1>1, Invariance, PTL

\* Everything the agent says and does is shown, once and in its order, in
\* each dialect, but for the calls of claude and cursor whose arguments hold the
\* type field of another line (handle_line of the six adapters).
THEOREM ShowsAll == Spec => []ChatIsFaithful
<1>1. Inv => ChatIsFaithful
  BY DEF Inv, TurnInv, TextKept, ChatIsFaithful
<1> QED  BY <1>1, Invariance, PTL

\* Every signal due is given, once and in order, where hermes is never
\* asked to end a turn with an oversize line: that one is forwarded without
\* being parsed (HermesAdapter::handle_line), and the end of its turn is lost.
\* None else is given, but for an end at a call of claude whose arguments hold
\* the type field of a result.
THEOREM SignalsAll ==
  ASSUME "hermes" \notin BigResult
  PROVE  Spec => []SignalsAreTrue
<1>1. Inv => SignalsAreTrue
  BY DEF Inv, SignalsAreTrue
<1> QED  BY <1>1, Invariance, PTL

\* The last reading sent is the size of the agent's own context, or one its
\* model calls of the turn bound (cursor, gemini), but after a line of claude or
\* cursor that was too long to be read, or taken for another, and while claude's
\* context measures after a compaction what it measured before (LastTokensDedup,
\* CompactBoundary, the usage of the six adapters).
THEOREM MeasuresOwn == Spec => []GaugeIsTrue
<1>1. Inv => GaugeIsTrue
  BY DEF Inv, TurnInv, GaugeKept, GaugeIsTrue
<1> QED  BY <1>1, Invariance, PTL

\* The session known can be resumed, and a turn fails to start only when no
\* session was ever announced (worktree_cwd_prefix, the harvest of the id).
THEOREM Resumes == Spec => []SessionResumes
<1>1. Inv => SessionResumes
  BY DEF Inv, SessionInv, SessionResumes
<1> QED  BY <1>1, Invariance, PTL
=============================================================================
