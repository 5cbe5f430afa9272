------------------------ MODULE HistoryImport_proofs ------------------------
(***************************************************************************)
(* NoHungSheet of HistoryImport for any histories, requests and capacity   *)
(* of the channel: when nothing moves any more, the sheet that shows an    *)
(* import is not left open, unless none of the histories could be read.    *)
(*                                                                         *)
(* What a session's transcript becomes does not matter here: the           *)
(* importers' output (Import) and the selection of kinds stay unexpanded.  *)
(***************************************************************************)
EXTENDS HistoryImport, SequenceTheorems, WellFoundedInduction, TLAPS

StatusName == {"not_started", "requested", "running", "aborted", "finished"}

\* The field types of a run; of some nothing need be known.
Run(T) == [at : {"start", "kinds", "over"}, kinds : T, next : Nat \ {0}, todo : T, bar : T,
           ok : Nat, aborted : BOOLEAN]

Types ==
  /\ Selected \in Seq(ToSet(ALL))
  /\ \E T : runs \in Seq(Run(T))
  /\ \E S : channel \in Seq(S)
  /\ \A j \in 1..Len(channel) :
       channel[j].ev = "status" => channel[j].at \in {"running", "finished"}
  /\ stream \in Seq(StatusName) /\ seen \in StatusName /\ column.at \in StatusName
  /\ handle \in 0..Len(runs)

\* One value of the column, and the next.
Moves(a, b) ==
  \/ a = "not_started" /\ b = "requested"
  \/ a = "requested" /\ b = "running"
  \/ a = "running" /\ b \in {"aborted", "finished"}
  \/ a = "aborted" /\ b = "not_started"

\* From the value last seen, by those on their way, to the column's.
Chain(from, s, to) ==
  /\ s = <<>> => from = to
  /\ s # <<>> => Moves(from, s[1]) /\ s[Len(s)] = to
  /\ \A i \in 1..Len(s) - 1 : Moves(s[i], s[i + 1])

ChainInv == Chain(seen, stream, column.at)

\* A run that was not aborted goes through all its kinds, and counts those it
\* can read.
GoodRun(run, list, h) ==
  /\ run.kinds = list
  /\ run.ok = 0 => \A i \in 1..Len(list) : i < run.next => h[list[i]].at = "fails"
  /\ run.at = "over" /\ ~run.aborted => run.next > Len(list)

RunInv == \A r \in 1..Len(runs) : GoodRun(runs[r], Selected, history)

\* The import the main loop has seen requested is the latest run, and goes on.
HandleInv ==
  seen \in {"requested", "running"} => handle # 0 /\ handle = Len(runs) /\ ~runs[handle].aborted

\* The column shows an import that is not over, and no request is on its way.
Open == column.at \in {"requested", "running"} /\ \A i \in 1..Len(stream) : stream[i] # "requested"

IsStatus(e, at) == e.ev = "status" /\ e.at = at

\* While the column is at "requested", "finished" counts for nothing: what tells
\* of it is among the first n events.
Announced(c, n, at) == at = "requested" => \E i \in 1..n : IsStatus(c[i], "running")

\* The run of an open import has its "finished" before it, or in the channel.
Promised(run, c, at) ==
  /\ run.at = "kinds" => Announced(c, Len(c), at)
  /\ run.at = "over" /\ run.ok # 0 =>
       \E j \in 1..Len(c) : IsStatus(c[j], "finished") /\ Announced(c, j - 1, at)

PromiseInv == Open => Promised(runs[handle], channel, column.at)

HInv == Types /\ ChainInv /\ RunInv /\ HandleInv /\ PromiseInv

-----------------------------------------------------------------------------
(* Folds of the community modules: a recursive function on sets of indices  *)

\* Induction, without an operator for a parameter: what fails for some number
\* fails for a least one.
LEMMA LeastNat ==
  ASSUME NEW T, T \subseteq Nat, T # {}
  PROVE  \E n \in T : \A m \in T : n <= m
<1> DEFINE R == OpToRel(<, Nat)
<1>1. IsWellFoundedOn(R, Nat)
  BY NatLessThanWellFounded
<1> HIDE DEF R
<1>2. PICK n \in T : \A m \in T : ~(<<m, n>> \in R)
  BY <1>1, WFMin
<1>3. \A m \in T : m < n => <<m, n>> \in R
  BY DEF R, OpToRel
<1>4. \A m \in T : ~(m < n)
  BY <1>2, <1>3
<1>5. \A m \in T : m \in Nat /\ n \in Nat
  OBVIOUS
<1>6. \A m \in T : n <= m
  BY <1>4, <1>5
<1> QED  BY <1>6

\* A fold takes the greatest index last.
Folds(g, n, f, base) ==
  \A s \in SUBSET (1..n) :
    g[s] = IF s = {} THEN base ELSE f[<<g[s \ {Max(s)}], Max(s)>>]

LEMMA FoldExists ==
  ASSUME NEW D, NEW base \in D, NEW n \in Nat, NEW f \in [D \X (1..n) -> D]
  PROVE  \E g \in [SUBSET (1..n) -> D] : Folds(g, n, f, base)
<1> DEFINE Bad == {m \in 0..n : ~\E g \in [SUBSET (1..m) -> D] : Folds(g, m, f, base)}
<1>b. Bad \subseteq Nat /\ \A m \in Bad : m \in 0..n
  OBVIOUS
<1>c. \A m \in 0..n : m \notin Bad <=> \E g \in [SUBSET (1..m) -> D] : Folds(g, m, f, base)
  OBVIOUS
<1> HIDE DEF Bad
<1>1. SUFFICES ASSUME Bad # {} PROVE FALSE
  <2>1. n \in 0..n
    OBVIOUS
  <2> QED  BY <2>1, <1>c
<1>2. PICK m \in Bad : \A k \in Bad : m <= k
  BY <1>1, <1>b, LeastNat
<1>3. CASE m = 0
  <2> DEFINE g == [s \in SUBSET (1..m) |-> base]
  <2>1. SUBSET (1..m) = {{}}
    BY <1>3
  <2>2. g \in [SUBSET (1..m) -> D] /\ Folds(g, m, f, base)
    BY <2>1 DEF Folds
  <2> HIDE DEF g
  <2> QED  BY <1>b, <1>c, <2>2
<1>4. CASE m # 0
  <2>1. m - 1 \in 0..n /\ m - 1 \notin Bad /\ m \in 1..n
    BY <1>2, <1>4, <1>b
  <2>2. PICK g \in [SUBSET (1..m - 1) -> D] : Folds(g, m - 1, f, base)
    BY <2>1, <1>c
  <2> DEFINE h == [s \in SUBSET (1..m) |-> IF m \in s THEN f[<<g[s \ {m}], m>>] ELSE g[s]]
  <2>3. ASSUME NEW s \in SUBSET (1..m), m \in s
        PROVE  s \ {m} \in SUBSET (1..m - 1) /\ Max(s) = m
    <3>1. s \ {m} \in SUBSET (1..m - 1)
      BY <2>1, <2>3
    <3>2. \A x \in s : (\A y \in s : x >= y) <=> x = m
      BY <2>1, <2>3
    <3> QED  BY <2>3, <3>1, <3>2 DEF Max
  <2>4. ASSUME NEW s \in SUBSET (1..m), m \notin s
        PROVE  s \in SUBSET (1..m - 1)
    BY <2>1, <2>4
  <2>5. h \in [SUBSET (1..m) -> D]
    BY <2>1, <2>2, <2>3, <2>4
  <2>6. ASSUME NEW s \in SUBSET (1..m)
        PROVE  h[s] = IF s = {} THEN base ELSE f[<<h[s \ {Max(s)}], Max(s)>>]
    <3>1. CASE m \in s
      <4>1. h[s] = f[<<g[s \ {m}], m>>] /\ h[s \ {m}] = g[s \ {m}]
        BY <3>1
      <4> QED  BY <2>3, <3>1, <4>1
    <3>2. CASE m \notin s
      <4>1. h[s] = g[s] /\ h[s \ {Max(s)}] = g[s \ {Max(s)}]
        BY <3>2
      <4> QED  BY <2>2, <2>4, <3>2, <4>1 DEF Folds
    <3> QED  BY <3>1, <3>2
  <2> HIDE DEF h
  <2>7. Folds(h, m, f, base)
    BY <2>6 DEF Folds
  <2> QED  BY <1>b, <1>c, <2>5, <2>7
<1> QED  BY <1>3, <1>4

\* What holds of no index, and of one more each time, holds of all.
LEMMA FoldInSet ==
  ASSUME NEW D, NEW n \in Nat, NEW g, g[{}] \in D,
         \A m \in 1..n : g[1..m - 1] \in D => g[1..m] \in D
  PROVE  g[1..n] \in D
<1> DEFINE Bad == {m \in 0..n : g[1..m] \notin D}
<1>1. Bad \subseteq Nat /\ n \in 0..n
  OBVIOUS
<1>2. \A m \in 0..n : m \notin Bad <=> g[1..m] \in D
  OBVIOUS
<1>3. \A m \in Bad : m \in 0..n
  OBVIOUS
<1> HIDE DEF Bad
<1>4. SUFFICES ASSUME Bad # {} PROVE FALSE
  BY <1>1, <1>2
<1>5. PICK m \in Bad : \A k \in Bad : m <= k
  BY <1>1, <1>4, LeastNat
<1>6. CASE m = 0
  <2>1. 1..m = {}
    BY <1>6
  <2> QED  BY <1>2, <1>3, <1>5, <2>1
<1>7. CASE m # 0
  <2>1. m \in 1..n /\ m - 1 \in 0..n /\ ~(m <= m - 1)
    BY <1>3, <1>7
  <2>2. g[1..m - 1] \in D
    BY <1>2, <1>5, <2>1
  <2> QED  BY <1>2, <1>3, <1>5, <2>1, <2>2
<1> QED  BY <1>6, <1>7

LEMMA GreatestIndex ==
  ASSUME NEW n \in Nat, NEW s \in SUBSET (1..n), s # {}
  PROVE  Max(s) \in s
<1> DEFINE T == {k \in 0..n : n - k \in s}
<1>1. T \subseteq Nat /\ \A x \in s : n - x \in T
  OBVIOUS
<1>2. \A k \in T : n - k \in s
  OBVIOUS
<1> HIDE DEF T
<1>3. PICK k \in T : \A m \in T : k <= m
  BY <1>1, LeastNat
<1>4. ASSUME NEW y \in s PROVE n - k >= y
  <2>1. k <= n - y /\ y \in 1..n /\ k \in Nat
    BY <1>1, <1>3
  <2> QED  BY <2>1
<1>5. n - k \in s
  BY <1>2
<1> QED  BY <1>4, <1>5 DEF Max

LEMMA GreatestOfAll ==
  ASSUME NEW m \in Nat, m # 0
  PROVE  Max(1..m) = m /\ (1..m) \ {m} = 1..m - 1 /\ 1..m # {}
<1>1. \A x \in 1..m : (\A y \in 1..m : x >= y) <=> x = m
  OBVIOUS
<1> QED  BY <1>1 DEF Max

\* parsed_import_kinds gives a list of kinds.
LEMMA ParsedIsList ==
  ASSUME NEW list, NEW n \in Nat, DOMAIN list = 1..n
  PROVE  ParsedKinds(list) \in Seq(ToSet(ALL))
<1> DEFINE K == ToSet(ALL)
           Known(acc, k) == IF k \in K \ ToSet(acc) THEN Append(acc, k) ELSE acc
           IsIter(g) == g = [s \in SUBSET (1..n) |-> IF s = {} THEN <<>>
                                ELSE Known(g[s \ {Max(s)}], list[Max(s)])]
           iter == CHOOSE g : IsIter(g)
           known == iter[1..n]
           f == [p \in Seq(K) \X (1..n) |-> Known(p[1], list[p[2]])]
<1>1. ParsedKinds(list) = IF known = <<>> THEN ALL ELSE known
  BY DEF ParsedKinds, FoldLeft, MapThenFoldSet
<1>2. ALL \in Seq(K)
  BY DEF ALL, ToSet
<1> HIDE DEF K
<1>3. <<>> \in Seq(K) /\ \A acc \in Seq(K) : \A k : Known(acc, k) \in Seq(K)
  OBVIOUS
<1> HIDE DEF Known
<1>4. f \in [Seq(K) \X (1..n) -> Seq(K)]
  BY <1>3
<1>5. \A acc \in Seq(K), i \in 1..n : f[<<acc, i>>] = Known(acc, list[i])
  OBVIOUS
<1> HIDE DEF f
<1>6. PICK g \in [SUBSET (1..n) -> Seq(K)] : Folds(g, n, f, <<>>)
  BY <1>3, <1>4, FoldExists
<1>7. ASSUME NEW s \in SUBSET (1..n)
      PROVE  g[s] = IF s = {} THEN <<>> ELSE Known(g[s \ {Max(s)}], list[Max(s)])
  <2>1. CASE s = {}
    BY <1>6, <2>1 DEF Folds
  <2>2. CASE s # {}
    <3>1. Max(s) \in 1..n /\ g[s \ {Max(s)}] \in Seq(K)
      BY <2>2, GreatestIndex
    <3>2. g[s] = f[<<g[s \ {Max(s)}], Max(s)>>]
      BY <1>6, <2>2 DEF Folds
    <3> QED  BY <1>5, <2>2, <3>1, <3>2
  <2> QED  BY <2>1, <2>2
<1>8. IsIter(g)
  BY <1>7
<1>9. IsIter(iter)
  BY <1>8
<1> HIDE DEF iter
<1>10. iter[{}] = <<>>
  BY <1>9
<1>11. ASSUME NEW m \in 1..n, iter[1..m - 1] \in Seq(K) PROVE iter[1..m] \in Seq(K)
  <2>1. 1..m \in SUBSET (1..n) /\ m \in Nat /\ m # 0
    OBVIOUS
  <2>2. iter[1..m] = Known(iter[1..m - 1], list[m])
    <3>1. \A t \in SUBSET (1..n) : iter[t] = IF t = {} THEN <<>>
                                             ELSE Known(iter[t \ {Max(t)}], list[Max(t)])
      BY <1>9
    <3>2. Max(1..m) = m /\ (1..m) \ {m} = 1..m - 1 /\ 1..m # {}
      BY <2>1, GreatestOfAll
    <3> QED  BY <2>1, <3>1, <3>2
  <2> QED  BY <1>3, <1>11, <2>2
<1>12. known \in Seq(K)
  BY <1>3, <1>10, <1>11, FoldInSet
<1> QED  BY <1>1, <1>2, <1>12 DEF K

-----------------------------------------------------------------------------
(* Sequences                                                               *)

LEMMA AppendFacts ==
  ASSUME NEW S, NEW s \in Seq(S), NEW e
  PROVE  /\ Append(s, e) \in Seq(S \cup {e}) /\ Len(Append(s, e)) = Len(s) + 1 /\ Len(s) \in Nat
         /\ Append(s, e)[Len(s) + 1] = e
         /\ \A i \in 1..Len(s) : Append(s, e)[i] = s[i]
<1>1. s \in Seq(S \cup {e}) /\ e \in S \cup {e}
  OBVIOUS
<1> QED  BY <1>1

LEMMA TailFacts ==
  ASSUME NEW S, NEW s \in Seq(S), s # <<>>
  PROVE  /\ Tail(s) \in Seq(S) /\ Len(Tail(s)) = Len(s) - 1 /\ Len(s) \in Nat \ {0}
         /\ Head(s) = s[1] /\ Head(s) \in S
         /\ \A i \in 1..Len(s) - 1 : Tail(s)[i] = s[i + 1]
<1>1. Len(s) \in Nat \ {0}
  OBVIOUS
<1> QED  BY <1>1

LEMMA EmptyLen ==
  ASSUME NEW S, NEW s \in Seq(S)
  PROVE  s = <<>> <=> Len(s) = 0
OBVIOUS

LEMMA Widens ==
  ASSUME NEW S, NEW R, S \subseteq R, NEW s \in Seq(S)
  PROVE  s \in Seq(R)
OBVIOUS

LEMMA ChainAppend ==
  ASSUME NEW s \in Seq(StatusName), NEW from, NEW to, NEW b, Chain(from, s, to), Moves(to, b)
  PROVE  Chain(from, Append(s, b), b)
<1>1. /\ Len(Append(s, b)) = Len(s) + 1 /\ Len(s) \in Nat /\ Append(s, b)[Len(s) + 1] = b
      /\ \A i \in 1..Len(s) : Append(s, b)[i] = s[i]
  BY AppendFacts
<1>2. s = <<>> <=> Len(s) = 0
  OBVIOUS
<1>3. Append(s, b) # <<>>
  <2>1. Append(s, b) \in Seq(StatusName \cup {b}) /\ Len(Append(s, b)) # 0
    BY <1>1, AppendFacts
  <2> QED  BY <2>1
<1> QED  BY <1>1, <1>2, <1>3 DEF Chain

LEMMA ChainTail ==
  ASSUME NEW s \in Seq(StatusName), s # <<>>, NEW from, NEW to, Chain(from, s, to)
  PROVE  Moves(from, Head(s)) /\ Chain(Head(s), Tail(s), to)
<1>1. /\ Tail(s) \in Seq(StatusName) /\ Len(Tail(s)) = Len(s) - 1 /\ Len(s) \in Nat \ {0}
      /\ Head(s) = s[1] /\ \A i \in 1..Len(s) - 1 : Tail(s)[i] = s[i + 1]
  BY TailFacts
<1>2. Tail(s) = <<>> <=> Len(Tail(s)) = 0
  BY <1>1, EmptyLen
<1> QED  BY <1>1, <1>2 DEF Chain

\* An import that is open is one the main loop has seen.
LEMMA OpenIsSeen ==
  ASSUME NEW s \in Seq(StatusName), NEW from, NEW to, Chain(from, s, to),
         to \in {"requested", "running"}, \A i \in 1..Len(s) : s[i] # "requested"
  PROVE  from \in {"requested", "running"}
<1>1. Len(s) \in Nat
  OBVIOUS
<1>2. CASE s = <<>>
  BY <1>2 DEF Chain
<1>3. CASE s # <<>>
  <2>1. Len(s) \in 1..Len(s)
    BY <1>1, <1>3, EmptyLen
  <2>2. s[Len(s)] = "running"
    BY <1>3, <2>1 DEF Chain
  <2>3. Len(s) = 1
    <3> SUFFICES ASSUME Len(s) # 1 PROVE FALSE
      OBVIOUS
    <3>1. Len(s) - 1 \in 1..Len(s) - 1 /\ (Len(s) - 1) + 1 = Len(s) /\ Len(s) - 1 \in 1..Len(s)
      BY <1>1, <2>1
    <3>2. Moves(s[Len(s) - 1], s[Len(s)])
      BY <3>1 DEF Chain
    <3> QED  BY <2>2, <3>1, <3>2 DEF Moves
  <2> QED  BY <1>3, <2>2, <2>3 DEF Chain, Moves
<1> QED  BY <1>2, <1>3

-----------------------------------------------------------------------------
(* The first state                                                         *)

LEMMA InitImport == Init => HInv
<1> SUFFICES ASSUME Init PROVE HInv
  OBVIOUS
<1>1. DOMAIN csv = 1..1 \/ DOMAIN csv = 1..4
  <2>1. \E k : csv \in {<<k>>, <<"pi", "unknown", k, k>>, <<"cursor">>, <<"unknown">>}
    BY DEF Init
  <2>2. \A k : DOMAIN <<k>> = 1..1 /\ DOMAIN <<"pi", "unknown", k, k>> = 1..4
    OBVIOUS
  <2> QED  BY <2>1, <2>2
<1>2. Selected \in Seq(ToSet(ALL))
  <2>1. CASE DOMAIN csv = 1..1
    BY <2>1, ParsedIsList DEF Selected
  <2>2. CASE DOMAIN csv = 1..4
    BY <2>2, ParsedIsList DEF Selected
  <2> QED  BY <1>1, <2>1, <2>2
<1>3. /\ column.at = "not_started" /\ stream = <<>> /\ seen = "not_started" /\ runs = <<>>
      /\ handle = 0 /\ channel = <<>>
  BY DEF Init
<1>4. Types
  <2>1. runs \in Seq(Run({})) /\ channel \in Seq({}) /\ stream \in Seq(StatusName)
    BY <1>3
  <2>2. /\ \A j \in 1..Len(channel) :
             channel[j].ev = "status" => channel[j].at \in {"running", "finished"}
        /\ handle \in 0..Len(runs)
    BY <1>3
  <2> QED  BY <1>2, <1>3, <2>1, <2>2 DEF Types, StatusName
<1>5. ChainInv
  BY <1>3 DEF ChainInv, Chain
<1>6. RunInv
  BY <1>3 DEF RunInv
<1>7. HandleInv /\ PromiseInv
  BY <1>3 DEF HandleInv, PromiseInv, Open
<1> QED  BY <1>4, <1>5, <1>6, <1>7 DEF HInv

-----------------------------------------------------------------------------
(* Steps of the app                                                        *)

LEMMA SelectedStays == UNCHANGED csv => Selected' = Selected
BY DEF Selected

LEMMA AskImportKeeps == HInv /\ AskImport => HInv'
<1> SUFFICES ASSUME HInv, AskImport PROVE HInv'
  OBVIOUS
<1>1. Types /\ ChainInv /\ RunInv /\ HandleInv
  BY DEF HInv
<1>2. /\ UNCHANGED <<history, csv, seen, runs, handle, channel>> /\ Selected' = Selected
      /\ column.at \in {"not_started", "aborted"} /\ column'.at = "requested"
  BY SelectedStays DEF AskImport
<1>3. stream \in Seq(StatusName) /\ Chain(seen, stream, column.at)
  BY <1>1 DEF Types, ChainInv
<1>4. PICK s \in Seq(StatusName) : stream' = Append(s, "requested") /\ Chain(seen, s, "not_started")
  <2>1. CASE column.at = "aborted"
    <3>1. stream' = Append(Append(stream, "not_started"), "requested")
      BY <1>3, <2>1 DEF AskImport, StatusName
    <3>2. Append(stream, "not_started") \in Seq(StatusName)
      BY <1>3 DEF StatusName
    <3>3. Chain(seen, Append(stream, "not_started"), "not_started")
      BY <1>3, <2>1, ChainAppend DEF Moves
    <3> QED  BY <3>1, <3>2, <3>3
  <2>2. CASE column.at = "not_started"
    <3>1. stream' = Append(stream, "requested")
      BY <1>3, <2>2 DEF AskImport, StatusName
    <3> QED  BY <1>3, <2>2, <3>1
  <2> QED  BY <1>2, <2>1, <2>2
<1>5. stream' \in Seq(StatusName) /\ ~Open'
  <2>1. Append(s, "requested") \in Seq(StatusName)
    BY DEF StatusName
  <2>2. Len(stream') \in 1..Len(stream') /\ stream'[Len(stream')] = "requested"
    BY <1>4, AppendFacts
  <2> QED  BY <1>4, <2>1, <2>2 DEF Open
<1>6. Types'
  BY <1>1, <1>2, <1>5 DEF Types, StatusName
<1>7. ChainInv'
  BY <1>2, <1>4, ChainAppend DEF ChainInv, Moves
<1>8. RunInv' /\ HandleInv'
  BY <1>1, <1>2 DEF RunInv, HandleInv
<1> QED  BY <1>5, <1>6, <1>7, <1>8 DEF HInv, PromiseInv

LEMMA AskAbortKeeps == HInv /\ AskAbort => HInv'
<1> SUFFICES ASSUME HInv, AskAbort PROVE HInv'
  OBVIOUS
<1>1. Types /\ ChainInv /\ RunInv /\ HandleInv
  BY DEF HInv
<1>2. /\ UNCHANGED <<history, csv, seen, runs, handle, channel>> /\ Selected' = Selected
      /\ column.at = "running" /\ column'.at = "aborted" /\ stream' = Append(stream, "aborted")
  BY SelectedStays DEF AskAbort, Becomes
<1>3. stream \in Seq(StatusName) /\ Chain(seen, stream, column.at)
  BY <1>1 DEF Types, ChainInv
<1>4. stream' \in Seq(StatusName)
  BY <1>2, <1>3 DEF StatusName
<1>5. Types'
  BY <1>1, <1>2, <1>4 DEF Types, StatusName
<1>6. ChainInv'
  BY <1>2, <1>3, ChainAppend DEF ChainInv, Moves
<1>7. RunInv' /\ HandleInv' /\ ~Open'
  BY <1>1, <1>2 DEF RunInv, HandleInv, Open
<1> QED  BY <1>5, <1>6, <1>7 DEF HInv, PromiseInv

-----------------------------------------------------------------------------
(* The main loop                                                           *)

LEMMA GoodRunStays ==
  ASSUME NEW run, NEW to, NEW list, NEW h, GoodRun(run, list, h),
         to.kinds = run.kinds, to.ok = run.ok, to.next = run.next, to.at = run.at,
         run.aborted => to.aborted
  PROVE  GoodRun(to, list, h)
BY DEF GoodRun

LEMMA AbortingFacts ==
  ASSUME NEW T, NEW rs \in Seq(Run(T)), NEW h \in 0..Len(rs)
  PROVE  /\ Aborting(h, rs) \in Seq(Run(T)) /\ Len(Aborting(h, rs)) = Len(rs)
         /\ \A r \in 1..Len(rs) :
              /\ Aborting(h, rs)[r].kinds = rs[r].kinds /\ Aborting(h, rs)[r].ok = rs[r].ok
              /\ Aborting(h, rs)[r].next = rs[r].next /\ Aborting(h, rs)[r].at = rs[r].at
              /\ rs[r].aborted => Aborting(h, rs)[r].aborted
<1>1. CASE h = 0
  BY <1>1 DEF Aborting
<1>2. CASE h # 0
  <2> DEFINE run == [rs[h] EXCEPT !.aborted = TRUE]
  <2>1. h \in 1..Len(rs) /\ rs[h] \in Run(T)
    BY <1>2
  <2>2. /\ run \in Run(T) /\ run.kinds = rs[h].kinds /\ run.ok = rs[h].ok
        /\ run.next = rs[h].next /\ run.at = rs[h].at /\ run.aborted
    BY <2>1 DEF Run
  <2>3. Aborting(h, rs) = [rs EXCEPT ![h] = run]
    BY <1>2 DEF Aborting
  <2> HIDE DEF run
  <2>4. /\ Aborting(h, rs) \in Seq(Run(T)) /\ Len(Aborting(h, rs)) = Len(rs)
        /\ \A r \in 1..Len(rs) : Aborting(h, rs)[r] = IF r = h THEN run ELSE rs[r]
    BY <2>1, <2>2, <2>3
  <2> QED  BY <2>2, <2>4
<1> QED  BY <1>1, <1>2

LEMMA HandleStatusKeeps == HInv /\ HandleStatus => HInv'
<1> SUFFICES ASSUME HInv, HandleStatus PROVE HInv'
  OBVIOUS
<1>1. Types /\ ChainInv /\ RunInv /\ HandleInv /\ PromiseInv
  BY DEF HInv
<1>2. /\ UNCHANGED <<history, csv, column, channel>> /\ Selected' = Selected
      /\ stream # <<>> /\ stream' = Tail(stream) /\ seen' = Head(stream)
  BY SelectedStays DEF HandleStatus
<1>3. stream \in Seq(StatusName) /\ Chain(seen, stream, column.at)
  BY <1>1 DEF Types, ChainInv
<1>4. /\ stream' \in Seq(StatusName) /\ Len(stream') = Len(stream) - 1 /\ Len(stream) \in Nat \ {0}
      /\ seen' = stream[1] /\ seen' \in StatusName
      /\ \A i \in 1..Len(stream) - 1 : stream'[i] = stream[i + 1]
  BY <1>2, <1>3, TailFacts
<1>5. Moves(seen, seen') /\ Chain(seen', stream', column.at)
  BY <1>2, <1>3, ChainTail
<1>6. ChainInv'
  BY <1>2, <1>5 DEF ChainInv
<1>7. seen # seen'
  BY <1>5 DEF Moves
<1>8. Open' => seen' \in {"requested", "running"}
  BY <1>2, <1>4, <1>5, OpenIsSeen DEF Open
<1>9. PICK T : runs \in Seq(Run(T))
  BY <1>1 DEF Types
<1>10. handle \in 0..Len(runs)
  BY <1>1 DEF Types
<1> DEFINE rs == Aborting(handle, runs)
<1>11. /\ rs \in Seq(Run(T)) /\ Len(rs) = Len(runs) /\ Len(runs) \in Nat
       /\ \A r \in 1..Len(runs) :
            /\ rs[r].kinds = runs[r].kinds /\ rs[r].ok = runs[r].ok
            /\ rs[r].next = runs[r].next /\ rs[r].at = runs[r].at
            /\ runs[r].aborted => rs[r].aborted
  BY <1>9, <1>10, AbortingFacts
<1>12. \A r \in 1..Len(runs) : GoodRun(rs[r], Selected, history)
  <2> HIDE DEF rs
  <2> SUFFICES ASSUME NEW r \in 1..Len(runs) PROVE GoodRun(rs[r], Selected, history)
    OBVIOUS
  <2>1. GoodRun(runs[r], Selected, history)
    BY <1>1 DEF RunInv
  <2> QED  BY <1>11, <2>1, GoodRunStays
<1> HIDE DEF rs
<1>13. CASE seen' = "requested"
  <2>1. runs' = Append(rs, NewRun) /\ handle' = Len(runs) + 1
    BY <1>7, <1>13 DEF HandleStatus, rs
  <2>2. NewRun \in Run(T \cup {Selected, <<>>, 0})
    BY DEF NewRun, Run
  <2>3. /\ NewRun.kinds = Selected /\ NewRun.ok = 0 /\ NewRun.next = 1 /\ NewRun.at = "start"
        /\ ~NewRun.aborted
    BY DEF NewRun
  <2>4. /\ Len(runs') = Len(runs) + 1 /\ runs'[Len(runs) + 1] = NewRun
        /\ \A r \in 1..Len(runs) : runs'[r] = rs[r]
    BY <1>11, <2>1, AppendFacts
  <2>5. \E U : runs' \in Seq(Run(U))
    <3>1. Run(T) \subseteq Run(T \cup {Selected, <<>>, 0})
      BY DEF Run
    <3>2. rs \in Seq(Run(T \cup {Selected, <<>>, 0}))
      BY <1>11, <3>1, Widens
    <3> QED  BY <2>1, <2>2, <3>2
  <2>6. Types'
    BY <1>1, <1>2, <1>4, <1>11, <2>1, <2>4, <2>5 DEF Types, StatusName
  <2>7. RunInv'
    <3>1. GoodRun(NewRun, Selected, history)
      BY <2>3 DEF GoodRun
    <3>2. \A r \in 1..Len(runs') : GoodRun(runs'[r], Selected, history)
      BY <1>11, <2>4, <1>12, <3>1
    <3> QED  BY <1>2, <3>2 DEF RunInv
  <2>8. HandleInv'
    BY <1>11, <2>1, <2>3, <2>4 DEF HandleInv
  <2>9. PromiseInv'
    BY <2>1, <2>3, <2>4 DEF PromiseInv, Promised
  <2> QED  BY <1>6, <2>6, <2>7, <2>8, <2>9 DEF HInv
<1>14. CASE seen' = "aborted"
  <2>1. runs' = rs /\ handle' = 0
    BY <1>7, <1>14 DEF HandleStatus, rs
  <2>2. Types'
    BY <1>1, <1>2, <1>4, <1>11, <2>1 DEF Types, StatusName
  <2>3. RunInv'
    BY <1>2, <1>11, <1>12, <2>1 DEF RunInv
  <2> QED  BY <1>6, <1>8, <1>14, <2>2, <2>3 DEF HInv, HandleInv, PromiseInv
<1>15. CASE seen' \notin {"requested", "aborted"}
  <2>1. runs' = runs /\ handle' = handle
    BY <1>15 DEF HandleStatus
  <2>2. Types'
    BY <1>1, <1>2, <1>4, <2>1 DEF Types
  <2>3. RunInv'
    BY <1>1, <1>2, <2>1 DEF RunInv
  <2>4. HandleInv'
    BY <1>1, <1>5, <1>15, <2>1 DEF HandleInv, Moves
  <2>5. Open' => Open
    <3> SUFFICES ASSUME Open', NEW i \in 1..Len(stream) PROVE stream[i] # "requested"
      BY <1>2 DEF Open
    <3>1. CASE i = 1
      BY <1>4, <1>15, <3>1
    <3>2. CASE i # 1
      <4>1. i - 1 \in 1..Len(stream') /\ stream'[i - 1] = stream[i]
        BY <1>4, <3>2
      <4> QED  BY <4>1 DEF Open
    <3> QED  BY <3>1, <3>2
  <2>6. PromiseInv'
    BY <1>1, <1>2, <2>1, <2>5 DEF PromiseInv
  <2> QED  BY <1>6, <2>2, <2>3, <2>4, <2>6 DEF HInv
<1> QED  BY <1>13, <1>14, <1>15

-----------------------------------------------------------------------------
(* The task                                                                *)

\* What a step of the task does to its run and to the channel.
Works(run, to, h, c, d) ==
  \/ /\ run.at = "start" /\ to.at = "kinds" /\ to.next = run.next /\ to.ok = run.ok
     /\ d = Append(c, Status("running", 0))
  \/ /\ run.at = "kinds" /\ to.at = "kinds" /\ run.next <= Len(run.kinds) /\ to.next = run.next + 1
     /\ to.ok = IF h[run.kinds[run.next]].at # "fails" THEN run.ok + 1 ELSE run.ok
     /\ d = c
  \/ /\ to.at = run.at /\ to.next = run.next /\ to.ok = run.ok
     /\ d = c \/ \E e : d = Append(c, e) /\ (e.ev = "status" => e.at = "running")
  \/ /\ run.at = "kinds" /\ to.at = "over" /\ run.next > Len(run.kinds)
     /\ to.next = run.next /\ to.ok = run.ok
     /\ IF run.ok = 0 THEN d = c ELSE d = Append(c, Status("finished", 0))
  \/ /\ run.aborted /\ to.at = "over" /\ to.next = run.next /\ to.ok = run.ok
     /\ d = c

LEMMA UpdateFacts ==
  ASSUME NEW T, NEW U, NEW rs \in Seq(Run(T)), NEW r \in 1..Len(rs), NEW run \in Run(T \cup U),
         NEW after, after = [rs EXCEPT ![r] = run]
  PROVE  /\ after \in Seq(Run(T \cup U)) /\ Len(after) = Len(rs)
         /\ after[r] = run /\ \A q \in 1..Len(rs) : q # r => after[q] = rs[q]
<1>1. Run(T) \subseteq Run(T \cup U)
  BY DEF Run
<1>2. rs \in Seq(Run(T \cup U))
  BY <1>1, Widens
<1> QED  BY <1>2

LEMMA WorkFacts ==
  ASSUME Types, NEW r \in 1..Len(runs), Begin(r) \/ NextKind(r) \/ Step(r) \/ Finish(r) \/ Stops(r)
  PROVE  /\ \E U : runs' \in Seq(Run(U))
         /\ Len(runs') = Len(runs) /\ \A q \in 1..Len(runs) : q # r => runs'[q] = runs[q]
         /\ runs'[r].kinds = runs[r].kinds /\ runs'[r].aborted = runs[r].aborted
         /\ Works(runs[r], runs'[r], history, channel, channel')
<1>1. PICK T : runs \in Seq(Run(T))
  BY DEF Types
<1>2. runs[r] \in Run(T)
  BY <1>1
<1> DEFINE Becoming(U, run) ==
             /\ runs' = [runs EXCEPT ![r] = run]
             /\ run.kinds = runs[r].kinds /\ run.aborted = runs[r].aborted
             /\ Works(runs[r], run, history, channel, channel')
<1>3. SUFFICES \E U : \E run \in Run(T \cup U) : Becoming(U, run)
  <2>1. PICK U : \E run \in Run(T \cup U) : Becoming(U, run)
    BY <1>3
  <2>2. PICK run \in Run(T \cup U) : Becoming(U, run)
    BY <2>1
  <2>3. /\ runs' \in Seq(Run(T \cup U)) /\ Len(runs') = Len(runs)
        /\ runs'[r] = run /\ \A q \in 1..Len(runs) : q # r => runs'[q] = runs[q]
    <3>1. runs' = [runs EXCEPT ![r] = run]
      BY <2>2
    <3> HIDE DEF Becoming
    <3>2. runs' \in Seq(Run(T \cup U))
      BY <1>1, <3>1, UpdateFacts
    <3>3. Len(runs') = Len(runs)
      BY <1>1, <3>1, UpdateFacts
    <3>4. runs'[r] = run
      BY <1>1, <3>1, UpdateFacts
    <3>5. \A q \in 1..Len(runs) : q # r => runs'[q] = runs[q]
      BY <1>1, <3>1, UpdateFacts
    <3> QED  BY <3>2, <3>3, <3>4, <3>5
  <2> QED  BY <2>2, <2>3
<1>4. CASE Begin(r)
  <2> DEFINE run == [runs[r] EXCEPT !.at = "kinds"]
  <2>1. run \in Run(T \cup {}) /\ run.kinds = runs[r].kinds /\ run.aborted = runs[r].aborted
        /\ run.at = "kinds" /\ run.next = runs[r].next /\ run.ok = runs[r].ok
    BY <1>2 DEF Run
  <2>2. /\ runs[r].at = "start" /\ runs' = [runs EXCEPT ![r] = run]
        /\ channel' = Append(channel, Status("running", 0))
    BY <1>4 DEF Begin, Sends
  <2> HIDE DEF run
  <2>3. Works(runs[r], run, history, channel, channel')
    BY <2>1, <2>2 DEF Works
  <2>4. Becoming({}, run)
    BY <2>1, <2>2, <2>3
  <2> QED  BY <2>1, <2>4, Zenon
<1>5. CASE NextKind(r)
  <2> DEFINE k == runs[r].kinds[runs[r].next]
             works == history[k].at # "fails"
             todo == IF works THEN Import(k, history[k].sessions) ELSE <<>>
             ok == IF works THEN runs[r].ok + 1 ELSE runs[r].ok
             run == [runs[r] EXCEPT !.next = @ + 1, !.ok = ok, !.todo = todo]
  <2>1. runs' = [runs EXCEPT ![r].next = @ + 1, ![r].ok = IF works THEN @ + 1 ELSE @, ![r].todo = todo]
        /\ runs[r].at = "kinds" /\ runs[r].next <= Len(runs[r].kinds) /\ channel' = channel
    BY <1>5 DEF NextKind
  <2> HIDE DEF todo
  <2>2. runs' = [runs EXCEPT ![r] = run]
    BY <1>1, <2>1
  <2>n. ok \in Nat /\ runs[r].next + 1 \in Nat \ {0}
    BY <1>2 DEF Run
  <2> HIDE DEF k, works, ok
  <2>3. /\ run \in Run(T \cup {todo}) /\ run.kinds = runs[r].kinds /\ run.aborted = runs[r].aborted
        /\ run.at = runs[r].at /\ run.next = runs[r].next + 1
        /\ run.ok = ok
    BY <1>2, <2>n DEF Run
  <2> HIDE DEF run
  <2>4. Works(runs[r], run, history, channel, channel')
    BY <2>1, <2>3 DEF Works, k, works, ok
  <2>5. Becoming({todo}, run)
    BY <2>2, <2>3, <2>4
  <2> QED  BY <2>3, <2>5, Zenon
<1>6. CASE Step(r)
  <2> DEFINE event == Head(runs[r].todo)
             rest == [runs[r] EXCEPT !.todo = Tail(@)]
             scaled == Scaled(runs[r], event.pct)
             U == {Tail(runs[r].todo), scaled}
  <2>1. \/ /\ event.ev \in {"project", "chat", "message"} /\ channel' = Append(channel, event)
           /\ runs' = [runs EXCEPT ![r] = rest]
        \/ /\ channel' = Append(channel, Status("running", scaled))
           /\ runs' = [runs EXCEPT ![r] = [rest EXCEPT !.bar = scaled]]
        \/ channel' = channel /\ runs' = [runs EXCEPT ![r] = rest]
    BY <1>6 DEF Step, Sends
  <2> HIDE DEF event, scaled
  <2>2. rest \in Run(T \cup U) /\ rest.kinds = runs[r].kinds /\ rest.aborted = runs[r].aborted
        /\ rest.at = runs[r].at /\ rest.next = runs[r].next /\ rest.ok = runs[r].ok
    BY <1>2 DEF Run
  <2> DEFINE with == [rest EXCEPT !.bar = scaled]
  <2> HIDE DEF rest
  <2>3. with \in Run(T \cup U) /\ with.kinds = runs[r].kinds /\ with.aborted = runs[r].aborted
        /\ with.at = runs[r].at /\ with.next = runs[r].next /\ with.ok = runs[r].ok
    BY <2>2 DEF Run
  <2> HIDE DEF U
  <2>4. /\ channel' = channel \/ \E e : channel' = Append(channel, e) /\ (e.ev = "status" => e.at = "running")
        /\ runs' = [runs EXCEPT ![r] = rest] \/ runs' = [runs EXCEPT ![r] = with]
    BY <2>1 DEF Status
  <2> HIDE DEF with
  <2>5. Works(runs[r], rest, history, channel, channel') /\ Works(runs[r], with, history, channel, channel')
    BY <2>2, <2>3, <2>4 DEF Works
  <2>6. Becoming(U, rest) \/ Becoming(U, with)
    BY <2>2, <2>3, <2>4, <2>5
  <2> QED  BY <2>2, <2>3, <2>6, Zenon
<1>7. CASE Finish(r)
  <2> DEFINE run == [runs[r] EXCEPT !.at = "over"]
  <2>1. run \in Run(T \cup {}) /\ run.kinds = runs[r].kinds /\ run.aborted = runs[r].aborted
        /\ run.at = "over" /\ run.next = runs[r].next /\ run.ok = runs[r].ok
    BY <1>2 DEF Run
  <2>2. /\ runs[r].at = "kinds" /\ runs' = [runs EXCEPT ![r] = run]
        /\ runs[r].next > Len(runs[r].kinds)
        /\ IF runs[r].ok = 0 THEN channel' = channel
           ELSE channel' = Append(channel, Status("finished", 0))
    BY <1>1, <1>7 DEF Finish, Sends
  <2> HIDE DEF run
  <2>3. Works(runs[r], run, history, channel, channel')
    BY <2>1, <2>2 DEF Works
  <2>4. Becoming({}, run)
    BY <2>1, <2>2, <2>3
  <2> QED  BY <2>1, <2>4, Zenon
<1>8. CASE Stops(r)
  <2> DEFINE run == [runs[r] EXCEPT !.at = "over", !.todo = <<>>]
  <2>1. run \in Run(T \cup {<<>>}) /\ run.kinds = runs[r].kinds /\ run.aborted = runs[r].aborted
        /\ run.at = "over" /\ run.next = runs[r].next /\ run.ok = runs[r].ok
    BY <1>2 DEF Run
  <2>2. runs[r].aborted /\ runs' = [runs EXCEPT ![r] = run] /\ channel' = channel
    BY <1>1, <1>8 DEF Stops
  <2> HIDE DEF run
  <2>3. Works(runs[r], run, history, channel, channel')
    BY <2>1, <2>2 DEF Works
  <2>4. Becoming({<<>>}, run)
    BY <2>1, <2>2, <2>3
  <2> QED  BY <2>1, <2>4, Zenon
<1> QED  BY <1>4, <1>5, <1>6, <1>7, <1>8

LEMMA AnnouncedStays ==
  ASSUME NEW S, NEW c \in Seq(S), NEW e, NEW n \in 0..Len(c), NEW at, Announced(c, n, at)
  PROVE  Announced(Append(c, e), n, at)
<1>1. /\ Len(c) \in Nat /\ Len(Append(c, e)) = Len(c) + 1
      /\ \A i \in 1..Len(c) : Append(c, e)[i] = c[i]
  BY AppendFacts
<1>2. \A i \in 1..n : Append(c, e)[i] = c[i]
  BY <1>1
<1> QED  BY <1>2 DEF Announced

\* More events in the channel keep the promise, with the run as it is.
LEMMA PromiseStays ==
  ASSUME NEW S, NEW c \in Seq(S), NEW e, NEW run, NEW at, Promised(run, c, at)
  PROVE  Promised(run, Append(c, e), at)
<1> DEFINE d == Append(c, e)
<1>1. /\ Len(c) \in Nat /\ Len(d) = Len(c) + 1 /\ \A i \in 1..Len(c) : d[i] = c[i]
  BY AppendFacts
<1>2. ASSUME Announced(c, Len(c), at) PROVE Announced(d, Len(d), at)
  BY <1>1, <1>2 DEF Announced
<1>3. ASSUME NEW j \in 1..Len(c), IsStatus(c[j], "finished"), Announced(c, j - 1, at)
      PROVE  j \in 1..Len(d) /\ IsStatus(d[j], "finished") /\ Announced(d, j - 1, at)
  <2>1. j - 1 \in 0..Len(c) /\ j \in 1..Len(d) /\ d[j] = c[j]
    BY <1>1
  <2> QED  BY <1>3, <2>1, AnnouncedStays
<1> HIDE DEF d
<1>4. Promised(run, d, at)
  BY <1>2, <1>3 DEF Promised
<1> QED  BY <1>4 DEF d

\* A step of the task leaves its run good, ...
LEMMA GoodRunWorks ==
  ASSUME NEW run, NEW to, NEW list, NEW h, NEW c, NEW d, GoodRun(run, list, h), Works(run, to, h, c, d),
         to.kinds = run.kinds, to.aborted = run.aborted, run.ok \in Nat, run.next \in Nat, Len(list) \in Nat
  PROVE  GoodRun(to, list, h)
<1>1. run.kinds = list
  BY DEF GoodRun
<1>2. CASE to.at = run.at /\ to.next = run.next /\ to.ok = run.ok
  BY <1>2 DEF GoodRun
<1>3. CASE to.at = "kinds" /\ to.next = run.next /\ to.ok = run.ok
  BY <1>3 DEF GoodRun
<1>4. CASE to.at = "over" /\ to.next = run.next /\ to.ok = run.ok /\ (run.next > Len(list) \/ run.aborted)
  BY <1>4 DEF GoodRun
<1>5. CASE /\ to.at = "kinds" /\ to.next = run.next + 1
           /\ to.ok = IF h[list[run.next]].at # "fails" THEN run.ok + 1 ELSE run.ok
  <2>1. \A i \in 1..Len(list) : i < to.next => i < run.next \/ i = run.next
    BY <1>5
  <2>2. to.ok = 0 => run.ok = 0 /\ h[list[run.next]].at = "fails"
    BY <1>5
  <2>3. to.ok = 0 => \A i \in 1..Len(list) : i < to.next => h[list[i]].at = "fails"
    BY <2>1, <2>2 DEF GoodRun
  <2> QED  BY <1>1, <1>5, <2>3 DEF GoodRun
<1> QED  BY <1>1, <1>2, <1>3, <1>4, <1>5 DEF Works

\* ... and its promise kept.
LEMMA PromiseWorks ==
  ASSUME NEW S, NEW c \in Seq(S), NEW d, NEW run, NEW to, NEW h, NEW at,
         Promised(run, c, at), Promised(run, d, at), Works(run, to, h, c, d), ~run.aborted
  PROVE  Promised(to, d, at)
<1>1. CASE to.at = run.at /\ to.ok = run.ok
  BY <1>1 DEF Promised
<1>2. CASE to.at = "kinds" /\ d = Append(c, Status("running", 0))
  <2>1. /\ Len(d) = Len(c) + 1 /\ Len(c) \in Nat /\ d[Len(c) + 1] = Status("running", 0)
    BY <1>2, AppendFacts
  <2>2. IsStatus(d[Len(d)], "running") /\ Len(d) \in 1..Len(d)
    BY <2>1 DEF IsStatus, Status
  <2>3. Announced(d, Len(d), at)
    BY <2>2 DEF Announced
  <2> QED  BY <1>2, <2>3 DEF Promised
<1>3. CASE run.at = "kinds" /\ to.at = "kinds" /\ d = c
  BY <1>3 DEF Promised
<1>4. CASE to.at = "over" /\ to.ok = 0
  BY <1>4 DEF Promised
<1>5. CASE run.at = "kinds" /\ to.at = "over" /\ d = Append(c, Status("finished", 0))
  <2>1. /\ Len(d) = Len(c) + 1 /\ Len(c) \in Nat /\ d[Len(c) + 1] = Status("finished", 0)
    BY <1>5, AppendFacts
  <2>2. Len(c) \in 0..Len(c) /\ Announced(c, Len(c), at)
    BY <1>5, <2>1 DEF Promised
  <2>3. Announced(d, Len(c), at)
    BY <1>5, <2>2, AnnouncedStays
  <2>4. /\ Len(c) + 1 \in 1..Len(d) /\ IsStatus(d[Len(c) + 1], "finished")
        /\ (Len(c) + 1) - 1 = Len(c)
    BY <2>1 DEF IsStatus, Status
  <2> QED  BY <1>5, <2>3, <2>4 DEF Promised
<1> QED  BY <1>1, <1>2, <1>3, <1>4, <1>5 DEF Works

LEMMA RunImportKeeps == HInv /\ RunImport => HInv'
<1> SUFFICES ASSUME HInv, RunImport PROVE HInv'
  OBVIOUS
<1>1. Types /\ ChainInv /\ RunInv /\ HandleInv /\ PromiseInv
  BY DEF HInv
<1>2. UNCHANGED <<history, csv, column, stream, seen, handle>> /\ Selected' = Selected
  BY SelectedStays DEF RunImport, app
<1>3. PICK r \in 1..Len(runs) : Begin(r) \/ NextKind(r) \/ Step(r) \/ Finish(r) \/ Stops(r)
  BY DEF RunImport
<1>4. /\ \E U : runs' \in Seq(Run(U))
      /\ Len(runs') = Len(runs) /\ \A q \in 1..Len(runs) : q # r => runs'[q] = runs[q]
      /\ runs'[r].kinds = runs[r].kinds /\ runs'[r].aborted = runs[r].aborted
      /\ Works(runs[r], runs'[r], history, channel, channel')
  BY <1>1, <1>3, WorkFacts
<1>5. PICK T : runs \in Seq(Run(T))
  BY <1>1 DEF Types
<1>6. /\ runs[r] \in Run(T) /\ runs[r].ok \in Nat /\ runs[r].next \in Nat /\ runs[r].aborted \in BOOLEAN
      /\ Len(runs) \in Nat
  <2>1. runs[r] \in Run(T)
    BY <1>5
  <2> QED  BY <1>5, <2>1 DEF Run
<1>7. PICK S : channel \in Seq(S)
  BY <1>1 DEF Types
<1>8. Selected \in Seq(ToSet(ALL))
  BY <1>1 DEF Types
<1>9. \/ channel' = channel
      \/ \E e : channel' = Append(channel, e) /\ (e.ev = "status" => e.at \in {"running", "finished"})
  BY <1>4 DEF Works, Status
<1>10. /\ \E R : channel' \in Seq(R)
       /\ \A j \in 1..Len(channel') :
            channel'[j].ev = "status" => channel'[j].at \in {"running", "finished"}
  <2>1. CASE channel' = channel
    BY <1>1, <2>1 DEF Types
  <2>2. CASE channel' # channel
    <3>1. PICK e : channel' = Append(channel, e) /\ (e.ev = "status" => e.at \in {"running", "finished"})
      BY <1>9, <2>2
    <3>2. /\ channel' \in Seq(S \cup {e}) /\ Len(channel') = Len(channel) + 1 /\ Len(channel) \in Nat
          /\ channel'[Len(channel) + 1] = e /\ \A i \in 1..Len(channel) : channel'[i] = channel[i]
      BY <1>7, <3>1, AppendFacts
    <3>3. \A i \in 1..Len(channel) :
            channel[i].ev = "status" => channel[i].at \in {"running", "finished"}
      BY <1>1 DEF Types
    <3>4. \A j \in 1..Len(channel') :
            channel'[j].ev = "status" => channel'[j].at \in {"running", "finished"}
      BY <3>1, <3>2, <3>3
    <3> QED  BY <3>2, <3>4
  <2> QED  BY <2>1, <2>2
<1>11. Types'
  BY <1>1, <1>2, <1>4, <1>10 DEF Types
<1>12. ChainInv'
  BY <1>1, <1>2 DEF ChainInv
<1>13. RunInv'
  <2>1. \A q \in 1..Len(runs) : GoodRun(runs[q], Selected, history)
    BY <1>1 DEF RunInv
  <2>2. GoodRun(runs'[r], Selected, history)
    <3>1. GoodRun(runs[r], Selected, history) /\ Len(Selected) \in Nat
      BY <1>8, <2>1
    <3> QED  BY <1>4, <1>6, <3>1, GoodRunWorks
  <2> QED  BY <1>2, <1>4, <2>1, <2>2 DEF RunInv
<1>14. HandleInv'
  <2> SUFFICES ASSUME seen \in {"requested", "running"}
               PROVE  handle # 0 /\ handle = Len(runs) /\ ~runs'[handle].aborted
    BY <1>2, <1>4 DEF HandleInv
  <2>1. handle # 0 /\ handle = Len(runs) /\ ~runs[handle].aborted /\ handle \in 1..Len(runs)
    BY <1>1, <1>6 DEF HandleInv
  <2>2. CASE handle = r
    BY <1>4, <2>1, <2>2
  <2>3. CASE handle # r
    BY <1>4, <2>1, <2>3
  <2> QED  BY <2>1, <2>2, <2>3
<1>15. PromiseInv'
  <2> SUFFICES ASSUME Open PROVE Promised(runs'[handle], channel', column.at)
    BY <1>2 DEF PromiseInv, Open
  <2>1. Promised(runs[handle], channel, column.at)
    BY <1>1 DEF PromiseInv
  <2>2. seen \in {"requested", "running"}
    BY <1>1, OpenIsSeen DEF Types, ChainInv, Open
  <2>3. handle # 0 /\ handle = Len(runs) /\ ~runs[handle].aborted /\ handle \in 1..Len(runs)
    BY <1>1, <1>6, <2>2 DEF HandleInv
  <2>4. Promised(runs[handle], channel', column.at)
    BY <1>7, <1>9, <2>1, PromiseStays
  <2>5. CASE handle # r
    BY <1>4, <2>3, <2>4, <2>5
  <2>6. CASE handle = r
    <3>1. Works(runs[handle], runs'[handle], history, channel, channel')
      BY <1>4, <2>6
    <3> QED  BY <1>7, <2>1, <2>3, <2>4, <3>1, PromiseWorks
  <2> QED  BY <2>5, <2>6
<1> QED  BY <1>11, <1>12, <1>13, <1>14, <1>15 DEF HInv

-----------------------------------------------------------------------------
(* The writer and the backend                                              *)

\* An event that tells nothing of what a promise is about can go; "running" is
\* what the column becomes by it.
LEMMA PromiseShifts ==
  ASSUME NEW S, NEW c \in Seq(S), c # <<>>, NEW run, NEW at, NEW to,
         Promised(run, c, at), at \in {"requested", "running"},
         IF at = "requested" /\ IsStatus(Head(c), "running") THEN to = "running" ELSE to = at,
         ~(at = "running" /\ IsStatus(Head(c), "finished"))
  PROVE  Promised(run, Tail(c), to)
<1> DEFINE d == Tail(c)
<1>1. /\ d \in Seq(S) /\ Len(d) = Len(c) - 1 /\ Len(c) \in Nat \ {0} /\ Head(c) = c[1]
      /\ \A i \in 1..Len(c) - 1 : d[i] = c[i + 1]
  BY TailFacts
<1> HIDE DEF d
<1>2. ASSUME NEW i \in 1..Len(c), i # 1 PROVE i - 1 \in 1..Len(d) /\ d[i - 1] = c[i]
  BY <1>1, <1>2
<1>3. ASSUME NEW n \in 0..Len(c), Announced(c, n, at), n # 0 PROVE Announced(d, n - 1, to)
  <2> SUFFICES ASSUME to = "requested" PROVE \E i \in 1..n - 1 : IsStatus(d[i], "running")
    BY DEF Announced
  <2>1. at = "requested" /\ ~IsStatus(Head(c), "running")
    OBVIOUS
  <2>2. PICK i \in 1..n : IsStatus(c[i], "running")
    BY <1>3, <2>1 DEF Announced
  <2>3. i # 1 /\ i \in 1..Len(c) /\ n \in Nat
    BY <1>1, <2>1, <2>2
  <2>4. i - 1 \in 1..n - 1 /\ d[i - 1] = c[i]
    BY <1>2, <2>3
  <2> QED  BY <2>2, <2>4
<1>4. Announced(c, Len(c), at) => Announced(d, Len(d), to)
  <2>1. Len(c) \in 0..Len(c) /\ Len(c) # 0 /\ Len(c) - 1 = Len(d)
    BY <1>1
  <2> QED  BY <1>3, <2>1
<1>5. ASSUME NEW j \in 1..Len(c), IsStatus(c[j], "finished"), Announced(c, j - 1, at)
      PROVE  \E k \in 1..Len(d) : IsStatus(d[k], "finished") /\ Announced(d, k - 1, to)
  <2>1. j # 1
    <3> SUFFICES ASSUME j = 1 PROVE FALSE
      OBVIOUS
    <3>1. at = "requested"
      BY <1>1, <1>5
    <3>2. \A i \in 1..j - 1 : FALSE
      OBVIOUS
    <3> QED  BY <1>5, <3>1, <3>2 DEF Announced
  <2>2. j - 1 \in 1..Len(d) /\ d[j - 1] = c[j]
    BY <1>2, <2>1
  <2>3. j - 1 \in 0..Len(c) /\ j - 1 # 0
    BY <1>1, <2>1
  <2>4. Announced(d, (j - 1) - 1, to)
    BY <1>3, <1>5, <2>3
  <2> QED  BY <1>5, <2>2, <2>4
<1>6. Promised(run, d, to)
  BY <1>4, <1>5 DEF Promised
<1> QED  BY <1>6 DEF d

LEMMA DrainKeeps == HInv /\ Drain => HInv'
<1> SUFFICES ASSUME HInv, Drain PROVE HInv'
  OBVIOUS
<1>1. Types /\ ChainInv /\ RunInv /\ HandleInv /\ PromiseInv
  BY DEF HInv
<1>2. /\ UNCHANGED <<history, csv, seen, runs, handle>> /\ Selected' = Selected
      /\ channel # <<>> /\ channel' = Tail(channel)
  BY SelectedStays DEF Drain
<1> DEFINE e == Head(channel)
<1>3. PICK S : channel \in Seq(S)
  BY <1>1 DEF Types
<1>4. /\ channel' \in Seq(S) /\ Len(channel') = Len(channel) - 1 /\ Len(channel) \in Nat \ {0}
      /\ e = channel[1] /\ \A i \in 1..Len(channel) - 1 : channel'[i] = channel[i + 1]
  BY <1>2, <1>3, TailFacts
<1>5. stream \in Seq(StatusName) /\ column.at \in StatusName /\ Chain(seen, stream, column.at)
  BY <1>1 DEF Types, ChainInv
<1>6. e.ev = "status" => e.at \in {"running", "finished"}
  BY <1>1, <1>4 DEF Types
<1>7. \/ /\ e.ev # "status" \/ ~Advances(e.at) \/ e.at = column.at
         /\ column'.at = column.at /\ stream' = stream
      \/ /\ e.ev = "status" /\ Advances(e.at) /\ e.at # column.at
         /\ column'.at = e.at /\ stream' = Append(stream, e.at)
  BY DEF Drain, Becomes
<1>8. RunInv' /\ HandleInv'
  BY <1>1, <1>2 DEF RunInv, HandleInv
<1>9. \A j \in 1..Len(channel') :
        channel'[j].ev = "status" => channel'[j].at \in {"running", "finished"}
  <2> SUFFICES ASSUME NEW j \in 1..Len(channel')
               PROVE  channel'[j].ev = "status" => channel'[j].at \in {"running", "finished"}
    OBVIOUS
  <2>1. j + 1 \in 1..Len(channel) /\ channel'[j] = channel[j + 1]
    BY <1>4
  <2> QED  BY <1>1, <2>1 DEF Types
<1> HIDE DEF e
<1>10. CASE /\ e.ev # "status" \/ ~Advances(e.at) \/ e.at = column.at
            /\ column'.at = column.at /\ stream' = stream
  <2>1. Types'
    BY <1>1, <1>2, <1>4, <1>9, <1>10 DEF Types
  <2>2. ChainInv'
    BY <1>2, <1>5, <1>10 DEF ChainInv
  <2>3. PromiseInv'
    <3> SUFFICES ASSUME Open PROVE Promised(runs[handle], Tail(channel), column.at)
      BY <1>2, <1>10 DEF PromiseInv, Open
    <3>1. Promised(runs[handle], channel, column.at) /\ column.at \in {"requested", "running"}
      BY <1>1 DEF PromiseInv, Open
    <3>2. ~(column.at = "requested" /\ IsStatus(e, "running"))
      BY <1>10 DEF IsStatus, Advances
    <3>3. ~(column.at = "running" /\ IsStatus(e, "finished"))
      BY <1>10 DEF IsStatus, Advances
    <3> QED  BY <1>2, <1>3, <3>1, <3>2, <3>3, PromiseShifts DEF e
  <2> QED  BY <1>8, <2>1, <2>2, <2>3 DEF HInv
<1>11. CASE /\ e.ev = "status" /\ Advances(e.at) /\ e.at # column.at
            /\ column'.at = e.at /\ stream' = Append(stream, e.at)
  <2>1. \/ column.at = "requested" /\ e.at = "running"
        \/ column.at = "running" /\ e.at = "finished"
    BY <1>6, <1>11 DEF Advances
  <2>2. stream' \in Seq(StatusName) /\ column'.at \in StatusName
    BY <1>5, <1>11, <2>1 DEF StatusName
  <2>3. Types'
    BY <1>1, <1>2, <1>4, <1>9, <2>2 DEF Types
  <2>4. ChainInv'
    BY <1>2, <1>5, <1>11, <2>1, ChainAppend DEF ChainInv, Moves
  <2>5. PromiseInv'
    <3> SUFFICES ASSUME Open' PROVE Promised(runs[handle], Tail(channel), "running")
      BY <1>2, <1>11, <2>1 DEF PromiseInv, Open
    <3>1. column.at = "requested" /\ e.at = "running"
      BY <1>11, <2>1 DEF Open
    <3>2. Open
      <4>1. /\ Len(stream) \in Nat /\ Len(stream') = Len(stream) + 1
            /\ \A i \in 1..Len(stream) : stream'[i] = stream[i]
        BY <1>5, <1>11, AppendFacts
      <4> QED  BY <3>1, <4>1 DEF Open
    <3>3. Promised(runs[handle], channel, "requested")
      BY <1>1, <3>1, <3>2 DEF PromiseInv
    <3>4. IsStatus(Head(channel), "running")
      BY <1>11, <3>1 DEF IsStatus, e
    <3> QED  BY <1>2, <1>3, <3>3, <3>4, PromiseShifts
  <2> QED  BY <1>8, <2>3, <2>4, <2>5 DEF HInv
<1> QED  BY <1>7, <1>10, <1>11

-----------------------------------------------------------------------------
(* The results                                                             *)

LEMMA ImportInvariant == Spec => []HInv
<1>1. HInv /\ [Next]_vars => HInv'
  <2> SUFFICES ASSUME HInv, [Next]_vars PROVE HInv'
    OBVIOUS
  <2>1. CASE AskImport
    BY <2>1, AskImportKeeps
  <2>2. CASE AskAbort
    BY <2>2, AskAbortKeeps
  <2>3. CASE HandleStatus
    BY <2>3, HandleStatusKeeps
  <2>4. CASE RunImport
    BY <2>4, RunImportKeeps
  <2>5. CASE Drain
    BY <2>5, DrainKeeps
  <2>6. CASE UNCHANGED vars
    <3>1. UNCHANGED <<history, csv, column, stream, seen, runs, handle, channel>> /\ Selected' = Selected
      BY <2>6, SelectedStays DEF vars, app
    <3> QED  BY <3>1 DEF HInv, Types, ChainInv, RunInv, HandleInv, PromiseInv, Open
  <2> QED  BY <2>1, <2>2, <2>3, <2>4, <2>5, <2>6 DEF Next
<1> QED  BY <1>1, InitImport, PTL DEF Spec

\* The sheet that shows an import is not left open: with the channel and the
\* updates of the row drained and every task over, a column that still says
\* "requested" or "running" means that none of the selected histories could be
\* read.  The run behind an open sheet has told, or has yet to tell, that it
\* finished, in an order in which the column takes it (run_history_import's
\* waiting sends; handle_sync_event; the state machine of the column).
THEOREM SheetCloses == Spec => []NoHungSheet
<1>1. HInv => NoHungSheet
  <2> SUFFICES ASSUME HInv, channel = <<>>, stream = <<>>, \A r \in 1..Len(runs) : runs[r].at = "over",
                      column.at \in {"requested", "running"}, NEW k \in ToSet(Selected)
               PROVE  history[k].at = "fails"
    BY DEF NoHungSheet
  <2>1. Types /\ ChainInv /\ RunInv /\ HandleInv /\ PromiseInv
    BY DEF HInv
  <2>2. seen \in {"requested", "running"} /\ Open
    BY <2>1 DEF ChainInv, Chain, Open
  <2>3. Len(runs) \in Nat
    BY <2>1 DEF Types
  <2>4. handle \in 1..Len(runs) /\ ~runs[handle].aborted /\ runs[handle].at = "over"
    BY <2>1, <2>2, <2>3 DEF HandleInv, Types
  <2>5. \A j \in 1..Len(channel) : FALSE
    OBVIOUS
  <2>6. runs[handle].ok = 0
    BY <2>1, <2>2, <2>4, <2>5 DEF PromiseInv, Promised
  <2>7. Selected \in Seq(ToSet(ALL)) /\ GoodRun(runs[handle], Selected, history)
    BY <2>1, <2>4 DEF Types, RunInv
  <2>8. PICK i \in 1..Len(Selected) : Selected[i] = k
    BY <2>7 DEF ToSet
  <2>9. runs[handle].next > Len(Selected) /\ \A j \in 1..Len(Selected) :
          j < runs[handle].next => history[Selected[j]].at = "fails"
    BY <2>4, <2>6, <2>7 DEF GoodRun
  <2>10. i < runs[handle].next
    <3>1. \E T : runs \in Seq(Run(T))
      BY <2>1 DEF Types
    <3>2. \E T : runs[handle] \in Run(T)
      BY <2>4, <3>1
    <3>3. runs[handle].next \in Nat /\ Len(Selected) \in Nat
      BY <2>7, <3>2 DEF Run
    <3> QED  BY <2>8, <2>9, <3>3
  <2> QED  BY <2>8, <2>9, <2>10
<1> QED  BY <1>1, ImportInvariant, PTL
=============================================================================
