-------------------------- MODULE ChartEdits_proofs --------------------------
(***************************************************************************)
(* Proofs about ChartEdits, for every set of commands, every kind of each, *)
(* batches of any length and every bound, as long as nobody calls          *)
(* cleanupHistory while a command is awaited.                              *)
(*                                                                         *)
(* A batch is followed through the states between its parts, forwards      *)
(* while they run and backwards while they are undone: what makes rollback *)
(* and undo work is that each part, taken back in turn, finds the state it *)
(* left.  What holds of the history between steps is in IInv, what holds   *)
(* of the items is in EInv: which commands are in effect decides what      *)
(* their targets mean.                                                     *)
(***************************************************************************)
EXTENDS ChartEdits, CommandInvoker_proofs, WellFoundedInduction

\* Induction up to n, over a set of numbers.
LEMMA UpTo ==
    ASSUME NEW n \in Nat, NEW T, 0 \in T, \A m \in 0..(n - 1) : m \in T => m + 1 \in T
    PROVE  \A m \in 0..n : m \in T
  <1> DEFINE U == {m \in 0..n : m \notin T}
  <1>1. SUFFICES ASSUME U # {} PROVE FALSE
    OBVIOUS
  <1>2. U \subseteq Nat
    OBVIOUS
  <1>3. PICK x \in U : \A y \in U : ~(<<y, x>> \in OpToRel(<, Nat))
    BY <1>1, <1>2, NatLessThanWellFounded, WFMin
  <1>4. \A y \in U : ~(y < x)
    BY <1>2, <1>3 DEF OpToRel
  <1>5. x \in 0..n /\ x \notin T /\ x # 0
    OBVIOUS
  <1>6. x - 1 \in 0..(n - 1) /\ x - 1 \notin U
    BY <1>4, <1>5
  <1>7. x - 1 \in T
    BY <1>5, <1>6
  <1>8. (x - 1) + 1 \in T
    BY <1>6, <1>7
  <1>9. QED
    BY <1>5, <1>8

\* RunParts is where a run of states ends, one for each part; tlapm sees only that.
LEMMA RunSteps ==
    ASSUME NEW e, NEW b \in Batches, NEW k, NEW stays
    PROVE  \E run :
              /\ run[0] = [state |-> e, ran |-> 0, ok |-> TRUE]
              /\ \A i \in 1..Len(PartsOf[b]) : run[i] = RunPart(run[i - 1], b, k, i, stays)
              /\ RunParts(e, b, k, stays) = run[Len(PartsOf[b])]
  <1> DEFINE n == Len(PartsOf[b])
             start == [state |-> e, ran |-> 0, ok |-> TRUE]
             Is(f, m) == f = [i \in 0..m |-> IF i = 0 THEN start
                                             ELSE RunPart(f[i - 1], b, k, i, stays)]
             T == {m \in 0..n : \E f : Is(f, m)}
  <1>1. n \in Nat
    BY EditsAssumption DEF Batches
  <1>2. 0 \in T
    <2>1. Is([i \in 0..0 |-> start], 0)
      OBVIOUS
    <2> HIDE DEF Is
    <2>2. \E f : Is(f, 0)
      BY <2>1
    <2>3. QED BY <1>1, <2>2
  <1> HIDE DEF start
  <1>3. ASSUME NEW m \in 0..(n - 1), m \in T PROVE m + 1 \in T
    <2>1. PICK f : Is(f, m)
      BY <1>3
    <2> DEFINE g == [i \in 0..(m + 1) |->
                        IF i = m + 1 THEN RunPart(f[m], b, k, m + 1, stays) ELSE f[i]]
    <2>2. ASSUME NEW i \in 0..(m + 1)
          PROVE  g[i] = IF i = 0 THEN start ELSE RunPart(g[i - 1], b, k, i, stays)
      <3> HIDE DEF n
      <3>1. CASE i = m + 1
        BY <1>1, <3>1
      <3>2. CASE i # m + 1
        <4>1. i \in 0..m /\ (i # 0 => i - 1 \in 0..m)
          BY <1>1, <3>2
        <4>2. f[i] = IF i = 0 THEN start ELSE RunPart(f[i - 1], b, k, i, stays)
          BY <2>1, <4>1
        <4>3. g[i] = f[i] /\ (i # 0 => g[i - 1] = f[i - 1])
          BY <1>1, <4>1
        <4>4. QED BY <4>2, <4>3
      <3>3. QED BY <3>1, <3>2
    <2>3. Is(g, m + 1)
      <3>1. g = [i \in 0..(m + 1) |-> g[i]]
        OBVIOUS
      <3> HIDE DEF g, n
      <3>2. QED BY <2>2, <3>1, Zenon
    <2> HIDE DEF Is, g
    <2>4. QED BY <1>1, <2>3
  <1>4. n \in T
    <2> HIDE DEF T, n
    <2>1. \A m \in 0..n : m \in T
      BY <1>1, <1>2, <1>3, UpTo, Zenon
    <2>2. QED BY <1>1, <2>1
  <1> DEFINE r == CHOOSE f : Is(f, n)
  <1>5. Is(r, n)
    <2> HIDE DEF Is
    <2>1. \E f : Is(f, n)
      BY <1>4
    <2>2. QED BY <2>1, Zenon
  <1>6. RunParts(e, b, k, stays) = r[n]
    BY DEF RunParts, start
  <1>7. r[0] = start /\ \A i \in 1..n : r[i] = RunPart(r[i - 1], b, k, i, stays)
    <2> HIDE DEF r, n
    <2>1. \A i \in 0..n : r[i] = IF i = 0 THEN start ELSE RunPart(r[i - 1], b, k, i, stays)
      BY <1>5, Zenon
    <2>2. QED BY <1>1, <2>1
  <1>8. QED
    <2> HIDE DEF r
    <2>1. WITNESS r
    <2>2. QED BY <1>6, <1>7 DEF start

\* u[0..n] are the states between the undos of the first n parts of b.
UndoTrace(e, b, n, stuck, u) ==
    /\ u[0] = e
    /\ \A i \in 1..n : u[i] = UndoPart(u[i - 1], b, n + 1 - i, stuck)

\* UndoParts is where such a run of states ends, too.
LEMMA UndoSteps ==
    ASSUME NEW e, NEW b, NEW n \in Nat, NEW stuck
    PROVE  \E u : UndoTrace(e, b, n, stuck, u) /\ UndoParts(e, b, n, stuck) = u[n]
  <1> DEFINE start == e
             Is(f, m) == f = [i \in 0..m |-> IF i = 0 THEN start
                                             ELSE UndoPart(f[i - 1], b, n + 1 - i, stuck)]
             T == {m \in 0..n : \E f : Is(f, m)}
  <1>1. n \in Nat
    OBVIOUS
  <1>2. 0 \in T
    <2>1. Is([i \in 0..0 |-> start], 0)
      OBVIOUS
    <2> HIDE DEF Is
    <2>2. \E f : Is(f, 0)
      BY <2>1
    <2>3. QED BY <1>1, <2>2
  <1> HIDE DEF start
  <1>3. ASSUME NEW m \in 0..(n - 1), m \in T PROVE m + 1 \in T
    <2>1. PICK f : Is(f, m)
      BY <1>3
    <2> DEFINE g == [i \in 0..(m + 1) |->
                        IF i = m + 1 THEN UndoPart(f[m], b, n + 1 - (m + 1), stuck)
                        ELSE f[i]]
    <2>2. ASSUME NEW i \in 0..(m + 1)
          PROVE  g[i] = IF i = 0 THEN start ELSE UndoPart(g[i - 1], b, n + 1 - i, stuck)
      <3>1. CASE i = m + 1
        BY <1>1, <3>1
      <3>2. CASE i # m + 1
        <4>1. i \in 0..m /\ (i # 0 => i - 1 \in 0..m)
          BY <1>1, <3>2
        <4>2. f[i] = IF i = 0 THEN start ELSE UndoPart(f[i - 1], b, n + 1 - i, stuck)
          BY <2>1, <4>1
        <4>3. g[i] = f[i] /\ (i # 0 => g[i - 1] = f[i - 1])
          BY <1>1, <4>1
        <4>4. QED BY <4>2, <4>3
      <3>3. QED BY <3>1, <3>2
    <2>3. Is(g, m + 1)
      <3>1. g = [i \in 0..(m + 1) |-> g[i]]
        OBVIOUS
      <3> HIDE DEF g
      <3>2. QED BY <2>2, <3>1, Zenon
    <2> HIDE DEF Is, g
    <2>4. QED BY <1>1, <2>3
  <1>4. n \in T
    <2> HIDE DEF T
    <2>1. \A m \in 0..n : m \in T
      BY <1>1, <1>2, <1>3, UpTo, Zenon
    <2>2. QED BY <1>1, <2>1
  <1> DEFINE r == CHOOSE f : Is(f, n)
  <1>5. Is(r, n)
    <2> HIDE DEF Is
    <2>1. \E f : Is(f, n)
      BY <1>4
    <2>2. QED BY <2>1, Zenon
  <1>6. UndoParts(e, b, n, stuck) = r[n]
    BY DEF UndoParts, start
  <1>7. r[0] = start /\ \A i \in 1..n : r[i] = UndoPart(r[i - 1], b, n + 1 - i, stuck)
    <2> HIDE DEF r
    <2>1. \A i \in 0..n : r[i] = IF i = 0 THEN start ELSE UndoPart(r[i - 1], b, n + 1 - i, stuck)
      BY <1>5, Zenon
    <2>2. QED BY <1>1, <2>1
  <1>8. QED
    <2> HIDE DEF r
    <2>1. WITNESS r
    <2>2. QED BY <1>6, <1>7 DEF start, UndoTrace

-----------------------------------------------------------------------------
(***************************************************************************)
(* What a command does to the state it works on.  Every item but the       *)
(* settings is the last one its create has made, so that a create has at   *)
(* most one item, and its undo finds it.                                   *)
(***************************************************************************)
Single == Commands \ Batches

LastMade(e, i) ==
    /\ i[1] \in Commands /\ KindOf[i[1]] = "create"
    /\ i = CreatedId(e, i[1]) /\ e.made[i[1]] \in 1..MaxMade

Good(e) ==
    /\ e = [chart |-> e.chart, memo |-> e.memo, made |-> e.made, twice |-> e.twice]
    /\ e.twice \in BOOLEAN
    /\ e.chart = [i \in DOMAIN e.chart |-> e.chart[i]]
    /\ Settings \in DOMAIN e.chart
    /\ \A i \in DOMAIN e.chart : e.chart[i] \in Commands \cup {None}
    /\ e.memo \in [Commands -> Commands \cup {None}]
    /\ e.made \in [Commands -> 0..MaxMade]
    /\ \A i \in DOMAIN e.chart \ {Settings} : LastMade(e, i)

NoItemOf(e, c) == \A i \in DOMAIN e.chart : i[1] # c

\* An update or a delete names an item of a create, a change of the settings them.
Aimed(c) ==
    /\ target[c] \in Ids
    /\ IF Pointing(c) THEN target[c] # Settings ELSE target[c] = Settings

\* What is executed makes an item with a new id, or changes one that is there.
LEMMA ExecuteGood ==
    ASSUME NEW e, Good(e), NEW c \in Single,
           Valid(e.chart, c), Aimed(c), e.made[c] < MaxMade,
           KindOf[c] = "create" => NoItemOf(e, c),
           NEW stays, NEW f, f = ExecuteOne(e, c, stays)
    PROVE  /\ Good(f)
           /\ f.made = [e.made EXCEPT ![c] = @ + 1]
           /\ \A p \in Commands \ {c} : f.memo[p] = e.memo[p]
           /\ KindOf[c] = "create" => DOMAIN f.chart = DOMAIN e.chart \cup {NextId(e, c)}
           /\ KindOf[c] \in {"update", "set"} => DOMAIN f.chart = DOMAIN e.chart
           /\ KindOf[c] \in {"delete", "remove"} =>
                 DOMAIN f.chart = DOMAIN e.chart \ (IF c \in stays THEN {} ELSE {target[c]})
           /\ KindOf[c] # "create" => target[c] \in DOMAIN e.chart
           /\ f.twice = e.twice
  <1>1. KindOf[c] \in {"create", "update", "delete", "remove", "set"} /\ c \in Commands /\ c # None
    BY EditsAssumption, InvokerAssumption DEF Single, Batches, Kinds
  <1>2. /\ e.made \in [Commands -> 0..MaxMade] /\ e.memo \in [Commands -> Commands \cup {None}]
        /\ Settings \in DOMAIN e.chart /\ MaxMade \in Nat
    BY EditsAssumption DEF Good
  <1>3. e.made[c] \in 0..MaxMade /\ e.made[c] + 1 \in 1..MaxMade
    BY <1>1, <1>2
  <1> DEFINE m == [e.made EXCEPT ![c] = @ + 1]
  <1>4. m \in [Commands -> 0..MaxMade] /\ m[c] = e.made[c] + 1
        /\ \A p \in Commands \ {c} : m[p] = e.made[p]
    BY <1>1, <1>2, <1>3
  <1> HIDE DEF m
  <1>5. CASE KindOf[c] = "create"
    <2>1. f = [chart |-> Put(e.chart, NextId(e, c), c), memo |-> e.memo, made |-> m,
              twice |-> e.twice]
      BY <1>5 DEF ExecuteOne, Create, Counted, m
    <2>2. /\ f.chart = Put(e.chart, NextId(e, c), c) /\ f.memo = e.memo /\ f.made = m
          /\ DOMAIN f.chart = DOMAIN e.chart \cup {NextId(e, c)}
      BY <2>1 DEF Put
    <2>3. \A i \in DOMAIN f.chart \ {Settings} : LastMade(f, i)
      <3>1. LastMade(f, NextId(e, c))
        BY <1>1, <1>3, <1>4, <1>5, <2>2 DEF LastMade, NextId, CreatedId
      <3>2. ASSUME NEW i \in DOMAIN e.chart \ {Settings} PROVE LastMade(f, i)
        <4>1. LastMade(e, i) /\ i[1] # c
          BY <1>5, <3>2 DEF Good, NoItemOf
        <4>2. QED BY <1>4, <2>2, <4>1 DEF LastMade, CreatedId
      <3>3. QED BY <2>2, <3>1, <3>2
    <2>4. \A i \in DOMAIN f.chart : f.chart[i] \in Commands \cup {None}
      BY <1>1, <2>2 DEF Put, Good
    <2>5. /\ f = [chart |-> f.chart, memo |-> f.memo, made |-> f.made, twice |-> f.twice]
          /\ f.chart = [i \in DOMAIN f.chart |-> f.chart[i]]
          /\ f.twice = e.twice
      BY <2>1 DEF Put
    <2>6. QED BY <1>2, <1>4, <1>5, <2>2, <2>3, <2>4, <2>5 DEF Good, m
  <1>6. ASSUME KindOf[c] # "create"
        PROVE  /\ target[c] \in DOMAIN e.chart
               /\ Captured(e, c) \in [Commands -> Commands \cup {None}]
               /\ \A p \in Commands \ {c} : Captured(e, c)[p] = e.memo[p]
               /\ \A g : g.made = m /\ DOMAIN g.chart \subseteq DOMAIN e.chart
                            => \A i \in DOMAIN g.chart \ {Settings} : LastMade(g, i)
    <2>1. target[c] \in DOMAIN e.chart
      BY <1>1, <1>2, <1>6 DEF Valid, Aimed, Pointing
    <2>2. e.chart[target[c]] \in Commands \cup {None}
      BY <2>1 DEF Good
    <2>3. ASSUME NEW g, g.made = m, DOMAIN g.chart \subseteq DOMAIN e.chart,
                 NEW i \in DOMAIN g.chart \ {Settings}
          PROVE  LastMade(g, i)
      <3>1. LastMade(e, i)
        BY <2>3 DEF Good
      <3>2. QED BY <1>4, <1>6, <2>3, <3>1 DEF LastMade, CreatedId
    <2>4. /\ Captured(e, c) \in [Commands -> Commands \cup {None}]
          /\ \A p \in Commands \ {c} : Captured(e, c)[p] = e.memo[p]
      BY <1>1, <1>2, <2>2 DEF Captured
    <2>5. QED BY <2>1, <2>3, <2>4
  <1>7. CASE KindOf[c] \in {"update", "set"}
    <2>1. f = [chart |-> Put(e.chart, target[c], c), memo |-> Captured(e, c), made |-> m,
              twice |-> e.twice]
      BY <1>7 DEF ExecuteOne, Overwrite, Counted, m
    <2>2. /\ f.chart = Put(e.chart, target[c], c) /\ f.memo = Captured(e, c) /\ f.made = m
          /\ DOMAIN f.chart = DOMAIN e.chart
      BY <1>6, <1>7, <2>1 DEF Put
    <2>3. \A i \in DOMAIN f.chart \ {Settings} : LastMade(f, i)
      BY <1>6, <1>7, <2>2
    <2>4. \A i \in DOMAIN f.chart : f.chart[i] \in Commands \cup {None}
      BY <1>1, <2>2 DEF Put, Good
    <2>5. /\ f = [chart |-> f.chart, memo |-> f.memo, made |-> f.made, twice |-> f.twice]
          /\ f.chart = [i \in DOMAIN f.chart |-> f.chart[i]]
          /\ f.twice = e.twice
      BY <2>1 DEF Put
    <2>6. QED BY <1>2, <1>4, <1>6, <1>7, <2>2, <2>3, <2>4, <2>5 DEF Good, m
  <1>8. CASE KindOf[c] \in {"delete", "remove"}
    <2> DEFINE d == IF c \in stays THEN e.chart ELSE Drop(e.chart, target[c])
    <2>1. f = [chart |-> d, memo |-> Captured(e, c), made |-> m, twice |-> e.twice]
      BY <1>8 DEF ExecuteOne, Delete, Counted, m
    <2>0. /\ DOMAIN d = DOMAIN e.chart \ (IF c \in stays THEN {} ELSE {target[c]})
          /\ d = [i \in DOMAIN d |-> d[i]]
          /\ \A i \in DOMAIN d : d[i] = e.chart[i]
      BY DEF Drop, Good
    <2> HIDE DEF d
    <2>2. /\ f.chart = d /\ f.memo = Captured(e, c) /\ f.made = m /\ f.twice = e.twice
          /\ DOMAIN f.chart = DOMAIN e.chart \ (IF c \in stays THEN {} ELSE {target[c]})
      BY <2>0, <2>1
    <2>3. \A i \in DOMAIN f.chart \ {Settings} : LastMade(f, i)
      BY <1>6, <1>8, <2>2
    <2>4. \A i \in DOMAIN f.chart : f.chart[i] \in Commands \cup {None}
      BY <2>0, <2>2 DEF Good
    <2>5. /\ f = [chart |-> f.chart, memo |-> f.memo, made |-> f.made, twice |-> f.twice]
          /\ f.chart = [i \in DOMAIN f.chart |-> f.chart[i]]
      BY <2>0, <2>1, <2>2
    <2>6. target[c] # Settings
      BY <1>8 DEF Aimed, Pointing
    <2>7. QED BY <1>2, <1>4, <1>6, <1>8, <2>2, <2>3, <2>4, <2>5, <2>6 DEF Good, m
  <1>9. QED BY <1>1, <1>5, <1>7, <1>8

\* What is undone brings back at most the item a delete has taken.
LEMMA UndoGood ==
    ASSUME NEW e, Good(e), NEW c \in Single, Aimed(c),
           KindOf[c] \in {"delete", "remove"} => LastMade(e, target[c]),
           NEW f, f = UndoOne(e, c)
    PROVE  /\ Good(f)
           /\ f.made = e.made /\ f.memo = e.memo
           /\ KindOf[c] = "create" => DOMAIN f.chart = DOMAIN e.chart \ {CreatedId(e, c)}
           /\ KindOf[c] \in {"update", "set"} => DOMAIN f.chart = DOMAIN e.chart
           /\ KindOf[c] \in {"delete", "remove"} => DOMAIN f.chart = DOMAIN e.chart \cup {target[c]}
           /\ f.twice = (e.twice \/ (KindOf[c] \in {"delete", "remove"}
                                        /\ target[c] \in DOMAIN e.chart))
  <1>1. KindOf[c] \in {"create", "update", "delete", "remove", "set"} /\ c \in Commands /\ c # None
    BY EditsAssumption, InvokerAssumption DEF Single, Batches, Kinds
  <1>2. /\ Settings \in DOMAIN e.chart
        /\ e.memo[c] \in Commands \cup {None}
        /\ \A d : [e EXCEPT !.chart = d] =
                    [chart |-> d, memo |-> e.memo, made |-> e.made, twice |-> e.twice]
        /\ e.twice \in BOOLEAN
    <2>1. e = [chart |-> e.chart, memo |-> e.memo, made |-> e.made, twice |-> e.twice]
      BY DEF Good
    <2>2. ASSUME NEW d
          PROVE  [e EXCEPT !.chart = d] =
                    [chart |-> d, memo |-> e.memo, made |-> e.made, twice |-> e.twice]
      BY <2>1
    <2>3. QED BY <1>1, <2>2 DEF Good
  <1>3. ASSUME NEW d, NEW t \in BOOLEAN,
               f = [chart |-> d, memo |-> e.memo, made |-> e.made, twice |-> t],
               d = [i \in DOMAIN d |-> d[i]],
               Settings \in DOMAIN d,
               \A i \in DOMAIN d : d[i] \in Commands \cup {None},
               \A i \in DOMAIN d \ {Settings} : LastMade(e, i)
        PROVE  Good(f) /\ f.made = e.made /\ f.memo = e.memo /\ f.chart = d /\ f.twice = t
    <2>2. f.made = e.made /\ f.memo = e.memo /\ f.chart = d /\ f.twice = t
      BY <1>3
    <2>3. \A i \in DOMAIN d \ {Settings} : LastMade(f, i)
      BY <1>3, <2>2 DEF LastMade, CreatedId
    <2>4. QED BY <1>3, <2>2, <2>3 DEF Good
  <1>4. CASE KindOf[c] = "create"
    <2> DEFINE d == Drop(e.chart, CreatedId(e, c))
    <2>1. f = [chart |-> d, memo |-> e.memo, made |-> e.made, twice |-> e.twice]
      BY <1>2, <1>4 DEF UndoOne
    <2>2. CreatedId(e, c) # Settings
      BY <1>1 DEF CreatedId, Settings
    <2>3. /\ DOMAIN d = DOMAIN e.chart \ {CreatedId(e, c)}
          /\ \A i \in DOMAIN d : d[i] = e.chart[i]
          /\ d = [i \in DOMAIN d |-> d[i]]
      BY DEF Drop
    <2> HIDE DEF d
    <2>4. Good(f) /\ f.made = e.made /\ f.memo = e.memo /\ f.chart = d /\ f.twice = e.twice
      BY <1>2, <1>3, <2>1, <2>2, <2>3 DEF Good
    <2>5. f.twice = (e.twice \/ (KindOf[c] \in {"delete", "remove"}
                                   /\ target[c] \in DOMAIN e.chart))
      <3>1. ~(KindOf[c] \in {"delete", "remove"})
        BY <1>4
      <3>2. QED BY <1>2, <2>4, <3>1
    <2>6. QED BY <1>4, <2>3, <2>4, <2>5
  <1>5. CASE KindOf[c] \in {"update", "set"} /\ target[c] \notin DOMAIN e.chart
    BY <1>2, <1>5 DEF UndoOne
  <1>6. CASE \/ KindOf[c] \in {"delete", "remove"}
             \/ KindOf[c] \in {"update", "set"} /\ target[c] \in DOMAIN e.chart
    <2> DEFINE d == Put(e.chart, target[c], e.memo[c])
               t == e.twice \/ (KindOf[c] \in {"delete", "remove"}
                                   /\ target[c] \in DOMAIN e.chart)
    <2>0. t \in BOOLEAN
      OBVIOUS
    <2>1. f = [chart |-> d, memo |-> e.memo, made |-> e.made, twice |-> t]
      <3>1. CASE KindOf[c] \in {"delete", "remove"}
        <4>1. f = [chart |-> d, memo |-> e.memo, made |-> e.made,
                   twice |-> e.twice \/ target[c] \in DOMAIN e.chart]
          BY <3>1 DEF UndoOne, AddBack
        <4>2. (e.twice \/ target[c] \in DOMAIN e.chart) = t
          BY <3>1
        <4> HIDE DEF t, d
        <4>3. QED BY <4>1, <4>2
      <3>2. CASE KindOf[c] \in {"update", "set"} /\ target[c] \in DOMAIN e.chart
        <4>1. f = [e EXCEPT !.chart = d]
          BY <3>2 DEF UndoOne
        <4>2. t = e.twice
          <5>1. ~(KindOf[c] \in {"delete", "remove"})
            BY <3>2
          <5>2. QED BY <1>2, <5>1
        <4> HIDE DEF t, d
        <4>3. f = [chart |-> d, memo |-> e.memo, made |-> e.made, twice |-> e.twice]
          BY <1>2, <4>1
        <4>4. QED BY <4>2, <4>3
      <3>3. QED BY <1>6, <3>1, <3>2
    <2>2. /\ DOMAIN d = DOMAIN e.chart \cup {target[c]}
          /\ \A i \in DOMAIN d : d[i] = IF i = target[c] THEN e.memo[c] ELSE e.chart[i]
          /\ d = [i \in DOMAIN d |-> d[i]]
      BY DEF Put
    <2> HIDE DEF d, t
    <2>3. \A i \in DOMAIN d \ {Settings} : LastMade(e, i)
      BY <1>6, <2>2 DEF Good
    <2>4. Settings \in DOMAIN d /\ \A i \in DOMAIN d : d[i] \in Commands \cup {None}
      BY <1>2, <2>2 DEF Good
    <2>5. Good(f) /\ f.made = e.made /\ f.memo = e.memo /\ f.chart = d /\ f.twice = t
      BY <1>3, <2>0, <2>1, <2>2, <2>3, <2>4
    <2>6. QED BY <1>6, <2>2, <2>5 DEF t
  <1>7. QED BY <1>1, <1>4, <1>5, <1>6

\* Writing an item and then its old value back gives the chart of before.
LEMMA PutBack ==
    ASSUME NEW d, d = [j \in DOMAIN d |-> d[j]], NEW i, NEW v
    PROVE  /\ i \notin DOMAIN d => Drop(Put(d, i, v), i) = d
           /\ i \in DOMAIN d => /\ Put(Put(d, i, v), i, d[i]) = d
                                /\ Put(d, i, d[i]) = d
                                /\ Put(Drop(d, i), i, d[i]) = d
  <1> DEFINE p == Put(d, i, v)
             q == Drop(d, i)
  <1>1. DOMAIN p = DOMAIN d \cup {i} /\ \A j \in DOMAIN d \ {i} : p[j] = d[j]
    BY DEF Put
  <1>2. DOMAIN q = DOMAIN d \ {i} /\ \A j \in DOMAIN d \ {i} : q[j] = d[j]
    BY DEF Drop
  <1> HIDE DEF p, q
  <1>3. ASSUME i \notin DOMAIN d PROVE Drop(p, i) = d
    <2>1. Drop(p, i) = [j \in DOMAIN d |-> d[j]]
      BY <1>1, <1>3 DEF Drop
    <2>2. QED BY <2>1
  <1>4. ASSUME i \in DOMAIN d PROVE Put(p, i, d[i]) = d
    <2>1. Put(p, i, d[i]) = [j \in DOMAIN d |-> d[j]]
      BY <1>1, <1>4 DEF Put
    <2>2. QED BY <2>1
  <1>5. ASSUME i \in DOMAIN d PROVE Put(q, i, d[i]) = d
    <2>1. Put(q, i, d[i]) = [j \in DOMAIN d |-> d[j]]
      BY <1>2, <1>5 DEF Put
    <2>2. QED BY <2>1
  <1>6. ASSUME i \in DOMAIN d PROVE Put(d, i, d[i]) = d
    <2>1. Put(d, i, d[i]) = [j \in DOMAIN d |-> d[j]]
      BY <1>6 DEF Put
    <2>2. QED BY <2>1
  <1>7. QED BY <1>3, <1>4, <1>5, <1>6 DEF p, q

\* Undoing what was just executed gives the chart back, id by id, wherever the
\* other commands have gone since.
LEMMA UndoExecute ==
    ASSUME NEW e, Good(e), NEW c \in Single,
           Valid(e.chart, c), Aimed(c), e.made[c] < MaxMade,
           KindOf[c] = "create" => NoItemOf(e, c),
           NEW stays, NEW f, f = ExecuteOne(e, c, stays),
           NEW g, Good(g), g.chart = f.chart, g.memo[c] = f.memo[c], g.made[c] = f.made[c]
    PROVE  UndoOne(g, c).chart = e.chart
  <1>1. KindOf[c] \in {"create", "update", "delete", "remove", "set"} /\ c \in Commands
    BY EditsAssumption DEF Single, Batches, Kinds
  <1>2. /\ e.chart = [i \in DOMAIN e.chart |-> e.chart[i]]
        /\ e.made \in [Commands -> 0..MaxMade] /\ e.memo \in [Commands -> Commands \cup {None}]
        /\ g = [chart |-> g.chart, memo |-> g.memo, made |-> g.made, twice |-> g.twice]
    BY DEF Good
  <1>3. \A d : [g EXCEPT !.chart = d].chart = d
    <2> SUFFICES ASSUME NEW d PROVE [g EXCEPT !.chart = d].chart = d
      OBVIOUS
    <2>1. QED BY <1>2
  <1>4. KindOf[c] # "create" => target[c] \in DOMAIN e.chart
    BY <1>1, <1>2 DEF Valid, Aimed, Pointing, Good
  <1>5. CASE KindOf[c] = "create"
    <2>1. f.chart = Put(e.chart, NextId(e, c), c) /\ f.made[c] = e.made[c] + 1
      BY <1>1, <1>2, <1>5 DEF ExecuteOne, Create, Counted
    <2>2. CreatedId(g, c) = NextId(e, c)
      BY <2>1 DEF CreatedId, NextId
    <2>3. NextId(e, c) \notin DOMAIN e.chart
      BY <1>5 DEF NoItemOf, NextId
    <2>4. Drop(Put(e.chart, NextId(e, c), c), NextId(e, c)) = e.chart
      BY <1>2, <2>3, PutBack
    <2>5. UndoOne(g, c).chart = Drop(g.chart, CreatedId(g, c))
      BY <1>3, <1>5 DEF UndoOne
    <2>6. QED BY <2>1, <2>2, <2>4, <2>5
  <1>6. CASE KindOf[c] \in {"update", "set"}
    <2>1. f.chart = Put(e.chart, target[c], c) /\ f.memo[c] = e.chart[target[c]]
      BY <1>1, <1>2, <1>6 DEF ExecuteOne, Overwrite, Captured
    <2>2. Put(Put(e.chart, target[c], c), target[c], e.chart[target[c]]) = e.chart
      BY <1>2, <1>4, <1>6, PutBack
    <2>3. target[c] \in DOMAIN g.chart
      BY <2>1 DEF Put
    <2>4. UndoOne(g, c).chart = Put(g.chart, target[c], g.memo[c])
      BY <1>3, <1>6, <2>3 DEF UndoOne
    <2>5. QED BY <2>1, <2>2, <2>4
  <1>7. CASE KindOf[c] \in {"delete", "remove"}
    <2>1. /\ f.chart = IF c \in stays THEN e.chart ELSE Drop(e.chart, target[c])
          /\ f.memo[c] = e.chart[target[c]]
      BY <1>1, <1>2, <1>7 DEF ExecuteOne, Delete, Captured
    <2>2. /\ Put(Drop(e.chart, target[c]), target[c], e.chart[target[c]]) = e.chart
          /\ Put(e.chart, target[c], e.chart[target[c]]) = e.chart
      BY <1>2, <1>4, <1>7, PutBack
    <2>3. UndoOne(g, c).chart = Put(g.chart, target[c], g.memo[c])
      BY <1>3, <1>7 DEF UndoOne, AddBack
    <2>4. QED BY <2>1, <2>2, <2>3
  <1>8. QED BY <1>1, <1>5, <1>6, <1>7

-----------------------------------------------------------------------------
(***************************************************************************)
(* Batches.  s[0..m] are the states between the first m parts of b.        *)
(***************************************************************************)
Trace(e, b, m, s, stays) ==
    /\ s[0] = e
    /\ \A i \in 1..m : /\ Valid(s[i - 1].chart, PartsOf[b][i])
                       /\ s[i] = ExecuteOne(s[i - 1], PartsOf[b][i], stays)

\* The parts of a batch are single commands, each in one place.
LEMMA Parts ==
    ASSUME NEW b \in Batches
    PROVE  /\ Len(PartsOf[b]) \in Nat /\ DOMAIN PartsOf[b] = 1..Len(PartsOf[b])
           /\ \A i \in 1..Len(PartsOf[b]) : /\ PartsOf[b][i] \in Single
                                            /\ PartsOf[b][i] \in Leaves(b)
           /\ \A i, j \in 1..Len(PartsOf[b]) : PartsOf[b][i] = PartsOf[b][j] => i = j
           /\ \A p \in Leaves(b) : \E i \in 1..Len(PartsOf[b]) : p = PartsOf[b][i]
  <1>1. PartsOf[b] \in Seq(Single)
    BY EditsAssumption DEF Batches, Single
  <1>2. /\ Len(PartsOf[b]) \in Nat /\ DOMAIN PartsOf[b] = 1..Len(PartsOf[b])
        /\ \A i \in 1..Len(PartsOf[b]) : PartsOf[b][i] \in Single
    BY <1>1
  <1>3. \A i, j \in 1..Len(PartsOf[b]) : PartsOf[b][i] = PartsOf[b][j] => i = j
    BY <1>2, EditsAssumption
  <1>4. QED BY <1>2, <1>3 DEF Leaves

\* A run of the parts goes through the first ones, all of them if it is ok.
LEMMA RunTrace ==
    ASSUME NEW e, NEW b \in Batches, NEW k, NEW stays,
           NEW run, run = RunParts(e, b, k, stays)
    PROVE  /\ run.ran \in 0..Len(PartsOf[b]) /\ run.ok \in BOOLEAN
           /\ run.ok => run.ran = Len(PartsOf[b])
           /\ \E s : Trace(e, b, run.ran, s, stays) /\ run.state = s[run.ran]
  <1> DEFINE n == Len(PartsOf[b])
  <1>1. n \in Nat
    BY Parts
  <1>2. PICK r : /\ r[0] = [state |-> e, ran |-> 0, ok |-> TRUE]
                 /\ \A i \in 1..Len(PartsOf[b]) : r[i] = RunPart(r[i - 1], b, k, i, stays)
                 /\ RunParts(e, b, k, stays) = r[Len(PartsOf[b])]
    BY RunSteps
  <1> DEFINE Upto(i) == \A j \in 1..i : /\ Valid(r[j - 1].state.chart, PartsOf[b][j])
                                        /\ r[j].state = ExecuteOne(r[j - 1].state, PartsOf[b][j], stays)
             Ran(i) == /\ r[i] = [state |-> r[i].state, ran |-> r[i].ran, ok |-> r[i].ok]
                       /\ r[i].ok \in BOOLEAN /\ r[i].ran \in 0..i
                       /\ r[i].ok => r[i].ran = i
                       /\ r[i].state = r[r[i].ran].state
                       /\ Upto(r[i].ran)
             T == {i \in 0..n : Ran(i)}
  <1> HIDE DEF n
  <1>3. 0 \in T
    <2>1. r[0].state = e /\ r[0].ran = 0 /\ r[0].ok = TRUE
      BY <1>2
    <2>2. Upto(0)
      OBVIOUS
    <2> HIDE DEF Upto
    <2>3. Ran(0)
      BY <1>2, <2>1, <2>2
    <2>4. QED BY <1>1, <2>3
  <1>4. ASSUME NEW i \in 0..(n - 1), i \in T PROVE i + 1 \in T
    <2>1. Ran(i)
      BY <1>4
    <2>2. r[i + 1] = RunPart(r[i], b, k, i + 1, stays) /\ i + 1 \in 1..n /\ i \in Nat
      <3>1. i + 1 \in 1..n /\ i \in Nat /\ (i + 1) - 1 = i
        BY <1>1
      <3>2. r[i + 1] = RunPart(r[(i + 1) - 1], b, k, i + 1, stays)
        BY <1>2, <3>1 DEF n
      <3>3. QED BY <3>1, <3>2
    <2>3. CASE r[i].ok /\ i + 1 # k /\ Valid(r[i].state.chart, PartsOf[b][i + 1])
      <3>1. r[i + 1] = [state |-> ExecuteOne(r[i].state, PartsOf[b][i + 1], stays),
                        ran |-> i + 1, ok |-> TRUE]
        BY <2>2, <2>3 DEF RunPart
      <3>2. Upto(i)
        BY <2>1, <2>3
      <3>3. Upto(i + 1)
        <4>1. ASSUME NEW j \in 1..(i + 1)
              PROVE  /\ Valid(r[j - 1].state.chart, PartsOf[b][j])
                     /\ r[j].state = ExecuteOne(r[j - 1].state, PartsOf[b][j], stays)
          <5>1. CASE j = i + 1
            BY <2>2, <2>3, <3>1, <5>1
          <5>2. CASE j # i + 1
            BY <2>2, <3>2, <5>2
          <5>3. QED BY <5>1, <5>2
        <4>2. QED BY <4>1
      <3>4. /\ r[i + 1].ran = i + 1 /\ r[i + 1].ok = TRUE
            /\ r[i + 1].state = ExecuteOne(r[i].state, PartsOf[b][i + 1], stays)
        BY <3>1
      <3> HIDE DEF Upto
      <3>5. Ran(i + 1)
        <4>1. r[i + 1] = [state |-> r[i + 1].state, ran |-> r[i + 1].ran, ok |-> r[i + 1].ok]
          BY <3>1, <3>4
        <4>2. Upto(r[i + 1].ran)
          BY <3>3, <3>4, Zenon
        <4>3. r[i + 1].ran \in 0..(i + 1) /\ r[i + 1].state = r[r[i + 1].ran].state
          BY <2>2, <3>4
        <4>4. QED BY <3>4, <4>1, <4>2, <4>3, Zenon
      <3>6. QED BY <2>2, <3>5
    <2>4. CASE ~(r[i].ok /\ i + 1 # k /\ Valid(r[i].state.chart, PartsOf[b][i + 1]))
      <3>1. r[i + 1] = [r[i] EXCEPT !.ok = FALSE]
        BY <2>2, <2>4 DEF RunPart
      <3>2. r[i + 1] = [state |-> r[i].state, ran |-> r[i].ran, ok |-> FALSE]
        BY <2>1, <3>1
      <3>3. /\ r[i + 1].ran = r[i].ran /\ r[i + 1].ok = FALSE
            /\ r[i + 1].state = r[i].state
        BY <3>2
      <3> HIDE DEF Upto
      <3>4. Ran(i + 1)
        <4>1. r[i + 1] = [state |-> r[i + 1].state, ran |-> r[i + 1].ran, ok |-> r[i + 1].ok]
          BY <3>2, <3>3
        <4>2. Upto(r[i + 1].ran)
          BY <2>1, <3>3, Zenon
        <4>3. r[i + 1].ran \in 0..(i + 1) /\ r[i + 1].state = r[r[i + 1].ran].state
          BY <2>1, <2>2, <3>3
        <4>4. QED BY <3>3, <4>1, <4>2, <4>3, Zenon
      <3>5. QED BY <2>2, <3>4
    <2>5. QED BY <2>3, <2>4
  <1>5. Ran(n)
    <2> HIDE DEF Ran
    <2>1. \A i \in 0..n : i \in T
      <3> HIDE DEF T
      <3>1. QED BY <1>1, <1>3, <1>4, UpTo, Zenon
    <2>2. QED BY <1>1, <2>1
  <1>6. run = r[n]
    BY <1>2 DEF n
  <1>7. run.ran \in 0..n
    BY <1>5, <1>6
  <1> DEFINE s == [i \in 0..n |-> r[i].state]
  <1>8. Trace(e, b, run.ran, s, stays)
    <2>1. s[0] = e
      BY <1>1, <1>2
    <2>2. ASSUME NEW i \in 1..run.ran
          PROVE  /\ Valid(s[i - 1].chart, PartsOf[b][i])
                 /\ s[i] = ExecuteOne(s[i - 1], PartsOf[b][i], stays)
      <3>1. i \in 0..n /\ i - 1 \in 0..n
        BY <1>1, <1>7
      <3>2. s[i] = r[i].state /\ s[i - 1] = r[i - 1].state
        BY <3>1
      <3>3. QED BY <1>5, <1>6, <3>2
    <2> HIDE DEF s
    <2>3. QED BY <2>1, <2>2 DEF Trace
  <1>9. run.state = s[run.ran]
    BY <1>5, <1>6, <1>7
  <1> HIDE DEF s
  <1>10. QED BY <1>5, <1>6, <1>7, <1>8, <1>9 DEF n

(***************************************************************************)
(* What c may be executed on: the ids its updates and deletes were made    *)
(* with are of items of other commands, and its creates have no item yet.  *)
(***************************************************************************)
Ready(e, c) ==
    \A p \in Leaves(c) : /\ p \in Single /\ Aimed(p) /\ e.made[p] < MaxMade
                         /\ KindOf[p] = "create" => NoItemOf(e, p)
                         /\ Pointing(p) => target[p][1] \notin Leaves(c)

\* Every state of such a run is good, and only the parts that have run have changed it.
LEMMA TraceGood ==
    ASSUME NEW e, Good(e), NEW b \in Batches,
           Ready(e, b), NEW m \in 0..Len(PartsOf[b]), NEW stays, NEW s, Trace(e, b, m, s, stays)
    PROVE  \A i \in 0..m :
              /\ Good(s[i]) /\ s[i].twice = e.twice
              /\ \A p \in Commands : (\A j \in 1..i : PartsOf[b][j] # p) =>
                    s[i].made[p] = e.made[p] /\ s[i].memo[p] = e.memo[p]
              /\ \A p \in Commands : s[i].made[p] >= e.made[p]
              /\ \A x \in DOMAIN s[i].chart :
                    x \in DOMAIN e.chart \/ \E j \in 1..i : x[1] = PartsOf[b][j]
              /\ \A j \in 1..i : LET p == PartsOf[b][j] IN
                    /\ Pointing(p) => target[p] \in DOMAIN e.chart
                    /\ s[i].made[p] = s[j].made[p] /\ s[i].memo[p] = s[j].memo[p]
  <1> DEFINE Same(i) == \A p \in Commands : (\A j \in 1..i : PartsOf[b][j] # p) =>
                           s[i].made[p] = e.made[p] /\ s[i].memo[p] = e.memo[p]
             Items(i) == \A x \in DOMAIN s[i].chart :
                            x \in DOMAIN e.chart \/ \E j \in 1..i : x[1] = PartsOf[b][j]
             Finished(i) == \A j \in 1..i :
                              /\ Pointing(PartsOf[b][j]) => target[PartsOf[b][j]] \in DOMAIN e.chart
                              /\ s[i].made[PartsOf[b][j]] = s[j].made[PartsOf[b][j]]
                              /\ s[i].memo[PartsOf[b][j]] = s[j].memo[PartsOf[b][j]]
             More(i) == \A p \in Commands : s[i].made[p] >= e.made[p]
             Kept(i) == Good(s[i]) /\ s[i].twice = e.twice /\ Same(i) /\ More(i) /\ Items(i) /\ Finished(i)
             T == {i \in 0..m : Kept(i)}
  <1>0. m \in Nat /\ \A i \in 1..m : i \in 1..Len(PartsOf[b])
    BY Parts
  <1>1. 0 \in T
    <2>1. e.made \in [Commands -> 0..MaxMade] /\ MaxMade \in Nat
      BY EditsAssumption DEF Good
    <2>2. Same(0) /\ More(0) /\ Items(0) /\ Finished(0)
      BY <2>1 DEF Trace
    <2> HIDE DEF Same, More, Items, Finished
    <2>3. QED BY <1>0, <2>2 DEF Trace
  <1>2. ASSUME NEW i \in 0..(m - 1), i \in T PROVE i + 1 \in T
    <2> DEFINE c == PartsOf[b][i + 1]
    <2>1. Good(s[i]) /\ s[i].twice = e.twice /\ Same(i) /\ More(i) /\ Items(i) /\ Finished(i) /\ i \in Nat /\ i + 1 \in 1..m
      BY <1>0, <1>2
    <2>2. Valid(s[i].chart, c) /\ s[i + 1] = ExecuteOne(s[i], c, stays)
      <3>1. (i + 1) - 1 = i
        BY <2>1
      <3>2. /\ Valid(s[(i + 1) - 1].chart, c)
            /\ s[i + 1] = ExecuteOne(s[(i + 1) - 1], c, stays)
        BY <2>1 DEF Trace
      <3>3. QED BY <3>1, <3>2
    <2>3. /\ c \in Single /\ c \in Leaves(b) /\ c \in Commands
          /\ \A j \in 1..i : PartsOf[b][j] # c /\ PartsOf[b][j] \in Leaves(b)
                             /\ PartsOf[b][j] \in Commands
      BY <1>0, <2>1, Parts DEF Single
    <2> HIDE DEF c
    <2>4. /\ Aimed(c) /\ s[i].made[c] < MaxMade
          /\ KindOf[c] = "create" => NoItemOf(s[i], c)
      <3>1. /\ Aimed(c) /\ e.made[c] < MaxMade
            /\ KindOf[c] = "create" => NoItemOf(e, c)
        BY <2>3 DEF Ready
      <3>2. s[i].made[c] = e.made[c]
        BY <2>1, <2>3
      <3>3. ASSUME NoItemOf(e, c), NEW x \in DOMAIN s[i].chart PROVE x[1] # c
        <4>1. x \in DOMAIN e.chart \/ \E j \in 1..i : x[1] = PartsOf[b][j]
          BY <2>1, <3>3
        <4>2. QED BY <2>3, <3>3, <4>1 DEF NoItemOf
      <3>4. QED BY <3>1, <3>2, <3>3 DEF NoItemOf
    <2>5. /\ Good(s[i + 1])
          /\ s[i + 1].made = [s[i].made EXCEPT ![c] = @ + 1]
          /\ \A p \in Commands \ {c} : s[i + 1].memo[p] = s[i].memo[p]
          /\ KindOf[c] = "create" => DOMAIN s[i + 1].chart = DOMAIN s[i].chart \cup {NextId(s[i], c)}
          /\ KindOf[c] \in {"update", "set"} => DOMAIN s[i + 1].chart = DOMAIN s[i].chart
          /\ KindOf[c] \in {"delete", "remove"} =>
                DOMAIN s[i + 1].chart = DOMAIN s[i].chart \ (IF c \in stays THEN {} ELSE {target[c]})
          /\ KindOf[c] # "create" => target[c] \in DOMAIN s[i].chart
          /\ s[i + 1].twice = s[i].twice
      <3>1. PICK d, f : d = s[i] /\ f = s[i + 1]
        OBVIOUS
      <3>2. Good(d) /\ f = ExecuteOne(d, c, stays) /\ Valid(d.chart, c)
        BY <2>1, <2>2, <3>1
      <3>3. /\ Aimed(c) /\ d.made[c] < MaxMade
            /\ KindOf[c] = "create" => NoItemOf(d, c)
        BY <2>4, <3>1
      <3> HIDE DEF Same, Items, Finished
      <3>4. /\ Good(f)
            /\ f.made = [d.made EXCEPT ![c] = @ + 1]
            /\ \A p \in Commands \ {c} : f.memo[p] = d.memo[p]
            /\ KindOf[c] = "create" => DOMAIN f.chart = DOMAIN d.chart \cup {NextId(d, c)}
            /\ KindOf[c] \in {"update", "set"} => DOMAIN f.chart = DOMAIN d.chart
            /\ KindOf[c] \in {"delete", "remove"} =>
                  DOMAIN f.chart = DOMAIN d.chart \ (IF c \in stays THEN {} ELSE {target[c]})
            /\ KindOf[c] # "create" => target[c] \in DOMAIN d.chart
            /\ f.twice = d.twice
        BY <2>3, <3>2, <3>3, ExecuteGood
      <3>5. QED BY <3>1, <3>4
    <2>6. \A p \in Commands \ {c} : s[i + 1].made[p] = s[i].made[p]
      BY <2>1, <2>5 DEF Good
    <2>7. Same(i + 1)
      <3> SUFFICES ASSUME NEW p \in Commands, \A j \in 1..(i + 1) : PartsOf[b][j] # p
                   PROVE  s[i + 1].made[p] = e.made[p] /\ s[i + 1].memo[p] = e.memo[p]
        OBVIOUS
      <3>1. p # c /\ \A j \in 1..i : PartsOf[b][j] # p
        BY <2>1 DEF c
      <3>2. QED BY <2>1, <2>5, <2>6, <3>1
    <2>8. Items(i + 1)
      <3> SUFFICES ASSUME NEW x \in DOMAIN s[i + 1].chart
                   PROVE  x \in DOMAIN e.chart \/ \E j \in 1..(i + 1) : x[1] = PartsOf[b][j]
        OBVIOUS
      <3>1. KindOf[c] \in {"create", "update", "delete", "remove", "set"}
        BY <2>3, EditsAssumption DEF Single, Batches, Kinds
      <3>2. x \in DOMAIN s[i].chart \/ x[1] = c
        BY <2>5, <3>1 DEF NextId
      <3>3. CASE x[1] = c
        BY <2>1, <3>3 DEF c
      <3>4. CASE x \in DOMAIN s[i].chart
        <4>1. x \in DOMAIN e.chart \/ \E j \in 1..i : x[1] = PartsOf[b][j]
          BY <2>1, <3>4
        <4>2. QED BY <2>1, <4>1
      <3>5. QED BY <3>2, <3>3, <3>4
    <2>9. Finished(i + 1)
      <3> SUFFICES ASSUME NEW j \in 1..(i + 1)
                   PROVE  /\ Pointing(PartsOf[b][j]) => target[PartsOf[b][j]] \in DOMAIN e.chart
                          /\ s[i + 1].made[PartsOf[b][j]] = s[j].made[PartsOf[b][j]]
                          /\ s[i + 1].memo[PartsOf[b][j]] = s[j].memo[PartsOf[b][j]]
        OBVIOUS
      <3>1. CASE j = i + 1
        <4>1. ASSUME Pointing(c) PROVE target[c] \in DOMAIN e.chart
          <5>1. target[c] \in DOMAIN s[i].chart
            BY <2>5, <4>1 DEF Pointing
          <5>2. target[c][1] \notin Leaves(b)
            BY <2>3, <4>1 DEF Ready
          <5>3. target[c] \in DOMAIN e.chart
                   \/ \E l \in 1..i : target[c][1] = PartsOf[b][l]
            BY <2>1, <5>1
          <5>4. QED BY <2>3, <5>2, <5>3
        <4>2. QED BY <3>1, <4>1 DEF c
      <3>2. CASE j # i + 1
        <4>1. j \in 1..i
          BY <2>1, <3>2
        <4>2. QED BY <2>1, <2>3, <2>5, <2>6, <4>1
      <3>3. QED BY <3>1, <3>2
    <2>10. More(i + 1)
      <3>1. s[i].made \in [Commands -> 0..MaxMade] /\ MaxMade \in Nat
            /\ e.made \in [Commands -> 0..MaxMade]
        BY <2>1, EditsAssumption DEF Good
      <3>2. s[i + 1].made[c] = s[i].made[c] + 1
        BY <2>3, <2>5, <3>1
      <3>3. ASSUME NEW p \in Commands PROVE s[i + 1].made[p] >= e.made[p]
        <4>1. s[i].made[p] \in Nat /\ e.made[p] \in Nat /\ s[i].made[p] >= e.made[p]
          BY <2>1, <3>1
        <4>2. QED BY <2>6, <3>2, <4>1
      <3>4. QED BY <3>3
    <2> HIDE DEF Same, More, Items, Finished
    <2>11. QED BY <2>1, <2>5, <2>7, <2>8, <2>9, <2>10
  <1>3. \A i \in 0..m : i \in T
    <2> HIDE DEF T
    <2>1. QED BY <1>0, <1>1, <1>2, UpTo, Zenon
  <1>4. QED BY <1>3

-----------------------------------------------------------------------------
\* What is on the chart and what is not belongs to commands by the first part of
\* its id, and `made` alone says which id of a create is the last.
LEMMA SameMade ==
    ASSUME NEW d, NEW e, NEW i, LastMade(d, i), e.made[i[1]] = d.made[i[1]]
    PROVE  LastMade(e, i)
  BY DEF LastMade, CreatedId

\* What the undo of p may be given: what p points at is the last its create made.
Aims(e, b, p) ==
    /\ Aimed(p)
    /\ Pointing(p) => LastMade(e, target[p]) /\ target[p][1] \notin Leaves(b)

\* One of the first n parts of b points at x.
TargetOf(b, n, x) == \E j \in 1..n : Pointing(PartsOf[b][j]) /\ x = target[PartsOf[b][j]]

\* The undos of the first n parts all work.
NoneStuck(stuck, n) == stuck \cap 1..n = {}

\* Between the undos of the parts every state is good.
LEMMA UndoTraceGood ==
    ASSUME NEW e, Good(e), NEW b \in Batches, NEW n \in 0..Len(PartsOf[b]), NEW stuck,
           \A i \in 1..n : Aims(e, b, PartsOf[b][i]),
           NEW u, UndoTrace(e, b, n, stuck, u)
    PROVE  \A i \in 0..n :
              /\ Good(u[i]) /\ u[i].made = e.made /\ u[i].memo = e.memo
              /\ \A x \in DOMAIN u[i].chart :
                    x \in DOMAIN e.chart \/ TargetOf(b, n, x)
              /\ NoneStuck(stuck, n) =>
                    \A j \in (n + 1 - i)..n :
                       KindOf[PartsOf[b][j]] = "create" => NoItemOf(u[i], PartsOf[b][j])
  <1> DEFINE Items(i) == \A x \in DOMAIN u[i].chart :
                            x \in DOMAIN e.chart \/ TargetOf(b, n, x)
             Gone(i) == NoneStuck(stuck, n) =>
                          \A j \in (n + 1 - i)..n :
                             KindOf[PartsOf[b][j]] = "create" => NoItemOf(u[i], PartsOf[b][j])
             Kept(i) == /\ Good(u[i]) /\ u[i].made = e.made /\ u[i].memo = e.memo
                        /\ Items(i) /\ Gone(i)
             T == {i \in 0..n : Kept(i)}
  <1>1. n \in Nat /\ \A i \in 1..n : /\ i \in 1..Len(PartsOf[b])
                                     /\ PartsOf[b][i] \in Single
                                     /\ PartsOf[b][i] \in Leaves(b)
    BY Parts
  <1>2. 0 \in T
    BY <1>1 DEF UndoTrace
  <1>3. ASSUME NEW i \in 0..(n - 1), i \in T PROVE i + 1 \in T
    <2>1. /\ Good(u[i]) /\ u[i].made = e.made /\ u[i].memo = e.memo /\ Items(i) /\ Gone(i)
          /\ i \in Nat /\ i + 1 \in 1..n /\ n - i \in 1..n
      BY <1>1, <1>3
    <2>2. PICK c, l, d, f : c = PartsOf[b][l] /\ l = n - i /\ d = u[i] /\ f = u[i + 1]
      OBVIOUS
    <2>3. f = UndoPart(d, b, l, stuck)
      <3>1. (i + 1) - 1 = i /\ n + 1 - (i + 1) = n - i
        BY <1>1, <2>1
      <3>2. u[i + 1] = UndoPart(u[(i + 1) - 1], b, n + 1 - (i + 1), stuck)
        BY <2>1 DEF UndoTrace
      <3>3. QED BY <2>2, <3>1, <3>2
    <2>4. c \in Single /\ c \in Leaves(b) /\ Aims(e, b, c) /\ c # None /\ c \in Commands
      BY <1>1, <2>1, <2>2, InvokerAssumption DEF Single
    <2>5. CASE l \in stuck
      <3>1. f = d
        BY <2>3, <2>5 DEF UndoPart
      <3>2. ~NoneStuck(stuck, n)
        BY <2>1, <2>2, <2>5 DEF NoneStuck
      <3>3. Items(i + 1) /\ Gone(i + 1)
        BY <2>1, <2>2, <3>1, <3>2
      <3>4. Good(u[i + 1]) /\ u[i + 1].made = e.made /\ u[i + 1].memo = e.memo
        BY <2>1, <2>2, <3>1
      <3> HIDE DEF Items, Gone
      <3>5. QED BY <1>1, <2>1, <3>3, <3>4
    <2>6. CASE l \notin stuck
      <3>1. f = UndoOne(d, c)
        BY <2>2, <2>3, <2>6 DEF UndoPart
      <3>2. Good(d) /\ d.made = e.made /\ d.memo = e.memo
        BY <2>1, <2>2
      <3>3. Pointing(c) => LastMade(d, target[c]) /\ target[c][1] \notin Leaves(b)
        BY <2>4, <3>2, SameMade DEF Aims
      <3>4. /\ Good(f) /\ f.made = d.made /\ f.memo = d.memo
            /\ KindOf[c] = "create" => DOMAIN f.chart = DOMAIN d.chart \ {CreatedId(d, c)}
            /\ KindOf[c] \in {"update", "set"} => DOMAIN f.chart = DOMAIN d.chart
            /\ KindOf[c] \in {"delete", "remove"} => DOMAIN f.chart = DOMAIN d.chart \cup {target[c]}
        <4> HIDE DEF Items, Gone
        <4>1. Aimed(c) /\ (KindOf[c] \in {"delete", "remove"} => LastMade(d, target[c]))
          BY <2>4, <3>3 DEF Aims, Pointing
        <4>2. QED BY <2>4, <3>1, <3>2, <4>1, UndoGood
      <3>5. \A x \in DOMAIN f.chart :
               x \in DOMAIN d.chart \/ (TargetOf(b, n, x) /\ x[1] \notin Leaves(b))
        <4>1. KindOf[c] \in {"create", "update", "delete", "remove", "set"}
          BY <2>4, EditsAssumption DEF Single, Batches, Kinds
        <4>2. Pointing(c) => TargetOf(b, n, target[c])
          BY <2>1, <2>2 DEF TargetOf
        <4> HIDE DEF Items, Gone
        <4>3. QED BY <3>3, <3>4, <4>1, <4>2 DEF Pointing
      <3>6. Items(i + 1)
        BY <2>1, <2>2, <3>5
      <3>7. Gone(i + 1)
        <4> SUFFICES ASSUME NoneStuck(stuck, n), NEW j \in (n + 1 - (i + 1))..n,
                            KindOf[PartsOf[b][j]] = "create"
                     PROVE  NoItemOf(u[i + 1], PartsOf[b][j])
          OBVIOUS
        <4>1. NoItemOf(f, PartsOf[b][j])
          <5>1. CASE j = l
            <6>1. KindOf[c] = "create"
              BY <2>2, <5>1
            <6>2. ASSUME NEW x \in DOMAIN d.chart, x[1] = c PROVE x = CreatedId(d, c)
              <7>1. x # Settings
                BY <2>4, <6>2 DEF Settings
              <7>2. LastMade(d, x)
                BY <3>2, <7>1 DEF Good
              <7>3. QED BY <6>2, <7>2 DEF LastMade
            <6>3. QED BY <2>2, <3>4, <5>1, <6>1, <6>2 DEF NoItemOf
          <5>2. CASE j # l
            <6>1. j \in (n + 1 - i)..n /\ j \in 1..n
              BY <1>1, <2>1, <2>2, <5>2
            <6>2. NoItemOf(d, PartsOf[b][j])
              BY <2>1, <2>2, <6>1
            <6>3. QED BY <1>1, <3>5, <6>1, <6>2 DEF NoItemOf
          <5>3. QED BY <5>1, <5>2
        <4>2. QED BY <2>2, <4>1
      <3> HIDE DEF Items, Gone
      <3>8. QED BY <1>1, <2>1, <2>2, <3>2, <3>4, <3>6, <3>7
    <2>7. QED BY <2>5, <2>6
  <1>4. \A i \in 0..n : i \in T
    <2> HIDE DEF T
    <2>1. QED BY <1>1, <1>2, <1>3, UpTo, Zenon
  <1>5. QED BY <1>4

\* Where the undo of parts ends.
LEMMA UndoPartsGood ==
    ASSUME NEW e, Good(e), NEW b \in Batches, NEW n \in 0..Len(PartsOf[b]), NEW stuck,
           \A i \in 1..n : Aims(e, b, PartsOf[b][i]),
           NEW f, f = UndoParts(e, b, n, stuck)
    PROVE  /\ Good(f) /\ f.made = e.made /\ f.memo = e.memo
           /\ \A x \in DOMAIN f.chart : x \in DOMAIN e.chart \/ TargetOf(b, n, x)
           /\ NoneStuck(stuck, n) =>
                 \A j \in 1..n :
                    KindOf[PartsOf[b][j]] = "create" => NoItemOf(f, PartsOf[b][j])
  <1>1. n \in Nat
    BY Parts
  <1>2. PICK u : UndoTrace(e, b, n, stuck, u) /\ f = u[n]
    BY <1>1, UndoSteps
  <1>3. \A i \in 0..n :
              /\ Good(u[i]) /\ u[i].made = e.made /\ u[i].memo = e.memo
              /\ \A x \in DOMAIN u[i].chart :
                    x \in DOMAIN e.chart \/ TargetOf(b, n, x)
              /\ NoneStuck(stuck, n) =>
                    \A j \in (n + 1 - i)..n :
                       KindOf[PartsOf[b][j]] = "create" => NoItemOf(u[i], PartsOf[b][j])
    BY <1>2, UndoTraceGood
  <1>4. n \in 0..n /\ n + 1 - n = 1
    BY <1>1
  <1>5. QED BY <1>2, <1>3, <1>4

\* The parts done are parts whose undo knows what they pointed at.
LEMMA TraceAims ==
    ASSUME NEW e, Good(e), NEW b \in Batches, Ready(e, b),
           NEW m \in 0..Len(PartsOf[b]), NEW stays, NEW s, Trace(e, b, m, s, stays)
    PROVE  \A i \in 1..m : Aims(s[m], b, PartsOf[b][i])
  <1> SUFFICES ASSUME NEW i \in 1..m PROVE Aims(s[m], b, PartsOf[b][i])
    OBVIOUS
  <1>1. PICK p, f : p = PartsOf[b][i] /\ f = s[m]
    OBVIOUS
  <1>2. m \in Nat /\ m \in 0..m /\ i \in 1..Len(PartsOf[b]) /\ p \in Leaves(b)
        /\ \A j \in 1..m : PartsOf[b][j] \in Leaves(b)
    BY <1>1, Parts
  <1>3. /\ \A q \in Commands : (\A j \in 1..m : PartsOf[b][j] # q) => f.made[q] = e.made[q]
        /\ Pointing(p) => target[p] \in DOMAIN e.chart
    BY <1>1, <1>2, TraceGood
  <1>4. Aimed(p) /\ (Pointing(p) => target[p][1] \notin Leaves(b))
    BY <1>2 DEF Ready
  <1>5. ASSUME Pointing(p) PROVE LastMade(f, target[p])
    <2>1. target[p] \in DOMAIN e.chart \ {Settings}
      BY <1>3, <1>4, <1>5 DEF Aimed
    <2>2. LastMade(e, target[p])
      BY <2>1 DEF Good
    <2>3. target[p][1] \in Commands /\ \A j \in 1..m : PartsOf[b][j] # target[p][1]
      BY <1>2, <1>4, <1>5, <2>2 DEF LastMade
    <2>4. QED BY <1>3, <2>2, <2>3, SameMade
  <1>6. QED BY <1>1, <1>4, <1>5 DEF Aims

\* A batch that has stopped, all of whose undos work, leaves the chart as it was.
LEMMA RollBack ==
    ASSUME NEW e, Good(e), NEW b \in Batches, Ready(e, b),
           NEW m \in 0..Len(PartsOf[b]), NEW stays, NEW s, Trace(e, b, m, s, stays),
           NEW stuck, NoneStuck(stuck, m)
    PROVE  UndoParts(s[m], b, m, stuck).chart = e.chart
  <1>1. /\ m \in Nat /\ m \in 0..m
        /\ \A i \in 1..m : /\ i \in 1..Len(PartsOf[b]) /\ PartsOf[b][i] \in Single
                           /\ PartsOf[b][i] \in Leaves(b)
        /\ \A i, j \in 1..m : PartsOf[b][i] = PartsOf[b][j] => i = j
    BY Parts
  <1>2. PICK u : UndoTrace(s[m], b, m, stuck, u) /\ UndoParts(s[m], b, m, stuck) = u[m]
    <2>1. m \in Nat
      BY <1>1
    <2>2. \A f : \E u : UndoTrace(f, b, m, stuck, u) /\ UndoParts(f, b, m, stuck) = u[m]
      BY <2>1, UndoSteps, Zenon
    <2>3. QED BY <2>2, Zenon
  <1>3. \A i \in 0..m :
           /\ Good(s[i])
           /\ \A p \in Commands : (\A j \in 1..i : PartsOf[b][j] # p) => s[i].made[p] = e.made[p]
           /\ \A x \in DOMAIN s[i].chart :
                 x \in DOMAIN e.chart \/ \E j \in 1..i : x[1] = PartsOf[b][j]
    BY TraceGood
  <1>4. \A j \in 1..m : /\ s[m].made[PartsOf[b][j]] = s[j].made[PartsOf[b][j]]
                        /\ s[m].memo[PartsOf[b][j]] = s[j].memo[PartsOf[b][j]]
    BY <1>1, TraceGood
  <1>5. \A i \in 0..m : Good(u[i]) /\ u[i].made = s[m].made /\ u[i].memo = s[m].memo
    <2>1. PICK f : f = s[m]
      OBVIOUS
    <2>2. Good(f) /\ UndoTrace(f, b, m, stuck, u)
      BY <1>1, <1>2, <1>3, <2>1
    <2>3. \A i \in 1..m : Aims(f, b, PartsOf[b][i])
      BY <2>1, TraceAims
    <2>4. \A i \in 0..m :
              /\ Good(u[i]) /\ u[i].made = f.made /\ u[i].memo = f.memo
              /\ \A x \in DOMAIN u[i].chart :
                    x \in DOMAIN f.chart \/ TargetOf(b, m, x)
              /\ NoneStuck(stuck, m) =>
                    \A j \in (m + 1 - i)..m :
                       KindOf[PartsOf[b][j]] = "create" => NoItemOf(u[i], PartsOf[b][j])
      BY <2>2, <2>3, UndoTraceGood
    <2>5. QED BY <2>1, <2>4
  <1> DEFINE T == {i \in 0..m : u[i].chart = s[m - i].chart}
  <1>6. 0 \in T
    <2>1. u[0] = s[m] /\ m - 0 = m
      BY <1>1, <1>2 DEF UndoTrace
    <2>2. QED BY <1>1, <2>1
  <1>7. ASSUME NEW i \in 0..(m - 1), i \in T PROVE i + 1 \in T
    <2>1. PICK l, c, d, f, g, h : /\ l = m - i /\ c = PartsOf[b][l]
                                  /\ d = s[l - 1] /\ f = s[l] /\ g = u[i] /\ h = u[i + 1]
      OBVIOUS
    <2>2. /\ l \in 1..m /\ l - 1 \in 0..m /\ i \in 0..m /\ i + 1 \in 1..m
          /\ l - 1 = m - (i + 1) /\ (i + 1) - 1 = i /\ m + 1 - (i + 1) = l
          /\ l \notin stuck
      <3>1. /\ l \in 1..m /\ l - 1 \in 0..m /\ i \in 0..m /\ i + 1 \in 1..m
            /\ l - 1 = m - (i + 1) /\ (i + 1) - 1 = i /\ m + 1 - (i + 1) = l
        BY <1>1, <2>1
      <3>2. l \notin stuck
        BY <3>1 DEF NoneStuck
      <3>3. QED BY <3>1, <3>2
    <2>3. h = UndoOne(g, c)
      <3>1. u[i + 1] = UndoPart(u[(i + 1) - 1], b, m + 1 - (i + 1), stuck)
        BY <1>2, <2>2 DEF UndoTrace
      <3>2. h = UndoPart(g, b, l, stuck)
        BY <2>1, <2>2, <3>1
      <3>3. QED BY <2>1, <2>2, <3>2 DEF UndoPart
    <2>4. Valid(d.chart, c) /\ f = ExecuteOne(d, c, stays)
      BY <2>1, <2>2 DEF Trace
    <2>5. Good(d) /\ Good(g)
      BY <1>3, <1>5, <2>1, <2>2
    <2>6. c \in Single /\ c \in Leaves(b) /\ c \in Commands
      BY <1>1, <2>1, <2>2 DEF Single
    <2>7. Aimed(c) /\ e.made[c] < MaxMade /\ (KindOf[c] = "create" => NoItemOf(e, c))
      BY <2>6 DEF Ready
    <2>8. \A j \in 1..(l - 1) : PartsOf[b][j] # c
      <3>1. \A j \in 1..(l - 1) : j \in 1..m /\ j # l
        BY <1>1, <2>2
      <3>2. QED BY <1>1, <2>1, <2>2, <3>1
    <2>9. d.made[c] < MaxMade
      BY <1>3, <2>1, <2>2, <2>6, <2>7, <2>8
    <2>10. ASSUME KindOf[c] = "create" PROVE NoItemOf(d, c)
      <3>1. \A x \in DOMAIN d.chart :
               x \in DOMAIN e.chart \/ \E j \in 1..(l - 1) : x[1] = PartsOf[b][j]
        BY <1>3, <2>1, <2>2
      <3>2. QED BY <2>7, <2>8, <2>10, <3>1 DEF NoItemOf
    <2>11. g.chart = f.chart
      BY <1>7, <2>1
    <2>12. g.memo[c] = f.memo[c] /\ g.made[c] = f.made[c]
      BY <1>4, <1>5, <2>1, <2>2
    <2> HIDE DEF T
    <2>13. UndoOne(g, c).chart = d.chart
      BY <2>4, <2>5, <2>6, <2>7, <2>9, <2>10, <2>11, <2>12, UndoExecute
    <2>14. u[i + 1].chart = s[m - (i + 1)].chart
      BY <2>1, <2>2, <2>3, <2>13
    <2>15. QED BY <1>1, <2>2, <2>14 DEF T
  <1>8. \A i \in 0..m : i \in T
    <2> HIDE DEF T
    <2>1. QED BY <1>1, <1>6, <1>7, UpTo, Zenon
  <1>9. u[m].chart = s[0].chart
    <2>1. m - m = 0
      BY <1>1
    <2>2. QED BY <1>1, <1>8, <2>1
  <1>10. QED BY <1>2, <1>9 DEF Trace

\* A delete that has run and hidden nothing has taken its item away for the rest of
\* the batch, so that no other part names it.
Removes(c) == KindOf[c] \in {"delete", "remove"}

LEMMA TraceStep ==
    ASSUME NEW e, Good(e), NEW b \in Batches, Ready(e, b),
           NEW m \in 0..Len(PartsOf[b]), NEW stays, NEW s, Trace(e, b, m, s, stays),
           NEW i \in 1..m
    PROVE  LET c == PartsOf[b][i]
               d == s[i - 1]
               f == s[i]
           IN  /\ KindOf[c] = "create" => DOMAIN f.chart = DOMAIN d.chart \cup {NextId(d, c)}
               /\ KindOf[c] \in {"update", "set"} => DOMAIN f.chart = DOMAIN d.chart
               /\ KindOf[c] \in {"delete", "remove"} =>
                     DOMAIN f.chart = DOMAIN d.chart \ (IF c \in stays THEN {} ELSE {target[c]})
               /\ KindOf[c] # "create" => target[c] \in DOMAIN d.chart
               /\ KindOf[c] \in {"create", "update", "delete", "remove", "set"}
  <1>2. PICK c, d, f : c = PartsOf[b][i] /\ d = s[i - 1] /\ f = s[i]
    OBVIOUS
  <1>1. /\ i \in 1..Len(PartsOf[b]) /\ i - 1 \in 0..m /\ m \in Nat /\ c \in Single
        /\ c \in Leaves(b) /\ c \in Commands
        /\ \A j \in 1..(i - 1) : PartsOf[b][j] # c
    <2>1. m \in Nat /\ i \in 1..Len(PartsOf[b]) /\ i - 1 \in 0..m
      BY Parts
    <2>2. \A j \in 1..(i - 1) : j \in 1..Len(PartsOf[b]) /\ j # i
      BY <2>1
    <2>3. QED BY <1>2, <2>1, <2>2, Parts DEF Single
  <1>3. /\ Good(d) /\ d.made[c] = e.made[c]
        /\ \A x \in DOMAIN d.chart : x \in DOMAIN e.chart \/ \E j \in 1..(i - 1) : x[1] = PartsOf[b][j]
    BY <1>1, <1>2, TraceGood
  <1>4. /\ Aimed(c) /\ d.made[c] < MaxMade
        /\ KindOf[c] = "create" => NoItemOf(d, c)
    <2>1. /\ Aimed(c) /\ e.made[c] < MaxMade
          /\ KindOf[c] = "create" => NoItemOf(e, c)
      BY <1>1 DEF Ready
    <2>2. QED BY <1>1, <1>3, <2>1 DEF NoItemOf
  <1>5. Valid(d.chart, c) /\ f = ExecuteOne(d, c, stays)
    BY <1>2 DEF Trace
  <1>6. /\ Good(f)
        /\ f.made = [d.made EXCEPT ![c] = @ + 1]
        /\ \A p \in Commands \ {c} : f.memo[p] = d.memo[p]
        /\ KindOf[c] = "create" => DOMAIN f.chart = DOMAIN d.chart \cup {NextId(d, c)}
        /\ KindOf[c] \in {"update", "set"} => DOMAIN f.chart = DOMAIN d.chart
        /\ KindOf[c] \in {"delete", "remove"} =>
              DOMAIN f.chart = DOMAIN d.chart \ (IF c \in stays THEN {} ELSE {target[c]})
        /\ KindOf[c] # "create" => target[c] \in DOMAIN d.chart
        /\ f.twice = d.twice
    <2>1. c \in Single /\ Good(d)
      BY <1>1, <1>3
    <2>2. QED BY <1>4, <1>5, <2>1, ExecuteGood
  <1>7. KindOf[c] \in {"create", "update", "delete", "remove", "set"}
    BY <1>1, EditsAssumption DEF Single, Batches, Kinds
  <1>8. QED BY <1>2, <1>6, <1>7

LEMMA TraceGone ==
    ASSUME NEW e, Good(e), NEW b \in Batches, Ready(e, b),
           NEW m \in 0..Len(PartsOf[b]), NEW stays, NEW s, Trace(e, b, m, s, stays),
           ~Hid(b, m, stays)
    PROVE  /\ \A i \in 0..m : \A j \in 1..i :
                 Removes(PartsOf[b][j]) => target[PartsOf[b][j]] \notin DOMAIN s[i].chart
           /\ \A l \in 1..m : \A j \in 1..(l - 1) :
                 Removes(PartsOf[b][j]) /\ Removes(PartsOf[b][l]) =>
                    target[PartsOf[b][j]] # target[PartsOf[b][l]]
  <1> DEFINE Gone(i) == \A j \in 1..i :
                Removes(PartsOf[b][j]) => target[PartsOf[b][j]] \notin DOMAIN s[i].chart
             T == {i \in 0..m : Gone(i)}
  <1>1. m \in Nat /\ \A i \in 1..m : /\ i \in 1..Len(PartsOf[b])
                                     /\ PartsOf[b][i] \in Leaves(b)
    BY Parts
  <1>2. 0 \in T
    BY <1>1
  <1>3. ASSUME NEW i \in 0..(m - 1), i \in T PROVE i + 1 \in T
    <2>1. Gone(i) /\ i \in Nat /\ i + 1 \in 1..m
      BY <1>1, <1>3
    <2>2. PICK c, d, f : c = PartsOf[b][i + 1] /\ d = DOMAIN s[i].chart
                         /\ f = DOMAIN s[i + 1].chart /\ (i + 1) - 1 = i
      BY <2>1
    <2>3. /\ KindOf[c] = "create" => f = d \cup {NextId(s[i], c)}
          /\ KindOf[c] \in {"update", "set"} => f = d
          /\ KindOf[c] \in {"delete", "remove"} =>
                f = d \ (IF c \in stays THEN {} ELSE {target[c]})
          /\ KindOf[c] \in {"create", "update", "delete", "remove", "set"}
      BY <2>1, <2>2, TraceStep
    <2>4. c \notin stays /\ c \in Leaves(b)
      BY <1>1, <2>1, <2>2 DEF Hid
    <2>5. ASSUME NEW j \in 1..(i + 1), Removes(PartsOf[b][j])
          PROVE  target[PartsOf[b][j]] \notin f
      <3>1. CASE j = i + 1
        BY <2>2, <2>3, <2>4, <2>5, <3>1 DEF Removes
      <3>2. CASE j # i + 1
        <4>1. j \in 1..i /\ j \in 1..m
          BY <2>1, <3>2
        <4>2. target[PartsOf[b][j]] \notin d
          BY <2>1, <2>2, <2>5, <4>1
        <4>3. target[PartsOf[b][j]][1] # c
          BY <1>1, <2>4, <2>5, <4>1 DEF Ready, Removes, Pointing
        <4>4. NextId(s[i], c)[1] = c
          BY DEF NextId
        <4>5. QED BY <2>3, <4>2, <4>3, <4>4
      <3>3. QED BY <3>1, <3>2
    <2>6. Gone(i + 1)
      BY <2>2, <2>5
    <2> HIDE DEF Gone
    <2>7. QED BY <1>1, <2>1, <2>6
  <1>4. \A i \in 0..m : i \in T
    <2> HIDE DEF T
    <2>1. QED BY <1>1, <1>2, <1>3, UpTo, Zenon
  <1>5. ASSUME NEW l \in 1..m, NEW j \in 1..(l - 1),
               Removes(PartsOf[b][j]), Removes(PartsOf[b][l])
        PROVE  target[PartsOf[b][j]] # target[PartsOf[b][l]]
    <2>1. l - 1 \in 0..m
      BY <1>1
    <2>2. target[PartsOf[b][j]] \notin DOMAIN s[l - 1].chart
      BY <1>4, <1>5, <2>1
    <2>3. PICK c : c = PartsOf[b][l]
      OBVIOUS
    <2>4. KindOf[c] # "create" => target[c] \in DOMAIN s[l - 1].chart
      BY <2>3, TraceStep
    <2>5. QED BY <1>5, <2>2, <2>3, <2>4 DEF Removes
  <1>6. QED BY <1>4, <1>5

\* Unless one of the first m parts of b has hidden its error, undoing them adds
\* nothing twice, whichever of the undos throw.
OnceBack(e, b, m, stays, f) ==
    Hid(b, m, stays) \/ \A stuck : UndoParts(f, b, m, stuck).twice = e.twice

\* So it is when a batch has been executed up to there.
LEMMA RollBackOnce ==
    ASSUME NEW e, Good(e), NEW b \in Batches, Ready(e, b),
           NEW m \in 0..Len(PartsOf[b]), NEW stays, NEW s, Trace(e, b, m, s, stays)
    PROVE  OnceBack(e, b, m, stays, s[m])
  <1>0. SUFFICES ASSUME ~Hid(b, m, stays), NEW stuck
                 PROVE  UndoParts(s[m], b, m, stuck).twice = e.twice
    BY DEF OnceBack
  <1>1. /\ m \in Nat /\ m \in 0..m
        /\ \A i \in 1..m : /\ i \in 1..Len(PartsOf[b]) /\ PartsOf[b][i] \in Single
                           /\ PartsOf[b][i] \in Leaves(b)
    BY Parts
  <1>2. PICK u : UndoTrace(s[m], b, m, stuck, u) /\ UndoParts(s[m], b, m, stuck) = u[m]
    <2>1. m \in Nat
      BY <1>1
    <2>2. \A f : \E u : UndoTrace(f, b, m, stuck, u) /\ UndoParts(f, b, m, stuck) = u[m]
      BY <2>1, UndoSteps, Zenon
    <2>3. QED BY <2>2, Zenon
  <1>3. PICK w : w = s[m]
    OBVIOUS
  <1>4. Good(w) /\ w.twice = e.twice
    BY <1>1, <1>3, TraceGood
  <1>5. \A i \in 1..m : Aims(w, b, PartsOf[b][i])
    BY <1>3, TraceAims
  <1>6. \A i \in 0..m : Good(u[i]) /\ u[i].made = w.made
    <2>1. UndoTrace(w, b, m, stuck, u)
      BY <1>2, <1>3
    <2>2. \A i \in 0..m :
              /\ Good(u[i]) /\ u[i].made = w.made /\ u[i].memo = w.memo
              /\ \A x \in DOMAIN u[i].chart :
                    x \in DOMAIN w.chart \/ TargetOf(b, m, x)
              /\ NoneStuck(stuck, m) =>
                    \A j \in (m + 1 - i)..m :
                       KindOf[PartsOf[b][j]] = "create" => NoItemOf(u[i], PartsOf[b][j])
      BY <1>4, <1>5, <2>1, UndoTraceGood
    <2>3. QED BY <2>2
  <1>7. /\ \A j \in 1..m :
              Removes(PartsOf[b][j]) => target[PartsOf[b][j]] \notin DOMAIN w.chart
        /\ \A l \in 1..m : \A j \in 1..(l - 1) :
              Removes(PartsOf[b][j]) /\ Removes(PartsOf[b][l]) =>
                 target[PartsOf[b][j]] # target[PartsOf[b][l]]
    BY <1>0, <1>1, <1>3, TraceGone
  <1> DEFINE Gone(i) == \A j \in 1..(m - i) :
                Removes(PartsOf[b][j]) => target[PartsOf[b][j]] \notin DOMAIN u[i].chart
             T == {i \in 0..m : u[i].twice = e.twice /\ Gone(i)}
  <1>8. 0 \in T
    <2>1. u[0] = w /\ m - 0 = m
      BY <1>1, <1>2, <1>3 DEF UndoTrace
    <2>2. QED BY <1>1, <1>4, <1>7, <2>1
  <1>9. ASSUME NEW i \in 0..(m - 1), i \in T PROVE i + 1 \in T
    <2>1. PICK l, c, d, f : l = m - i /\ c = PartsOf[b][l] /\ d = u[i] /\ f = u[i + 1]
      OBVIOUS
    <2>2. /\ l \in 1..m /\ i \in 0..m /\ i + 1 \in 1..m /\ m - (i + 1) = l - 1
          /\ (i + 1) - 1 = i /\ m + 1 - (i + 1) = l /\ i + 1 \in 0..m
          /\ \A j \in 1..(l - 1) : j \in 1..l /\ j \in 1..m
      BY <1>1, <2>1
    <2>3. f = UndoPart(d, b, l, stuck)
      <3>1. u[i + 1] = UndoPart(u[(i + 1) - 1], b, m + 1 - (i + 1), stuck)
        BY <1>2, <2>2 DEF UndoTrace
      <3>2. QED BY <2>1, <2>2, <3>1
    <2>4. d.twice = e.twice /\ \A j \in 1..l :
             Removes(PartsOf[b][j]) => target[PartsOf[b][j]] \notin DOMAIN d.chart
      BY <1>9, <2>1
    <2>5. Good(d) /\ d.made = w.made
      BY <1>6, <2>1, <2>2
    <2>6. f.twice = e.twice /\ \A j \in 1..(l - 1) :
             Removes(PartsOf[b][j]) => target[PartsOf[b][j]] \notin DOMAIN f.chart
      <3>1. CASE l \in stuck
        BY <2>2, <2>3, <2>4, <3>1 DEF UndoPart
      <3>2. CASE l \notin stuck
        <4>1. f = UndoOne(d, c)
          BY <2>1, <2>3, <3>2 DEF UndoPart
        <4>2. c \in Single /\ Aims(w, b, c)
          BY <1>1, <1>5, <2>1, <2>2
        <4>3. Aimed(c) /\ (KindOf[c] \in {"delete", "remove"} => LastMade(d, target[c]))
          BY <2>5, <4>2, SameMade DEF Aims, Pointing
        <4>4. /\ KindOf[c] = "create" => DOMAIN f.chart = DOMAIN d.chart \ {CreatedId(d, c)}
              /\ KindOf[c] \in {"update", "set"} => DOMAIN f.chart = DOMAIN d.chart
              /\ KindOf[c] \in {"delete", "remove"} => DOMAIN f.chart = DOMAIN d.chart \cup {target[c]}
              /\ f.twice = (d.twice \/ (KindOf[c] \in {"delete", "remove"}
                                           /\ target[c] \in DOMAIN d.chart))
          BY <2>5, <4>1, <4>2, <4>3, UndoGood
        <4>5. KindOf[c] \in {"create", "update", "delete", "remove", "set"}
          BY <4>2, EditsAssumption DEF Single, Batches, Kinds
        <4>6. Removes(c) => target[c] \notin DOMAIN d.chart
          BY <2>1, <2>2, <2>4
        <4>7. f.twice = e.twice
          BY <2>4, <2>5, <4>4, <4>6 DEF Removes, Good
        <4>8. ASSUME NEW j \in 1..(l - 1), Removes(PartsOf[b][j])
              PROVE  target[PartsOf[b][j]] \notin DOMAIN f.chart
          <5>1. target[PartsOf[b][j]] \notin DOMAIN d.chart
            BY <2>2, <2>4, <4>8
          <5>2. Removes(c) => target[PartsOf[b][j]] # target[c]
            BY <1>7, <2>1, <2>2, <4>8
          <5>3. QED BY <4>4, <4>5, <5>1, <5>2 DEF Removes
        <4>9. QED BY <4>7, <4>8
      <3>3. QED BY <3>1, <3>2
    <2>7. u[i + 1].twice = e.twice /\ Gone(i + 1)
      BY <2>1, <2>2, <2>6
    <2> HIDE DEF Gone
    <2>8. QED BY <2>2, <2>7
  <1>10. \A i \in 0..m : i \in T
    <2> HIDE DEF T
    <2>1. QED BY <1>1, <1>8, <1>9, UpTo, Zenon
  <1>11. QED BY <1>1, <1>2, <1>10

-----------------------------------------------------------------------------
(***************************************************************************)
(* What an execution of c on e comes to, whether it is done, refused or    *)
(* thrown out half way: the items it adds are its own, the ids of other    *)
(* creates stay the last, unless it says otherwise a failure leaves the    *)
(* chart as it was, and nothing is added twice unless an error was hidden. *)
(***************************************************************************)
Result(e, c, o) ==
    /\ o.ok \in BOOLEAN /\ o.half \in BOOLEAN /\ o.hidden \in BOOLEAN /\ Good(o.state)
    /\ \A p \in Commands : o.state.made[p] >= e.made[p]
    /\ \A p \in Commands \ Leaves(c) :
          o.state.made[p] = e.made[p] /\ o.state.memo[p] = e.memo[p]
    /\ \A x \in DOMAIN o.state.chart : x \in DOMAIN e.chart \/ x[1] \in Leaves(c)
    /\ o.ok => \A p \in Leaves(c) : Pointing(p) => target[p] \in DOMAIN e.chart
    /\ (~o.ok /\ ~o.half) => o.state.chart = e.chart
    /\ ~o.hidden => o.state.twice = e.twice

\* What is refused has done nothing.
LEMMA NothingDone ==
    ASSUME NEW e, Good(e), NEW c, NEW o, o = Refused(e)
    PROVE  Result(e, c, o)
  <1>1. e.made \in [Commands -> 0..MaxMade] /\ MaxMade \in Nat
    BY EditsAssumption DEF Good
  <1>2. \A p \in Commands : e.made[p] >= e.made[p]
    BY <1>1
  <1>3. o.state = e /\ o.ok = FALSE /\ o.half = FALSE /\ o.hidden = FALSE
    BY DEF Refused
  <1>4. QED BY <1>2, <1>3 DEF Result

\* What the execution of a single command comes to.
LEMMA SingleOutcome ==
    ASSUME NEW e, Good(e), NEW c \in Single, Ready(e, c),
           NEW stays, NEW o \in ExecuteSingle(e, c, stays)
    PROVE  Result(e, c, o)
  <1>1. c \in Commands /\ Leaves(c) = {c}
    BY DEF Single, Leaves
  <1>2. CASE o = Refused(e)
    BY <1>2, NothingDone
  <1>3. CASE Valid(e.chart, c) /\ o = [state |-> ExecuteOne(e, c, stays), ok |-> TRUE,
                                     half |-> FALSE, hidden |-> c \in stays]
    <2>1. PICK f : f = o.state
      OBVIOUS
    <2>2. f = ExecuteOne(e, c, stays) /\ o.ok = TRUE /\ o.half = FALSE
          /\ o.hidden \in BOOLEAN
      BY <1>3, <2>1
    <2>3. /\ Aimed(c) /\ e.made[c] < MaxMade
          /\ KindOf[c] = "create" => NoItemOf(e, c)
      BY <1>1 DEF Ready
    <2>4. /\ Good(f)
          /\ f.made = [e.made EXCEPT ![c] = @ + 1]
          /\ \A p \in Commands \ {c} : f.memo[p] = e.memo[p]
          /\ KindOf[c] = "create" => DOMAIN f.chart = DOMAIN e.chart \cup {NextId(e, c)}
          /\ KindOf[c] \in {"update", "set"} => DOMAIN f.chart = DOMAIN e.chart
          /\ KindOf[c] \in {"delete", "remove"} =>
                DOMAIN f.chart = DOMAIN e.chart \ (IF c \in stays THEN {} ELSE {target[c]})
          /\ KindOf[c] # "create" => target[c] \in DOMAIN e.chart
          /\ f.twice = e.twice
      BY <1>3, <2>2, <2>3, ExecuteGood
    <2>5. \A p \in Commands : f.made[p] >= e.made[p] /\ (p # c => f.made[p] = e.made[p])
      <3>1. e.made \in [Commands -> 0..MaxMade] /\ MaxMade \in Nat
        BY EditsAssumption DEF Good
      <3>2. f.made = [e.made EXCEPT ![c] = e.made[c] + 1]
        BY <2>4
      <3> HIDE <2>4
      <3>3. QED BY <1>1, <3>1, <3>2
    <2>6. \A x \in DOMAIN f.chart : x \in DOMAIN e.chart \/ x[1] = c
      <3>1. KindOf[c] \in {"create", "update", "delete", "remove", "set"}
        BY EditsAssumption DEF Single, Batches, Kinds
      <3>2. QED BY <2>4, <3>1 DEF NextId
    <2>7. Pointing(c) => target[c] \in DOMAIN e.chart
      BY <2>4 DEF Pointing
    <2>8. QED BY <1>1, <2>1, <2>2, <2>4, <2>5, <2>6, <2>7 DEF Result
  <1>4. QED BY <1>2, <1>3 DEF ExecuteSingle

\* What the first parts of a batch have done when they stop, or all of it.
LEMMA RunGood ==
    ASSUME NEW e, Good(e), NEW b \in Batches, Ready(e, b), NEW k,
           NEW stays, NEW run, run = RunParts(e, b, k, stays)
    PROVE  /\ run.ok \in BOOLEAN /\ run.ran \in 0..Len(PartsOf[b]) /\ Good(run.state)
           /\ \A p \in Commands : run.state.made[p] >= e.made[p]
           /\ \A p \in Commands \ Leaves(b) :
                 run.state.made[p] = e.made[p] /\ run.state.memo[p] = e.memo[p]
           /\ \A x \in DOMAIN run.state.chart : x \in DOMAIN e.chart \/ x[1] \in Leaves(b)
           /\ \A i \in 1..run.ran :
                 Pointing(PartsOf[b][i]) => target[PartsOf[b][i]] \in DOMAIN e.chart
           /\ \A i \in 1..run.ran : Aims(run.state, b, PartsOf[b][i])
           /\ run.ok => run.ran = Len(PartsOf[b])
           /\ run.ran = 0 => run.state = e
           /\ \A stuck : NoneStuck(stuck, run.ran) =>
                 UndoParts(run.state, b, run.ran, stuck).chart = e.chart
           /\ run.state.twice = e.twice
  <1>1. PICK m, f, s : /\ m = run.ran /\ f = run.state
                       /\ m \in 0..Len(PartsOf[b]) /\ run.ok \in BOOLEAN
                       /\ run.ok => m = Len(PartsOf[b])
                       /\ Trace(e, b, m, s, stays) /\ f = s[m]
    BY RunTrace
  <1>2. m \in Nat /\ m \in 0..m /\ \A i \in 1..m : PartsOf[b][i] \in Leaves(b)
    BY <1>1, Parts
  <1>3. /\ Good(f) /\ f.twice = e.twice
        /\ \A p \in Commands : f.made[p] >= e.made[p]
        /\ \A p \in Commands : (\A j \in 1..m : PartsOf[b][j] # p) =>
              f.made[p] = e.made[p] /\ f.memo[p] = e.memo[p]
        /\ \A x \in DOMAIN f.chart :
              x \in DOMAIN e.chart \/ \E j \in 1..m : x[1] = PartsOf[b][j]
        /\ \A j \in 1..m :
              Pointing(PartsOf[b][j]) => target[PartsOf[b][j]] \in DOMAIN e.chart
    <2>1. \A i \in 0..m :
              /\ Good(s[i]) /\ s[i].twice = e.twice
              /\ \A p \in Commands : (\A j \in 1..i : PartsOf[b][j] # p) =>
                    s[i].made[p] = e.made[p] /\ s[i].memo[p] = e.memo[p]
              /\ \A p \in Commands : s[i].made[p] >= e.made[p]
              /\ \A x \in DOMAIN s[i].chart :
                    x \in DOMAIN e.chart \/ \E j \in 1..i : x[1] = PartsOf[b][j]
              /\ \A j \in 1..i : LET p == PartsOf[b][j] IN
                    /\ Pointing(p) => target[p] \in DOMAIN e.chart
                    /\ s[i].made[p] = s[j].made[p] /\ s[i].memo[p] = s[j].memo[p]
      BY <1>1, TraceGood
    <2>2. QED BY <1>1, <1>2, <2>1
  <1>4. \A i \in 1..m : Aims(f, b, PartsOf[b][i])
    BY <1>1, TraceAims
  <1>5. m = 0 => f = e
    BY <1>1 DEF Trace
  <1>6. ASSUME NEW stuck, NoneStuck(stuck, m) PROVE UndoParts(f, b, m, stuck).chart = e.chart
    <2>1. UndoParts(s[m], b, m, stuck).chart = e.chart
      BY <1>1, <1>6, RollBack
    <2>2. QED BY <1>1, <2>1
  <1>7. QED BY <1>1, <1>2, <1>3, <1>4, <1>5, <1>6

\* Nor is anything there twice when it is rolled back.
LEMMA RunOnce ==
    ASSUME NEW e, Good(e), NEW b \in Batches, Ready(e, b), NEW k,
           NEW stays, NEW run, run = RunParts(e, b, k, stays)
    PROVE  OnceBack(e, b, run.ran, stays, run.state)
  <1>1. PICK m, f, s : /\ m = run.ran /\ f = run.state
                       /\ m \in 0..Len(PartsOf[b])
                       /\ Trace(e, b, m, s, stays) /\ f = s[m]
    BY RunTrace
  <1>2. OnceBack(e, b, m, stays, s[m])
    BY <1>1, RollBackOnce
  <1>3. QED BY <1>1, <1>2

\* The outcomes of a batch whose k-th part throws.
BatchEnd(e, b, k, stuck, stays) ==
    LET run == RunParts(e, b, k, stays)
    IN  [state |-> IF run.ok THEN run.state
                             ELSE UndoParts(run.state, b, run.ran, stuck),
         ok |-> run.ok,
         half |-> ~run.ok /\ stuck \cap 1..run.ran # {},
         hidden |-> Hid(b, run.ran, stays)]

PlainBatchEnd(e, b, k, stays) ==
    LET run == RunParts(e, b, k, stays)
    IN  [state |-> run.state, ok |-> run.ok, half |-> ~run.ok /\ run.ran > 0,
         hidden |-> Hid(b, run.ran, stays)]

\* The run that a batch's outcome comes from.
LEMMA BatchEnds ==
    ASSUME NEW e, NEW b, NEW stays,
           NEW o \in ExecuteBatch(e, b, stays) \cup ExecutePlainBatch(e, b, stays)
    PROVE  \/ o = Refused(e)
           \/ \E k, stuck : o = BatchEnd(e, b, k, stuck, stays)
           \/ \E k : o = PlainBatchEnd(e, b, k, stays)
  <1>1. ExecuteBatch(e, b, stays) =
           IF \A i \in DOMAIN PartsOf[b] : Valid(e.chart, PartsOf[b][i])
           THEN {BatchEnd(e, b, k, stuck, stays) :
                    k \in 0..Len(PartsOf[b]), stuck \in SUBSET (DOMAIN PartsOf[b])}
           ELSE {Refused(e)}
    BY DEF ExecuteBatch, BatchEnd
  <1>2. ExecutePlainBatch(e, b, stays) =
           IF \A i \in DOMAIN PartsOf[b] : Valid(e.chart, PartsOf[b][i])
           THEN {PlainBatchEnd(e, b, k, stays) : k \in 0..Len(PartsOf[b])}
           ELSE {Refused(e)}
    BY DEF ExecutePlainBatch, PlainBatchEnd
  <1>3. QED BY <1>1, <1>2

\* What the execution of a batch of either kind comes to.
LEMMA BatchOutcome ==
    ASSUME NEW e, Good(e), NEW b \in Batches, Ready(e, b), NEW stays,
           NEW o \in ExecuteBatch(e, b, stays) \cup ExecutePlainBatch(e, b, stays)
    PROVE  Result(e, b, o)
  <1>1. CASE o = Refused(e)
    BY <1>1, NothingDone
  <1>2. ASSUME NEW k, NEW run, run = RunParts(e, b, k, stays), NEW f, NEW h \in BOOLEAN,
               o = [state |-> f, ok |-> run.ok, half |-> h, hidden |-> Hid(b, run.ran, stays)],
               Good(f), f.made = run.state.made, f.memo = run.state.memo,
               \A x \in DOMAIN f.chart : x \in DOMAIN e.chart \/ x[1] \in Leaves(b),
               (~run.ok /\ ~h) => f.chart = e.chart,
               ~Hid(b, run.ran, stays) => f.twice = e.twice
        PROVE  Result(e, b, o)
    <2>1. /\ o.state = f /\ o.ok = run.ok /\ o.half = h
          /\ o.hidden = Hid(b, run.ran, stays) /\ o.hidden \in BOOLEAN
      BY <1>2 DEF Hid
    <2>2. /\ run.ok \in BOOLEAN
          /\ \A p \in Commands : run.state.made[p] >= e.made[p]
          /\ \A p \in Commands \ Leaves(b) :
                run.state.made[p] = e.made[p] /\ run.state.memo[p] = e.memo[p]
          /\ \A i \in 1..run.ran :
                Pointing(PartsOf[b][i]) => target[PartsOf[b][i]] \in DOMAIN e.chart
          /\ run.ok => run.ran = Len(PartsOf[b])
      BY <1>2, RunGood
    <2>3. ASSUME run.ok, NEW p \in Leaves(b), Pointing(p) PROVE target[p] \in DOMAIN e.chart
      <3>1. PICK i \in 1..Len(PartsOf[b]) : p = PartsOf[b][i]
        BY Parts
      <3>2. QED BY <2>2, <2>3, <3>1
    <2>4. QED BY <1>2, <2>1, <2>2, <2>3 DEF Result
  <1>3. ASSUME NEW k, NEW stuck,
               o = BatchEnd(e, b, k, stuck, stays)
        PROVE  Result(e, b, o)
    <2>1. PICK run, g, m : run = RunParts(e, b, k, stays) /\ g = run.state /\ m = run.ran
      OBVIOUS
    <2>20. /\ run.ok \in BOOLEAN /\ run.ran \in 0..Len(PartsOf[b]) /\ Good(run.state)
           /\ \A p \in Commands : run.state.made[p] >= e.made[p]
           /\ \A p \in Commands \ Leaves(b) :
                 run.state.made[p] = e.made[p] /\ run.state.memo[p] = e.memo[p]
           /\ \A x \in DOMAIN run.state.chart : x \in DOMAIN e.chart \/ x[1] \in Leaves(b)
           /\ \A i \in 1..run.ran :
                 Pointing(PartsOf[b][i]) => target[PartsOf[b][i]] \in DOMAIN e.chart
           /\ \A i \in 1..run.ran : Aims(run.state, b, PartsOf[b][i])
           /\ run.ok => run.ran = Len(PartsOf[b])
           /\ run.ran = 0 => run.state = e
           /\ \A st : NoneStuck(st, run.ran) =>
                 UndoParts(run.state, b, run.ran, st).chart = e.chart
           /\ run.state.twice = e.twice
      <3>1. run = RunParts(e, b, k, stays)
        BY <2>1
      <3>2. QED BY <3>1, RunGood
    <2>2. /\ run.ok \in BOOLEAN /\ m \in 0..Len(PartsOf[b]) /\ Good(g)
          /\ \A x \in DOMAIN g.chart : x \in DOMAIN e.chart \/ x[1] \in Leaves(b)
          /\ \A i \in 1..m :
                Pointing(PartsOf[b][i]) => target[PartsOf[b][i]] \in DOMAIN e.chart
          /\ \A i \in 1..m : Aims(g, b, PartsOf[b][i])
          /\ \A st : NoneStuck(st, m) => UndoParts(g, b, m, st).chart = e.chart
          /\ g.twice = e.twice
      BY <2>1, <2>20
    <2>3. CASE run.ok
      <3>1. o = [state |-> g, ok |-> run.ok, half |-> FALSE, hidden |-> Hid(b, run.ran, stays)]
        BY <1>3, <2>1, <2>2, <2>3 DEF BatchEnd
      <3>2. QED BY <1>2, <2>1, <2>2, <2>3, <3>1
    <2>4. CASE ~run.ok
      <3>1. PICK f, h : f = UndoParts(g, b, m, stuck) /\ h = (stuck \cap 1..m # {})
        OBVIOUS
      <3>2. o = [state |-> f, ok |-> run.ok, half |-> h, hidden |-> Hid(b, run.ran, stays)]
            /\ h \in BOOLEAN
        BY <1>3, <2>1, <2>2, <2>4, <3>1 DEF BatchEnd
      <3>3. /\ Good(f) /\ f.made = g.made /\ f.memo = g.memo
            /\ \A x \in DOMAIN f.chart : x \in DOMAIN g.chart \/ TargetOf(b, m, x)
            /\ NoneStuck(stuck, m) =>
                  \A j \in 1..m :
                     KindOf[PartsOf[b][j]] = "create" => NoItemOf(f, PartsOf[b][j])
        BY <2>2, <3>1, UndoPartsGood
      <3>4. \A x \in DOMAIN f.chart : x \in DOMAIN e.chart \/ x[1] \in Leaves(b)
        BY <2>2, <3>3 DEF TargetOf
      <3>5. ~h => f.chart = e.chart
        BY <2>2, <3>1 DEF NoneStuck
      <3>6. ~Hid(b, run.ran, stays) => f.twice = e.twice
        <4>1. run = RunParts(e, b, k, stays)
          BY <2>1
        <4>2. f = UndoParts(run.state, b, run.ran, stuck)
          BY <2>1, <3>1
        <4>3. OnceBack(e, b, run.ran, stays, run.state)
          BY <4>1, RunOnce
        <4>4. QED BY <4>2, <4>3 DEF OnceBack
      <3>7. QED BY <1>2, <2>1, <3>2, <3>3, <3>4, <3>5, <3>6
    <2>5. QED BY <2>2, <2>3, <2>4
  <1>4. ASSUME NEW k,
               o = PlainBatchEnd(e, b, k, stays)
        PROVE  Result(e, b, o)
    <2>1. PICK run, g, h : /\ run = RunParts(e, b, k, stays) /\ g = run.state
                           /\ h = (~run.ok /\ run.ran > 0)
      OBVIOUS
    <2>2. /\ run.ok \in BOOLEAN /\ run.ran \in 0..Len(PartsOf[b]) /\ Good(g)
          /\ \A x \in DOMAIN g.chart : x \in DOMAIN e.chart \/ x[1] \in Leaves(b)
          /\ run.ran = 0 => g = e
          /\ g.twice = e.twice
      BY <2>1, RunGood
    <2>3. o = [state |-> g, ok |-> run.ok, half |-> h, hidden |-> Hid(b, run.ran, stays)]
          /\ h \in BOOLEAN
      BY <1>4, <2>1 DEF PlainBatchEnd
    <2>4. (~run.ok /\ ~h) => ~(run.ran > 0)
      BY <2>1, Zenon
    <2>5. (~run.ok /\ ~h) => g.chart = e.chart
      BY <2>2, <2>4, Parts
    <2>6. run = RunParts(e, b, k, stays) /\ g.made = run.state.made /\ g.memo = run.state.memo
      BY <2>1
    <2>7. QED BY <1>2, <2>2, <2>3, <2>5, <2>6
  <1>5. QED BY <1>1, <1>3, <1>4, BatchEnds

\* What the execution of any command comes to.
LEMMA Outcome ==
    ASSUME NEW e, Good(e), NEW c \in Commands, Ready(e, c), NEW o \in Outcomes(e, c)
    PROVE  Result(e, c, o)
  <1>1. PICK stays : o \in (CASE KindOf[c] = "batch" -> ExecuteBatch(e, c, stays)
                               [] KindOf[c] = "plain_batch" -> ExecutePlainBatch(e, c, stays)
                               [] OTHER -> ExecuteSingle(e, c, stays))
    BY DEF Outcomes
  <1>2. CASE KindOf[c] \in {"batch", "plain_batch"}
    <2>1. c \in Batches
      BY <1>2 DEF Batches
    <2>2. o \in ExecuteBatch(e, c, stays) \cup ExecutePlainBatch(e, c, stays)
      BY <1>1, <1>2
    <2>3. QED BY <2>1, <2>2, BatchOutcome
  <1>3. CASE KindOf[c] \notin {"batch", "plain_batch"}
    <2>1. c \in Single
      BY <1>3 DEF Single, Batches
    <2>2. o \in ExecuteSingle(e, c, stays)
      BY <1>1, <1>3
    <2>3. QED BY <2>1, <2>2, SingleOutcome
  <1>4. QED BY <1>2, <1>3

-----------------------------------------------------------------------------
(***************************************************************************)
(* The inductive invariant, next to that of the history.  A command is     *)
(* live while it is awaited or has an entry: what an update or a delete    *)
(* that is live points at was made by a create outside it and outside      *)
(* every later command, and while the command is in effect it is the last  *)
(* item of that create; what is undone or about to run has no item.        *)
(***************************************************************************)
Live == {c \in Commands : pending.command = c \/ \E i \in Indices : history[i].command = c}

InEffect(c) ==
    \/ pending.op = "undo" /\ pending.command = c
    \/ \E i \in Indices : history[i].command = c /\ history[i].success /\ ~history[i].undone

NotYet(c) ==
    \/ pending.op \in {"execute", "redo"} /\ pending.command = c
    \/ \E i \in Indices : history[i].command = c /\ history[i].undone

TargetsTyped ==
    /\ target \in [Commands -> Ids]
    /\ \A p \in Commands : ~Pointing(p) => target[p] = Settings

LiveIsTop == Live \subseteq TopLevel

TargetsMade ==
    \A c \in Live : \A p \in Leaves(c) : Pointing(p) =>
        /\ target[p] # Settings
        /\ KindOf[target[p][1]] = "create"
        /\ made[target[p][1]] >= 1

TargetsFresh ==
    \A c \in Live : InEffect(c) => \A p \in Leaves(c) : Pointing(p) =>
        target[p] = CreatedId(State, target[p][1])

\* Nothing in c points at what d makes.
Away(c, d) == \A p \in Leaves(c) : Pointing(p) => target[p][1] \notin Leaves(d)

TargetsEarlier ==
    /\ \A i, j \in Indices : i <= j => Away(history[i].command, history[j].command)
    /\ pending.op # "none" => Away(pending.command, pending.command)

RunsLeft ==
    /\ pending.op = "execute" => \A p \in Leaves(pending.command) : made[p] = 0
    /\ pending.op = "redo" => \A p \in Leaves(pending.command) : made[p] < MaxMade

NoItems(e, c) == \A p \in Leaves(c) : NoItemOf(e, p)

UndoneIsOff == ~spoiled => \A c \in Live : NotYet(c) => NoItems(State, c)

EInv ==
    /\ Good(State)
    /\ spoiled \in BOOLEAN /\ hidden \in BOOLEAN
    /\ TargetsTyped
    /\ LiveIsTop
    /\ TargetsMade
    /\ TargetsFresh
    /\ TargetsEarlier
    /\ RunsLeft
    /\ UndoneIsOff

-----------------------------------------------------------------------------
\* The parts of the commands a user gives belong to one of them alone.
LEMMA LeavesApart ==
    /\ \A c \in TopLevel : Leaves(c) \subseteq Single
    /\ \A c, d \in TopLevel : c # d => Leaves(c) \cap Leaves(d) = {}
  <1>1. \A c \in TopLevel : c \in Commands /\ (c \notin Batches => c \in Single)
    BY DEF TopLevel, Single
  <1>2. \A c \in Batches : \A p \in Leaves(c) :
           p \in Single /\ \E i \in DOMAIN PartsOf[c] : p = PartsOf[c][i]
    BY Parts
  <1>3. \A c : c \notin Batches => Leaves(c) = {c}
    BY DEF Leaves
  <1>4. \A c \in TopLevel : Leaves(c) \subseteq Single
    BY <1>1, <1>2, <1>3
  <1>5. ASSUME NEW c \in TopLevel, NEW d \in TopLevel, c # d,
               NEW p \in Leaves(c), p \in Leaves(d)
        PROVE  FALSE
    <2>1. \A b \in Batches : \A i \in DOMAIN PartsOf[b] : PartsOf[b][i] # c /\ PartsOf[b][i] # d
      BY DEF TopLevel
    <2>2. CASE c \in Batches /\ d \in Batches
      <3>1. PICK i \in DOMAIN PartsOf[c], j \in DOMAIN PartsOf[d] :
               p = PartsOf[c][i] /\ p = PartsOf[d][j]
        BY <1>2, <1>5, <2>2
      <3>2. c = d
        BY <2>2, <3>1, EditsAssumption
      <3>3. QED BY <1>5, <3>2
    <2>3. CASE c \notin Batches
      BY <1>2, <1>3, <1>5, <2>1, <2>3
    <2>4. CASE d \notin Batches
      BY <1>2, <1>3, <1>5, <2>1, <2>4
    <2>5. QED BY <2>2, <2>3, <2>4
  <1>6. QED BY <1>4, <1>5

\* The entries after a step are entries of before, in order, or the new last one.
From(k) ==
    \A i \in Indices' :
        \/ i + k \in Indices /\ history'[i].command = history[i + k].command
        \/ /\ pending.op = "execute" /\ i = Len(history')
           /\ history'[i].command = pending.command

\* What commands point at is kept as long as they are live.
TargetsKept ==
    /\ target' \in [Commands -> Ids]
    /\ \A p \in Commands : ~Pointing(p) => target'[p] = Settings
    /\ \A c \in Live' : \A p \in Leaves(c) : target'[p] = target[p]

\* A step that adds no command makes none live.
LEMMA LiveStep ==
    ASSUME EInv, NEW k \in Nat, From(k), pending' \in {pending, Idle}
    PROVE  Live' \subseteq Live /\ LiveIsTop'
  <1>1. Live' \subseteq Live
    <2> SUFFICES ASSUME NEW c \in Live' PROVE c \in Live
      OBVIOUS
    <2>1. c \in Commands /\ c # None
      BY InvokerAssumption DEF Live
    <2>2. CASE pending'.command = c
      BY <2>1, <2>2 DEF Idle, Live
    <2>3. CASE \E i \in Indices' : history'[i].command = c
      BY <2>1, <2>3 DEF From, Live
    <2>4. QED BY <2>2, <2>3 DEF Live
  <1>2. QED BY <1>1 DEF EInv, LiveIsTop

\* Such a step keeps what is said of targets, if ids are only given out.
LEMMA FrameStep ==
    ASSUME IInv, IInv', EInv, NEW k \in Nat, From(k), pending' \in {pending, Idle},
           TargetsKept, \A p \in Commands : made'[p] >= made[p], Good(State')
    PROVE  /\ Live' \subseteq Live
           /\ TargetsTyped' /\ LiveIsTop' /\ TargetsMade' /\ TargetsEarlier'
  <1>1. Live' \subseteq Live
    BY LiveStep
  <1>2. TargetsTyped'
    BY DEF TargetsKept, TargetsTyped
  <1>3. LiveIsTop'
    BY LiveStep
  <1>4. \A c \in Live : Leaves(c) \subseteq Single
    BY LeavesApart DEF EInv, LiveIsTop
  <1>5. \A c \in Live : \A p \in Leaves(c) : Pointing(p) =>
           /\ target[p] # Settings /\ target[p][1] \in Commands
           /\ KindOf[target[p][1]] = "create" /\ made[target[p][1]] >= 1
    <2>1. \A c \in Live : \A p \in Leaves(c) : target[p] \in Ids
      BY <1>4 DEF EInv, TargetsTyped, Single
    <2>2. \A x \in Ids \ {Settings} : x[1] \in Commands
      BY DEF Ids
    <2>3. QED BY <2>1, <2>2 DEF EInv, TargetsMade
  <1>6. TargetsMade'
    <2>1. made \in [Commands -> 0..MaxMade] /\ made' \in [Commands -> 0..MaxMade]
          /\ MaxMade \in Nat
      BY EditsAssumption DEF EInv, Good, State
    <2>2. \A t \in Commands : made[t] >= 1 => made'[t] >= 1
      BY <2>1
    <2>3. QED BY <1>1, <1>5, <2>2 DEF TargetsMade, TargetsKept
  <1>7. TargetsEarlier'
    <2>1. pending'.op # "none" => Away(pending.command, pending.command)'
      <3> SUFFICES ASSUME pending'.op # "none"
                   PROVE  Away(pending.command, pending.command)'
        OBVIOUS
      <3>1. pending' = pending /\ Away(pending.command, pending.command)
        BY DEF Idle, EInv, TargetsEarlier
      <3>2. pending.command \in Commands
        BY <3>1 DEF IInv, TypeOK, Pending, Idle
      <3>3. pending'.command \in Live'
        BY <3>1, <3>2 DEF Live
      <3>4. QED BY <3>1, <3>3 DEF Away, TargetsKept
    <2>2. ASSUME NEW i \in Indices', NEW j \in Indices', i <= j
          PROVE  Away(history[i].command, history[j].command)'
      <3>1. PICK c, d : c = history'[i].command /\ d = history'[j].command
        OBVIOUS
      <3>2. c \in Live' /\ c \in Live
        <4>1. history'[i] \in Entry
          BY DEF IInv, TypeOK, Indices
        <4>2. c \in Commands
          BY <3>1, <4>1, InvokerAssumption DEF Entry
        <4>3. QED BY <1>1, <3>1, <4>2 DEF Live
      <3>3. SUFFICES Away(c, d)
        BY <3>1, <3>2 DEF Away, TargetsKept
      <3>4. CASE j + k \in Indices /\ history'[j].command = history[j + k].command
        <4>1. CASE i + k \in Indices /\ history'[i].command = history[i + k].command
          <5>1. i + k <= j + k
            BY <2>2 DEF Indices
          <5>2. QED BY <3>1, <3>4, <4>1, <5>1 DEF EInv, TargetsEarlier
        <4>2. CASE pending.op = "execute" /\ i = Len(history') /\ c = pending.command
          <5>1. i = j
            BY <2>2, <4>2 DEF Indices, IInv, TypeOK
          <5>2. Away(pending.command, pending.command)
            BY <4>2 DEF EInv, TargetsEarlier
          <5>3. QED BY <3>1, <4>2, <5>1, <5>2
        <4>3. QED BY <3>1, <4>1, <4>2 DEF From
      <3>5. CASE pending.op = "execute" /\ d = pending.command
        <4>1. \A p \in Leaves(d) : made[p] = 0
          BY <3>5 DEF EInv, RunsLeft
        <4>2. QED BY <1>5, <3>2, <4>1 DEF Away
      <3>6. QED BY <3>1, <3>4, <3>5 DEF From
    <2>3. QED BY <2>1, <2>2 DEF TargetsEarlier
  <1>8. QED BY <1>1, <1>2, <1>3, <1>6, <1>7

\* Forgetting what no entry refers to keeps what live commands remember.
LEMMA KeepStep ==
    ASSUME IInv', EInv, LiveIsTop', NEW b, NEW a, NEW m, Keep(b, a, m),
           m \in [Commands -> Commands \cup {None}]
    PROVE  TargetsKept /\ memo' \in [Commands -> Commands \cup {None}]
  <1> DEFINE roots == {history'[i].command : i \in DOMAIN history'} \cup {pending'.command}
             live == UNION {Leaves(c) \cup {c} : c \in roots}
  <1>1. /\ target' = [c \in Commands |-> IF c \in live THEN target[c] ELSE Settings]
        /\ memo' = [c \in Commands |-> IF c \in live THEN m[c] ELSE None]
    BY DEF Keep, Reachable
  <1>2. \A c \in Live' : Leaves(c) \subseteq live
    <2>1. DOMAIN history' = Indices'
      BY DEF IInv, TypeOK, Indices
    <2>2. Live' \subseteq roots
      BY <2>1 DEF Live
    <2>3. QED BY <2>2
  <1>3. \A c \in Live' : Leaves(c) \subseteq Commands
    BY LeavesApart DEF LiveIsTop, Single
  <1> HIDE DEF live
  <1>4. /\ target \in [Commands -> Ids] /\ Settings \in Ids
        /\ \A p \in Commands : ~Pointing(p) => target[p] = Settings
    BY DEF EInv, TargetsTyped, Ids
  <1>5. target' \in [Commands -> Ids] /\ \A p \in Commands : ~Pointing(p) => target'[p] = Settings
    BY <1>1, <1>4
  <1>6. \A c \in Live' : \A p \in Leaves(c) : target'[p] = target[p]
    BY <1>1, <1>2, <1>3
  <1>7. memo' \in [Commands -> Commands \cup {None}]
    BY <1>1
  <1>8. QED BY <1>5, <1>6, <1>7 DEF TargetsKept

-----------------------------------------------------------------------------
(***************************************************************************)
(* What each operation of the history does to the commands in effect and   *)
(* to those that are not.                                                  *)
(***************************************************************************)
LEMMA ExecuteHistory ==
    ASSUME IInv, NEW ok \in BOOLEAN, FinishExecute(ok)
    PROVE  /\ pending' = Idle /\ \E k \in Nat : From(k)
           /\ \A c \in Commands : InEffect(c)' =>
                 IF c = pending.command THEN ok ELSE InEffect(c)
           /\ \A c \in Commands : NotYet(c)' => c # pending.command /\ NotYet(c)
  <1>1. pending' = Idle /\ pending.op = "execute"
    BY DEF FinishExecute
  <1>2. \A i \in Indices : history[i].command # pending.command
    BY <1>1 DEF IInv, PendingInPlace
  <1>3. CASE pending.command \notin Undoable
    <2>1. history' = history /\ Indices' = Indices
      BY <1>3 DEF FinishExecute, Indices
    <2>2. From(0)
      BY <2>1, EntryFacts DEF From, Indices
    <2>3. QED BY <1>1, <1>2, <2>1, <2>2 DEF InEffect, NotYet, Idle
  <1>4. CASE pending.command \in Undoable
    <2>1. /\ history' \in Seq(Entry)
          /\ Len(history') \in 1..MaxHistorySize
          /\ history'[Len(history')]
               = [command |-> pending.command, success |-> ok, undone |-> FALSE]
          /\ \E e \in Nat : \A i \in 1..(Len(history') - 1) :
                /\ i + e \in Indices
                /\ i + e <= currentIndex + 1
                /\ history'[i] = history[i + e]
      <3>1. AddToHistory(pending.command, ok)
        BY <1>4 DEF FinishExecute
      <3>2. QED BY <1>4, <3>1, AddStep, InvokerAssumption
    <2>2. PICK k, n : /\ k \in Nat /\ n = Len(history')
                      /\ \A i \in 1..(n - 1) : /\ i + k \in Indices
                                               /\ i + k <= currentIndex + 1
                                               /\ history'[i] = history[i + k]
      BY <2>1
    <2>3. /\ history'[n].command = pending.command /\ history'[n].success = ok
          /\ history'[n].undone = FALSE /\ n \in Nat /\ Indices' = 1..n
      BY <2>1, <2>2 DEF Indices
    <2>4. \A i \in Indices' : i = n \/ i \in 1..(n - 1)
      BY <2>3
    <2>5. From(k)
      BY <1>1, <2>2, <2>3, <2>4 DEF From
    <2>6. ASSUME NEW c \in Commands, InEffect(c)'
          PROVE  IF c = pending.command THEN ok ELSE InEffect(c)
      <3>1. PICK i \in Indices' :
               history'[i].command = c /\ history'[i].success /\ ~history'[i].undone
        BY <1>1, <2>6 DEF InEffect, Idle
      <3>2. CASE i = n
        BY <2>3, <3>1, <3>2
      <3>3. CASE i \in 1..(n - 1)
        <4>1. i + k \in Indices /\ history'[i] = history[i + k]
          BY <2>2, <3>3
        <4>2. QED BY <1>2, <3>1, <4>1 DEF InEffect
      <3>4. QED BY <2>4, <3>2, <3>3
    <2>7. ASSUME NEW c \in Commands, NotYet(c)' PROVE c # pending.command /\ NotYet(c)
      <3>1. PICK i \in Indices' : history'[i].command = c /\ history'[i].undone
        BY <1>1, <2>7 DEF NotYet, Idle
      <3>2. i \in 1..(n - 1)
        BY <2>3, <2>4, <3>1
      <3>3. i + k \in Indices /\ history'[i] = history[i + k]
        BY <2>2, <3>2
      <3>4. QED BY <1>2, <3>1, <3>3 DEF NotYet
    <2>8. QED BY <1>1, <2>2, <2>5, <2>6, <2>7
  <1>5. QED BY <1>3, <1>4

\* The end of an undo: only its command and the entries after it are not in effect.
LEMMA UndoHistory ==
    ASSUME IInv, FinishUndo(TRUE), pending.command \in executed
    PROVE  /\ pending' = Idle /\ From(0)
           /\ \A c \in Commands : InEffect(c)' => InEffect(c)
           /\ \A c \in Commands : NotYet(c)' =>
                 \E i, j \in Indices : /\ i <= j /\ history[i].command = pending.command
                                       /\ history[j].command = c
                                       /\ c = pending.command \/ NotYet(c)
  <1>1. /\ pending' = Idle /\ pending.op = "undo"
        /\ history' = MarkUndone(pending.command, TRUE)
    BY DEF FinishUndo
  <1>2. /\ Indices' = Indices
        /\ \A i \in Indices :
              /\ history'[i].command = history[i].command
              /\ history'[i].success = history[i].success
              /\ history'[i].undone =
                   IF history[i].command = pending.command THEN TRUE ELSE history[i].undone
    BY <1>1, MarkStep
  <1>3. From(0)
    <2>1. \A i \in Indices : i + 0 = i
      BY EntryFacts DEF Indices
    <2>2. QED BY <1>2, <2>1 DEF From
  <1>4. \A c \in Commands : InEffect(c)' => InEffect(c)
    <2> SUFFICES ASSUME NEW c \in Commands, InEffect(c)' PROVE InEffect(c)
      OBVIOUS
    <2>1. PICK i \in Indices :
             history'[i].command = c /\ history'[i].success /\ ~history'[i].undone
      BY <1>1, <1>2 DEF InEffect, Idle
    <2>2. QED BY <1>2, <2>1 DEF InEffect
  <1>5. ASSUME NEW c \in Commands, NotYet(c)'
        PROVE  \E i, j \in Indices : /\ i <= j /\ history[i].command = pending.command
                                     /\ history[j].command = c
                                     /\ c = pending.command \/ NotYet(c)
    <2>1. PICK j \in Indices : history[j].command = c /\ history'[j].undone
      BY <1>1, <1>2, <1>5 DEF NotYet, Idle
    <2>2. CASE c = pending.command
      BY <2>1, <2>2 DEF Indices
    <2>3. CASE c # pending.command
      <3>1. history[j].undone
        BY <1>2, <2>1, <2>3
      <3>2. j > currentIndex + 1
        BY <3>1 DEF IInv, HistoryShape
      <3>3. /\ currentIndex >= 0 /\ currentIndex < Len(history)
            /\ history[currentIndex + 1].command = pending.command
        <4>1. history # <<>>
          BY <2>1 DEF Indices
        <4>2. QED BY <1>1, <4>1 DEF IInv, PendingInPlace, canUndo, Current
      <3>4. currentIndex + 1 \in Indices /\ currentIndex + 1 <= j
        BY <3>2, <3>3, EntryFacts DEF Indices
      <3>5. QED BY <2>1, <3>1, <3>3, <3>4 DEF NotYet
    <2>4. QED BY <2>2, <2>3
  <1>6. QED BY <1>1, <1>3, <1>4, <1>5

\* The end of a redo: the commands in effect are those up to its own.
LEMMA RedoHistory ==
    ASSUME IInv, NEW ok \in BOOLEAN, FinishRedo(ok)
    PROVE  /\ pending' = Idle /\ From(0)
           /\ \A c \in Commands : InEffect(c)' =>
                 IF c = pending.command THEN ok
                 ELSE \E i, j \in Indices : /\ i <= j /\ history[i].command = c
                                            /\ history[j].command = pending.command
                                            /\ InEffect(c)
           /\ \A c \in Commands : NotYet(c)' => NotYet(c) /\ (ok => c # pending.command)
  <1>1. pending' = Idle /\ pending.op = "redo"
    BY DEF FinishRedo
  <1>2. /\ Indices' = Indices
        /\ \A i \in Indices :
              /\ history'[i].command = history[i].command
              /\ history'[i].success = history[i].success
              /\ history'[i].undone =
                   IF ok /\ history[i].command = pending.command THEN FALSE
                   ELSE history[i].undone
    <2>1. CASE ok
      <3>1. history' = MarkUndone(pending.command, FALSE)
        BY <2>1 DEF FinishRedo
      <3>2. /\ history' \in Seq(Entry) /\ Len(history') = Len(history)
            /\ Indices' = Indices
            /\ \A i \in Indices :
                  /\ history'[i].command = history[i].command
                  /\ history'[i].success = history[i].success
                  /\ history'[i].undone =
                       IF history[i].command = pending.command THEN FALSE ELSE history[i].undone
            /\ CommandsDistinct'
        BY <3>1, MarkStep, ZenonT(60)
      <3>3. QED BY <2>1, <3>2
    <2>2. CASE ~ok
      BY <2>2 DEF FinishRedo, Indices
    <2>3. QED BY <2>1, <2>2
  <1>3. From(0)
    <2>1. \A i \in Indices : i + 0 = i
      BY EntryFacts DEF Indices
    <2>2. QED BY <1>2, <2>1 DEF From
  <1>4. ASSUME NEW c \in Commands, InEffect(c)'
        PROVE  IF c = pending.command THEN ok
               ELSE \E i, j \in Indices : /\ i <= j /\ history[i].command = c
                                          /\ history[j].command = pending.command
                                          /\ InEffect(c)
    <2>1. PICK i \in Indices : /\ history[i].command = c /\ history[i].success
                               /\ ~history'[i].undone
      BY <1>1, <1>2, <1>4 DEF InEffect, Idle
    <2>2. /\ currentIndex >= -1 /\ currentIndex + 1 < Len(history)
          /\ history[currentIndex + 2].command = pending.command
          /\ history[currentIndex + 2].undone
      <3>1. history # <<>>
        BY <2>1 DEF Indices
      <3>2. QED BY <1>1, <3>1 DEF IInv, PendingInPlace, canRedo, Following
    <2>3. currentIndex + 2 \in Indices
      BY <2>2, EntryFacts DEF Indices
    <2>4. CASE c = pending.command
      <3>1. i = currentIndex + 2
        BY <2>1, <2>2, <2>3, <2>4 DEF IInv, CommandsDistinct
      <3>2. QED BY <1>2, <2>1, <2>2, <2>4, <3>1
    <2>5. CASE c # pending.command
      <3>1. ~history[i].undone
        BY <1>2, <2>1, <2>5
      <3>2. ~(i > currentIndex + 1)
        BY <3>1 DEF IInv, HistoryShape
      <3>3. i <= currentIndex + 2
        BY <3>2, EntryFacts DEF Indices
      <3>4. InEffect(c)
        BY <2>1, <3>1 DEF InEffect
      <3>5. QED BY <2>1, <2>2, <2>3, <2>5, <3>3, <3>4
    <2>6. QED BY <2>4, <2>5
  <1>5. ASSUME NEW c \in Commands, NotYet(c)' PROVE NotYet(c) /\ (ok => c # pending.command)
    <2>1. PICK i \in Indices : history[i].command = c /\ history'[i].undone
      BY <1>1, <1>2, <1>5 DEF NotYet, Idle
    <2>2. QED BY <1>2, <2>1 DEF NotYet
  <1>6. QED BY <1>1, <1>3, <1>4, <1>5

\* cleanupHistory takes entries away and changes none.
LEMMA CleanHistory ==
    ASSUME IInv, ~CleanupWhileExecuting, CleanupHistory
    PROVE  /\ pending' = pending /\ pending = Idle /\ \E k \in Nat : From(k)
           /\ \A c \in Commands : InEffect(c)' => InEffect(c)
           /\ \A c \in Commands : NotYet(c)' => NotYet(c)
  <1>1. PICK k \in 1..(Len(history) - 1) : history' = SubSeq(history, k + 1, Len(history))
    BY DEF CleanupHistory
  <1>2. pending = Idle /\ pending' = pending
    BY DEF CleanupHistory, isExecuting
  <1>3. history \in Seq(Entry) /\ Len(history) \in Nat /\ k \in Nat
    BY EntryFacts DEF IInv, TypeOK
  <1>4. \A i \in Indices' : i + k \in Indices /\ history'[i] = history[i + k]
    <2>1. k + 1 \in Int /\ Len(history) \in Int /\ k + 1 <= Len(history)
      BY <1>3
    <2>2. \A i \in (k + 1)..Len(history) : history[i] \in Entry
      BY <1>3
    <2>3. /\ Len(history') = Len(history) - (k + 1) + 1
          /\ \A i \in 1..(Len(history) - (k + 1) + 1) : history'[i] = history[(k + 1) + i - 1]
      BY <1>1, <2>1, <2>2, SubSeqProperties
    <2>4. Len(history) - (k + 1) + 1 = Len(history) - k
      BY <1>3
    <2>5. \A i \in 1..(Len(history) - k) :
             (k + 1) + i - 1 = i + k /\ i + k \in 1..Len(history)
      BY <1>3
    <2>6. QED BY <2>3, <2>4, <2>5 DEF Indices
  <1>5. From(k)
    BY <1>4 DEF From
  <1>6. \A c \in Commands : InEffect(c)' => InEffect(c)
    BY <1>2, <1>4 DEF InEffect
  <1>7. \A c \in Commands : NotYet(c)' => NotYet(c)
    BY <1>2, <1>4 DEF NotYet
  <1>8. QED BY <1>2, <1>3, <1>5, <1>6, <1>7

\* What may be executed now: what execute or redo has started.
LEMMA PendingReady ==
    ASSUME IInv, EInv, ~spoiled, pending.op \in {"execute", "redo"}
    PROVE  /\ pending.command \in Commands /\ pending.command \in Live
           /\ Ready(State, pending.command)
  <1>1. PICK c : c = pending.command
    OBVIOUS
  <1>2. c \in Commands /\ c \in Live
    BY <1>1 DEF IInv, TypeOK, Pending, Idle, Live
  <1>3. Leaves(c) \subseteq Single
    BY <1>2, LeavesApart DEF EInv, LiveIsTop
  <1>4. SUFFICES ASSUME NEW p \in Leaves(c)
                 PROVE  /\ Aimed(p) /\ made[p] < MaxMade
                        /\ KindOf[p] = "create" => NoItemOf(State, p)
                        /\ Pointing(p) => target[p][1] \notin Leaves(c)
    BY <1>1, <1>2, <1>3 DEF Ready, State
  <1>5. p \in Commands
    BY <1>3 DEF Single
  <1>6. Aimed(p)
    BY <1>2, <1>5 DEF EInv, TargetsTyped, TargetsMade, Aimed
  <1>7. made[p] < MaxMade
    BY <1>1, EditsAssumption DEF EInv, RunsLeft
  <1>8. NoItemOf(State, p)
    BY <1>1, <1>2 DEF EInv, UndoneIsOff, NotYet, NoItems
  <1>9. Pointing(p) => target[p][1] \notin Leaves(c)
    BY <1>1 DEF EInv, TargetsEarlier, Away
  <1>10. QED BY <1>6, <1>7, <1>8, <1>9

\* What the commands in effect point at are the last items of their creates.
LEMMA TargetLast ==
    ASSUME EInv, NEW c \in Live, InEffect(c), NEW p \in Leaves(c), Pointing(p)
    PROVE  LastMade(State, target[p])
  <1>1. p \in Commands
    BY LeavesApart DEF EInv, LiveIsTop, Single
  <1>2. target[p] \in Ids \ {Settings} /\ KindOf[target[p][1]] = "create"
        /\ target[p] = CreatedId(State, target[p][1])
    BY <1>1 DEF EInv, TargetsTyped, TargetsMade, TargetsFresh
  <1>3. target[p][1] \in Commands /\ target[p][2] \in 1..MaxMade
    BY <1>2 DEF Ids
  <1>4. target[p][2] = State.made[target[p][1]]
    BY <1>2 DEF CreatedId
  <1>5. QED BY <1>2, <1>3, <1>4 DEF LastMade

-----------------------------------------------------------------------------
(***************************************************************************)
(* One lemma per action: it preserves EInv.                                *)
(***************************************************************************)
LEMMA StartKeeps ==
    ASSUME IInv, EInv, NEW c \in Commands, Start(c)
    PROVE  EInv'
  <1> DEFINE pointing == {p \in Leaves(c) : Pointing(p)}
  <1>1. /\ c \in TopLevel /\ \A p \in Leaves(c) : made[p] = 0
        /\ pending = Idle /\ pending' = [op |-> "execute", command |-> c]
        /\ history' = history /\ Indices' = Indices
        /\ \A i \in Indices : history[i].command # c
        /\ State' = State /\ spoiled' = spoiled /\ made' = made /\ hidden' = hidden
    BY DEF Start, StartExecute, State, Indices, isExecuting
  <1>2. PICK f \in [pointing -> DOMAIN chart \ {Settings}] :
           target' = [p \in Commands |-> IF p \in pointing THEN f[p] ELSE target[p]]
    BY DEF Start
  <1>3. Leaves(c) \subseteq Commands /\ \A p \in Leaves(c) : p \in pointing <=> Pointing(p)
    BY <1>1, LeavesApart DEF Single, Pointing
  <1>4. \A p \in Leaves(c) : Pointing(p) => LastMade(State, target'[p])
    <2>1. ASSUME NEW p \in Leaves(c), Pointing(p) PROVE LastMade(State, target'[p])
      <3>1. target'[p] = f[p] /\ f[p] \in DOMAIN chart \ {Settings}
        BY <1>2, <1>3, <2>1
      <3>2. LastMade(State, f[p])
        BY <3>1 DEF EInv, Good, State
      <3>3. QED BY <3>1, <3>2
    <2>2. QED BY <2>1
  <1>5. \A d \in Live' : d = c \/ (d \in Live /\ d # c)
    BY <1>1, InvokerAssumption DEF Live, Idle
  <1>6. \A d \in Live : d # c => \A p \in Leaves(d) : p \in Commands /\ target'[p] = target[p]
    <2>1. \A d \in Live : d # c => Leaves(d) \subseteq Single /\ Leaves(d) \cap Leaves(c) = {}
      BY <1>1, LeavesApart DEF EInv, LiveIsTop
    <2>2. \A p \in Commands : p \notin Leaves(c) => target'[p] = target[p]
      BY <1>2
    <2>3. QED BY <2>1, <2>2 DEF Single
  <1>7. \A x : LastMade(State, x) => /\ x \in Ids /\ x # Settings /\ x[1] \in Commands
                                     /\ KindOf[x[1]] = "create" /\ made[x[1]] >= 1
                                     /\ x = CreatedId(State, x[1])
    <2> SUFFICES ASSUME NEW x, LastMade(State, x)
                 PROVE  /\ x \in Ids /\ x # Settings /\ x[1] \in Commands
                        /\ KindOf[x[1]] = "create" /\ made[x[1]] >= 1
                        /\ x = CreatedId(State, x[1])
      OBVIOUS
    <2>1. /\ x[1] \in Commands /\ KindOf[x[1]] = "create" /\ x = <<x[1], made[x[1]]>>
          /\ made[x[1]] \in 1..MaxMade
      BY DEF LastMade, CreatedId, State
    <2>2. QED BY <2>1, InvokerAssumption, EditsAssumption DEF Ids, Settings, CreatedId, State
  <1>8. TargetsTyped'
    <2>1. target \in [Commands -> Ids] /\ \A p \in Commands : ~Pointing(p) => target[p] = Settings
      BY DEF EInv, TargetsTyped
    <2>2. ASSUME NEW p \in Commands
          PROVE  target'[p] \in Ids /\ (~Pointing(p) => target'[p] = Settings)
      <3>1. CASE p \in pointing
        BY <1>3, <1>4, <1>7, <3>1
      <3>2. CASE p \notin pointing
        BY <1>2, <2>1, <3>2
      <3>3. QED BY <3>1, <3>2
    <2>3. target' = [p \in Commands |-> target'[p]]
      BY <1>2
    <2> HIDE DEF pointing
    <2>4. QED BY <2>2, <2>3 DEF TargetsTyped
  <1> HIDE DEF pointing
  <1>9. LiveIsTop'
    BY <1>1, <1>5 DEF EInv, LiveIsTop
  <1>10. TargetsMade'
    <2>1. ASSUME NEW d \in Live', NEW p \in Leaves(d), Pointing(p)
          PROVE  /\ target'[p] # Settings /\ KindOf[target'[p][1]] = "create"
                 /\ made'[target'[p][1]] >= 1
      <3>1. CASE d = c
        BY <1>1, <1>4, <1>7, <2>1, <3>1
      <3>2. CASE d \in Live /\ d # c
        BY <1>1, <1>6, <2>1, <3>2 DEF EInv, TargetsMade
      <3>3. QED BY <1>5, <3>1, <3>2
    <2>2. QED BY <2>1 DEF TargetsMade
  <1>11. TargetsFresh'
    <2>1. ASSUME NEW d \in Live', InEffect(d)', NEW p \in Leaves(d), Pointing(p)
          PROVE  target'[p] = CreatedId(State, target'[p][1])
      <3>1. CASE d = c
        BY <1>4, <1>7, <2>1, <3>1
      <3>2. CASE d \in Live /\ d # c
        <4>1. InEffect(d)
          BY <1>1, <2>1 DEF InEffect
        <4>2. QED BY <1>6, <2>1, <3>2, <4>1 DEF EInv, TargetsFresh
      <3>3. QED BY <1>5, <3>1, <3>2
    <2>2. QED BY <1>1, <2>1 DEF TargetsFresh, CreatedId
  <1>12. TargetsEarlier'
    <2>1. ASSUME NEW i \in Indices, NEW j \in Indices, i <= j
          PROVE  Away(history[i].command, history[j].command)'
      <3>1. history[i].command \in Live /\ history[i].command # c
        BY <1>1, EntryFacts, InvokerAssumption DEF Live
      <3>2. Away(history[i].command, history[j].command)
        BY <2>1 DEF EInv, TargetsEarlier
      <3>3. QED BY <1>1, <1>6, <3>1, <3>2 DEF Away
    <2>2. Away(c, c)'
      <3>1. ASSUME NEW p \in Leaves(c), Pointing(p) PROVE target'[p][1] \notin Leaves(c)
        <4>1. made[target'[p][1]] >= 1
          BY <1>4, <1>7, <3>1
        <4>2. QED BY <1>1, <4>1
      <3>2. QED BY <3>1 DEF Away
    <2>3. Away(pending.command, pending.command)'
      BY <1>1, <2>2 DEF Away
    <2>4. QED BY <1>1, <2>1, <2>3 DEF TargetsEarlier
  <1>13. RunsLeft'
    BY <1>1 DEF RunsLeft
  <1>14. UndoneIsOff'
    <2>1. ASSUME NEW d \in Live', NotYet(d)', ~spoiled' PROVE NoItems(State', d)
      <3>1. CASE d = c
        <4>1. ASSUME NEW p \in Leaves(c), NEW x \in DOMAIN chart, x[1] = p PROVE FALSE
          <5>1. x # Settings
            BY <1>3, <4>1, InvokerAssumption DEF Settings
          <5>2. LastMade(State, x)
            BY <4>1, <5>1 DEF EInv, Good, State
          <5>3. QED BY <1>1, <1>7, <4>1, <5>2
        <4>2. QED BY <1>1, <3>1, <4>1 DEF NoItems, NoItemOf, State
      <3>2. CASE d \in Live /\ d # c
        <4>1. NotYet(d)
          BY <1>1, <2>1, <3>2 DEF NotYet
        <4>2. QED BY <1>1, <2>1, <3>2, <4>1 DEF EInv, UndoneIsOff
      <3>3. QED BY <1>5, <3>1, <3>2
    <2>2. QED BY <2>1 DEF UndoneIsOff, NoItems, NoItemOf, State
  <1>15. Good(State')
    BY <1>1 DEF EInv
  <1>16. Good(State)' /\ spoiled' \in BOOLEAN /\ hidden' \in BOOLEAN
    BY <1>1, <1>15 DEF EInv, Good, LastMade, CreatedId
  <1>17. QED
    BY <1>8, <1>9, <1>10, <1>11, <1>12, <1>13, <1>14, <1>16 DEF EInv

\* What commands remember does not matter to the items.
LEMMA GoodMemo ==
    ASSUME NEW e, Good(e), Good(State), State'.chart = e.chart, State'.made = e.made,
           memo' \in [Commands -> Commands \cup {None}], twice' \in BOOLEAN
    PROVE  Good(State')
  <1>1. State' = [chart |-> e.chart, memo |-> memo', made |-> e.made, twice |-> twice']
    BY DEF State
  <1>2. PICK f : f = State'
    OBVIOUS
  <1>3. /\ f = [chart |-> f.chart, memo |-> f.memo, made |-> f.made, twice |-> f.twice]
        /\ f.chart = e.chart /\ f.made = e.made /\ f.memo = memo' /\ f.twice \in BOOLEAN
    BY <1>1, <1>2
  <1>4. Good(f)
    BY <1>3 DEF Good, LastMade, CreatedId
  <1>5. QED BY <1>2, <1>4

\* The await of an execute or a redo ends.
LEMMA RunKeeps ==
    ASSUME IInv, IInv', EInv, ~spoiled, NEW c, c = pending.command,
           pending.op \in {"execute", "redo"}, pending' = Idle,
           NEW o, Result(State, c, o),
           chart' = o.state.chart, made' = o.state.made, twice' = o.state.twice,
           memo' \in [Commands -> Commands \cup {None}], spoiled' \in BOOLEAN,
           hidden' \in BOOLEAN,
           NEW k \in Nat, From(k), TargetsKept,
           \A d \in Live : InEffect(d)' =>
              IF d = c THEN o.ok ELSE InEffect(d) /\ Away(d, c),
           \A d \in Live : (NotYet(d)' /\ ~spoiled') =>
              NotYet(d) /\ (d # c \/ chart' = chart)
    PROVE  EInv'
  <1>1. /\ c \in Commands /\ c \in Live /\ c \in TopLevel
    BY PendingReady DEF EInv, LiveIsTop
  <1>2. Good(State') /\ Good(State)
    <2>1. State'.chart = o.state.chart /\ State'.made = o.state.made
      BY DEF State
    <2>2. Good(o.state) /\ Good(State)
      BY DEF Result, EInv
    <2>3. twice' \in BOOLEAN
      BY <2>2 DEF Good
    <2>4. QED BY <2>1, <2>2, <2>3, GoodMemo
  <1>3. /\ \A p \in Commands : made'[p] >= made[p]
        /\ \A p \in Commands \ Leaves(c) : made'[p] = made[p]
        /\ \A x \in DOMAIN chart' : x \in DOMAIN chart \/ x[1] \in Leaves(c)
        /\ o.ok => \A p \in Leaves(c) : Pointing(p) => target[p] \in DOMAIN chart
    <2>1. State.chart = chart /\ State.made = made
      BY DEF State
    <2>2. QED BY <2>1 DEF Result
  <1>4. /\ Live' \subseteq Live
        /\ TargetsTyped' /\ LiveIsTop' /\ TargetsMade' /\ TargetsEarlier'
    BY <1>2, <1>3, FrameStep
  <1>5. \A d \in Live : Leaves(d) \subseteq Commands /\ (d # c => Leaves(d) \cap Leaves(c) = {})
    BY <1>1, LeavesApart DEF EInv, LiveIsTop, Single
  <1>6. TargetsFresh'
    <2>1. ASSUME NEW d \in Live', InEffect(d)', NEW p \in Leaves(d), Pointing(p)
          PROVE  target'[p] = <<target'[p][1], made'[target'[p][1]]>>
      <3>1. d \in Live /\ target'[p] = target[p]
        BY <1>4, <2>1 DEF TargetsKept
      <3>2. PICK t : t = target[p][1]
        OBVIOUS
      <3>3. target[p] = <<t, made[t]>> /\ t \in Commands /\ t \notin Leaves(c)
        <4>1. CASE d = c
          <5>1. target[p] \in DOMAIN chart \ {Settings}
            BY <1>3, <2>1, <3>1, <4>1 DEF EInv, TargetsMade
          <5>2. LastMade(State, target[p])
            BY <1>2, <5>1 DEF Good, State
          <5>3. Away(c, c)
            BY DEF EInv, TargetsEarlier
          <5>4. QED BY <2>1, <3>2, <4>1, <5>2, <5>3 DEF LastMade, CreatedId, State, Away
        <4>2. CASE d # c
          <5>1. InEffect(d) /\ Away(d, c)
            BY <2>1, <3>1, <4>2
          <5>2. LastMade(State, target[p])
            BY <2>1, <3>1, <5>1, TargetLast
          <5>3. QED BY <2>1, <3>2, <5>1, <5>2 DEF LastMade, CreatedId, State, Away
        <4>3. QED BY <4>1, <4>2
      <3>4. QED BY <1>3, <3>1, <3>2, <3>3
    <2>2. QED BY <2>1 DEF TargetsFresh, CreatedId, State
  <1>7. RunsLeft'
    BY DEF RunsLeft, Idle
  <1>8. UndoneIsOff'
    <2>1. ASSUME NEW d \in Live', NotYet(d)', ~spoiled', NEW p \in Leaves(d),
                 NEW x \in DOMAIN chart'
          PROVE  x[1] # p
      <3>1. d \in Live /\ NotYet(d) /\ (d # c \/ chart' = chart)
        BY <1>4, <2>1
      <3>2. x \in DOMAIN chart => x[1] # p
        BY <2>1, <3>1 DEF EInv, UndoneIsOff, NoItems, NoItemOf, State
      <3>3. CASE d # c
        BY <1>3, <1>5, <2>1, <3>1, <3>2, <3>3
      <3>4. CASE chart' = chart
        BY <2>1, <3>2, <3>4
      <3>5. QED BY <3>1, <3>3, <3>4
    <2>2. QED BY <2>1 DEF UndoneIsOff, NoItems, NoItemOf, State
  <1>9. Good(State)'
    BY <1>2 DEF Good, LastMade, CreatedId
  <1>10. QED BY <1>4, <1>6, <1>7, <1>8, <1>9 DEF EInv

\* The await of an execute ends.
LEMMA ExecutedKeeps ==
    ASSUME IInv, IInv', EInv, ~spoiled, Executed
    PROVE  EInv'
  <1>1. PICK o \in Outcomes(State, pending.command) :
           /\ FinishExecute(o.ok)
           /\ chart' = o.state.chart /\ made' = o.state.made /\ twice' = o.state.twice
           /\ hidden' = (hidden \/ o.hidden)
           /\ Keep([before EXCEPT ![pending.command] = View(chart)],
                   [after EXCEPT ![pending.command] = View(o.state.chart)], o.state.memo)
           /\ spoiled' = spoiled
    BY DEF Executed
  <1>2. PICK c : c = pending.command
    OBVIOUS
  <1>3. pending.op = "execute" /\ spoiled' \in BOOLEAN /\ hidden' \in BOOLEAN
    BY <1>1 DEF Executed, EInv
  <1>4. c \in Commands /\ c \in Live /\ Ready(State, c) /\ Good(State)
    BY <1>2, <1>3, PendingReady DEF EInv
  <1>5. Result(State, c, o)
    BY <1>1, <1>2, <1>4, Outcome
  <1>6. /\ pending' = Idle /\ \E k \in Nat : From(k)
        /\ \A d \in Commands : InEffect(d)' => IF d = pending.command THEN o.ok ELSE InEffect(d)
        /\ \A d \in Commands : NotYet(d)' => d # pending.command /\ NotYet(d)
    <2>1. o.ok \in BOOLEAN
      BY <1>5 DEF Result
    <2>2. QED BY <1>1, <2>1, ExecuteHistory
  <1>7. PICK k \in Nat : From(k)
    BY <1>6
  <1>8. LiveIsTop'
    BY <1>6, <1>7, LiveStep
  <1>9. TargetsKept /\ memo' \in [Commands -> Commands \cup {None}]
    <2>1. o.state.memo \in [Commands -> Commands \cup {None}]
      BY <1>5 DEF Result, Good
    <2>2. QED BY <1>1, <1>8, <2>1, KeepStep
  <1>10. ASSUME NEW d \in Live, d # c PROVE Away(d, c)
    <2>1. ASSUME NEW p \in Leaves(d), Pointing(p) PROVE target[p][1] \notin Leaves(c)
      <3>1. made[target[p][1]] >= 1
        BY <1>10, <2>1 DEF EInv, TargetsMade
      <3>2. \A q \in Leaves(c) : made[q] = 0
        BY <1>2, <1>3 DEF EInv, RunsLeft
      <3>3. QED BY <3>1, <3>2
    <2>2. QED BY <2>1 DEF Away
  <1>11. \A d \in Live : InEffect(d)' => IF d = c THEN o.ok ELSE InEffect(d) /\ Away(d, c)
    BY <1>2, <1>6, <1>10 DEF Live
  <1>12. \A d \in Live : (NotYet(d)' /\ ~spoiled') => NotYet(d) /\ (d # c \/ chart' = chart)
    BY <1>2, <1>6 DEF Live
  <1>13. QED
    BY <1>1, <1>2, <1>3, <1>5, <1>6, <1>7, <1>9, <1>11, <1>12, RunKeeps

\* The await of a redo ends.
LEMMA RedoneKeeps ==
    ASSUME IInv, IInv', EInv, ~spoiled, Redone
    PROVE  EInv'
  <1>1. PICK o \in Outcomes(State, pending.command) :
           /\ FinishRedo(o.ok) /\ Apply(o.state)
           /\ spoiled' = (spoiled \/ o.half) /\ hidden' = (hidden \/ o.hidden)
           /\ UNCHANGED <<target, before, after>>
    BY DEF Redone
  <1>2. PICK c : c = pending.command
    OBVIOUS
  <1>3. pending.op = "redo"
    BY DEF Redone
  <1>4. c \in Commands /\ c \in Live /\ Ready(State, c) /\ Good(State)
    BY <1>2, <1>3, PendingReady DEF EInv
  <1>5. Result(State, c, o)
    BY <1>1, <1>2, <1>4, Outcome
  <1>6. o.ok \in BOOLEAN /\ o.half \in BOOLEAN
    BY <1>5 DEF Result
  <1>7. /\ pending' = Idle /\ From(0)
        /\ \A d \in Commands : InEffect(d)' =>
              IF d = pending.command THEN o.ok
              ELSE \E i, j \in Indices : /\ i <= j /\ history[i].command = d
                                         /\ history[j].command = pending.command
                                         /\ InEffect(d)
        /\ \A d \in Commands : NotYet(d)' => NotYet(d) /\ (o.ok => d # pending.command)
    BY <1>1, <1>6, RedoHistory
  <1>8. LiveIsTop'
    BY <1>7, LiveStep
  <1>9. TargetsKept /\ memo' \in [Commands -> Commands \cup {None}]
        /\ chart' = o.state.chart /\ made' = o.state.made /\ twice' = o.state.twice
    <2>1. memo' \in [Commands -> Commands \cup {None}]
          /\ chart' = o.state.chart /\ made' = o.state.made /\ twice' = o.state.twice
      BY <1>1, <1>5 DEF Result, Good, Apply
    <2>2. TargetsKept
      BY <1>1 DEF TargetsKept, EInv, TargetsTyped
    <2>3. QED BY <2>1, <2>2
  <1>10. \A d \in Live : InEffect(d)' => IF d = c THEN o.ok ELSE InEffect(d) /\ Away(d, c)
    BY <1>2, <1>7 DEF Live, EInv, TargetsEarlier
  <1>11. \A d \in Live : (NotYet(d)' /\ ~spoiled') => NotYet(d) /\ (d # c \/ chart' = chart)
    <2>1. (~o.ok /\ ~spoiled') => chart' = chart
      BY <1>1, <1>5, <1>9 DEF Result, State
    <2>2. QED BY <1>2, <1>6, <1>7, <2>1 DEF Live
  <1>12. spoiled' \in BOOLEAN /\ hidden' \in BOOLEAN
    BY <1>1
  <1>13. QED
    BY <1>2, <1>3, <1>5, <1>7, <1>9, <1>10, <1>11, <1>12, RunKeeps

\* A step that leaves the chart alone and puts no command in or out of effect.
LEMMA QuietKeeps ==
    ASSUME IInv, IInv', EInv, NEW k \in Nat, From(k), pending' \in {pending, Idle},
           TargetsKept, chart' = chart, made' = made, twice' = twice, hidden' \in BOOLEAN,
           memo' \in [Commands -> Commands \cup {None}],
           spoiled' \in BOOLEAN, spoiled => spoiled',
           \A d \in Live : InEffect(d)' => InEffect(d),
           \A d \in Live : NotYet(d)' => NotYet(d)
    PROVE  EInv'
  <1>1. Good(State') /\ Good(State)
    <2>1. State'.chart = State.chart /\ State'.made = State.made
      BY DEF State
    <2>2. Good(State)
      BY DEF EInv
    <2>3. twice' \in BOOLEAN
      BY <2>2 DEF Good, State
    <2>4. QED BY <2>1, <2>2, <2>3, GoodMemo
  <1>2. \A p \in Commands : made'[p] >= made[p]
    <2>1. made \in [Commands -> 0..MaxMade] /\ MaxMade \in Nat
      BY <1>1, EditsAssumption DEF Good, State
    <2>2. QED BY <2>1
  <1>3. /\ Live' \subseteq Live
        /\ TargetsTyped' /\ LiveIsTop' /\ TargetsMade' /\ TargetsEarlier'
    BY <1>1, <1>2, FrameStep
  <1>4. TargetsFresh'
    BY <1>3 DEF EInv, TargetsFresh, TargetsKept, CreatedId, State
  <1>5. RunsLeft'
    BY DEF EInv, RunsLeft, Idle
  <1>6. UndoneIsOff'
    BY <1>3 DEF EInv, UndoneIsOff, NoItems, NoItemOf, State
  <1>7. Good(State)'
    BY <1>1 DEF Good, LastMade, CreatedId
  <1>8. QED BY <1>3, <1>4, <1>5, <1>6, <1>7 DEF EInv

\* A step of the history alone keeps what commands know.
LEMMA EditVarsKept ==
    ASSUME EInv, UNCHANGED editVars, LiveIsTop'
    PROVE  /\ TargetsKept /\ chart' = chart /\ made' = made /\ spoiled' = spoiled
           /\ memo' \in [Commands -> Commands \cup {None}] /\ spoiled' \in BOOLEAN
           /\ twice' = twice /\ hidden' \in BOOLEAN
  <1>1. /\ target' = target /\ chart' = chart /\ made' = made /\ memo' = memo
        /\ spoiled' = spoiled /\ hidden' = hidden /\ twice' = twice
    BY DEF editVars
  <1>2. QED BY <1>1 DEF EInv, TargetsKept, TargetsTyped, Good, State

\* A step that changes no entry.
LEMMA IdleKeeps ==
    ASSUME IInv, IInv', EInv, UNCHANGED editVars, UNCHANGED history,
           pending' \in {pending, Idle}
    PROVE  EInv'
  <1>1. Indices' = Indices
    BY DEF Indices
  <1>2. From(0)
    <2>1. \A i \in Indices : i + 0 = i
      BY EntryFacts DEF Indices
    <2>2. QED BY <1>1, <2>1 DEF From
  <1>3. LiveIsTop'
    BY <1>2, LiveStep
  <1>4. /\ TargetsKept /\ chart' = chart /\ made' = made /\ spoiled' = spoiled
        /\ memo' \in [Commands -> Commands \cup {None}] /\ spoiled' \in BOOLEAN
        /\ twice' = twice /\ hidden' \in BOOLEAN
    BY <1>3, EditVarsKept
  <1>5. \A d \in Live : (InEffect(d)' => InEffect(d)) /\ (NotYet(d)' => NotYet(d))
    BY <1>1 DEF InEffect, NotYet, Idle
  <1>6. QED BY <1>2, <1>4, <1>5, QuietKeeps

\* clearHistory.
LEMMA ClearKeeps ==
    ASSUME IInv, IInv', EInv, Clear
    PROVE  EInv'
  <1>0. /\ ClearHistory /\ Keep(before, after, memo) /\ chart' = chart /\ made' = made
        /\ spoiled' = spoiled /\ twice' = twice /\ hidden' \in BOOLEAN
    BY DEF Clear, isExecuting, EInv
  <1>1. history' = <<>> /\ pending' = pending /\ Indices' = {}
    BY <1>0 DEF ClearHistory, Indices
  <1>2. From(0)
    BY <1>1 DEF From
  <1>3. LiveIsTop'
    BY <1>1, <1>2, LiveStep
  <1>4. TargetsKept /\ memo' \in [Commands -> Commands \cup {None}]
    <2>1. memo \in [Commands -> Commands \cup {None}]
      BY DEF EInv, Good, State
    <2>2. QED BY <1>0, <1>3, <2>1, KeepStep
  <1>5. \A d \in Live : (InEffect(d)' => InEffect(d)) /\ (NotYet(d)' => NotYet(d))
    BY <1>1 DEF InEffect, NotYet
  <1>6. spoiled' \in BOOLEAN /\ (spoiled => spoiled')
    BY <1>0 DEF EInv
  <1>7. QED BY <1>0, <1>1, <1>2, <1>4, <1>5, <1>6, QuietKeeps

\* cleanupHistory.
LEMMA CleanKeeps ==
    ASSUME IInv, IInv', EInv, ~CleanupWhileExecuting, Clean
    PROVE  EInv'
  <1>1. /\ CleanupHistory /\ Keep(before, after, memo) /\ chart' = chart /\ made' = made
        /\ twice' = twice /\ hidden' = hidden
        /\ spoiled' = (spoiled \/ \E i \in 1..(Len(history) - Len(history')) :
                                     history[i].undone)
    BY DEF Clean
  <1>2. /\ pending' = pending /\ pending = Idle /\ \E k \in Nat : From(k)
        /\ \A c \in Commands : InEffect(c)' => InEffect(c)
        /\ \A c \in Commands : NotYet(c)' => NotYet(c)
    BY <1>1, CleanHistory
  <1>3. PICK k \in Nat : From(k)
    BY <1>2
  <1>4. LiveIsTop'
    BY <1>2, <1>3, LiveStep
  <1>5. TargetsKept /\ memo' \in [Commands -> Commands \cup {None}]
    <2>1. memo \in [Commands -> Commands \cup {None}]
      BY DEF EInv, Good, State
    <2>2. QED BY <1>1, <1>4, <2>1, KeepStep
  <1>6. \A d \in Live : (InEffect(d)' => InEffect(d)) /\ (NotYet(d)' => NotYet(d))
    BY <1>2 DEF Live
  <1>7. spoiled' \in BOOLEAN /\ hidden' \in BOOLEAN /\ (spoiled => spoiled')
    BY <1>1 DEF EInv
  <1>8. QED BY <1>1, <1>2, <1>3, <1>5, <1>6, <1>7, QuietKeeps

\* An undo starts: its command was in effect, and still is.
LEMMA StartUndoKeeps ==
    ASSUME IInv, IInv', EInv, StartUndo, UNCHANGED editVars
    PROVE  EInv'
  <1>1. PICK c : c = Current.command
    OBVIOUS
  <1>2. /\ pending' = [op |-> "undo", command |-> c] /\ pending = Idle
        /\ history' = history /\ Indices' = Indices
        /\ chart' = chart /\ made' = made /\ memo' = memo /\ target' = target
        /\ spoiled' = spoiled /\ hidden' = hidden /\ twice' = twice
    BY <1>1 DEF StartUndo, isExecuting, Indices, editVars
  <1>3. PICK i \in Indices : history[i].command = c /\ history[i].success /\ ~history[i].undone
    <2>1. currentIndex + 1 \in Indices
      BY EntryFacts DEF StartUndo, canUndo, Indices
    <2>2. QED BY <1>1, <2>1 DEF StartUndo, canUndo, Current
  <1>4. Live' = Live
    BY <1>2, <1>3, InvokerAssumption DEF Live, Idle
  <1>5. \A d \in Live : (InEffect(d)' => InEffect(d)) /\ (NotYet(d)' => NotYet(d))
    BY <1>2, <1>3 DEF InEffect, NotYet
  <1>6. TargetsTyped' /\ LiveIsTop' /\ TargetsMade' /\ RunsLeft'
    BY <1>2, <1>4 DEF EInv, TargetsTyped, LiveIsTop, TargetsMade, RunsLeft
  <1>7. TargetsFresh'
    BY <1>2, <1>4, <1>5 DEF EInv, TargetsFresh, CreatedId, State
  <1>8. TargetsEarlier'
    <2>1. Away(c, c)
      BY <1>3, EntryFacts DEF EInv, TargetsEarlier, Indices
    <2>2. QED BY <1>2, <2>1 DEF EInv, TargetsEarlier, Away
  <1>9. UndoneIsOff'
    BY <1>2, <1>4, <1>5 DEF EInv, UndoneIsOff, NoItems, NoItemOf, State
  <1>10. Good(State)' /\ spoiled' \in BOOLEAN /\ hidden' \in BOOLEAN
    BY <1>2 DEF EInv, Good, LastMade, CreatedId, State
  <1>11. QED BY <1>6, <1>7, <1>8, <1>9, <1>10 DEF EInv

\* A redo starts: its command was undone, and still is.
LEMMA StartRedoKeeps ==
    ASSUME IInv, IInv', EInv, StartRedo, UNCHANGED editVars,
           \A p \in Leaves(Following.command) : made[p] < MaxMade
    PROVE  EInv'
  <1>1. PICK c : c = Following.command
    OBVIOUS
  <1>2. /\ pending' = [op |-> "redo", command |-> c] /\ pending = Idle
        /\ history' = history /\ Indices' = Indices
        /\ chart' = chart /\ made' = made /\ memo' = memo /\ target' = target
        /\ spoiled' = spoiled /\ hidden' = hidden /\ twice' = twice
    BY <1>1 DEF StartRedo, isExecuting, Indices, editVars
  <1>3. PICK i \in Indices : history[i].command = c /\ history[i].undone
    <2>1. currentIndex + 2 \in Indices
      BY EntryFacts DEF StartRedo, canRedo, Indices
    <2>2. QED BY <1>1, <2>1 DEF StartRedo, canRedo, Following
  <1>4. Live' = Live
    BY <1>2, <1>3, InvokerAssumption DEF Live, Idle
  <1>5. \A d \in Live : (InEffect(d)' => InEffect(d)) /\ (NotYet(d)' => NotYet(d))
    BY <1>2, <1>3 DEF InEffect, NotYet
  <1>6. TargetsTyped' /\ LiveIsTop' /\ TargetsMade'
    BY <1>2, <1>4 DEF EInv, TargetsTyped, LiveIsTop, TargetsMade
  <1>7. TargetsFresh'
    BY <1>2, <1>4, <1>5 DEF EInv, TargetsFresh, CreatedId, State
  <1>8. TargetsEarlier'
    <2>1. Away(c, c)
      BY <1>3, EntryFacts DEF EInv, TargetsEarlier, Indices
    <2>2. QED BY <1>2, <2>1 DEF EInv, TargetsEarlier, Away
  <1>9. UndoneIsOff'
    BY <1>2, <1>4, <1>5 DEF EInv, UndoneIsOff, NoItems, NoItemOf, State
  <1>10. Good(State)' /\ spoiled' \in BOOLEAN /\ hidden' \in BOOLEAN
    BY <1>2 DEF EInv, Good, LastMade, CreatedId, State
  <1>11. RunsLeft'
    BY <1>1, <1>2 DEF RunsLeft
  <1>12. QED BY <1>6, <1>7, <1>8, <1>9, <1>10, <1>11 DEF EInv

\* What an undo gives, all of it or but for the parts that throw.
Undo(c, stuck) ==
    IF c \in Batches THEN UndoParts(State, c, Len(PartsOf[c]), stuck) ELSE UndoOne(State, c)

\* What the undo of a command in effect gives.
LEMMA UndoResult ==
    ASSUME IInv, EInv, NEW c \in Live, InEffect(c), NEW stuck, NEW f, f = Undo(c, stuck)
    PROVE  /\ Good(f) /\ f.made = made /\ f.memo = memo
           /\ \A x \in DOMAIN f.chart :
                 x \in DOMAIN chart \/ \E p \in Leaves(c) : Pointing(p) /\ x = target[p]
           /\ stuck = {} => NoItems(f, c)
  <1>1. c \in TopLevel /\ c \in Commands /\ Leaves(c) \subseteq Single
    BY LeavesApart DEF EInv, LiveIsTop, Live
  <1>2. PICK e : e = State
    OBVIOUS
  <1>3. /\ Good(e) /\ e.chart = chart /\ e.made = made /\ e.memo = memo
    BY <1>2 DEF EInv, State
  <1>4. \A p \in Leaves(c) : Aims(e, c, p)
    <2>1. ASSUME NEW p \in Leaves(c) PROVE Aims(e, c, p)
      <3>1. Aimed(p)
        BY <1>1 DEF EInv, TargetsTyped, TargetsMade, Aimed, Single
      <3>2. Pointing(p) => LastMade(e, target[p])
        BY <1>2, TargetLast
      <3>3. Away(c, c)
        BY EntryFacts DEF Live, InEffect, EInv, TargetsEarlier, Indices
      <3>4. QED BY <3>1, <3>2, <3>3 DEF Aims, Away
    <2>2. QED BY <2>1
  <1>5. ASSUME NEW p \in Leaves(c), KindOf[p] # "create", Good(f), NEW x \in DOMAIN f.chart
        PROVE  x[1] # p
    <2>1. CASE x = Settings
      BY <1>1, <2>1, InvokerAssumption DEF Settings, Single
    <2>2. CASE x # Settings
      BY <1>5, <2>2 DEF Good, LastMade
    <2>3. QED BY <2>1, <2>2
  <1>6. CASE c \in Batches
    <2>1. PICK n : n = Len(PartsOf[c])
      OBVIOUS
    <2>2. n \in 0..Len(PartsOf[c]) /\ \A i \in 1..n : PartsOf[c][i] \in Leaves(c)
      BY <1>6, <2>1, Parts
    <2>3. \A i \in 1..n : Aims(e, c, PartsOf[c][i])
      BY <1>4, <2>2
    <2>4. f = UndoParts(e, c, n, stuck)
      BY <1>2, <1>6, <2>1 DEF Undo
    <2>5. /\ Good(f) /\ f.made = e.made /\ f.memo = e.memo
          /\ \A x \in DOMAIN f.chart : x \in DOMAIN e.chart \/ TargetOf(c, n, x)
          /\ NoneStuck(stuck, n) =>
                \A j \in 1..n :
                   KindOf[PartsOf[c][j]] = "create" => NoItemOf(f, PartsOf[c][j])
      BY <1>3, <1>6, <2>2, <2>3, <2>4, UndoPartsGood
    <2>6. \A x : TargetOf(c, n, x) => \E p \in Leaves(c) : Pointing(p) /\ x = target[p]
      BY <2>2 DEF TargetOf
    <2>7. ASSUME stuck = {}, NEW p \in Leaves(c) PROVE NoItemOf(f, p)
      <3>1. NoneStuck(stuck, n)
        BY <2>7 DEF NoneStuck
      <3>2. PICK j \in 1..n : p = PartsOf[c][j]
        BY <1>6, <2>1, Parts
      <3>3. QED BY <1>5, <2>5, <3>1, <3>2 DEF NoItemOf
    <2>8. QED BY <1>3, <2>5, <2>6, <2>7 DEF NoItems
  <1>7. CASE c \notin Batches
    <2>1. Leaves(c) = {c} /\ c \in Single
      BY <1>1, <1>7 DEF Leaves, Single
    <2>2. f = UndoOne(e, c)
      BY <1>2, <1>7 DEF Undo
    <2>3. Aimed(c) /\ (Pointing(c) => LastMade(e, target[c]))
      BY <1>4, <2>1 DEF Aims
    <2>4. KindOf[c] \in {"delete", "remove"} => LastMade(e, target[c])
      BY <2>3 DEF Pointing
    <2>5. /\ Good(f)
          /\ f.made = e.made /\ f.memo = e.memo
          /\ KindOf[c] = "create" => DOMAIN f.chart = DOMAIN e.chart \ {CreatedId(e, c)}
          /\ KindOf[c] \in {"update", "set"} => DOMAIN f.chart = DOMAIN e.chart
          /\ KindOf[c] \in {"delete", "remove"} => DOMAIN f.chart = DOMAIN e.chart \cup {target[c]}
      BY <1>3, <2>1, <2>2, <2>3, <2>4, UndoGood
    <2>6. KindOf[c] \in {"create", "update", "delete", "remove", "set"}
      BY <2>1, EditsAssumption DEF Single, Batches, Kinds
    <2>7. \A x \in DOMAIN f.chart : x \in DOMAIN e.chart \/ (Pointing(c) /\ x = target[c])
      BY <2>5, <2>6 DEF Pointing
    <2>8. ASSUME KindOf[c] = "create", NEW x \in DOMAIN f.chart PROVE x[1] # c
      <3>1. x \in DOMAIN e.chart /\ x # CreatedId(e, c)
        BY <2>5, <2>8
      <3>2. CASE x = Settings
        BY <1>1, <3>2, InvokerAssumption DEF Settings
      <3>3. CASE x # Settings
        BY <1>3, <3>1, <3>3 DEF Good, LastMade
      <3>4. QED BY <3>2, <3>3
    <2>9. NoItemOf(f, c)
      BY <1>5, <2>1, <2>5, <2>8 DEF NoItemOf
    <2>10. QED BY <1>3, <2>1, <2>5, <2>7, <2>9 DEF NoItems
  <1>8. QED BY <1>6, <1>7

\* The await of an undo ends.
LEMMA UndoneKeeps ==
    ASSUME IInv, IInv', EInv, ~spoiled, Undone
    PROVE  EInv'
  <1>1. CASE FinishUndo(FALSE) /\ UNCHANGED editVars
    <2>1. UNCHANGED history /\ pending' = Idle
      BY <1>1 DEF FinishUndo
    <2>2. QED BY <1>1, <2>1, IdleKeeps
  <1>2. ASSUME NEW c, c = pending.command, pending.op = "undo", c \in executed,
               NEW stuck, Apply(Undo(c, stuck)), spoiled' = (spoiled \/ stuck # {}),
               FinishUndo(TRUE), UNCHANGED <<target, before, after, hidden>>
        PROVE  EInv'
    <2>1. c \in Live /\ InEffect(c)
      BY <1>2 DEF IInv, TypeOK, Pending, Idle, Live, InEffect
    <2>2. PICK f : f = Undo(c, stuck)
      OBVIOUS
    <2>3. chart' = f.chart /\ memo' = f.memo /\ made' = f.made /\ twice' = f.twice
      BY <1>2, <2>2 DEF Apply
    <2>4. /\ Good(f) /\ f.made = made /\ f.memo = memo
          /\ \A x \in DOMAIN f.chart :
                x \in DOMAIN chart \/ \E p \in Leaves(c) : Pointing(p) /\ x = target[p]
          /\ stuck = {} => NoItems(f, c)
      BY <2>1, <2>2, UndoResult
    <2>5. /\ pending' = Idle /\ From(0)
          /\ \A d \in Commands : InEffect(d)' => InEffect(d)
          /\ \A d \in Commands : NotYet(d)' =>
                \E i, j \in Indices : /\ i <= j /\ history[i].command = pending.command
                                      /\ history[j].command = d
                                      /\ d = pending.command \/ NotYet(d)
      BY <1>2, UndoHistory
    <2>6. LiveIsTop'
      BY <2>5, LiveStep
    <2>7. TargetsKept
      BY <1>2 DEF TargetsKept, EInv, TargetsTyped
    <2>8. Good(State')
      <3>1. State'.chart = f.chart /\ State'.made = f.made
        BY <2>3 DEF State
      <3>2. memo' \in [Commands -> Commands \cup {None}] /\ Good(State) /\ twice' \in BOOLEAN
        BY <2>3, <2>4 DEF Good, EInv
      <3>3. QED BY <2>4, <3>1, <3>2, GoodMemo
    <2>9. made' = made /\ \A p \in Commands : made'[p] >= made[p]
      <3>1. made \in [Commands -> 0..MaxMade] /\ MaxMade \in Nat
        BY EditsAssumption DEF EInv, Good, State
      <3>2. QED BY <2>3, <2>4, <3>1
    <2>10. /\ Live' \subseteq Live
           /\ TargetsTyped' /\ LiveIsTop' /\ TargetsMade' /\ TargetsEarlier'
      BY <2>5, <2>7, <2>8, <2>9, FrameStep
    <2>11. TargetsFresh'
      BY <2>5, <2>7, <2>9, <2>10 DEF Live, EInv, TargetsFresh, TargetsKept, CreatedId, State
    <2>12. RunsLeft'
      BY <2>5 DEF RunsLeft, Idle
    <2>13. UndoneIsOff'
      <3>1. ASSUME NEW d \in Live', NotYet(d)', ~spoiled', NEW p \in Leaves(d),
                   NEW x \in DOMAIN chart', x[1] = p
            PROVE  FALSE
        <4>1. stuck = {} /\ d \in Live
          BY <1>2, <2>10, <3>1
        <4>2. PICK i, j \in Indices : /\ i <= j /\ history[i].command = c
                                      /\ history[j].command = d
                                      /\ d = c \/ NotYet(d)
          BY <1>2, <2>5, <3>1 DEF Live
        <4>3. CASE d = c
          BY <2>3, <2>4, <3>1, <4>1, <4>3 DEF NoItems, NoItemOf
        <4>4. CASE NotYet(d)
          <5>1. x \notin DOMAIN chart
            BY <3>1, <4>1, <4>4 DEF EInv, UndoneIsOff, NoItems, NoItemOf, State
          <5>2. PICK q \in Leaves(c) : Pointing(q) /\ x = target[q]
            BY <2>3, <2>4, <3>1, <5>1
          <5>3. Away(c, d)
            BY <4>2 DEF EInv, TargetsEarlier
          <5>4. QED BY <3>1, <5>2, <5>3 DEF Away
        <4>5. QED BY <4>2, <4>3, <4>4
      <3>2. QED BY <3>1 DEF UndoneIsOff, NoItems, NoItemOf, State
    <2>14. Good(State)' /\ spoiled' \in BOOLEAN /\ hidden' \in BOOLEAN
      BY <1>2, <2>8 DEF EInv, Good, LastMade, CreatedId
    <2>15. QED BY <2>10, <2>11, <2>12, <2>13, <2>14 DEF EInv
  <1>3. QED BY <1>1, <1>2 DEF Undone, Undo

\* Time passes.
LEMMA GrowOldKeeps ==
    ASSUME IInv, IInv', EInv, NEW S, GrowOld(S), UNCHANGED editVars
    PROVE  EInv'
  BY IdleKeeps DEF GrowOld

\* Nothing happens.
LEMMA StillKeeps ==
    ASSUME IInv, IInv', EInv, UNCHANGED allVars
    PROVE  EInv'
  BY IdleKeeps DEF allVars, editVars

-----------------------------------------------------------------------------
\* A step of the edits is a step of the history.
LEMMA EditsStep ==
    ASSUME IInv, EInv, [EditsNext]_allVars
    PROVE  [Next]_vars
  <1>1. ASSUME NEW c \in Commands, Start(c) PROVE Next
    BY <1>1 DEF Start, Next
  <1>2. ASSUME ~spoiled, NEW o, o \in Outcomes(State, pending.command),
               pending.op \in {"execute", "redo"}
        PROVE  o.ok \in BOOLEAN
    <2>1. /\ pending.command \in Commands /\ Ready(State, pending.command) /\ Good(State)
      BY <1>2, PendingReady DEF EInv
    <2>2. Result(State, pending.command, o)
      BY <1>2, <2>1, Outcome
    <2>3. QED BY <2>2 DEF Result
  <1>3. ASSUME ~spoiled, Executed PROVE Next
    <2>1. PICK o \in Outcomes(State, pending.command) : FinishExecute(o.ok)
      BY <1>3 DEF Executed
    <2>2. o.ok \in BOOLEAN
      BY <1>2, <1>3, <2>1 DEF Executed
    <2>3. QED BY <2>1, <2>2 DEF Next
  <1>4. ASSUME Undone PROVE Next
    <2>1. FinishUndo(FALSE) \/ FinishUndo(TRUE)
      BY <1>4 DEF Undone
    <2>2. QED BY <2>1 DEF Next
  <1>5. ASSUME ~spoiled, Redone PROVE Next
    <2>1. PICK o \in Outcomes(State, pending.command) : FinishRedo(o.ok)
      BY <1>5 DEF Redone
    <2>2. o.ok \in BOOLEAN
      BY <1>2, <1>5, <2>1 DEF Redone
    <2>3. QED BY <2>1, <2>2 DEF Next
  <1>6. ASSUME NEW k \in Indices,
               GrowOld(aged \cup {history[i].command : i \in 1..k})
        PROVE  Next
    <2>1. aged \cup {history[i].command : i \in 1..k} \in SUBSET Commands
      BY EntryFacts, InvokerAssumption DEF IInv, TypeOK, Indices
    <2>2. QED BY <1>6, <2>1 DEF Next
  <1>7. CASE EditsNext
    BY <1>1, <1>3, <1>4, <1>5, <1>6, <1>7 DEF EditsNext, Clean, Clear, Next
  <1>8. CASE UNCHANGED allVars
    BY <1>8 DEF allVars, vars
  <1>9. QED BY <1>7, <1>8

\* Every step preserves EInv.
LEMMA EditsKeep ==
    ASSUME IInv, IInv', EInv, ~CleanupWhileExecuting, [EditsNext]_allVars
    PROVE  EInv'
  <1>1. CASE UNCHANGED allVars
    BY <1>1, StillKeeps
  <1>2. CASE EditsNext
    BY <1>2, StartKeeps, ExecutedKeeps, UndoneKeeps, RedoneKeeps, StartUndoKeeps,
       StartRedoKeeps, CleanKeeps, ClearKeeps, GrowOldKeeps DEF EditsNext
  <1>3. QED BY <1>1, <1>2

\* Nothing is on the chart at first.
LEMMA InitEInv == ASSUME EditsInit PROVE EInv
  <1>1. Live = {}
    BY InvokerAssumption DEF EditsInit, Init, Live, Indices, Idle
  <1>2. Good(State)
    <2>1. PICK e : e = State
      OBVIOUS
    <2>2. /\ e.chart = EmptyChart /\ e.memo = [c \in Commands |-> None]
          /\ e.made = [c \in Commands |-> 0]
          /\ e.twice = FALSE
          /\ e = [chart |-> e.chart, memo |-> e.memo, made |-> e.made, twice |-> e.twice]
      BY <2>1 DEF EditsInit, State
    <2>3. DOMAIN EmptyChart = {Settings} /\ EmptyChart = [i \in {Settings} |-> EmptyChart[i]]
          /\ EmptyChart[Settings] = None
      BY DEF EmptyChart
    <2>4. e.twice \in BOOLEAN
      BY <2>2
    <2>5. /\ e.chart = [i \in DOMAIN e.chart |-> e.chart[i]]
          /\ Settings \in DOMAIN e.chart
          /\ \A i \in DOMAIN e.chart : e.chart[i] \in Commands \cup {None}
          /\ \A i \in DOMAIN e.chart \ {Settings} : LastMade(e, i)
      BY <2>2, <2>3
    <2>6. /\ e.memo \in [Commands -> Commands \cup {None}]
          /\ e.made \in [Commands -> 0..MaxMade]
      BY <2>2, EditsAssumption
    <2>7. QED BY <2>1, <2>2, <2>4, <2>5, <2>6 DEF Good
  <1>3. TargetsTyped
    BY DEF EditsInit, TargetsTyped, Ids
  <1>4. /\ LiveIsTop /\ TargetsMade /\ TargetsFresh /\ UndoneIsOff
    BY <1>1 DEF LiveIsTop, TargetsMade, TargetsFresh, UndoneIsOff
  <1>5. TargetsEarlier /\ RunsLeft
    BY DEF EditsInit, Init, Idle, Indices, TargetsEarlier, RunsLeft
  <1>6. QED BY <1>2, <1>3, <1>4, <1>5 DEF EInv, EditsInit

\* Whatever commands do, their history is the one of CommandInvoker, and both
\* invariants hold.
THEOREM EditsInvariance ==
    ~CleanupWhileExecuting => (EditsSpec => Spec /\ [](IInv /\ EInv))
  <1> SUFFICES ASSUME ~CleanupWhileExecuting
               PROVE  EditsSpec => Spec /\ [](IInv /\ EInv)
    OBVIOUS
  <1>1. EditsInit => Init /\ IInv /\ EInv
    BY InvokerAssumption, InitIInv, InitEInv DEF EditsInit
  <1>2. IInv /\ EInv /\ [EditsNext]_allVars => [Next]_vars /\ (IInv /\ EInv)'
    <2> SUFFICES ASSUME IInv, EInv, [EditsNext]_allVars
                 PROVE  [Next]_vars /\ IInv' /\ EInv'
      OBVIOUS
    <2>1. [Next]_vars
      BY EditsStep
    <2>2. IInv'
      BY <2>1, NextIInv, InvokerAssumption
    <2>3. QED BY <2>1, <2>2, EditsKeep
  <1>3. QED BY <1>1, <1>2, PTL DEF EditsSpec, Spec

-----------------------------------------------------------------------------
(***************************************************************************)
(* The properties of the commands.                                         *)
(***************************************************************************)
\* Whatever commands do to the chart, their history is that of CommandInvoker: what
\* is proved of it there holds of it here.
THEOREM EditsKeepHistory == ~CleanupWhileExecuting => (EditsSpec => Spec)
  BY EditsInvariance, PTL

\* The chart, the targets and what commands remember are always of their types: no
\* item is named by a command that could not have made it.
THEOREM EditsTypeCorrect == ~CleanupWhileExecuting => (EditsSpec => []EditsTypeOK)
  <1>1. IInv /\ EInv => EditsTypeOK
    <2> SUFFICES ASSUME IInv, EInv PROVE EditsTypeOK
      OBVIOUS
    <2>1. TypeOK
      BY DEF IInv
    <2>2. /\ Settings \in DOMAIN chart
          /\ \A i \in DOMAIN chart : chart[i] \in Commands \cup {None}
          /\ memo \in [Commands -> Commands \cup {None}]
          /\ made \in [Commands -> 0..MaxMade]
          /\ \A i \in DOMAIN chart \ {Settings} : LastMade(State, i)
          /\ twice \in BOOLEAN
      BY DEF EInv, Good, State
    <2>3. \A i \in DOMAIN chart \ {Settings} : i \in Ids
      BY <2>2 DEF LastMade, CreatedId, Ids
    <2>4. DOMAIN chart \subseteq Ids
      BY <2>3 DEF Ids
    <2>5. target \in [Commands -> Ids] /\ spoiled \in BOOLEAN /\ hidden \in BOOLEAN
      BY DEF EInv, TargetsTyped
    <2>6. QED BY <2>1, <2>2, <2>4, <2>5 DEF EditsTypeOK
  <1>2. QED BY <1>1, EditsInvariance, PTL

\* A create never has two items on the chart, and none while it is undone, however
\* often it is undone and redone and whatever batches are rolled back meanwhile.
LEMMA OneItemOf ==
    ASSUME IInv, EInv, ~spoiled, NEW c \in Commands, KindOf[c] = "create"
    PROVE  /\ \A i, j \in DOMAIN chart : i[1] = c /\ j[1] = c => i = j
           /\ (\E h \in DOMAIN history : history[h].command = c /\ history[h].undone)
                 => \A i \in DOMAIN chart : i[1] # c
  <1>1. \A i \in DOMAIN chart : i[1] = c => i = CreatedId(State, c)
    <2>1. Settings[1] # c
      BY InvokerAssumption DEF Settings
    <2>2. QED BY <2>1 DEF EInv, Good, State, LastMade
  <1>2. ASSUME NEW h \in DOMAIN history, history[h].command = c, history[h].undone
        PROVE  \A i \in DOMAIN chart : i[1] # c
    <2>1. h \in Indices
      BY DEF IInv, TypeOK, Indices
    <2>2. c \in Live /\ NotYet(c)
      BY <1>2, <2>1 DEF Live, NotYet
    <2>3. Leaves(c) = {c}
      BY DEF Leaves, Batches
    <2>4. QED BY <2>2, <2>3 DEF EInv, UndoneIsOff, NoItems, NoItemOf, State
  <1>3. QED BY <1>1, <1>2

\* A redo is over when its await ends, and only then.
LEMMA RedoEnds ==
    ASSUME EditsNext, pending.op = "redo", pending' = Idle
    PROVE  Redone
  <1>1. pending # Idle
    BY DEF Idle
  <1>2. QED
    BY <1>1 DEF EditsNext, Start, StartExecute, Executed, Undone, FinishUndo, StartUndo,
       StartRedo, Clean, CleanupHistory, Clear, ClearHistory, GrowOld, isExecuting

\* A drawing batch whose redo fails has put the chart back as it was, and nothing on
\* it twice, if no undo of its parts threw and no delete hid that its drawing stayed.
THEOREM RollbackLeavesNothing ==
    ~CleanupWhileExecuting => (EditsSpec => FailedBatchLeavesNothing)
  <1>1. IInv /\ EInv /\ [EditsNext]_allVars =>
           [(pending.op = "redo" /\ pending' = Idle /\ KindOf[pending.command] = "batch"
                /\ pending.command \notin executed' /\ ~spoiled' /\ ~hidden')
            => chart' = chart /\ ~twice']_allVars
    <2> SUFFICES ASSUME IInv, EInv, EditsNext, pending.op = "redo", pending' = Idle,
                        pending.command \notin executed', ~spoiled', ~hidden'
                 PROVE  chart' = chart /\ ~twice'
      OBVIOUS
    <2>1. Redone /\ ~spoiled /\ ~twice
      BY RedoEnds DEF EditsNext
    <2>2. PICK o \in Outcomes(State, pending.command) :
             /\ FinishRedo(o.ok) /\ Apply(o.state)
             /\ spoiled' = (spoiled \/ o.half) /\ hidden' = (hidden \/ o.hidden)
      BY <2>1 DEF Redone
    <2>3. Result(State, pending.command, o)
      BY <2>1, <2>2, PendingReady, Outcome DEF EInv
    <2>4. ~o.ok
      BY <2>2 DEF FinishRedo
    <2>5. ~o.half /\ ~o.hidden
      BY <2>2
    <2>6. /\ (~o.ok /\ ~o.half) => o.state.chart = State.chart
          /\ ~o.hidden => o.state.twice = State.twice
      BY <2>3 DEF Result
    <2>7. QED BY <2>1, <2>2, <2>4, <2>5, <2>6 DEF Apply, State
  <1>2. QED BY <1>1, EditsInvariance, PTL DEF EditsSpec, FailedBatchLeavesNothing
=============================================================================
