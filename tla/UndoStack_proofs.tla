-------------------------- MODULE UndoStack_proofs --------------------------
(***************************************************************************)
(* The commands and their history implement the abstract undo stack, for   *)
(* every set of commands, every kind of each, batches of any length and    *)
(* every bound, as long as nobody calls cleanupHistory while a command is  *)
(* awaited.                                                                *)
(*                                                                         *)
(* A redo gives items other ids, so the charts themselves do not come      *)
(* back; their views do.  What a command does to a view, and its undo with *)
(* what it remembers, comes first; LInv then says that the views before    *)
(* and after the entries of the history link up and that each command in   *)
(* effect still remembers what leads from one to the other; and the        *)
(* entries read as two stacks of views make each step one of UndoStack.    *)
(***************************************************************************)
EXTENDS ChartEdits_proofs

-----------------------------------------------------------------------------
(***************************************************************************)
(* What a command does to what the user sees.  Items have other ids after  *)
(* a redo, so undo is followed in the views: V is what was seen before a   *)
(* command and W what is seen after it.                                    *)
(***************************************************************************)
IsFn(V) == V = [x \in DOMAIN V |-> V[x]]

Makers(d) == {i[1] : i \in DOMAIN d}

LEMMA SameMakers ==
    ASSUME NEW d, NEW f, DOMAIN f = DOMAIN d
    PROVE  Makers(f) = Makers(d)
  BY DEF Makers

LEMMA MoreMakers ==
    ASSUME NEW d, NEW f, NEW i, DOMAIN f = DOMAIN d \cup {i}
    PROVE  Makers(f) = Makers(d) \cup {i[1]}
  BY DEF Makers

LEMMA LessMakers ==
    ASSUME NEW d, NEW f, NEW i, DOMAIN f = DOMAIN d \ {i},
           \A j \in DOMAIN d : j[1] = i[1] => j = i
    PROVE  Makers(f) = Makers(d) \ {i[1]}
  <1>1. ASSUME NEW x PROVE x \in Makers(f) <=> x \in Makers(d) /\ x # i[1]
    BY DEF Makers
  <1>2. QED BY <1>1

\* Of each maker there is one item, and the view shows it.
Shows(e, V) ==
    /\ IsFn(V) /\ None \in DOMAIN V /\ DOMAIN V = Makers(e.chart)
    /\ \A i \in DOMAIN e.chart : i[1] \in DOMAIN V /\ V[i[1]] = e.chart[i]
    /\ \A x \in DOMAIN V : \E i \in DOMAIN e.chart : i[1] = x
    /\ \A i \in DOMAIN e.chart : i[1] # None => i = CreatedId(e, i[1])

LEMMA ViewOf ==
    ASSUME NEW e, Good(e), NEW V, V = View(e.chart)
    PROVE  Shows(e, V)
  <1>1. \A i, j \in DOMAIN e.chart : i[1] = j[1] => i = j
    <2>1. \A i \in DOMAIN e.chart \ {Settings} :
             i[1] \in Commands /\ i = CreatedId(e, i[1])
      BY DEF Good, LastMade
    <2>2. Settings[1] = None /\ None \notin Commands
      BY InvokerAssumption DEF Settings
    <2>3. QED BY <2>1, <2>2
  <1>2. V = [x \in {i[1] : i \in DOMAIN e.chart} |->
                e.chart[CHOOSE i \in DOMAIN e.chart : i[1] = x]]
    BY DEF View
  <1>3. DOMAIN V = {i[1] : i \in DOMAIN e.chart}
    BY <1>2
  <1>4. IsFn(V)
    BY <1>2 DEF IsFn
  <1>5. ASSUME NEW i \in DOMAIN e.chart PROVE i[1] \in DOMAIN V /\ V[i[1]] = e.chart[i]
    <2>1. PICK j : j = CHOOSE k \in DOMAIN e.chart : k[1] = i[1]
      OBVIOUS
    <2>2. j \in DOMAIN e.chart /\ j[1] = i[1]
      BY <2>1
    <2>3. j = i
      BY <1>1, <2>2
    <2>4. i[1] \in DOMAIN V
      BY <1>3
    <2>5. V[i[1]] = e.chart[j]
      BY <1>2, <1>3, <2>1, <2>4
    <2>6. QED BY <2>3, <2>4, <2>5
  <1>6. \A x \in DOMAIN V : \E i \in DOMAIN e.chart : i[1] = x
    BY <1>3
  <1>7. None \in DOMAIN V
    BY <1>5 DEF Good, Settings
  <1>8. \A i \in DOMAIN e.chart : i[1] # None => i = CreatedId(e, i[1])
    BY DEF Good, LastMade, Settings
  <1>9. QED BY <1>3, <1>4, <1>5, <1>6, <1>7, <1>8 DEF Makers, Shows

\* p, made for the item of t and remembering m, leads from V to W.
Edited(p, t, m, V, W) ==
    /\ IsFn(W)
    /\ KindOf[p] = "create" =>
          /\ p \notin DOMAIN V /\ DOMAIN W = DOMAIN V \cup {p} /\ W[p] = p
          /\ \A x \in DOMAIN V : W[x] = V[x]
    /\ KindOf[p] \in {"update", "set"} =>
          /\ t \in DOMAIN V /\ m = V[t] /\ DOMAIN W = DOMAIN V /\ W[t] = p
          /\ \A x \in DOMAIN V \ {t} : W[x] = V[x]
    /\ KindOf[p] \in {"delete", "remove"} =>
          /\ t \in DOMAIN V /\ m = V[t] /\ DOMAIN W = DOMAIN V \ {t}
          /\ \A x \in DOMAIN W : W[x] = V[x]

\* Two functions with the same domain and values are the same.
LEMMA SameFn ==
    ASSUME NEW V, NEW W, IsFn(V), IsFn(W), DOMAIN V = DOMAIN W,
           \A x \in DOMAIN V : V[x] = W[x]
    PROVE  V = W
  <1>1. [x \in DOMAIN V |-> V[x]] = [x \in DOMAIN W |-> W[x]]
    OBVIOUS
  <1>2. QED BY <1>1 DEF IsFn

\* What a command makes of a view depends on the view alone.
LEMMA EditedOnce ==
    ASSUME NEW p \in Single, NEW t, NEW m, NEW k, NEW V, NEW W, NEW X,
           Edited(p, t, m, V, W), Edited(p, t, k, V, X)
    PROVE  W = X
  <1>1. KindOf[p] \in {"create", "update", "delete", "remove", "set"}
    BY EditsAssumption DEF Single, Batches, Kinds
  <1>2. DOMAIN W = DOMAIN X /\ \A x \in DOMAIN W : W[x] = X[x]
    BY <1>1 DEF Edited
  <1>3. IsFn(W) /\ IsFn(X)
    BY DEF Edited
  <1>4. QED BY <1>2, <1>3, SameFn

\* What a command does that hides no error.
LEMMA ExecuteEdits ==
    ASSUME NEW e, Good(e), NEW c \in Single, NEW stays, c \notin stays,
           Valid(e.chart, c), Aimed(c), e.made[c] < MaxMade,
           KindOf[c] = "create" => NoItemOf(e, c),
           NEW f, f = ExecuteOne(e, c, stays)
    PROVE  Edited(c, target[c][1], f.memo[c], View(e.chart), View(f.chart))
  <1>1. KindOf[c] \in {"create", "update", "delete", "remove", "set"} /\ c \in Commands /\ c # None
    BY EditsAssumption, InvokerAssumption DEF Single, Batches, Kinds
  <1>2. Good(f) /\ (KindOf[c] # "create" => target[c] \in DOMAIN e.chart)
    <2>1. /\ Good(f)
          /\ f.made = [e.made EXCEPT ![c] = @ + 1]
          /\ \A p \in Commands \ {c} : f.memo[p] = e.memo[p]
          /\ KindOf[c] = "create" => DOMAIN f.chart = DOMAIN e.chart \cup {NextId(e, c)}
          /\ KindOf[c] \in {"update", "set"} => DOMAIN f.chart = DOMAIN e.chart
          /\ KindOf[c] \in {"delete", "remove"} =>
                DOMAIN f.chart = DOMAIN e.chart \ (IF c \in stays THEN {} ELSE {target[c]})
          /\ KindOf[c] # "create" => target[c] \in DOMAIN e.chart
          /\ f.twice = e.twice
      BY ExecuteGood
    <2>2. QED BY <2>1
  <1>20. Good(f)
    BY <1>2
  <1>3. PICK V, W, t : V = View(e.chart) /\ W = View(f.chart) /\ t = target[c]
    OBVIOUS
  <1>4. Shows(e, V)
    BY <1>3, ViewOf
  <1>5. Shows(f, W)
    BY <1>2, <1>3, ViewOf
  <1>6. /\ e.made \in [Commands -> 0..MaxMade] /\ e.memo \in [Commands -> Commands \cup {None}]
        /\ \A i \in DOMAIN e.chart : i # Settings => i[1] # None
    BY InvokerAssumption DEF Good, LastMade
  <1>7. CASE KindOf[c] = "create"
    <2>1. f.chart = Put(e.chart, NextId(e, c), c)
      BY <1>7 DEF ExecuteOne, Create
    <2>2. NextId(e, c)[1] = c
      BY DEF NextId
    <2>3. PICK i : i = NextId(e, c)
      OBVIOUS
    <2>4. c \notin DOMAIN V
      BY <1>4, <1>7 DEF NoItemOf, Shows
    <2>5. DOMAIN f.chart = DOMAIN e.chart \cup {i} /\ i \notin DOMAIN e.chart
          /\ f.chart[i] = c /\ \A j \in DOMAIN e.chart : f.chart[j] = e.chart[j]
      BY <1>4, <2>1, <2>2, <2>3, <2>4 DEF Put, Shows
    <2>6. DOMAIN W = DOMAIN V \cup {c} /\ W[c] = c /\ \A x \in DOMAIN V : W[x] = V[x]
      <3>1. Makers(f.chart) = Makers(e.chart) \cup {c}
        BY <2>2, <2>3, <2>5, MoreMakers
      <3>2. W[c] = c
        BY <1>5, <2>2, <2>3, <2>5 DEF Shows
      <3>3. \A x \in DOMAIN V : W[x] = V[x]
        BY <1>4, <1>5, <2>5 DEF Shows
      <3>4. QED BY <1>4, <1>5, <3>1, <3>2, <3>3 DEF Shows
    <2>7. QED BY <1>3, <1>5, <1>7, <2>4, <2>6 DEF Edited, Shows
  <1>8. CASE KindOf[c] \in {"update", "set"}
    <2>1. f.chart = Put(e.chart, t, c) /\ f.memo[c] = e.chart[t]
      BY <1>1, <1>3, <1>6, <1>8 DEF ExecuteOne, Overwrite, Captured
    <2>2. DOMAIN f.chart = DOMAIN e.chart /\ t \in DOMAIN e.chart
          /\ f.chart[t] = c /\ \A j \in DOMAIN e.chart \ {t} : f.chart[j] = e.chart[j]
      BY <1>2, <1>3, <1>8, <2>1 DEF Put
    <2>3. DOMAIN W = DOMAIN V /\ W[t[1]] = c /\ t[1] \in DOMAIN V /\ f.memo[c] = V[t[1]]
      <3>1. Makers(f.chart) = Makers(e.chart)
        BY <2>2, SameMakers
      <3>2. QED BY <1>4, <1>5, <2>1, <2>2, <3>1 DEF Shows
    <2>4. \A x \in DOMAIN V \ {t[1]} : W[x] = V[x]
      BY <1>4, <1>5, <2>2 DEF Shows
    <2>5. QED BY <1>3, <1>5, <1>8, <2>3, <2>4 DEF Edited, Shows
  <1>9. CASE KindOf[c] \in {"delete", "remove"}
    <2>1. f.chart = Drop(e.chart, t) /\ f.memo[c] = e.chart[t]
      BY <1>1, <1>3, <1>6, <1>9 DEF ExecuteOne, Delete, Captured
    <2>2. DOMAIN f.chart = DOMAIN e.chart \ {t} /\ t \in DOMAIN e.chart
          /\ \A j \in DOMAIN e.chart \ {t} : f.chart[j] = e.chart[j]
      BY <1>2, <1>3, <1>9, <2>1 DEF Drop
    <2>3. t[1] # None
      BY <1>3, <1>6, <1>9, <2>2 DEF Aimed, Pointing
    <2>4. DOMAIN W = DOMAIN V \ {t[1]} /\ t[1] \in DOMAIN V /\ f.memo[c] = V[t[1]]
      <3>1. \A j \in DOMAIN e.chart : j[1] = t[1] => j = t
        BY <1>4, <2>2, <2>3 DEF Shows
      <3>2. Makers(f.chart) = Makers(e.chart) \ {t[1]}
        BY <2>2, <3>1, LessMakers
      <3>3. QED BY <1>4, <1>5, <2>1, <2>2, <3>2 DEF Shows
    <2>5. \A x \in DOMAIN W : W[x] = V[x]
      BY <1>4, <1>5, <2>2, <2>4 DEF Shows
    <2>6. QED BY <1>3, <1>5, <1>9, <2>4, <2>5 DEF Edited, Shows
  <1>10. QED BY <1>1, <1>7, <1>8, <1>9

\* Its undo gives the view before it, and adds nothing that is there.
LEMMA UndoEdits ==
    ASSUME NEW e, Good(e), NEW c \in Single, Aimed(c),
           Pointing(c) => LastMade(e, target[c]),
           NEW V, IsFn(V), Edited(c, target[c][1], e.memo[c], V, View(e.chart)),
           NEW f, f = UndoOne(e, c)
    PROVE  View(f.chart) = V /\ f.twice = e.twice
  <1>1. KindOf[c] \in {"create", "update", "delete", "remove", "set"} /\ c \in Commands /\ c # None
    BY EditsAssumption, InvokerAssumption DEF Single, Batches, Kinds
  <1>2. Good(f)
    BY UndoGood DEF Pointing
  <1>3. PICK W, X, t : W = View(e.chart) /\ X = View(f.chart) /\ t = target[c]
    OBVIOUS
  <1>4. Shows(e, W)
    BY <1>3, ViewOf
  <1>5. Shows(f, X)
    BY <1>2, <1>3, ViewOf
  <1>6. \A d : [e EXCEPT !.chart = d].chart = d /\ [e EXCEPT !.chart = d].twice = e.twice
    <2>1. e = [chart |-> e.chart, memo |-> e.memo, made |-> e.made, twice |-> e.twice]
      BY DEF Good
    <2> SUFFICES ASSUME NEW d
                 PROVE  [e EXCEPT !.chart = d].chart = d /\ [e EXCEPT !.chart = d].twice = e.twice
      OBVIOUS
    <2>2. QED BY <2>1
  <1>60. e.twice \in BOOLEAN /\ f.twice \in BOOLEAN
    BY <1>2 DEF Good
  <1>7. Edited(c, t[1], e.memo[c], V, W)
    BY <1>3
  <1>8. SUFFICES (DOMAIN X = DOMAIN V /\ \A x \in DOMAIN X : X[x] = V[x]) /\ f.twice = e.twice
    BY <1>3, <1>5, SameFn DEF Shows
  <1>9. CASE KindOf[c] = "create"
    <2>1. PICK i : i = CreatedId(e, c)
      OBVIOUS
    <2>2. f.chart = Drop(e.chart, i) /\ f.twice = e.twice
      BY <1>6, <1>9, <2>1 DEF UndoOne
    <2>3. i[1] = c
      BY <2>1 DEF CreatedId
    <2>4. DOMAIN f.chart = DOMAIN e.chart \ {i} /\ \A j \in DOMAIN f.chart : f.chart[j] = e.chart[j]
      BY <2>2 DEF Drop
    <2>5. \A j \in DOMAIN e.chart : j[1] = c => j = i
      BY <1>1, <1>4, <2>1 DEF Shows
    <2>6. c \notin DOMAIN V /\ DOMAIN W = DOMAIN V \cup {c} /\ \A x \in DOMAIN V : W[x] = V[x]
      BY <1>7, <1>9 DEF Edited
    <2>7. DOMAIN X = DOMAIN W \ {c}
      <3>1. \A j \in DOMAIN e.chart : j[1] = i[1] => j = i
        BY <2>3, <2>5
      <3>2. PICK d, g : d = e.chart /\ g = f.chart
        OBVIOUS
      <3>3. DOMAIN g = DOMAIN d \ {i} /\ \A j \in DOMAIN d : j[1] = i[1] => j = i
        BY <2>4, <3>1, <3>2
      <3>4. Makers(g) = Makers(d) \ {i[1]}
        BY <3>3, LessMakers
      <3>5. QED BY <1>4, <1>5, <2>3, <3>2, <3>4 DEF Shows
    <2>8. \A x \in DOMAIN X : X[x] = W[x]
      BY <1>4, <1>5, <2>4 DEF Shows
    <2>9. QED BY <2>2, <2>6, <2>7, <2>8
  <1>10. CASE KindOf[c] \in {"update", "set"}
    <2>1. /\ t[1] \in DOMAIN V /\ e.memo[c] = V[t[1]] /\ DOMAIN W = DOMAIN V
          /\ \A x \in DOMAIN V \ {t[1]} : W[x] = V[x]
      BY <1>7, <1>10 DEF Edited
    <2>2. t \in DOMAIN e.chart
      <3>1. CASE Pointing(c)
        <4>1. PICK i \in DOMAIN e.chart : i[1] = t[1]
          BY <1>4, <2>1 DEF Shows
        <4>2. t[1] \in Commands /\ t = CreatedId(e, t[1])
          BY <1>3, <3>1 DEF LastMade
        <4>3. t[1] # None
          BY <4>2, InvokerAssumption
        <4>4. QED BY <1>4, <4>1, <4>2, <4>3 DEF Shows
      <3>2. CASE ~Pointing(c)
        BY <1>3, <3>2 DEF Aimed, Good
      <3>3. QED BY <3>1, <3>2
    <2>3. f.chart = Put(e.chart, t, e.memo[c]) /\ f.twice = e.twice
      BY <1>3, <1>6, <1>10, <2>2 DEF UndoOne
    <2>4. DOMAIN f.chart = DOMAIN e.chart /\ f.chart[t] = e.memo[c]
          /\ \A j \in DOMAIN e.chart \ {t} : f.chart[j] = e.chart[j]
      BY <2>2, <2>3 DEF Put
    <2>5. DOMAIN X = DOMAIN V /\ X[t[1]] = V[t[1]]
      <3>1. Makers(f.chart) = Makers(e.chart)
        BY <2>4, SameMakers
      <3>2. X[t[1]] = f.chart[t]
        BY <1>5, <2>2, <2>4 DEF Shows
      <3>3. QED BY <1>4, <1>5, <2>1, <2>4, <3>1, <3>2 DEF Shows
    <2>6. \A x \in DOMAIN V \ {t[1]} : X[x] = V[x]
      BY <1>4, <1>5, <2>1, <2>4 DEF Shows
    <2>7. QED BY <2>3, <2>5, <2>6
  <1>11. CASE KindOf[c] \in {"delete", "remove"}
    <2>1. /\ t[1] \in DOMAIN V /\ e.memo[c] = V[t[1]] /\ DOMAIN W = DOMAIN V \ {t[1]}
          /\ \A x \in DOMAIN W : W[x] = V[x]
      BY <1>7, <1>11 DEF Edited
    <2>2. f.chart = Put(e.chart, t, e.memo[c]) /\ f.twice = (e.twice \/ t \in DOMAIN e.chart)
      BY <1>3, <1>11 DEF UndoOne, AddBack
    <2>3. DOMAIN f.chart = DOMAIN e.chart \cup {t} /\ f.chart[t] = e.memo[c]
          /\ \A j \in DOMAIN e.chart \ {t} : f.chart[j] = e.chart[j]
      BY <2>2 DEF Put
    <2>4. t \notin DOMAIN e.chart
      BY <1>4, <2>1 DEF Shows
    <2>5. DOMAIN X = DOMAIN V /\ X[t[1]] = V[t[1]]
      <3>1. Makers(f.chart) = Makers(e.chart) \cup {t[1]}
        BY <2>3, MoreMakers
      <3>2. X[t[1]] = f.chart[t]
        BY <1>5, <2>3 DEF Shows
      <3>3. DOMAIN W = Makers(e.chart) /\ DOMAIN X = Makers(f.chart)
        BY <1>4, <1>5 DEF Shows
      <3>4. DOMAIN X = DOMAIN V
        BY <2>1, <3>1, <3>3
      <3>5. QED BY <2>1, <2>3, <3>2, <3>4
    <2>6. \A x \in DOMAIN W : X[x] = W[x]
      BY <1>4, <1>5, <2>3, <2>4 DEF Shows
    <2>7. f.twice = e.twice
      BY <1>60, <2>2, <2>4
    <2>8. QED BY <2>1, <2>5, <2>6, <2>7
  <1>12. QED BY <1>1, <1>9, <1>10, <1>11

-----------------------------------------------------------------------------
\* The views between the parts of b.
Chain(tg, mm, b, d) ==
    \A i \in 1..Len(PartsOf[b]) :
        Edited(PartsOf[b][i], tg[PartsOf[b][i]][1], mm[PartsOf[b][i]], d[i - 1], d[i])

\* c, with these targets and memories, leads from V to W.
Effect(tg, mm, c, V, W) ==
    IF c \in Batches
    THEN \E d : d[0] = V /\ d[Len(PartsOf[c])] = W /\ Chain(tg, mm, c, d)
    ELSE Edited(c, tg[c][1], mm[c], V, W)

\* Only the targets and memories of its own parts matter to a command.
LEMMA EffectOf ==
    ASSUME NEW c \in TopLevel, NEW tg, NEW mm, NEW th, NEW mn,
           \A p \in Leaves(c) : tg[p] = th[p] /\ mm[p] = mn[p],
           NEW V, NEW W, Effect(tg, mm, c, V, W)
    PROVE  Effect(th, mn, c, V, W)
  <1>1. CASE c \in Batches
    <2>1. PICK d : d[0] = V /\ d[Len(PartsOf[c])] = W /\ Chain(tg, mm, c, d)
      BY <1>1 DEF Effect
    <2>2. \A i \in 1..Len(PartsOf[c]) : PartsOf[c][i] \in Leaves(c)
      BY <1>1, Parts
    <2>3. Chain(th, mn, c, d)
      BY <2>1, <2>2 DEF Chain
    <2>4. QED BY <1>1, <2>1, <2>3 DEF Effect
  <1>2. CASE c \notin Batches
    BY <1>2 DEF Effect, Leaves
  <1>3. QED BY <1>1, <1>2

\* What a command leads to depends on what it starts from.
LEMMA EffectOnce ==
    ASSUME NEW c \in Commands, NEW tg, NEW mm, NEW mn, NEW V, NEW W, NEW X,
           Effect(tg, mm, c, V, W), Effect(tg, mn, c, V, X)
    PROVE  W = X
  <1>1. CASE c \in Batches
    <2>1. PICK d : d[0] = V /\ d[Len(PartsOf[c])] = W /\ Chain(tg, mm, c, d)
      BY <1>1 DEF Effect
    <2>2. PICK f : f[0] = V /\ f[Len(PartsOf[c])] = X /\ Chain(tg, mn, c, f)
      BY <1>1 DEF Effect
    <2> DEFINE n == Len(PartsOf[c])
               T == {i \in 0..n : d[i] = f[i]}
    <2>3. n \in Nat /\ \A i \in 1..n : PartsOf[c][i] \in Single
      BY <1>1, Parts
    <2>4. 0 \in T
      BY <2>1, <2>2, <2>3
    <2>5. ASSUME NEW i \in 0..(n - 1), i \in T PROVE i + 1 \in T
      <3>1. i + 1 \in 1..n /\ (i + 1) - 1 = i /\ d[i] = f[i]
        BY <2>3, <2>5
      <3>2. PICK p : p = PartsOf[c][i + 1]
        OBVIOUS
      <3>3. /\ p \in Single
            /\ Edited(p, tg[p][1], mm[p], d[i], d[i + 1])
            /\ Edited(p, tg[p][1], mn[p], d[i], f[i + 1])
        BY <2>1, <2>2, <2>3, <3>1, <3>2 DEF Chain
      <3>4. d[i + 1] = f[i + 1]
        BY <3>3, EditedOnce
      <3>5. QED BY <2>3, <3>1, <3>4
    <2>6. \A i \in 0..n : i \in T
      <3> HIDE DEF T, n
      <3>1. QED BY <2>3, <2>4, <2>5, UpTo, Zenon
    <2>7. QED BY <2>1, <2>2, <2>3, <2>6
  <1>2. CASE c \notin Batches
    <2>1. Edited(c, tg[c][1], mm[c], V, W) /\ Edited(c, tg[c][1], mn[c], V, X)
      BY <1>2 DEF Effect
    <2>2. c \in Single
      BY <1>2 DEF Single
    <2>3. QED BY <2>1, <2>2, EditedOnce
  <1>3. QED BY <1>1, <1>2

\* All parts of a batch, executed without hiding an error, lead from the view before
\* to the one after.
LEMMA TraceChain ==
    ASSUME NEW e, Good(e), NEW b \in Batches, Ready(e, b),
           NEW n, n = Len(PartsOf[b]), NEW stays, NEW s, Trace(e, b, n, s, stays),
           ~Hid(b, n, stays),
           NEW d, d = [i \in 0..n |-> View(s[i].chart)]
    PROVE  Chain(target, s[n].memo, b, d)
  <1>1. /\ n \in Nat
        /\ \A i \in 1..n : PartsOf[b][i] \in Single /\ PartsOf[b][i] \in Leaves(b)
        /\ \A i, j \in 1..n : PartsOf[b][i] = PartsOf[b][j] => i = j
    BY Parts
  <1>2. n \in 0..Len(PartsOf[b]) /\ Trace(e, b, n, s, stays)
    BY <1>1
  <1>3. \A i \in 0..n :
              /\ Good(s[i])
              /\ \A p \in Commands : (\A j \in 1..i : PartsOf[b][j] # p) =>
                    s[i].made[p] = e.made[p] /\ s[i].memo[p] = e.memo[p]
              /\ \A p \in Commands : s[i].made[p] >= e.made[p]
              /\ \A x \in DOMAIN s[i].chart :
                    x \in DOMAIN e.chart \/ \E j \in 1..i : x[1] = PartsOf[b][j]
              /\ \A j \in 1..i : LET p == PartsOf[b][j] IN
                    /\ Pointing(p) => target[p] \in DOMAIN e.chart
                    /\ s[i].made[p] = s[j].made[p] /\ s[i].memo[p] = s[j].memo[p]
    BY <1>2, TraceGood
  <1>4. ASSUME NEW i \in 1..n
        PROVE  Edited(PartsOf[b][i], target[PartsOf[b][i]][1], s[n].memo[PartsOf[b][i]],
                      d[i - 1], d[i])
    <2>1. PICK c, h, f : c = PartsOf[b][i] /\ h = s[i - 1] /\ f = s[i]
      OBVIOUS
    <2>2. i - 1 \in 0..n /\ i \in 0..n /\ i \in Nat
      BY <1>1
    <2>3. Good(h) /\ Valid(h.chart, c) /\ f = ExecuteOne(h, c, stays)
      BY <1>2, <1>3, <2>1, <2>2 DEF Trace
    <2>4. c \in Single /\ c \in Leaves(b) /\ c \in Commands
      BY <1>1, <2>1 DEF Single
    <2>5. Aimed(c) /\ e.made[c] < MaxMade /\ (KindOf[c] = "create" => NoItemOf(e, c))
      BY <2>4 DEF Ready
    <2>6. \A j \in 1..(i - 1) : PartsOf[b][j] # c
      BY <1>1, <2>1, <2>2
    <2>7. h.made[c] = e.made[c]
      BY <1>3, <2>1, <2>2, <2>4, <2>6
    <2>8. \A x \in DOMAIN h.chart :
             x \in DOMAIN e.chart \/ \E j \in 1..(i - 1) : x[1] = PartsOf[b][j]
      BY <1>3, <2>1, <2>2
    <2>9. KindOf[c] = "create" => NoItemOf(h, c)
      BY <2>5, <2>6, <2>8 DEF NoItemOf
    <2>91. c \notin stays
      BY <2>1 DEF Hid
    <2>10. Edited(c, target[c][1], f.memo[c], View(h.chart), View(f.chart))
      BY <2>91, <2>3, <2>4, <2>5, <2>7, <2>9, ExecuteEdits
    <2>11. s[n].memo[c] = f.memo[c]
      BY <1>1, <1>3, <2>1
    <2>12. d[i - 1] = View(h.chart) /\ d[i] = View(f.chart)
      BY <2>1, <2>2
    <2>13. QED BY <2>1, <2>10, <2>11, <2>12
  <1>5. QED BY <1>4 DEF Chain

\* An execution that is done, and hid no error, leads from the view before to the
\* view after.
LEMMA OutcomeEffect ==
    ASSUME NEW e, Good(e), NEW c \in Commands, Ready(e, c), NEW o \in Outcomes(e, c),
           o.ok, ~o.hidden
    PROVE  Effect(target, o.state.memo, c, View(e.chart), View(o.state.chart))
  <1>0. PICK stays : o \in (CASE KindOf[c] = "batch" -> ExecuteBatch(e, c, stays)
                               [] KindOf[c] = "plain_batch" -> ExecutePlainBatch(e, c, stays)
                               [] OTHER -> ExecuteSingle(e, c, stays))
    BY DEF Outcomes
  <1>1. CASE c \in Batches
    <2>1. PICK k, run : /\ run = RunParts(e, c, k, stays) /\ run.ok /\ o.state = run.state
                        /\ o.hidden = Hid(c, run.ran, stays)
      <3>1. o \in ExecuteBatch(e, c, stays) \cup ExecutePlainBatch(e, c, stays)
        BY <1>0, <1>1 DEF Batches
      <3>2. CASE o = Refused(e)
        BY <3>2 DEF Refused
      <3>3. ASSUME NEW k, NEW stuck, o = BatchEnd(e, c, k, stuck, stays)
            PROVE  \E j, run : /\ run = RunParts(e, c, j, stays) /\ run.ok
                               /\ o.state = run.state /\ o.hidden = Hid(c, run.ran, stays)
        <4>1. PICK run : run = RunParts(e, c, k, stays)
          OBVIOUS
        <4>2. run.ok \in BOOLEAN
          BY <1>1, <4>1, RunTrace
        <4>3. o.ok = run.ok /\ o.hidden = Hid(c, run.ran, stays)
              /\ (run.ok => o.state = run.state)
          BY <3>3, <4>1 DEF BatchEnd
        <4>4. QED BY <4>1, <4>2, <4>3
      <3>4. ASSUME NEW k, o = PlainBatchEnd(e, c, k, stays)
            PROVE  \E j, run : /\ run = RunParts(e, c, j, stays) /\ run.ok
                               /\ o.state = run.state /\ o.hidden = Hid(c, run.ran, stays)
        <4>1. PICK run : run = RunParts(e, c, k, stays)
          OBVIOUS
        <4>2. o.ok = run.ok /\ o.hidden = Hid(c, run.ran, stays) /\ o.state = run.state
          BY <3>4, <4>1 DEF PlainBatchEnd
        <4>3. QED BY <4>1, <4>2
      <3>5. QED BY <3>1, <3>2, <3>3, <3>4, BatchEnds
    <2>2. PICK n, s : /\ n = Len(PartsOf[c]) /\ Trace(e, c, n, s, stays) /\ run.state = s[n]
                      /\ run.ran = n
      BY <1>1, <2>1, RunTrace
    <2>3. n \in Nat
      BY <1>1, <2>2, Parts
    <2>4. PICK d : d = [i \in 0..n |-> View(s[i].chart)]
      OBVIOUS
    <2>40. ~Hid(c, n, stays)
      BY <2>1, <2>2
    <2>5. Chain(target, s[n].memo, c, d)
      BY <1>1, <2>2, <2>4, <2>40, TraceChain
    <2>6. d[0] = View(e.chart) /\ d[n] = View(s[n].chart)
      BY <2>2, <2>3, <2>4 DEF Trace
    <2>7. QED BY <1>1, <2>1, <2>2, <2>5, <2>6 DEF Effect
  <1>2. CASE c \notin Batches
    <2>1. c \in Single /\ Leaves(c) = {c}
      BY <1>2 DEF Single, Leaves
    <2>2. o \in ExecuteSingle(e, c, stays)
      BY <1>0, <1>2 DEF Batches
    <2>3. /\ Valid(e.chart, c)
          /\ o = [state |-> ExecuteOne(e, c, stays), ok |-> TRUE, half |-> FALSE,
                  hidden |-> c \in stays]
      BY <2>2 DEF ExecuteSingle, Refused
    <2>4. PICK f : f = ExecuteOne(e, c, stays) /\ f = o.state
      BY <2>3
    <2>40. c \notin stays
      BY <2>3
    <2>5. Aimed(c) /\ e.made[c] < MaxMade /\ (KindOf[c] = "create" => NoItemOf(e, c))
      BY <2>1 DEF Ready
    <2>6. Edited(c, target[c][1], f.memo[c], View(e.chart), View(f.chart))
      BY <2>1, <2>3, <2>4, <2>40, <2>5, ExecuteEdits
    <2>7. QED BY <1>2, <2>4, <2>6 DEF Effect
  <1>3. QED BY <1>1, <1>2

\* An undo all of whose parts work leads from the view after to the view before,
\* on whatever items it starts now, and adds nothing that is there.
LEMMA UndoEffect ==
    ASSUME NEW e, Good(e), NEW c \in Commands,
           \A p \in Leaves(c) : /\ p \in Single /\ Aimed(p)
                                /\ Pointing(p) => LastMade(e, target[p])
                                /\ Pointing(p) => target[p][1] \notin Leaves(c),
           NEW V, IsFn(V), Effect(target, e.memo, c, V, View(e.chart)),
           NEW f, f = IF c \in Batches THEN UndoParts(e, c, Len(PartsOf[c]), {})
                      ELSE UndoOne(e, c)
    PROVE  View(f.chart) = V /\ f.twice = e.twice
  <1>1. CASE c \in Batches
    <2>1. PICK n : n = Len(PartsOf[c])
      OBVIOUS
    <2>2. /\ n \in Nat
          /\ \A i \in 1..n : PartsOf[c][i] \in Single /\ PartsOf[c][i] \in Leaves(c)
      BY <1>1, <2>1, Parts
    <2>3. PICK d : d[0] = V /\ d[n] = View(e.chart) /\ Chain(target, e.memo, c, d)
      BY <1>1, <2>1 DEF Effect
    <2>4. PICK u : UndoTrace(e, c, n, {}, u) /\ f = u[n]
      BY <1>1, <2>1, <2>2, UndoSteps
    <2>5. \A i \in 1..n : Aims(e, c, PartsOf[c][i])
      BY <2>2 DEF Aims
    <2>6. n \in 0..Len(PartsOf[c])
      BY <2>1, <2>2
    <2>7. \A i \in 0..n :
              /\ Good(u[i]) /\ u[i].made = e.made /\ u[i].memo = e.memo
              /\ \A x \in DOMAIN u[i].chart :
                    x \in DOMAIN e.chart \/ TargetOf(c, n, x)
              /\ NoneStuck({}, n) =>
                    \A j \in (n + 1 - i)..n :
                       KindOf[PartsOf[c][j]] = "create" => NoItemOf(u[i], PartsOf[c][j])
      BY <1>1, <2>4, <2>5, <2>6, UndoTraceGood
    <2>8. \A i \in 0..n : Good(u[i]) /\ u[i].made = e.made /\ u[i].memo = e.memo
      BY <2>7
    <2>9. \A i \in 0..n : IsFn(d[i])
      <3>1. \A i \in 1..n : IsFn(d[i])
        BY <2>1, <2>3 DEF Chain, Edited
      <3>2. QED BY <2>2, <2>3, <3>1
    <2> DEFINE T == {i \in 0..n : View(u[i].chart) = d[n - i] /\ u[i].twice = e.twice}
    <2>10. 0 \in T
      BY <2>2, <2>3, <2>4 DEF UndoTrace
    <2>11. ASSUME NEW i \in 0..(n - 1), i \in T PROVE i + 1 \in T
      <3>1. PICK l, p, g, h : /\ l = n - i /\ p = PartsOf[c][l]
                              /\ g = u[i] /\ h = u[i + 1]
        OBVIOUS
      <3>2. i \in 0..n /\ i + 1 \in 1..n /\ l \in 1..n /\ l - 1 \in 0..n
            /\ (i + 1) - 1 = i /\ n + 1 - (i + 1) = l /\ n - (i + 1) = l - 1
        BY <2>2, <3>1
      <3>3. h = UndoOne(g, p)
        <4>1. u[i + 1] = UndoPart(u[(i + 1) - 1], c, n + 1 - (i + 1), {})
          BY <2>4, <3>2 DEF UndoTrace
        <4>2. QED BY <3>1, <3>2, <4>1 DEF UndoPart
      <3>4. Good(g) /\ g.made = e.made /\ g.memo = e.memo /\ View(g.chart) = d[l]
            /\ g.twice = e.twice
        BY <2>8, <2>11, <3>1, <3>2
      <3>5. p \in Single /\ Aimed(p) /\ (Pointing(p) => LastMade(e, target[p]))
        BY <2>2, <3>1, <3>2
      <3>6. Pointing(p) => LastMade(g, target[p])
        BY <3>4, <3>5, SameMade
      <3>7. Edited(p, target[p][1], g.memo[p], d[l - 1], View(g.chart)) /\ IsFn(d[l - 1])
        BY <2>1, <2>3, <2>9, <3>1, <3>2, <3>4 DEF Chain
      <3>8. View(h.chart) = d[l - 1] /\ h.twice = g.twice
        BY <3>3, <3>4, <3>5, <3>6, <3>7, UndoEdits
      <3>9. QED BY <2>2, <3>1, <3>2, <3>4, <3>8
    <2>12. \A i \in 0..n : i \in T
      <3> HIDE DEF T
      <3>1. QED BY <2>2, <2>10, <2>11, UpTo, Zenon
    <2>13. n \in 0..n /\ n - n = 0
      BY <2>2
    <2>14. QED BY <2>3, <2>4, <2>12, <2>13
  <1>2. CASE c \notin Batches
    <2>1. c \in Single /\ Leaves(c) = {c}
      BY <1>2 DEF Single, Leaves
    <2>2. Edited(c, target[c][1], e.memo[c], V, View(e.chart)) /\ f = UndoOne(e, c)
      BY <1>2 DEF Effect
    <2>3. Aimed(c) /\ (Pointing(c) => LastMade(e, target[c]))
      BY <2>1
    <2>4. QED BY <2>1, <2>2, <2>3, UndoEdits
  <1>3. QED BY <1>1, <1>2

-----------------------------------------------------------------------------
(***************************************************************************)
(* The views of the entries: each was done where the one before it ended,  *)
(* the chart shows the end of the last one that is done, and a successful  *)
(* entry leads from its view before to its view after.  While it is in     *)
(* effect, it does so with what its command remembers, which is what undo  *)
(* uses.  This lasts until work is left half done or an error is hidden.   *)
(***************************************************************************)
Joined ==
    \A i \in Indices : i + 1 \in Indices =>
        after[history[i].command] = before[history[i + 1].command]

Shown ==
    \A i \in Indices :
        /\ i = currentIndex + 1 => after[history[i].command] = View(chart)
        /\ i = currentIndex + 2 => before[history[i].command] = View(chart)

Did(c) == \E m : Effect(target, m, c, before[c], after[c])

Remembers(c) == Effect(target, memo, c, before[c], after[c])

Effective ==
    \A i \in Indices :
        /\ IsFn(before[history[i].command])
        /\ history[i].success => Did(history[i].command)
        /\ history[i].success /\ ~history[i].undone => Remembers(history[i].command)

\* An undo under way takes back what the chart shows, though its entry may have gone.
UndoHeld ==
    pending.op = "undo" =>
        /\ IsFn(before[pending.command]) /\ after[pending.command] = View(chart)
        /\ Remembers(pending.command)

ViewsKept == DOMAIN before = Commands /\ DOMAIN after = Commands

LInv ==
    /\ ViewsKept
    /\ (~spoiled /\ ~hidden) => Joined /\ Shown /\ Effective /\ UndoHeld /\ ~twice

\* What is seen before and after c, and what its parts point at, is the same.
SameViews(c) ==
    /\ before'[c] = before[c] /\ after'[c] = after[c]
    /\ \A p \in Leaves(c) : target'[p] = target[p]

LEMMA RemembersNext ==
    ASSUME NEW c, Effect(target', memo', c, before'[c], after'[c])
    PROVE  Remembers(c)' /\ Did(c)'
  <1>1. Remembers(c)'
    BY DEF Remembers, Effect, Chain, Edited, IsFn
  <1>2. Did(c)'
    <2>1. PICK m : m = memo'
      OBVIOUS
    <2>2. Effect(target', m, c, before'[c], after'[c])
      BY <2>1
    <2>3. QED BY <2>2 DEF Did, Effect, Chain, Edited, IsFn
  <1>3. QED BY <1>1, <1>2

LEMMA DidNext ==
    ASSUME NEW c \in TopLevel, Did(c), SameViews(c)
    PROVE  Did(c)'
  <1>1. PICK m : Effect(target, m, c, before[c], after[c])
    BY DEF Did
  <1>2. PICK tg, th, V, W : tg = target /\ th = target' /\ V = before[c] /\ W = after[c]
    OBVIOUS
  <1>3. /\ \A p \in Leaves(c) : tg[p] = th[p] /\ m[p] = m[p]
        /\ Effect(tg, m, c, V, W)
    BY <1>1, <1>2 DEF SameViews
  <1>4. Effect(th, m, c, V, W)
    BY <1>3, EffectOf
  <1>5. Effect(target', m, c, before'[c], after'[c])
    BY <1>2, <1>4 DEF SameViews
  <1>6. QED BY <1>5 DEF Did, Effect, Chain, Edited, IsFn

LEMMA StillRemembers ==
    ASSUME NEW c \in TopLevel, Remembers(c), SameViews(c),
           \A p \in Leaves(c) : memo'[p] = memo[p]
    PROVE  Remembers(c)'
  <1>1. PICK tg, th, mm, mn, V, W : /\ tg = target /\ th = target' /\ mm = memo /\ mn = memo'
                                    /\ V = before[c] /\ W = after[c]
    OBVIOUS
  <1>2. /\ \A p \in Leaves(c) : tg[p] = th[p] /\ mm[p] = mn[p]
        /\ Effect(tg, mm, c, V, W)
    BY <1>1 DEF SameViews, Remembers
  <1>3. Effect(th, mn, c, V, W)
    BY <1>2, EffectOf
  <1>4. Effect(target', memo', c, before'[c], after'[c])
    BY <1>1, <1>3 DEF SameViews
  <1>5. QED BY <1>4, RemembersNext

\* The command of an entry.
LEMMA EntryCommand ==
    ASSUME IInv, EInv, NEW i \in Indices
    PROVE  /\ history[i].command \in Live /\ history[i].command \in TopLevel
           /\ history[i].command \in Commands
  <1>1. history[i].command \in Commands
    BY EntryFacts, InvokerAssumption DEF Indices
  <1>2. QED BY <1>1 DEF Live, EInv, LiveIsTop

\* What an undo under way takes back is still there.
LEMMA HeldStill ==
    ASSUME IInv, EInv, UndoHeld, pending' = pending, View(chart') = View(chart),
           pending.op = "undo" =>
              /\ SameViews(pending.command)
              /\ \A p \in Leaves(pending.command) : memo'[p] = memo[p]
    PROVE  UndoHeld'
  <1> SUFFICES ASSUME pending.op = "undo" PROVE UndoHeld'
    BY DEF UndoHeld
  <1>1. PICK c : c = pending.command
    OBVIOUS
  <1>2. c \in TopLevel
    BY <1>1 DEF IInv, TypeOK, Pending, Idle, Live, EInv, LiveIsTop
  <1>3. /\ SameViews(c) /\ Remembers(c) /\ \A p \in Leaves(c) : memo'[p] = memo[p]
        /\ IsFn(before[c]) /\ after[c] = View(chart)
    BY <1>1 DEF UndoHeld
  <1>4. Remembers(c)'
    BY <1>2, <1>3, StillRemembers
  <1>5. Remembers(pending.command)' <=> Remembers(c)'
    BY <1>1 DEF Remembers
  <1>6. before'[c] = before[c] /\ after'[c] = after[c]
    BY <1>3 DEF SameViews
  <1>7. IsFn(before'[c]) /\ after'[c] = View(chart')
    BY <1>3, <1>6
  <1>8. QED BY <1>1, <1>4, <1>5, <1>7 DEF UndoHeld, IsFn, View

LEMMA HeldNot == ASSUME pending'.op # "undo" PROVE UndoHeld'
  BY DEF UndoHeld

\* What an entry says of its command is still so.
LEMMA EntryNext ==
    ASSUME IInv, IInv', EInv, EInv', Effective, NEW i \in Indices, NEW j \in Indices',
           history'[j].command = history[i].command,
           history'[j].success = history[i].success,
           SameViews(history[i].command),
           ~history'[j].undone =>
               /\ ~history[i].undone
               /\ \A p \in Leaves(history[i].command) : memo'[p] = memo[p]
    PROVE  /\ IsFn(before'[history'[j].command])
           /\ history'[j].success => Did(history[j].command)'
           /\ history'[j].success /\ ~history'[j].undone => Remembers(history[j].command)'
  <1>1. PICK c : c = history[i].command
    OBVIOUS
  <1>2. c \in TopLevel /\ c = history'[j].command
    BY <1>1, EntryCommand
  <1>3. IsFn(before'[c])
    BY <1>1 DEF Effective, SameViews
  <1>4. history'[j].success => Did(c)'
    BY <1>1, <1>2, DidNext DEF Effective
  <1>5. history'[j].success /\ ~history'[j].undone => Remembers(c)'
    BY <1>1, <1>2, StillRemembers DEF Effective
  <1>6. Did(history[j].command)' <=> Did(c)'
    BY <1>2 DEF Did
  <1>7. Remembers(history[j].command)' <=> Remembers(c)'
    BY <1>2 DEF Remembers
  <1>8. QED BY <1>2, <1>3, <1>4, <1>5, <1>6, <1>7

LEMMA EffectiveNext ==
    ASSUME \A j \in Indices' :
              /\ IsFn(before'[history'[j].command])
              /\ history'[j].success => Did(history[j].command)'
              /\ history'[j].success /\ ~history'[j].undone
                    => Remembers(history[j].command)'
    PROVE  Effective'
  <1>1. ASSUME NEW j \in Indices'
        PROVE  /\ IsFn(before[history[j].command])'
               /\ history'[j].success => Did(history[j].command)'
               /\ history'[j].success /\ ~history'[j].undone
                     => Remembers(history[j].command)'
    BY <1>1 DEF IsFn
  <1>2. QED BY <1>1 DEF Effective

\* The entries after a step are those k further of before.
Shifted(k) ==
    \A j \in Indices' :
        /\ j + k \in Indices
        /\ history'[j].command = history[j + k].command
        /\ history'[j].success = history[j + k].success
        /\ SameViews(history[j + k].command)
        /\ ~history'[j].undone =>
              /\ ~history[j + k].undone
              /\ \A p \in Leaves(history[j + k].command) : memo'[p] = memo[p]

\* A step that leaves the chart alone and only takes entries from the front.
LEMMA LinksKept ==
    ASSUME IInv, IInv', EInv, EInv', LInv, NEW k \in Nat, Shifted(k),
           Indices' # {} => currentIndex' + k = currentIndex,
           View(chart') = View(chart),
           DOMAIN before' = Commands, DOMAIN after' = Commands, ~spoiled, ~hidden,
           UndoHeld', ~twice'
    PROVE  LInv'
  <1>1. Indices \subseteq Nat /\ Indices' \subseteq Nat
    BY EntryFacts DEF IInv, TypeOK, Indices
  <1>2. Joined /\ Shown /\ Effective
    BY DEF LInv
  <1>3. currentIndex \in Int /\ currentIndex' \in Int
    BY DEF IInv, TypeOK
  <1>4. \A j \in Indices' : SameViews(history[j + k].command) /\ j + k \in Indices
                            /\ history'[j].command = history[j + k].command
    BY DEF Shifted
  <1>5. \A j \in Indices' : /\ before'[history'[j].command] = before[history[j + k].command]
                            /\ after'[history'[j].command] = after[history[j + k].command]
    BY <1>4 DEF SameViews
  <1>6. Joined'
    <2> SUFFICES ASSUME NEW j \in Indices', j + 1 \in Indices'
                 PROVE  after'[history'[j].command] = before'[history'[j + 1].command]
      BY DEF Joined
    <2>1. (j + 1) + k = (j + k) + 1
      BY <1>1
    <2>2. after[history[j + k].command] = before[history[(j + k) + 1].command]
      BY <1>2, <1>4, <2>1 DEF Joined
    <2>3. QED BY <1>5, <2>1, <2>2
  <1>7. Shown'
    <2>1. ASSUME NEW j \in Indices', j = currentIndex' + 1
          PROVE  after'[history'[j].command] = View(chart')
      <3>1. j + k = currentIndex + 1
        <4>1. PICK x, y : x = currentIndex /\ y = currentIndex'
          OBVIOUS
        <4>2. x \in Int /\ y \in Int /\ k \in Int /\ j = y + 1
          BY <1>3, <2>1, <4>1
        <4>3. y + k = x
          BY <4>1
        <4>4. j + k = x + 1
          BY <4>2, <4>3
        <4>5. QED BY <4>1, <4>4
      <3>2. QED BY <1>2, <1>4, <1>5, <3>1 DEF Shown
    <2>2. ASSUME NEW j \in Indices', j = currentIndex' + 2
          PROVE  before'[history'[j].command] = View(chart')
      <3>1. j + k = currentIndex + 2
        <4>1. PICK x, y : x = currentIndex /\ y = currentIndex'
          OBVIOUS
        <4>2. x \in Int /\ y \in Int /\ k \in Int /\ j = y + 2
          BY <1>3, <2>2, <4>1
        <4>3. y + k = x
          BY <4>1
        <4>4. j + k = x + 2
          BY <4>2, <4>3
        <4>5. QED BY <4>1, <4>4
      <3>2. QED BY <1>2, <1>4, <1>5, <3>1 DEF Shown
    <2>3. QED BY <2>1, <2>2 DEF Shown, View
  <1>8. Effective'
    <2>1. ASSUME NEW j \in Indices'
          PROVE  /\ IsFn(before'[history'[j].command])
                 /\ history'[j].success => Did(history[j].command)'
                 /\ history'[j].success /\ ~history'[j].undone
                       => Remembers(history[j].command)'
      <3>1. PICK i : i = j + k
        OBVIOUS
      <3>2. /\ i \in Indices
            /\ history'[j].command = history[i].command
            /\ history'[j].success = history[i].success
            /\ SameViews(history[i].command)
            /\ ~history'[j].undone =>
                  /\ ~history[i].undone
                  /\ \A p \in Leaves(history[i].command) : memo'[p] = memo[p]
        BY <3>1 DEF Shifted
      <3>3. QED BY <1>2, <3>2, EntryNext
    <2>2. QED BY <2>1, EffectiveNext
  <1>9. QED BY <1>6, <1>7, <1>8 DEF LInv, ViewsKept

\* What belongs to the commands that are live is not forgotten.
LEMMA KeepViews ==
    ASSUME IInv', LiveIsTop', NEW b, NEW a, NEW m, Keep(b, a, m)
    PROVE  /\ DOMAIN before' = Commands /\ DOMAIN after' = Commands
           /\ \A c \in Live' :
                 /\ before'[c] = b[c] /\ after'[c] = a[c]
                 /\ \A p \in Leaves(c) : target'[p] = target[p] /\ memo'[p] = m[p]
  <1> DEFINE roots == {history'[i].command : i \in DOMAIN history'} \cup {pending'.command}
             live == UNION {Leaves(c) \cup {c} : c \in roots}
  <1>1. /\ before' = [c \in Commands |-> IF c \in live THEN b[c] ELSE View(EmptyChart)]
        /\ after' = [c \in Commands |-> IF c \in live THEN a[c] ELSE View(EmptyChart)]
        /\ target' = [c \in Commands |-> IF c \in live THEN target[c] ELSE Settings]
        /\ memo' = [c \in Commands |-> IF c \in live THEN m[c] ELSE None]
    BY DEF Keep, Reachable
  <1>2. \A c \in Live' : c \in live /\ c \in Commands /\ Leaves(c) \subseteq live
    <2>1. DOMAIN history' = Indices'
      BY DEF IInv, TypeOK, Indices
    <2>2. Live' \subseteq roots /\ Live' \subseteq Commands
      BY <2>1 DEF Live
    <2>3. QED BY <2>2
  <1>3. \A c \in Live' : Leaves(c) \subseteq Commands
    BY LeavesApart DEF LiveIsTop, Single
  <1> HIDE DEF live
  <1>4. DOMAIN before' = Commands /\ DOMAIN after' = Commands
    BY <1>1
  <1>5. ASSUME NEW c \in Live'
        PROVE  /\ before'[c] = b[c] /\ after'[c] = a[c]
               /\ \A p \in Leaves(c) : target'[p] = target[p] /\ memo'[p] = m[p]
    <2>1. c \in live /\ c \in Commands /\ Leaves(c) \subseteq live /\ Leaves(c) \subseteq Commands
      BY <1>2, <1>3
    <2>2. QED BY <1>1, <2>1
  <1>6. QED BY <1>4, <1>5

\* A step that changes neither entries nor chart.
LEMMA IdleLinks ==
    ASSUME IInv, IInv', EInv, EInv', LInv, ~spoiled, ~hidden,
           UndoHeld', ~twice',
           UNCHANGED <<history, currentIndex, chart, before, after>>,
           \A i \in Indices : \A p \in Leaves(history[i].command) :
               /\ target'[p] = target[p]
               /\ ~history[i].undone => memo'[p] = memo[p]
    PROVE  LInv'
  <1>1. Indices' = Indices /\ Indices \subseteq Nat /\ currentIndex \in Int
    BY EntryFacts DEF IInv, TypeOK, Indices
  <1>2. Shifted(0)
    <2>1. \A j \in Indices' : j + 0 = j
      BY <1>1
    <2>2. QED BY <1>1, <2>1 DEF SameViews, Shifted
  <1>3. currentIndex' + 0 = currentIndex /\ View(chart') = View(chart) /\ 0 \in Nat
    BY <1>1
  <1>4. DOMAIN before' = Commands /\ DOMAIN after' = Commands
    BY DEF LInv, ViewsKept
  <1>5. QED BY <1>2, <1>3, <1>4, LinksKept

\* No entries: nothing is said of them.
LEMMA EmptyLinks ==
    ASSUME Indices' = {}, DOMAIN before' = Commands, DOMAIN after' = Commands,
           UndoHeld', ~twice'
    PROVE  LInv'
  BY DEF LInv, ViewsKept, Joined, Shown, Effective

LEMMA StartLinks ==
    ASSUME IInv, IInv', EInv, EInv', LInv, ~spoiled, ~hidden, NEW c \in Commands, Start(c)
    PROVE  LInv'
  <1> DEFINE pointing == {p \in Leaves(c) : Pointing(p)}
  <1>1. /\ c \in TopLevel /\ \A i \in Indices : history[i].command # c
        /\ UNCHANGED <<history, currentIndex, chart, memo, before, after>>
    BY DEF Start, StartExecute
  <1>2. PICK f \in [pointing -> DOMAIN chart \ {Settings}] :
           target' = [p \in Commands |-> IF p \in pointing THEN f[p] ELSE target[p]]
    BY DEF Start
  <1>3. \A p \in Commands : p \notin Leaves(c) => target'[p] = target[p]
    BY <1>2
  <1> HIDE DEF pointing
  <1>4. ASSUME NEW i \in Indices, NEW p \in Leaves(history[i].command)
        PROVE  target'[p] = target[p]
    <2>1. history[i].command \in TopLevel /\ history[i].command # c
      BY <1>1, EntryCommand
    <2>2. p \in Commands /\ p \notin Leaves(c)
      BY <1>1, <1>4, <2>1, LeavesApart DEF Single
    <2>3. QED BY <1>3, <2>2
  <1>5. pending'.op # "undo" /\ ~twice'
    BY DEF Start, StartExecute, LInv
  <1>6. QED BY <1>1, <1>4, <1>5, HeldNot, IdleLinks

LEMMA ClearLinks ==
    ASSUME IInv, IInv', EInv, EInv', LInv, ~spoiled, ~twice, Clear
    PROVE  LInv'
  <1>0. /\ ClearHistory /\ Keep(before, after, memo) /\ chart' = chart /\ pending' = pending
        /\ hidden' = (hidden /\ isExecuting) /\ ~twice'
    BY DEF Clear, ClearHistory
  <1>1. Indices' = {}
    BY <1>0 DEF ClearHistory, Indices
  <1>2. DOMAIN before' = Commands /\ DOMAIN after' = Commands
    BY <1>0, KeepViews DEF EInv
  <1>3. CASE hidden'
    BY <1>2, <1>3 DEF LInv, ViewsKept
  <1>4. CASE ~hidden' /\ ~isExecuting
    <2>1. pending'.op # "undo"
      BY <1>0, <1>4 DEF isExecuting, Idle
    <2>2. QED BY <1>0, <1>1, <1>2, <2>1, HeldNot, EmptyLinks
  <1>5. CASE ~hidden' /\ isExecuting
    <2>1. UndoHeld
      BY <1>0, <1>5 DEF LInv, EInv
    <2>2. \A c \in Live' : SameViews(c) /\ \A p \in Leaves(c) : memo'[p] = memo[p]
      BY <1>0, KeepViews DEF EInv, SameViews
    <2>3. pending.op = "undo" => pending.command \in Live'
      BY <1>0 DEF IInv, TypeOK, Pending, Idle, Live
    <2>4. View(chart') = View(chart)
      BY <1>0
    <2>5. UndoHeld'
      BY <1>0, <2>1, <2>2, <2>3, <2>4, HeldStill
    <2>6. QED BY <1>0, <1>1, <1>2, <2>5, EmptyLinks
  <1>6. QED BY <1>3, <1>4, <1>5

\* cleanupHistory: if only entries that are done went, k of them, the index went
\* with them.
Cleaned(k) ==
    /\ k \in Nat /\ k >= 1 /\ currentIndex' + k = currentIndex /\ k < Len(history)
    /\ Len(history') = Len(history) - k
    /\ \A j \in Indices' :
          /\ j + k \in Indices /\ history'[j] = history[j + k]
          /\ SameViews(history[j + k].command)
          /\ \A p \in Leaves(history[j + k].command) : memo'[p] = memo[p]

LEMMA CleanEntries ==
    ASSUME IInv, IInv', EInv, EInv', ~spoiled', Clean
    PROVE  \E k : Cleaned(k)
  <1>1. /\ CleanupHistory /\ Keep(before, after, memo)
        /\ spoiled' = (spoiled \/ \E i \in 1..(Len(history) - Len(history')) :
                                     history[i].undone)
    BY DEF Clean
  <1>2. \A c \in Live' :
            /\ before'[c] = before[c] /\ after'[c] = after[c]
            /\ \A p \in Leaves(c) : target'[p] = target[p] /\ memo'[p] = memo[p]
    BY <1>1, KeepViews DEF EInv
  <1>3. PICK k \in 1..(Len(history) - 1) :
           /\ history' = SubSeq(history, k + 1, Len(history))
           /\ currentIndex' = IF currentIndex - k >= -1 THEN currentIndex - k ELSE -1
    BY <1>1 DEF CleanupHistory
  <1>4. /\ history \in Seq(Entry) /\ Len(history) \in Nat /\ k \in Nat
        /\ currentIndex \in Int /\ Indices = 1..Len(history)
    BY EntryFacts DEF IInv, TypeOK, Indices
  <1>5. /\ Len(history') = Len(history) - k
        /\ \A i \in Indices' : i + k \in Indices /\ history'[i] = history[i + k]
    <2>1. k + 1 \in Int /\ Len(history) \in Int /\ k + 1 <= Len(history)
      BY <1>4
    <2>2. \A i \in (k + 1)..Len(history) : history[i] \in Entry
      BY <1>4
    <2>3. /\ Len(history') = Len(history) - (k + 1) + 1
          /\ \A i \in 1..(Len(history) - (k + 1) + 1) :
                history'[i] = history[(k + 1) + i - 1]
      BY <1>3, <2>1, <2>2, SubSeqProperties
    <2>4. Len(history) - (k + 1) + 1 = Len(history) - k
      BY <1>4
    <2>5. \A i \in 1..(Len(history) - k) :
             (k + 1) + i - 1 = i + k /\ i + k \in 1..Len(history)
      BY <1>4
    <2>6. QED BY <2>3, <2>4, <2>5 DEF Indices
  <1>6. ~history[k].undone /\ k \in Indices
    <2>1. k \in 1..(Len(history) - Len(history')) /\ k \in Indices
      BY <1>4, <1>5
    <2>2. QED BY <1>1, <2>1
  <1>7. ~(k > currentIndex + 1)
    BY <1>6 DEF IInv, HistoryShape
  <1>8. currentIndex' + k = currentIndex
    BY <1>3, <1>4, <1>7
  <1>9. ASSUME NEW j \in Indices'
        PROVE  /\ SameViews(history[j + k].command)
               /\ \A p \in Leaves(history[j + k].command) : memo'[p] = memo[p]
    <2>1. j + k \in Indices /\ history'[j] = history[j + k]
      BY <1>5
    <2>2. history[j + k].command \in Live'
      <3>1. history[j + k].command \in Commands
        BY <2>1, EntryCommand
      <3>2. QED BY <2>1, <3>1 DEF Live
    <2>3. QED BY <1>2, <2>2 DEF SameViews
  <1>10. k >= 1 /\ k < Len(history)
    BY <1>4
  <1>11. Cleaned(k)
    BY <1>4, <1>5, <1>8, <1>9, <1>10 DEF Cleaned
  <1>12. QED BY <1>11

\* cleanupHistory keeps the views linked, or nothing is promised any more.
LEMMA CleanLinks ==
    ASSUME IInv, IInv', EInv, EInv', LInv, ~spoiled, ~hidden, Clean
    PROVE  LInv'
  <1>1. DOMAIN before' = Commands /\ DOMAIN after' = Commands
    BY KeepViews DEF Clean, EInv
  <1>2. CASE spoiled'
    BY <1>1, <1>2 DEF LInv, ViewsKept
  <1>3. CASE ~spoiled'
    <2>1. PICK k : Cleaned(k)
      BY <1>3, CleanEntries
    <2>2. k \in Nat /\ currentIndex' + k = currentIndex
      BY <2>1 DEF Cleaned
    <2>3. \A j \in Indices' :
              /\ j + k \in Indices /\ history'[j] = history[j + k]
              /\ SameViews(history[j + k].command)
              /\ \A p \in Leaves(history[j + k].command) : memo'[p] = memo[p]
      BY <2>1 DEF Cleaned
    <2>4. Shifted(k)
      BY <2>3 DEF Shifted
    <2>5. View(chart') = View(chart)
      BY DEF Clean
    <2>6. UndoHeld /\ ~twice' /\ pending' = pending
      BY DEF LInv, Clean, CleanupHistory
    <2>7. \A c \in Live' : SameViews(c) /\ \A p \in Leaves(c) : memo'[p] = memo[p]
      BY KeepViews DEF Clean, EInv, SameViews
    <2>8. pending.op = "undo" => pending.command \in Live'
      BY <2>6 DEF IInv, TypeOK, Pending, Idle, Live
    <2>9. UndoHeld'
      BY <2>5, <2>6, <2>7, <2>8, HeldStill
    <2>10. QED BY <1>1, <2>2, <2>4, <2>5, <2>6, <2>9, LinksKept
  <1>4. spoiled' \in BOOLEAN
    BY DEF EInv
  <1>5. QED BY <1>2, <1>3, <1>4

\* An execute that ends with o puts the entry of c at n, after those the history keeps.
Added(o, c, n, e) ==
    /\ c \in TopLevel /\ Good(State) /\ Ready(State, c) /\ o \in Outcomes(State, c)
    /\ chart' = o.state.chart /\ twice' = o.state.twice /\ hidden' = (hidden \/ o.hidden)
    /\ n \in Nat /\ n >= 1 /\ n = Len(history') /\ Indices' = 1..n /\ currentIndex' = n - 1
    /\ e \in Nat /\ n - 1 + e = IF history = <<>> THEN 0 ELSE currentIndex + 1
    /\ history'[n].command = c /\ history'[n].success = o.ok /\ history'[n].undone = FALSE
    /\ DOMAIN before' = Commands /\ DOMAIN after' = Commands
    /\ before'[c] = View(chart) /\ after'[c] = View(chart')
    /\ \A p \in Leaves(c) : target'[p] = target[p] /\ memo'[p] = o.state.memo[p]
    /\ \A j \in 1..(n - 1) :
          /\ j + e \in Indices /\ j + e <= currentIndex + 1
          /\ history'[j] = history[j + e]
          /\ SameViews(history[j + e].command)
          /\ \A p \in Leaves(history[j + e].command) : memo'[p] = memo[p]

LEMMA ExecutedEntries ==
    ASSUME IInv, IInv', EInv, EInv', LInv, ~spoiled, Executed
    PROVE  \E o, c, n, e : Added(o, c, n, e)
  <1>1. PICK o \in Outcomes(State, pending.command) :
           /\ FinishExecute(o.ok)
           /\ chart' = o.state.chart /\ made' = o.state.made
           /\ twice' = o.state.twice /\ hidden' = (hidden \/ o.hidden)
           /\ Keep([before EXCEPT ![pending.command] = View(chart)],
                   [after EXCEPT ![pending.command] = View(o.state.chart)], o.state.memo)
           /\ spoiled' = spoiled
    BY DEF Executed
  <1>2. PICK c, V, W, b, a, mm :
           /\ c = pending.command /\ V = View(chart) /\ W = View(chart')
           /\ b = [before EXCEPT ![c] = V] /\ a = [after EXCEPT ![c] = W]
           /\ mm = o.state.memo
    OBVIOUS
  <1>3. pending.op = "execute" /\ \A i \in Indices : history[i].command # c
    BY <1>2 DEF Executed, IInv, PendingInPlace
  <1>4. c \in Commands /\ c \in Live /\ Ready(State, c) /\ Good(State)
    BY <1>2, <1>3, PendingReady DEF EInv
  <1>5. c \in TopLevel /\ c \in Undoable
    BY <1>4, EditsAssumption DEF EInv, LiveIsTop
  <1>6. Result(State, c, o) /\ o.ok \in BOOLEAN
    <2>1. Result(State, c, o)
      BY <1>2, <1>4, Outcome
    <2>2. QED BY <2>1 DEF Result
  <1>7. AddToHistory(c, o.ok)
    BY <1>1, <1>2, <1>5 DEF FinishExecute
  <1>8. /\ history' \in Seq(Entry)
        /\ Len(history') \in 1..MaxHistorySize
        /\ currentIndex' = Len(history') - 1
        /\ history'[Len(history')] = [command |-> c, success |-> o.ok, undone |-> FALSE]
        /\ \E e \in Nat :
              /\ Len(history') - 1 + e = IF history = <<>> THEN 0 ELSE currentIndex + 1
              /\ \A i \in 1..(Len(history') - 1) :
                    /\ i + e \in Indices
                    /\ i + e <= currentIndex + 1
                    /\ history'[i] = history[i + e]
    BY <1>5, <1>6, <1>7, AddStep, InvokerAssumption
  <1>9. PICK n, e : /\ n = Len(history') /\ e \in Nat
                    /\ n - 1 + e = IF history = <<>> THEN 0 ELSE currentIndex + 1
                    /\ \A i \in 1..(n - 1) : /\ i + e \in Indices
                                             /\ i + e <= currentIndex + 1
                                             /\ history'[i] = history[i + e]
    BY <1>8
  <1>10. /\ n \in Nat /\ n >= 1 /\ Indices' = 1..n /\ currentIndex' = n - 1
         /\ \A j \in Indices' : j = n \/ j \in 1..(n - 1)
         /\ history'[n].command = c /\ history'[n].success = o.ok
         /\ history'[n].undone = FALSE
    BY <1>8, <1>9, InvokerAssumption DEF Indices
  <1>11. Keep(b, a, mm)
    BY <1>1, <1>2
  <1>12. /\ DOMAIN before' = Commands /\ DOMAIN after' = Commands
         /\ \A d \in Live' :
               /\ before'[d] = b[d] /\ after'[d] = a[d]
               /\ \A p \in Leaves(d) : target'[p] = target[p] /\ memo'[p] = mm[p]
    BY <1>11, KeepViews DEF EInv
  <1>13. \A d : (d # c => b[d] = before[d] /\ a[d] = after[d])
    BY <1>2
  <1>14. b[c] = V /\ a[c] = W
    BY <1>2, <1>4 DEF LInv, ViewsKept
  <1>16. \A j \in Indices' : history'[j].command \in Live'
    <2>1. \A j \in Indices' : history'[j] \in Entry
      BY <1>8 DEF Indices
    <2>2. \A j \in Indices' : history'[j].command \in Commands
      BY <2>1, InvokerAssumption DEF Entry
    <2>3. QED BY <2>2 DEF Live
  <1>17. before'[c] = V /\ after'[c] = W
         /\ \A p \in Leaves(c) : target'[p] = target[p] /\ memo'[p] = mm[p]
    <2>1. c \in Live'
      BY <1>10, <1>16
    <2>2. QED BY <1>12, <1>14, <2>1
  <1>18. ASSUME NEW j \in 1..(n - 1)
         PROVE  /\ j + e \in Indices /\ j + e <= currentIndex + 1
                /\ history'[j] = history[j + e]
                /\ SameViews(history[j + e].command)
                /\ \A p \in Leaves(history[j + e].command) : memo'[p] = memo[p]
    <2>1. j + e \in Indices /\ history'[j] = history[j + e] /\ j \in Indices'
      BY <1>9, <1>10
    <2>2. PICK d : d = history[j + e].command
      OBVIOUS
    <2>3. d \in Live' /\ d # c /\ d \in TopLevel
      BY <1>3, <1>16, <2>1, <2>2, EntryCommand
    <2>4. \A p \in Leaves(d) : p \in Commands /\ p \notin Leaves(c)
      BY <1>5, <2>3, LeavesApart DEF Single
    <2>5. \A p \in Leaves(d) : mm[p] = memo[p]
      BY <1>2, <1>6, <2>4 DEF Result, State
    <2>6. SameViews(d)
      BY <1>12, <1>13, <2>3 DEF SameViews
    <2>7. \A p \in Leaves(d) : memo'[p] = memo[p]
      BY <1>12, <2>3, <2>5
    <2>8. QED BY <1>9, <2>1, <2>2, <2>6, <2>7
  <1>19. Added(o, c, n, e)
    BY <1>1, <1>2, <1>4, <1>5, <1>9, <1>10, <1>12, <1>17, <1>18 DEF Added
  <1>20. QED BY <1>19

\* The end of an execute: the new entry starts where the last one kept ended.
LEMMA ExecutedLinks ==
    ASSUME IInv, IInv', EInv, EInv', LInv, ~spoiled, ~hidden, Executed
    PROVE  LInv'
  <1>1. PICK o, c, n, e : Added(o, c, n, e)
    BY ExecutedEntries
  <1>2. PICK V, W, mm : V = View(chart) /\ W = View(chart') /\ mm = o.state.memo
    OBVIOUS
  <1>3. c \in Commands /\ c \in TopLevel /\ Ready(State, c) /\ Good(State)
    BY <1>1 DEF Added, TopLevel
  <1>4. /\ e \in Nat /\ n - 1 + e = IF history = <<>> THEN 0 ELSE currentIndex + 1
        /\ \A i \in 1..(n - 1) : i + e \in Indices /\ i + e <= currentIndex + 1
    BY <1>1 DEF Added
  <1>5. /\ n \in Nat /\ n >= 1 /\ Indices' = 1..n /\ currentIndex' = n - 1
        /\ \A j \in Indices' : j = n \/ j \in 1..(n - 1)
        /\ history'[n].command = c /\ history'[n].success = o.ok
        /\ history'[n].undone = FALSE
    <2>1. /\ n \in Nat /\ n >= 1 /\ Indices' = 1..n /\ currentIndex' = n - 1
          /\ history'[n].command = c /\ history'[n].success = o.ok
          /\ history'[n].undone = FALSE
      BY <1>1 DEF Added
    <2>2. QED BY <2>1
  <1>6. Joined /\ Shown /\ Effective
    BY DEF LInv
  <1>7. before'[c] = V /\ after'[c] = W
         /\ \A p \in Leaves(c) : target'[p] = target[p] /\ memo'[p] = mm[p]
    BY <1>1, <1>2 DEF Added
  <1>8. ASSUME NEW j \in 1..(n - 1)
         PROVE  /\ j + e \in Indices /\ j + e <= currentIndex + 1
                /\ history'[j] = history[j + e]
                /\ SameViews(history[j + e].command)
                /\ \A p \in Leaves(history[j + e].command) : memo'[p] = memo[p]
    BY <1>1 DEF Added
  <1>9. Joined'
    <2> SUFFICES ASSUME NEW j \in Indices', j + 1 \in Indices'
                 PROVE  after'[history'[j].command] = before'[history'[j + 1].command]
      BY DEF Joined
    <2>1. j \in 1..(n - 1)
      BY <1>5
    <2>2. after'[history'[j].command] = after[history[j + e].command] /\ j + e \in Indices
      BY <1>8, <2>1 DEF SameViews
    <2>3. CASE j + 1 = n
      <3>1. j + e = currentIndex + 1
        <4>1. history # <<>>
          BY <2>2 DEF Indices
        <4>2. n - 1 + e = currentIndex + 1
          BY <1>4, <4>1
        <4>3. QED BY <1>4, <1>5, <2>1, <2>3, <4>2
      <3>2. after[history[j + e].command] = V
        BY <1>2, <1>6, <2>2, <3>1 DEF Shown
      <3>3. QED BY <1>5, <1>7, <2>2, <2>3, <3>2
    <2>4. CASE j + 1 # n
      <3>1. j + 1 \in 1..(n - 1) /\ (j + 1) + e = (j + e) + 1
        BY <1>4, <1>5, <2>1, <2>4
      <3>2. /\ (j + e) + 1 \in Indices
            /\ before'[history'[j + 1].command] = before[history[(j + e) + 1].command]
        BY <1>8, <3>1 DEF SameViews
      <3>3. QED BY <1>6, <2>2, <3>2 DEF Joined
    <2>5. QED BY <2>3, <2>4
  <1>10. Shown'
    <2>1. \A j \in Indices' : j = currentIndex' + 1 => j = n
      BY <1>5
    <2>2. \A j \in Indices' : j # currentIndex' + 2
      BY <1>5
    <2>3. after'[history'[n].command] = View(chart')
      BY <1>2, <1>5, <1>7
    <2>4. QED BY <2>1, <2>2, <2>3 DEF Shown, View
  <1>11. ASSUME ~hidden' PROVE Effective'
    <2>1. ASSUME NEW j \in 1..(n - 1)
          PROVE  /\ IsFn(before'[history'[j].command])
                 /\ history'[j].success => Did(history[j].command)'
                 /\ history'[j].success /\ ~history'[j].undone
                       => Remembers(history[j].command)'
      <3>1. PICK i : i = j + e
        OBVIOUS
      <3>2. /\ i \in Indices /\ j \in Indices' /\ history'[j] = history[i]
            /\ SameViews(history[i].command)
            /\ \A p \in Leaves(history[i].command) : memo'[p] = memo[p]
        BY <1>5, <1>8, <3>1
      <3>3. QED BY <1>6, <3>2, EntryNext
    <2>2. IsFn(before'[history'[n].command])
      <3>1. Shows(State, V)
        <4>1. V = View(State.chart)
          BY <1>2 DEF State
        <4>2. QED BY <1>3, <4>1, ViewOf
      <3>2. QED BY <1>5, <1>7, <3>1 DEF Shows
    <2>3. ASSUME history'[n].success
          PROVE  Did(history[n].command)' /\ Remembers(history[n].command)'
      <3>1. o.ok /\ ~o.hidden /\ o \in Outcomes(State, c)
        BY <1>1, <1>5, <1>11, <2>3 DEF Added
      <3>2. Effect(target, o.state.memo, c, View(State.chart), View(o.state.chart))
        BY <1>3, <3>1, OutcomeEffect
      <3>3. Effect(target, mm, c, V, W)
        BY <1>1, <1>2, <3>2 DEF State, Added
      <3>4. PICK tg, th, mn : tg = target /\ th = target' /\ mn = memo'
        OBVIOUS
      <3>5. /\ \A p \in Leaves(c) : tg[p] = th[p] /\ mm[p] = mn[p]
            /\ Effect(tg, mm, c, V, W)
        BY <1>7, <3>3, <3>4
      <3>6. Effect(th, mn, c, V, W)
        BY <1>3, <3>5, EffectOf
      <3>7. Effect(target', memo', c, before'[c], after'[c])
        BY <1>7, <3>4, <3>6
      <3>8. Did(c)' /\ Remembers(c)'
        BY <3>7, RemembersNext
      <3>9. Did(history[n].command)' <=> Did(c)'
        BY <1>5 DEF Did
      <3>10. Remembers(history[n].command)' <=> Remembers(c)'
        BY <1>5 DEF Remembers
      <3>11. QED BY <3>8, <3>9, <3>10
    <2>4. ASSUME NEW j \in Indices'
          PROVE  /\ IsFn(before'[history'[j].command])
                 /\ history'[j].success => Did(history[j].command)'
                 /\ history'[j].success /\ ~history'[j].undone
                       => Remembers(history[j].command)'
      <3>1. CASE j = n
        BY <2>2, <2>3, <3>1
      <3>2. CASE j \in 1..(n - 1)
        BY <2>1, <3>2
      <3>3. QED BY <1>5, <3>1, <3>2
    <2>5. QED BY <2>4, EffectiveNext
  <1>12. DOMAIN before' = Commands /\ DOMAIN after' = Commands
    BY <1>1 DEF Added
  <1>13. UndoHeld'
    <2>1. pending'.op # "undo"
      BY DEF Executed, FinishExecute, Idle
    <2>2. QED BY <2>1, HeldNot
  <1>14. ASSUME ~hidden' PROVE ~twice'
    <2>1. ~o.hidden /\ twice' = o.state.twice /\ o \in Outcomes(State, c)
      BY <1>1, <1>14 DEF Added
    <2>2. Result(State, c, o)
      BY <1>3, <2>1, Outcome
    <2>3. ~o.hidden => o.state.twice = State.twice
      BY <2>2 DEF Result
    <2>4. QED BY <2>1, <2>3 DEF LInv, State
  <1>15. hidden' \in BOOLEAN
    BY DEF EInv
  <1>16. QED BY <1>9, <1>10, <1>11, <1>12, <1>13, <1>14, <1>15 DEF LInv, ViewsKept

\* The end of an undo: the chart shows what was seen before its command.
LEMMA UndoneLinks ==
    ASSUME IInv, IInv', EInv, EInv', LInv, ~spoiled, ~hidden, Undone
    PROVE  LInv'
  <1>1. CASE FinishUndo(FALSE) /\ UNCHANGED editVars
    <2>1. UNCHANGED <<history, currentIndex, chart, before, after, target, memo>>
      BY <1>1 DEF FinishUndo, editVars
    <2>2. pending'.op # "undo" /\ ~twice'
      BY <1>1 DEF FinishUndo, Idle, editVars, LInv
    <2>3. QED BY <2>1, <2>2, HeldNot, IdleLinks
  <1>2. ASSUME NEW c, c = pending.command, pending.op = "undo", c \in executed,
               NEW stuck, Apply(Undo(c, stuck)), spoiled' = (spoiled \/ stuck # {}),
               FinishUndo(TRUE), UNCHANGED <<target, before, after, hidden>>
        PROVE  LInv'
    <2>1. DOMAIN before' = Commands /\ DOMAIN after' = Commands
      BY <1>2 DEF LInv, ViewsKept
    <2>2. CASE spoiled'
      BY <2>1, <2>2 DEF LInv, ViewsKept
    <2>3. UndoHeld'
      <3>1. pending'.op # "undo"
        BY <1>2 DEF FinishUndo, Idle
      <3>2. QED BY <3>1, HeldNot
    <2>4. PICK V : V = before[c]
      OBVIOUS
    <2>5. IsFn(V) /\ Remembers(c) /\ after[c] = View(chart)
      BY <1>2, <2>4 DEF LInv, UndoHeld
    <2>6. c \in Commands /\ c \in Live /\ InEffect(c)
      BY <1>2 DEF IInv, TypeOK, Pending, Idle, Live, InEffect
    <2>7. ASSUME ~spoiled' PROVE View(chart') = V /\ ~twice'
      <3>1. PICK e, f : e = State /\ f = Undo(c, stuck)
        OBVIOUS
      <3>2. /\ Good(e) /\ e.chart = chart /\ e.memo = memo /\ chart' = f.chart
            /\ e.twice = twice /\ twice' = f.twice
        BY <1>2, <3>1 DEF EInv, State, Apply
      <3>3. ASSUME NEW p \in Leaves(c)
            PROVE  /\ p \in Single /\ Aimed(p)
                   /\ Pointing(p) => LastMade(e, target[p])
                   /\ Pointing(p) => target[p][1] \notin Leaves(c)
        <4>1. p \in Single
          BY <2>6, LeavesApart DEF EInv, LiveIsTop
        <4>2. Aimed(p)
          BY <2>6, <4>1 DEF EInv, TargetsTyped, TargetsMade, Aimed, Single
        <4>3. Pointing(p) => LastMade(e, target[p])
          BY <2>6, <3>1, TargetLast
        <4>4. Away(c, c)
          BY <1>2 DEF EInv, TargetsEarlier
        <4>5. QED BY <4>1, <4>2, <4>3, <4>4 DEF Away
      <3>4. Effect(target, e.memo, c, V, View(e.chart))
        BY <2>4, <2>5, <3>2 DEF Remembers
      <3>5. f = IF c \in Batches THEN UndoParts(e, c, Len(PartsOf[c]), {})
                ELSE UndoOne(e, c)
        BY <1>2, <2>7, <3>1 DEF Undo
      <3>6. View(f.chart) = V /\ f.twice = e.twice
        BY <2>5, <2>6, <3>2, <3>3, <3>4, <3>5, UndoEffect
      <3>7. QED BY <3>2, <3>6 DEF LInv
    <2>8. CASE ~spoiled' /\ history = <<>>
      <3>1. Indices' = Indices
        <4>1. history' = MarkUndone(c, TRUE)
          BY <1>2 DEF FinishUndo
        <4>2. QED BY <4>1, MarkStep
      <3>2. Indices = {}
        BY <2>8 DEF Indices
      <3>3. QED BY <2>1, <2>3, <2>7, <2>8, <3>1, <3>2, EmptyLinks
    <2>9. CASE ~spoiled' /\ history # <<>>
      <3>1. stuck = {} /\ history' = MarkUndone(c, TRUE) /\ currentIndex' = currentIndex - 1
        BY <1>2, <2>9 DEF FinishUndo
      <3>2. /\ Indices' = Indices
            /\ \A i \in Indices :
                  /\ history'[i].command = history[i].command
                  /\ history'[i].success = history[i].success
                  /\ history'[i].undone =
                       IF history[i].command = c THEN TRUE ELSE history[i].undone
        BY <3>1, MarkStep
      <3>3. PICK l : l = currentIndex + 1
        OBVIOUS
      <3>4. /\ l \in Indices /\ history[l].command = c
            /\ history[l].success /\ ~history[l].undone
        <4>1. canUndo /\ Current.command = c
          BY <1>2, <2>9 DEF IInv, PendingInPlace
        <4>2. currentIndex + 1 \in Indices
          BY <4>1, EntryFacts DEF canUndo, Indices
        <4>3. QED BY <3>3, <4>1, <4>2 DEF canUndo, Current
      <3>5. Joined /\ Shown /\ Effective
        BY DEF LInv
      <3>6. /\ Indices \subseteq Nat /\ currentIndex \in Int
        BY EntryFacts DEF IInv, TypeOK, Indices
      <3>7. Joined'
        BY <1>2, <3>2, <3>5 DEF Joined
      <3>8. Shown'
        <4>1. ASSUME NEW i \in Indices, i = currentIndex' + 1
              PROVE  after[history[i].command] = View(chart')
          <5>1. i + 1 = l
            BY <3>1, <3>3, <3>6, <4>1
          <5>2. QED BY <2>4, <2>7, <2>9, <3>4, <3>5, <5>1 DEF Joined
        <4>2. ASSUME NEW i \in Indices, i = currentIndex' + 2
              PROVE  before[history[i].command] = View(chart')
          <5>1. i = l
            BY <3>1, <3>3, <3>6, <4>2
          <5>2. QED BY <2>4, <2>7, <2>9, <3>4, <5>1
        <4>3. QED BY <1>2, <3>2, <4>1, <4>2 DEF Shown, View
      <3>9. Effective'
        <4>1. ASSUME NEW i \in Indices
              PROVE  /\ IsFn(before'[history'[i].command])
                     /\ history'[i].success => Did(history[i].command)'
                     /\ history'[i].success /\ ~history'[i].undone
                           => Remembers(history[i].command)'
          <5>1. memo' = memo
            <6>1. PICK f : f = Undo(c, stuck)
              OBVIOUS
            <6>2. f.memo = memo
              BY <2>6, <6>1, UndoResult
            <6>3. QED BY <1>2, <6>1, <6>2 DEF Apply
          <5>2. SameViews(history[i].command)
            BY <1>2 DEF SameViews
          <5>3. i \in Indices'
            BY <3>2
          <5>4. QED BY <3>2, <3>5, <5>1, <5>2, <5>3, EntryNext
        <4>2. QED BY <3>2, <4>1, EffectiveNext
      <3>10. QED BY <2>1, <2>3, <2>7, <2>9, <3>7, <3>8, <3>9 DEF LInv, ViewsKept
    <2>10. spoiled' \in BOOLEAN
      BY DEF EInv
    <2>11. QED BY <2>2, <2>8, <2>9, <2>10
  <1>3. QED BY <1>1, <1>2 DEF Undone, Undo

\* The end of a redo: the chart shows what was seen after its command, or is as it
\* was, or half a batch is left.
LEMMA RedoneLinks ==
    ASSUME IInv, IInv', EInv, EInv', LInv, ~spoiled, ~hidden, Redone
    PROVE  LInv'
  <1>1. PICK o \in Outcomes(State, pending.command) :
           /\ FinishRedo(o.ok) /\ Apply(o.state)
           /\ spoiled' = (spoiled \/ o.half)
           /\ hidden' = (hidden \/ o.hidden)
           /\ UNCHANGED <<target, before, after>>
    BY DEF Redone
  <1>2. PICK c, e : c = pending.command /\ e = State
    OBVIOUS
  <1>3. pending.op = "redo"
    BY DEF Redone
  <1>4. /\ c \in Commands /\ c \in Live /\ c \in TopLevel /\ Ready(e, c) /\ Good(e)
        /\ o \in Outcomes(e, c)
    BY <1>1, <1>2, <1>3, PendingReady DEF EInv, LiveIsTop
  <1>5. Result(e, c, o) /\ o.ok \in BOOLEAN /\ o.half \in BOOLEAN
    <2>1. Result(e, c, o)
      BY <1>4, Outcome
    <2>2. QED BY <2>1 DEF Result
  <1>6. /\ chart' = o.state.chart /\ memo' = o.state.memo
        /\ e.chart = chart /\ e.memo = memo
        /\ twice' = o.state.twice /\ e.twice = twice
    BY <1>1, <1>2 DEF Apply, State
  <1>7. DOMAIN before' = Commands /\ DOMAIN after' = Commands
    BY <1>1 DEF LInv, ViewsKept
  <1>8. /\ Indices' = Indices
        /\ \A i \in Indices :
              /\ history'[i].command = history[i].command
              /\ history'[i].success = history[i].success
              /\ history'[i].undone =
                   IF o.ok /\ history[i].command = c THEN FALSE ELSE history[i].undone
    <2>1. CASE o.ok
      <3>1. history' = MarkUndone(c, FALSE)
        BY <1>1, <1>2, <2>1 DEF FinishRedo
      <3>2. /\ history' \in Seq(Entry) /\ Len(history') = Len(history)
            /\ Indices' = Indices
            /\ \A i \in Indices :
                  /\ history'[i].command = history[i].command
                  /\ history'[i].success = history[i].success
                  /\ history'[i].undone =
                       IF history[i].command = c THEN FALSE ELSE history[i].undone
            /\ CommandsDistinct'
        BY <3>1, MarkStep, ZenonT(60)
      <3>3. QED BY <2>1, <3>2
    <2>2. CASE ~o.ok
      BY <1>1, <2>2 DEF FinishRedo, Indices
    <2>3. QED BY <2>1, <2>2
  <1>9. CASE spoiled' \/ hidden'
    BY <1>7, <1>9 DEF LInv, ViewsKept
  <1>10. UndoHeld'
    <2>1. pending'.op # "undo"
      BY <1>1, <1>3 DEF FinishRedo, Idle
    <2>2. QED BY <2>1, HeldNot
  <1>11. ASSUME ~hidden' PROVE ~o.hidden /\ ~twice'
    <2>1. ~o.hidden
      BY <1>1, <1>11
    <2>2. o.state.twice = e.twice
      BY <1>5, <2>1 DEF Result
    <2>3. QED BY <1>6, <2>1, <2>2 DEF LInv
  <1>12. CASE ~hidden' /\ history = <<>>
    <2>1. Indices' = {}
      BY <1>8, <1>12 DEF Indices
    <2>2. QED BY <1>7, <1>12, <1>10, <1>11, <2>1, EmptyLinks
  <1>13. ASSUME ~spoiled', ~hidden', history # <<>> PROVE LInv'
    <2>1. PICK l : l = currentIndex + 2
      OBVIOUS
    <2>2. l \in Indices /\ history[l].command = c /\ history[l].success /\ history[l].undone
      <3>1. canRedo /\ Following.command = c
        BY <1>2, <1>3, <1>13 DEF IInv, PendingInPlace
      <3>2. currentIndex + 2 \in Indices
        BY <3>1, EntryFacts DEF canRedo, Indices
      <3>3. QED BY <2>1, <3>1, <3>2 DEF canRedo, Following
    <2>3. Joined /\ Shown /\ Effective
      BY DEF LInv
    <2>4. Indices \subseteq Nat /\ currentIndex \in Int
      BY EntryFacts DEF IInv, TypeOK, Indices
    <2>5. \A i \in Indices : history[i].command = c => i = l
      BY <2>2 DEF IInv, CommandsDistinct
    <2>6. \A i \in Indices : i # l => \A p \in Leaves(history[i].command) : memo'[p] = memo[p]
      <3>1. ASSUME NEW i \in Indices, i # l, NEW p \in Leaves(history[i].command)
            PROVE  memo'[p] = memo[p]
        <4>1. history[i].command \in TopLevel /\ history[i].command # c
          BY <2>5, <3>1, EntryCommand
        <4>2. p \in Commands /\ p \notin Leaves(c)
          BY <1>4, <3>1, <4>1, LeavesApart DEF Single
        <4>3. QED BY <1>5, <1>6, <4>2 DEF Result
      <3>2. QED BY <3>1
    <2>7. CASE ~o.ok
      <3>1. chart' = chart
        BY <1>1, <1>5, <1>6, <1>13, <2>7 DEF Result
      <3>2. UNCHANGED <<history, currentIndex, chart, before, after, target>>
        BY <1>1, <2>7, <3>1 DEF FinishRedo
      <3>3. QED BY <1>13, <1>10, <1>11, <2>2, <2>6, <3>2, IdleLinks
    <2>8. CASE o.ok
      <3>1. currentIndex' = currentIndex + 1
        BY <1>1, <2>8 DEF FinishRedo
      <3>2. Effect(target, memo', c, before[c], View(chart'))
        <4>1. Effect(target, o.state.memo, c, View(e.chart), View(o.state.chart))
          BY <1>4, <1>13, <1>11, <2>8, OutcomeEffect
        <4>2. before[c] = View(chart)
          BY <2>1, <2>2, <2>3 DEF Shown
        <4>3. QED BY <1>6, <4>1, <4>2
      <3>3. View(chart') = after[c]
        <4>1. PICK m : Effect(target, m, c, before[c], after[c])
          BY <2>2, <2>3 DEF Effective, Did
        <4>2. QED BY <1>4, <3>2, <4>1, EffectOnce
      <3>4. Joined'
        BY <1>1, <1>8, <2>3 DEF Joined
      <3>5. Shown'
        <4>1. ASSUME NEW i \in Indices, i = currentIndex' + 1
              PROVE  after[history[i].command] = View(chart')
          <5>1. i = l
            BY <2>1, <2>4, <3>1, <4>1
          <5>2. QED BY <2>2, <3>3, <5>1
        <4>2. ASSUME NEW i \in Indices, i = currentIndex' + 2
              PROVE  before[history[i].command] = View(chart')
          <5>1. i = l + 1
            BY <2>1, <2>4, <3>1, <4>2
          <5>2. QED BY <2>2, <2>3, <3>3, <4>2, <5>1 DEF Joined
        <4>3. QED BY <1>1, <1>8, <4>1, <4>2 DEF Shown, View
      <3>6. Effective'
        <4>1. ASSUME NEW i \in Indices, i # l
              PROVE  /\ IsFn(before'[history'[i].command])
                     /\ history'[i].success => Did(history[i].command)'
                     /\ history'[i].success /\ ~history'[i].undone
                           => Remembers(history[i].command)'
          <5>1. SameViews(history[i].command)
            BY <1>1 DEF SameViews
          <5>2. \A p \in Leaves(history[i].command) : memo'[p] = memo[p]
            BY <2>6, <4>1
          <5>3. history'[i].undone = history[i].undone
            BY <1>8, <2>5, <4>1
          <5>4. i \in Indices'
            BY <1>8
          <5>5. QED BY <1>8, <2>3, <5>1, <5>2, <5>3, <5>4, EntryNext
        <4>2. IsFn(before'[history'[l].command])
          BY <1>1, <1>8, <2>2, <2>3 DEF Effective
        <4>3. Did(history[l].command)' /\ Remembers(history[l].command)'
          <5>1. Effect(target', memo', c, before'[c], after'[c])
            BY <1>1, <3>2, <3>3
          <5>2. Did(c)' /\ Remembers(c)'
            BY <5>1, RemembersNext
          <5>3. history'[l].command = c
            BY <1>8, <2>2
          <5>4. Did(history[l].command)' <=> Did(c)'
            BY <5>3 DEF Did
          <5>5. Remembers(history[l].command)' <=> Remembers(c)'
            BY <5>3 DEF Remembers
          <5>6. QED BY <5>2, <5>4, <5>5
        <4>4. QED BY <1>8, <4>1, <4>2, <4>3, EffectiveNext
      <3>7. QED BY <1>7, <1>13, <1>10, <1>11, <3>4, <3>5, <3>6 DEF LInv, ViewsKept
    <2>9. QED BY <1>5, <2>7, <2>8
  <1>14. spoiled' \in BOOLEAN /\ hidden' \in BOOLEAN
    BY DEF EInv
  <1>15. QED BY <1>9, <1>12, <1>13, <1>14

\* Whatever happens, views are remembered of every command.
LEMMA ViewsStay ==
    ASSUME IInv', EInv', ViewsKept, [EditsNext]_allVars
    PROVE  ViewsKept'
  <1>1. CASE UNCHANGED <<before, after>>
    BY <1>1 DEF ViewsKept
  <1>2. ASSUME NEW b, NEW a, NEW m, Keep(b, a, m) PROVE ViewsKept'
    BY <1>2, KeepViews DEF EInv, ViewsKept
  <1>3. QED
    BY <1>1, <1>2 DEF EditsNext, allVars, editVars, Start, Executed, Undone, Redone, Clean, Clear

\* Once an error is hidden it stays so until the history is cleared.
LEMMA HiddenStays ==
    ASSUME EInv, hidden, ~hidden', [EditsNext]_allVars
    PROVE  ~spoiled /\ ~twice /\ Clear
  <1>1. EditsNext
    <2>1. CASE UNCHANGED allVars
      <3>1. hidden' = hidden
        BY <2>1 DEF allVars
      <3>2. QED BY <3>1
    <2>2. QED BY <2>1
  <1>2. ~spoiled /\ ~twice
    BY <1>1 DEF EditsNext
  <1>3. QED
    BY <1>1, <1>2 DEF EditsNext, editVars, Start, Executed, Undone, Redone, Clean

\* An undo begins with what the chart shows.
LEMMA UndoTaken ==
    ASSUME IInv, EInv, LInv, ~spoiled, ~hidden, StartUndo, UNCHANGED editVars
    PROVE  UndoHeld'
  <1>1. PICK l, c : l = currentIndex + 1 /\ c = Current.command
    OBVIOUS
  <1>2. canUndo /\ pending'.op = "undo" /\ pending'.command = c
    BY <1>1 DEF StartUndo
  <1>3. l \in Indices /\ history[l].command = c /\ history[l].success /\ ~history[l].undone
    <2>1. currentIndex + 1 \in Indices
      BY <1>2, EntryFacts DEF canUndo, Indices
    <2>2. QED BY <1>1, <1>2, <2>1 DEF canUndo, Current
  <1>4. Remembers(c) /\ after[c] = View(chart) /\ IsFn(before[c])
    BY <1>1, <1>3 DEF LInv, Shown, Effective
  <1>5. c \in TopLevel
    BY <1>3, EntryCommand
  <1>6. SameViews(c) /\ \A p \in Leaves(c) : memo'[p] = memo[p]
    BY DEF SameViews, editVars
  <1>7. Remembers(c)'
    BY <1>4, <1>5, <1>6, StillRemembers
  <1>8. Remembers(pending.command)' <=> Remembers(c)'
    BY <1>2 DEF Remembers
  <1>9. IsFn(before'[c]) /\ after'[c] = View(chart')
    BY <1>4 DEF editVars
  <1>10. QED BY <1>2, <1>7, <1>8, <1>9 DEF UndoHeld, IsFn, View

\* Every step keeps the views linked.
LEMMA LinksStep ==
    ASSUME IInv, IInv', EInv, EInv', LInv, [EditsNext]_allVars
    PROVE  LInv'
  <1>1. ASSUME ~spoiled, ~hidden, UNCHANGED editVars, UNCHANGED <<history, currentIndex>>,
               UndoHeld'
        PROVE  LInv'
    <2>1. /\ UNCHANGED <<history, currentIndex, chart, before, after, target, memo>>
          /\ ~twice'
      BY <1>1 DEF editVars, LInv
    <2>2. QED BY <1>1, <2>1, IdleLinks
  <1>2. ASSUME ~spoiled, ~hidden, UNCHANGED editVars, UNCHANGED pending
        PROVE  UndoHeld'
    <2>1. /\ UndoHeld /\ pending' = pending /\ View(chart') = View(chart)
          /\ \A c : SameViews(c) /\ \A p \in Leaves(c) : memo'[p] = memo[p]
      BY <1>2 DEF editVars, LInv, SameViews
    <2>2. QED BY <2>1, HeldStill
  <1>3. ViewsKept'
    BY ViewsStay DEF LInv
  <1>4. CASE spoiled' \/ hidden'
    BY <1>3, <1>4 DEF LInv
  <1>5. CASE hidden /\ ~hidden'
    BY <1>5, HiddenStays, ClearLinks
  <1>6. CASE ~hidden /\ ~spoiled' /\ UNCHANGED allVars
    <2>1. /\ UNCHANGED editVars /\ UNCHANGED <<history, currentIndex>> /\ UNCHANGED pending
          /\ ~spoiled
      BY <1>6 DEF allVars, editVars
    <2>2. QED BY <1>1, <1>2, <1>6, <2>1
  <1>7. CASE ~hidden /\ EditsNext
    <2>1. ~spoiled /\ ~twice
      BY <1>7 DEF EditsNext
    <2>2. ASSUME StartUndo, UNCHANGED editVars PROVE LInv'
      <3>1. UNCHANGED <<history, currentIndex>>
        BY <2>2 DEF StartUndo
      <3>2. UndoHeld'
        BY <1>7, <2>1, <2>2, UndoTaken
      <3>3. QED BY <1>1, <1>7, <2>1, <2>2, <3>1, <3>2
    <2>3. ASSUME StartRedo, UNCHANGED editVars PROVE LInv'
      <3>1. UNCHANGED <<history, currentIndex>> /\ pending'.op # "undo"
        BY <2>3 DEF StartRedo
      <3>2. QED BY <1>1, <1>7, <2>1, <2>3, <3>1, HeldNot
    <2>4. ASSUME NEW S, GrowOld(S), UNCHANGED editVars PROVE LInv'
      <3>1. UNCHANGED <<history, currentIndex>> /\ UNCHANGED pending
        BY <2>4 DEF GrowOld
      <3>2. QED BY <1>1, <1>2, <1>7, <2>1, <2>4, <3>1
    <2>5. QED
      BY <1>7, <2>1, <2>2, <2>3, <2>4, StartLinks, ExecutedLinks, UndoneLinks, RedoneLinks,
         CleanLinks, ClearLinks DEF EditsNext
  <1>8. hidden \in BOOLEAN /\ hidden' \in BOOLEAN /\ spoiled' \in BOOLEAN
    BY DEF EInv
  <1>9. QED BY <1>4, <1>5, <1>6, <1>7, <1>8

LEMMA InitLInv == ASSUME EditsInit PROVE LInv
  BY DEF EditsInit, Init, LInv, ViewsKept, UndoHeld, Idle, Joined, Shown, Effective, Indices

\* All three invariants hold.
THEOREM LinksInvariance ==
    ~CleanupWhileExecuting => (EditsSpec => [](IInv /\ EInv /\ LInv))
  <1> SUFFICES ASSUME ~CleanupWhileExecuting
               PROVE  EditsSpec => [](IInv /\ EInv /\ LInv)
    OBVIOUS
  <1>1. EditsInit => LInv
    BY InitLInv
  <1>2. IInv /\ IInv' /\ EInv /\ EInv' /\ LInv /\ [EditsNext]_allVars => LInv'
    BY LinksStep
  <1>3. EditsSpec => [](IInv /\ EInv)
    BY EditsInvariance, PTL
  <1>4. QED BY <1>1, <1>2, <1>3, PTL DEF EditsSpec

\* Undo, redo, delete and rollback neither lose nor double the drawing of a create, and
\* add no item that is there, unless a delete has hidden its error.
THEOREM OneItemEach == ~CleanupWhileExecuting => (EditsSpec => []OneItemPerCreate)
  <1>1. IInv /\ EInv /\ LInv => OneItemPerCreate
    <2> SUFFICES ASSUME IInv, EInv, LInv, ~spoiled PROVE OneItemPerCreate
      BY DEF OneItemPerCreate
    <2>1. ASSUME NEW c \in Commands, KindOf[c] = "create"
          PROVE  /\ \A i, j \in DOMAIN chart : i[1] = c /\ j[1] = c => i = j
                 /\ (\E h \in DOMAIN history : history[h].command = c /\ history[h].undone)
                       => \A i \in DOMAIN chart : i[1] # c
      BY <2>1, OneItemOf
    <2>2. twice => hidden
      BY DEF LInv, EInv
    <2>3. QED BY <2>1, <2>2 DEF OneItemPerCreate
  <1>2. QED BY <1>1, LinksInvariance, PTL

\* What undo would take back now is where its command thinks it is, as long as no
\* delete of the history has hidden its error.
THEOREM UndoFinds == ~CleanupWhileExecuting => (EditsSpec => [](hidden \/ UndoFindsItsItem))
  <1>1. IInv /\ EInv /\ LInv => hidden \/ UndoFindsItsItem
    <2> SUFFICES ASSUME IInv, EInv, LInv, ~spoiled, ~hidden, canUndo,
                        NEW c, c = Current.command
                 PROVE  CASE KindOf[c] = "update" -> target[c] \in DOMAIN chart
                          [] KindOf[c] \in {"delete", "remove"} -> target[c] \notin DOMAIN chart
                          [] KindOf[c] = "create" -> CreatedId(State, c) \in DOMAIN chart
                          [] OTHER -> TRUE
      BY DEF UndoFindsItsItem
    <2>1. PICK l, e, V, W, t : /\ l = currentIndex + 1 /\ e = State /\ t = target[c]
                               /\ V = before[c] /\ W = after[c]
      OBVIOUS
    <2>2. l \in Indices /\ history[l].command = c /\ history[l].success /\ ~history[l].undone
      <3>1. currentIndex + 1 \in Indices
        BY EntryFacts DEF canUndo, Indices
      <3>2. QED BY <2>1, <3>1 DEF canUndo, Current
    <2>3. Remembers(c) /\ W = View(chart)
      BY <2>1, <2>2 DEF LInv, Effective, Shown
    <2>4. Good(e) /\ e.chart = chart /\ e.made = made
      BY <2>1 DEF EInv, State
    <2>5. Shows(e, W)
      BY <2>3, <2>4, ViewOf
    <2>6. c \in Live /\ InEffect(c) /\ c \in Commands /\ c # None
      BY <2>2, EntryCommand, InvokerAssumption DEF InEffect
    <2>7. KindOf[c] \notin {"batch", "plain_batch"} =>
             Edited(c, t[1], memo[c], V, W) /\ Leaves(c) = {c}
      BY <2>1, <2>3 DEF Remembers, Effect, Batches, Leaves
    <2>8. Pointing(c) /\ Leaves(c) = {c} => LastMade(e, t)
      BY <2>1, <2>6, TargetLast
    <2>9. CASE KindOf[c] = "update"
      <3>1. t[1] \in DOMAIN W /\ LastMade(e, t)
        BY <2>7, <2>8, <2>9 DEF Edited, Pointing
      <3>2. PICK i \in DOMAIN e.chart : i[1] = t[1]
        BY <2>5, <3>1 DEF Shows
      <3>3. t[1] # None /\ t = CreatedId(e, t[1])
        BY <3>1, InvokerAssumption DEF LastMade
      <3>4. i = t
        BY <2>5, <3>2, <3>3 DEF Shows
      <3>5. QED BY <2>1, <2>4, <2>9, <3>2, <3>4
    <2>10. CASE KindOf[c] \in {"delete", "remove"}
      <3>1. t[1] \notin DOMAIN W
        BY <2>7, <2>10 DEF Edited
      <3>2. t \notin DOMAIN e.chart
        BY <2>5, <3>1 DEF Shows
      <3>3. QED BY <2>1, <2>4, <2>10, <3>2
    <2>11. CASE KindOf[c] = "create"
      <3>1. c \in DOMAIN W
        BY <2>7, <2>11 DEF Edited
      <3>2. PICK i \in DOMAIN e.chart : i[1] = c
        BY <2>5, <3>1 DEF Shows
      <3>3. i = CreatedId(e, c)
        BY <2>5, <2>6, <3>2 DEF Shows
      <3>4. QED BY <2>1, <2>4, <2>11, <3>2, <3>3
    <2>12. CASE KindOf[c] \notin {"update", "delete", "remove", "create"}
      BY <2>12
    <2>13. QED BY <2>9, <2>10, <2>11, <2>12
  <1>2. QED BY <1>1, LinksInvariance, PTL

-----------------------------------------------------------------------------
(***************************************************************************)
(* The two stacks of views that the entries amount to.                     *)
(***************************************************************************)
\* n is where the last failed entry of h is.
FailedAt(h, n) ==
    /\ n \in 0..Len(h)
    /\ n = 0 \/ ~h[n].success
    /\ \A i \in (n + 1)..Len(h) : h[i].success

LEMMA FailedExists ==
    ASSUME NEW h, Len(h) \in Nat
    PROVE  \E n : FailedAt(h, n)
  <1> DEFINE N == Len(h)
             Upto(m, n) == /\ n \in 0..m
                           /\ n = 0 \/ ~h[n].success
                           /\ \A i \in (n + 1)..m : h[i].success
             T == {m \in 0..N : \E n : Upto(m, n)}
  <1>1. 0 \in T
    <2>1. Upto(0, 0)
      OBVIOUS
    <2> HIDE DEF Upto
    <2>2. QED BY <2>1
  <1>2. ASSUME NEW m \in 0..(N - 1), m \in T PROVE m + 1 \in T
    <2>1. PICK n : Upto(m, n)
      BY <1>2
    <2>2. CASE h[m + 1].success
      <3>1. \A i \in (n + 1)..(m + 1) : i \in (n + 1)..m \/ i = m + 1
        BY <2>1
      <3>2. Upto(m + 1, n)
        BY <2>1, <2>2, <3>1
      <3> HIDE DEF Upto
      <3>3. QED BY <3>2
    <2>3. CASE ~h[m + 1].success
      <3>1. Upto(m + 1, m + 1)
        BY <2>3
      <3> HIDE DEF Upto
      <3>2. QED BY <3>1
    <2>4. QED BY <2>2, <2>3
  <1>3. N \in T
    <2> HIDE DEF T, N
    <2>1. N \in Nat
      BY DEF N
    <2>2. \A m \in 0..N : m \in T
      BY <1>1, <1>2, <2>1, UpTo, Zenon
    <2>3. QED BY <2>1, <2>2
  <1>4. QED BY <1>3 DEF FailedAt

LEMMA FailedOnce ==
    ASSUME NEW h, Len(h) \in Nat, NEW n, NEW m, FailedAt(h, n), FailedAt(h, m)
    PROVE  n = m
  BY DEF FailedAt

LEMMA FailedNow ==
    ASSUME Len(history) \in Nat
    PROVE  FailedAt(history, LastFailed)
  <1>1. PICK h : h = history
    OBVIOUS
  <1>2. \E n \in 0..Len(h) : /\ n = 0 \/ ~h[n].success
                             /\ \A i \in (n + 1)..Len(h) : h[i].success
    BY <1>1, FailedExists DEF FailedAt
  <1>3. PICK m : m = CHOOSE n \in 0..Len(h) : /\ n = 0 \/ ~h[n].success
                                              /\ \A i \in (n + 1)..Len(h) : h[i].success
    OBVIOUS
  <1>4. FailedAt(h, m)
    BY <1>2, <1>3 DEF FailedAt
  <1>5. QED BY <1>1, <1>3, <1>4 DEF LastFailed

LEMMA FailedNext ==
    ASSUME Len(history') \in Nat
    PROVE  FailedAt(history', LastFailed')
  <1>1. PICK h : h = history'
    OBVIOUS
  <1>2. \E n \in 0..Len(h) : /\ n = 0 \/ ~h[n].success
                             /\ \A i \in (n + 1)..Len(h) : h[i].success
    BY <1>1, FailedExists DEF FailedAt
  <1>3. PICK m : m = CHOOSE n \in 0..Len(h) : /\ n = 0 \/ ~h[n].success
                                              /\ \A i \in (n + 1)..Len(h) : h[i].success
    OBVIOUS
  <1>4. FailedAt(h, m)
    BY <1>2, <1>3 DEF FailedAt
  <1>5. QED BY <1>1, <1>3, <1>4 DEF LastFailed

\* A function on 1..n is a sequence.
LEMMA IsTable ==
    ASSUME NEW S, NEW n \in Nat, NEW s, IsFn(s), DOMAIN s = 1..n,
           \A i \in 1..n : s[i] \in S
    PROVE  s \in Seq(S) /\ Len(s) = n
  <1>1. s = [i \in 1..n |-> s[i]]
    BY DEF IsFn
  <1>2. QED BY <1>1

\* The stacks of a history h whose first d entries are done.
Stacks(h, d, n, bf, af, p, f, S) ==
    /\ d \in 0..Len(h) /\ n \in 0..d /\ FailedAt(h, n) /\ Len(h) \in Nat
    /\ p \in Seq(S) /\ Len(p) = d - n
    /\ \A i \in 1..(d - n) : p[i] = bf[h[n + i].command]
    /\ f \in Seq(S) /\ Len(f) = Len(h) - d
    /\ \A i \in 1..(Len(h) - d) : f[i] = af[h[d + i].command]

LEMMA StacksOf ==
    ASSUME NEW h \in Seq(Entry), NEW x \in Int, h = <<>> \/ x \in -1..(Len(h) - 1),
           \A i \in 1..Len(h) : /\ h[i].undone <=> i > x + 1
                                /\ h[i].undone => h[i].success,
           NEW d, d = IF h = <<>> THEN 0 ELSE x + 1,
           NEW n, FailedAt(h, n),
           NEW bf, NEW af, NEW S, \A c \in Commands : bf[c] \in S /\ af[c] \in S,
           NEW p, IsFn(p), DOMAIN p = 1..(d - n),
           \A i \in 1..(d - n) : p[i] = bf[h[n + i].command],
           NEW f, IsFn(f), DOMAIN f = 1..(Len(h) - d),
           \A i \in 1..(Len(h) - d) : f[i] = af[h[d + i].command]
    PROVE  Stacks(h, d, n, bf, af, p, f, S)
  <1>1. Len(h) \in Nat /\ (h = <<>> => Len(h) = 0)
    OBVIOUS
  <1>2. d \in 0..Len(h)
    BY <1>1
  <1>3. n \in 0..d
    BY <1>1 DEF FailedAt
  <1>4. \A i \in 1..Len(h) : h[i].command \in Commands
    <2>1. \A i \in 1..Len(h) : h[i] \in Entry
      OBVIOUS
    <2>2. QED BY <2>1, InvokerAssumption DEF Entry
  <1>5. p \in Seq(S) /\ Len(p) = d - n
    <2>1. d - n \in Nat /\ \A i \in 1..(d - n) : n + i \in 1..Len(h)
      BY <1>1, <1>2, <1>3
    <2>2. \A i \in 1..(d - n) : p[i] \in S
      BY <1>4, <2>1
    <2>3. PICK m : m = d - n
      OBVIOUS
    <2>4. m \in Nat /\ IsFn(p) /\ DOMAIN p = 1..m /\ \A i \in 1..m : p[i] \in S
      BY <2>1, <2>2, <2>3
    <2>5. p \in Seq(S) /\ Len(p) = m
      BY <2>4, IsTable
    <2>6. QED BY <2>3, <2>5
  <1>6. f \in Seq(S) /\ Len(f) = Len(h) - d
    <2>1. Len(h) - d \in Nat /\ \A i \in 1..(Len(h) - d) : d + i \in 1..Len(h)
      BY <1>1, <1>2
    <2>2. \A i \in 1..(Len(h) - d) : f[i] \in S
      BY <1>4, <2>1
    <2>3. PICK m : m = Len(h) - d
      OBVIOUS
    <2>4. m \in Nat /\ IsFn(f) /\ DOMAIN f = 1..m /\ \A i \in 1..m : f[i] \in S
      BY <2>1, <2>2, <2>3
    <2>5. f \in Seq(S) /\ Len(f) = m
      BY <2>4, IsTable
    <2>6. QED BY <2>3, <2>5
  <1>7. QED BY <1>1, <1>2, <1>3, <1>5, <1>6 DEF Stacks

LEMMA StacksNow ==
    ASSUME IInv, NEW S, \A c \in Commands : before[c] \in S /\ after[c] \in S
    PROVE  Stacks(history, Done, LastFailed, before, after, Past, Future, S)
  <1>1. /\ history \in Seq(Entry) /\ currentIndex \in Int /\ Len(history) \in Nat
        /\ history = <<>> \/ currentIndex \in -1..(Len(history) - 1)
        /\ \A i \in 1..Len(history) : /\ history[i].undone <=> i > currentIndex + 1
                                      /\ history[i].undone => history[i].success
    BY EntryFacts DEF IInv, TypeOK, IndexInRange, HistoryShape, UndoneSucceeded, Indices
  <1>2. FailedAt(history, LastFailed)
    BY <1>1, FailedNow
  <1>3. PICK d, n, p, f : d = Done /\ n = LastFailed /\ p = Past /\ f = Future
    OBVIOUS
  <1>4. /\ d = IF history = <<>> THEN 0 ELSE currentIndex + 1
        /\ IsFn(p) /\ DOMAIN p = 1..(d - n)
        /\ \A i \in 1..(d - n) : p[i] = before[history[n + i].command]
        /\ IsFn(f) /\ DOMAIN f = 1..(Len(history) - d)
        /\ \A i \in 1..(Len(history) - d) : f[i] = after[history[d + i].command]
    BY <1>3 DEF Done, Past, Future, IsFn
  <1>5. Stacks(history, d, n, before, after, p, f, S)
    BY <1>1, <1>2, <1>3, <1>4, StacksOf
  <1>6. QED BY <1>3, <1>5

LEMMA StacksNext ==
    ASSUME IInv', NEW S, \A c \in Commands : before'[c] \in S /\ after'[c] \in S
    PROVE  Stacks(history', Done', LastFailed', before', after', Past', Future', S)
  <1>1. /\ history' \in Seq(Entry) /\ currentIndex' \in Int /\ Len(history') \in Nat
        /\ history' = <<>> \/ currentIndex' \in -1..(Len(history') - 1)
        /\ \A i \in 1..Len(history') : /\ history'[i].undone <=> i > currentIndex' + 1
                                       /\ history'[i].undone => history'[i].success
    BY DEF IInv, TypeOK, IndexInRange, HistoryShape, UndoneSucceeded, Indices
  <1>2. FailedAt(history', LastFailed')
    BY <1>1, FailedNext
  <1>3. PICK d, n, p, f : d = Done' /\ n = LastFailed' /\ p = Past' /\ f = Future'
    OBVIOUS
  <1>4. /\ d = IF history' = <<>> THEN 0 ELSE currentIndex' + 1
        /\ IsFn(p) /\ DOMAIN p = 1..(d - n)
        /\ \A i \in 1..(d - n) : p[i] = before'[history'[n + i].command]
        /\ IsFn(f) /\ DOMAIN f = 1..(Len(history') - d)
        /\ \A i \in 1..(Len(history') - d) : f[i] = after'[history'[d + i].command]
    BY <1>3 DEF Done, Past, Future, IsFn
  <1>5. PICK h, x, bf, af : h = history' /\ x = currentIndex' /\ bf = before' /\ af = after'
    OBVIOUS
  <1>6. Stacks(h, d, n, bf, af, p, f, S)
    BY <1>1, <1>2, <1>3, <1>4, <1>5, StacksOf
  <1>7. QED BY <1>3, <1>5, <1>6

\* When the first k entries of h have gone, and what g adds has not failed, the last
\* failed entry is the same, or has gone.
LEMMA FailedShift ==
    ASSUME NEW h, NEW g, Len(h) \in Nat, Len(g) \in Nat, NEW k \in Nat, NEW m \in 0..Len(g),
           m + k <= Len(h), \A i \in 1..m : g[i].success = h[i + k].success,
           \A i \in (m + 1)..Len(g) : g[i].success,
           NEW n, FailedAt(h, n), n <= m + k,
           NEW l, l = IF n > k THEN n - k ELSE 0
    PROVE  FailedAt(g, l)
  <1>1. n \in Nat /\ l \in Nat /\ l <= m
    BY DEF FailedAt
  <1>2. l = 0 \/ ~g[l].success
    <2>1. CASE n > k
      <3>1. l \in 1..m /\ l + k = n /\ n # 0
        BY <1>1, <2>1
      <3>2. QED BY <3>1 DEF FailedAt
    <2>2. CASE ~(n > k)
      BY <2>2
    <2>3. QED BY <2>1, <2>2
  <1>3. ASSUME NEW i \in (l + 1)..Len(g) PROVE g[i].success
    <2>1. CASE i \in 1..m
      <3>1. i + k \in (n + 1)..Len(h)
        BY <1>1, <2>1
      <3>2. QED BY <2>1, <3>1 DEF FailedAt
    <2>2. CASE i \notin 1..m
      <3>1. i \in (m + 1)..Len(g)
        BY <1>1, <2>2
      <3>2. QED BY <3>1
    <2>3. QED BY <2>1, <2>2
  <1>4. QED BY <1>1, <1>2, <1>3 DEF FailedAt

\* The steps of the stacks, entry by entry.
LEMMA Empty ==
    ASSUME NEW S, NEW p \in Seq(S), Len(p) = 0
    PROVE  p = <<>>
  BY EmptySeq

LEMMA Pushed ==
    ASSUME NEW S, NEW p \in Seq(S), NEW q \in Seq(S), NEW v \in S,
           NEW k \in 1..(Len(p) + 2), Len(q) = Len(p) + 2 - k,
           \A i \in 1..Len(q) : q[i] = IF i + k - 1 = Len(p) + 1 THEN v ELSE p[i + k - 1]
    PROVE  q = SubSeq(Append(p, v), k, Len(p) + 1)
  <1>1. Len(p) \in Nat
    BY LenProperties
  <1>2. PICK a : a = Append(p, v)
    OBVIOUS
  <1>3. /\ a \in Seq(S) /\ Len(a) = Len(p) + 1 /\ a[Len(p) + 1] = v
        /\ \A i \in 1..Len(p) : a[i] = p[i]
    BY <1>2, AppendProperties
  <1>4. PICK n, t : n = Len(p) + 1 /\ t = SubSeq(a, k, n)
    OBVIOUS
  <1>5. /\ t \in Seq(S)
        /\ Len(t) = IF k <= n THEN n - k + 1 ELSE 0
        /\ \A i \in 1..(n - k + 1) : t[i] = a[k + i - 1]
    <2>1. k \in Int /\ n \in Int
      BY <1>1, <1>4
    <2>2. \A i \in k..n : i \in 1..Len(a)
      BY <1>1, <1>3, <1>4
    <2>3. \A i \in k..n : a[i] \in S
      BY <1>3, <2>2, ElementOfSeq
    <2>4. /\ SubSeq(a, k, n) \in Seq(S)
          /\ Len(SubSeq(a, k, n)) = IF k <= n THEN n - k + 1 ELSE 0
          /\ \A i \in 1..(n - k + 1) : SubSeq(a, k, n)[i] = a[k + i - 1]
      BY <2>1, <2>3, SubSeqProperties
    <2>5. QED BY <1>4, <2>4
  <1>6. Len(q) = Len(t)
    BY <1>1, <1>4, <1>5
  <1>7. ASSUME NEW i \in 1..Len(q) PROVE q[i] = t[i]
    <2>1. i \in 1..(n - k + 1) /\ k + i - 1 = i + k - 1 /\ i + k - 1 \in 1..(Len(p) + 1)
      BY <1>1, <1>4
    <2>2. PICK j : j = i + k - 1
      OBVIOUS
    <2>3. t[i] = a[j] /\ j \in 1..(Len(p) + 1)
      BY <1>5, <2>1, <2>2
    <2>4. q[i] = IF j = Len(p) + 1 THEN v ELSE p[j]
      BY <2>2
    <2>5. CASE j = Len(p) + 1
      BY <1>3, <2>3, <2>4, <2>5
    <2>6. CASE j # Len(p) + 1
      <3>1. j \in 1..Len(p)
        BY <1>1, <2>3, <2>6
      <3>2. QED BY <1>3, <2>3, <2>4, <2>6, <3>1
    <2>7. QED BY <2>5, <2>6
  <1>8. q = t
    BY <1>5, <1>6, <1>7, SeqEqual
  <1>9. QED BY <1>2, <1>4, <1>8

LEMMA Forgotten ==
    ASSUME NEW S, NEW p \in Seq(S), NEW q \in Seq(S),
           NEW k \in 1..(Len(p) + 1), Len(q) = Len(p) + 1 - k,
           \A i \in 1..Len(q) : q[i] = p[i + k - 1]
    PROVE  q = SubSeq(p, k, Len(p))
  <1>1. Len(p) \in Nat
    BY LenProperties
  <1>2. PICK n, t : n = Len(p) /\ t = SubSeq(p, k, n)
    OBVIOUS
  <1>3. /\ t \in Seq(S)
        /\ Len(t) = IF k <= n THEN n - k + 1 ELSE 0
        /\ \A i \in 1..(n - k + 1) : t[i] = p[k + i - 1]
    <2>1. k \in Int /\ n \in Int
      BY <1>1, <1>2
    <2>2. \A i \in k..n : i \in 1..Len(p)
      BY <1>1, <1>2
    <2>3. \A i \in k..n : p[i] \in S
      BY <2>2, ElementOfSeq
    <2>4. /\ SubSeq(p, k, n) \in Seq(S)
          /\ Len(SubSeq(p, k, n)) = IF k <= n THEN n - k + 1 ELSE 0
          /\ \A i \in 1..(n - k + 1) : SubSeq(p, k, n)[i] = p[k + i - 1]
      BY <2>1, <2>3, SubSeqProperties
    <2>5. QED BY <1>2, <2>4
  <1>4. Len(q) = Len(t)
    BY <1>1, <1>2, <1>3
  <1>5. \A i \in 1..Len(q) : q[i] = t[i]
    BY <1>1, <1>2, <1>3
  <1>6. q = t
    BY <1>3, <1>4, <1>5, SeqEqual
  <1>7. QED BY <1>2, <1>6

LEMMA Popped ==
    ASSUME NEW S, NEW p \in Seq(S), NEW q \in Seq(S), Len(p) >= 1, Len(q) = Len(p) - 1,
           \A i \in 1..Len(q) : q[i] = p[i]
    PROVE  q = SubSeq(p, 1, Len(p) - 1)
  <1>1. Len(p) \in Nat
    BY LenProperties
  <1>2. PICK n, t : n = Len(p) - 1 /\ t = SubSeq(p, 1, n)
    OBVIOUS
  <1>3. /\ t \in Seq(S)
        /\ Len(t) = IF 1 <= n THEN n - 1 + 1 ELSE 0
        /\ \A i \in 1..(n - 1 + 1) : t[i] = p[1 + i - 1]
    <2>1. 1 \in Int /\ n \in Int
      BY <1>1, <1>2
    <2>2. \A i \in 1..n : i \in 1..Len(p)
      BY <1>1, <1>2
    <2>3. \A i \in 1..n : p[i] \in S
      BY <2>2, ElementOfSeq
    <2>4. /\ SubSeq(p, 1, n) \in Seq(S)
          /\ Len(SubSeq(p, 1, n)) = IF 1 <= n THEN n - 1 + 1 ELSE 0
          /\ \A i \in 1..(n - 1 + 1) : SubSeq(p, 1, n)[i] = p[1 + i - 1]
      BY <2>1, <2>3, SubSeqProperties
    <2>5. QED BY <1>2, <2>4
  <1>4. Len(q) = Len(t)
    BY <1>1, <1>2, <1>3
  <1>5. \A i \in 1..Len(q) : q[i] = t[i]
    BY <1>1, <1>2, <1>3
  <1>6. q = t
    BY <1>3, <1>4, <1>5, SeqEqual
  <1>7. QED BY <1>2, <1>6

LEMMA Consed ==
    ASSUME NEW S, NEW p \in Seq(S), NEW q \in Seq(S), NEW v \in S, Len(q) = Len(p) + 1,
           q[1] = v, \A i \in 1..Len(p) : q[i + 1] = p[i]
    PROVE  q = <<v>> \o p
  <1>1. Len(p) \in Nat /\ <<v>> \in Seq(S) /\ Len(<<v>>) = 1 /\ <<v>>[1] = v
    OBVIOUS
  <1>2. PICK o, t : o = <<v>> /\ t = o \o p
    OBVIOUS
  <1>3. /\ t \in Seq(S) /\ Len(t) = 1 + Len(p)
        /\ \A i \in 1..(1 + Len(p)) : t[i] = IF i <= 1 THEN o[i] ELSE p[i - 1]
    <2>1. o \in Seq(S) /\ Len(o) = 1
      BY <1>1, <1>2
    <2>2. /\ o \o p \in Seq(S)
          /\ Len(o \o p) = Len(o) + Len(p)
          /\ \A i \in 1..(Len(o) + Len(p)) :
                (o \o p)[i] = IF i <= Len(o) THEN o[i] ELSE p[i - Len(o)]
      BY <2>1, ConcatProperties
    <2>3. QED BY <1>2, <2>1, <2>2
  <1>4. ASSUME NEW i \in 1..Len(q) PROVE q[i] = t[i]
    <2>1. CASE i = 1
      BY <1>1, <1>2, <1>3, <2>1
    <2>2. CASE i # 1
      <3>1. i - 1 \in 1..Len(p) /\ (i - 1) + 1 = i /\ i \in 1..(1 + Len(p)) /\ ~(i <= 1)
        BY <1>1, <2>2
      <3>2. QED BY <1>3, <3>1
    <2>3. QED BY <2>1, <2>2
  <1>5. q = t
    BY <1>1, <1>3, <1>4, SeqEqual
  <1>6. QED BY <1>2, <1>5

LEMMA Appended ==
    ASSUME NEW S, NEW p \in Seq(S), NEW q \in Seq(S), NEW v \in S, Len(q) = Len(p) + 1,
           q[Len(p) + 1] = v, \A i \in 1..Len(p) : q[i] = p[i]
    PROVE  q = Append(p, v)
  <1>1. Len(p) \in Nat
    BY LenProperties
  <1>2. PICK a : a = Append(p, v)
    OBVIOUS
  <1>3. /\ a \in Seq(S) /\ Len(a) = Len(p) + 1 /\ a[Len(p) + 1] = v
        /\ \A i \in 1..Len(p) : a[i] = p[i]
    BY <1>2, AppendProperties
  <1>4. \A i \in 1..Len(q) : q[i] = a[i]
    BY <1>1, <1>3
  <1>5. q = a
    BY <1>3, <1>4, SeqEqual
  <1>6. QED BY <1>2, <1>5

LEMMA Tailed ==
    ASSUME NEW S, NEW p \in Seq(S), NEW q \in Seq(S), Len(p) = Len(q) + 1,
           \A i \in 1..Len(q) : q[i] = p[i + 1]
    PROVE  p # <<>> /\ q = Tail(p)
  <1>1. Len(p) \in Nat /\ Len(q) \in Nat /\ p # <<>>
    BY LenProperties
  <1>2. PICK t : t = Tail(p)
    OBVIOUS
  <1>3. t \in Seq(S) /\ Len(t) = Len(p) - 1 /\ \A i \in 1..Len(t) : t[i] = p[i + 1]
    BY <1>1, <1>2, HeadTailProperties
  <1>4. Len(q) = Len(t) /\ \A i \in 1..Len(q) : q[i] = t[i]
    BY <1>1, <1>3
  <1>5. q = t
    BY <1>3, <1>4, SeqEqual
  <1>6. QED BY <1>1, <1>2, <1>5

-----------------------------------------------------------------------------
(***************************************************************************)
(* Each step of the edits is a step of the stacks.                         *)
(***************************************************************************)
LEMMA BothStacks ==
    ASSUME IInv, IInv'
    PROVE  \E S : /\ View(chart) \in S /\ View(chart') \in S
                  /\ Stacks(history, Done, LastFailed, before, after, Past, Future, S)
                  /\ Stacks(history', Done', LastFailed', before', after', Past', Future', S)
  <1>1. PICK S : S = {View(chart), View(chart')}
                        \cup {before[c] : c \in Commands} \cup {after[c] : c \in Commands}
                        \cup {before'[c] : c \in Commands} \cup {after'[c] : c \in Commands}
    OBVIOUS
  <1>2. /\ View(chart) \in S /\ View(chart') \in S
        /\ \A c \in Commands : before[c] \in S /\ after[c] \in S
        /\ \A c \in Commands : before'[c] \in S /\ after'[c] \in S
    BY <1>1
  <1>3. Stacks(history, Done, LastFailed, before, after, Past, Future, S)
    BY <1>2, StacksNow
  <1>4. Stacks(history', Done', LastFailed', before', after', Past', Future', S)
    BY <1>2, StacksNext
  <1>5. QED BY <1>2, <1>3, <1>4

\* An execute pushes what was seen, or has failed and cuts both stacks off.
LEMMA ExecutedStacks ==
    ASSUME IInv, IInv', EInv, EInv', LInv, ~spoiled, Executed
    PROVE  /\ Future' = <<>>
           /\ \/ Past' = <<>>
              \/ \E k \in 1..(Len(Past) + 2) :
                    Past' = SubSeq(Append(Past, View(chart)), k, Len(Past) + 1)
  <1>1. PICK o, c, n, e : Added(o, c, n, e)
    BY ExecutedEntries
  <1>2. PICK S : /\ View(chart) \in S /\ View(chart') \in S
                 /\ Stacks(history, Done, LastFailed, before, after, Past, Future, S)
                 /\ Stacks(history', Done', LastFailed', before', after', Past', Future', S)
    BY BothStacks
  <1>3. PICK h, g, d, f, l, p, q, u, v :
           /\ h = history /\ g = history' /\ d = Done /\ f = LastFailed /\ l = LastFailed'
           /\ p = Past /\ q = Past' /\ u = Future' /\ v = View(chart)
    OBVIOUS
  <1>4. /\ n \in Nat /\ n >= 1 /\ n = Len(g) /\ e \in Nat /\ Done' = n /\ d = n - 1 + e
        /\ g[n].command = c /\ g[n].success = o.ok /\ before'[c] = v
        /\ \A j \in 1..(n - 1) : /\ g[j] = h[j + e]
                                 /\ before'[h[j + e].command] = before[h[j + e].command]
    <2>1. g # <<>>
      BY <1>1, <1>3 DEF Added
    <2>2. Done' = currentIndex' + 1
      BY <1>3, <2>1 DEF Done
    <2>3. Done' = n /\ d = n - 1 + e
      BY <1>1, <1>3, <2>2 DEF Added, Done
    <2>4. QED BY <1>1, <1>3, <2>3 DEF Added, SameViews
  <1>5. /\ d \in 0..Len(h) /\ f \in 0..d /\ FailedAt(h, f) /\ Len(h) \in Nat
        /\ p \in Seq(S) /\ Len(p) = d - f
        /\ \A i \in 1..(d - f) : p[i] = before[h[f + i].command]
    BY <1>2, <1>3 DEF Stacks
  <1>6. /\ l \in 0..n /\ FailedAt(g, l) /\ q \in Seq(S) /\ Len(q) = n - l
        /\ \A i \in 1..(n - l) : q[i] = before'[g[l + i].command]
        /\ u \in Seq(S) /\ Len(u) = 0
    <2>1. Stacks(g, n, l, before', after', q, u, S) /\ Len(g) = n
      BY <1>2, <1>3, <1>4
    <2>2. Len(g) - n = 0
      BY <1>4
    <2>3. QED BY <2>1, <2>2 DEF Stacks
  <1> DEFINE Numbers == /\ n \in Nat /\ n >= 1 /\ e \in Nat /\ d \in Nat /\ f \in Nat /\ l \in Nat
                        /\ d = n - 1 + e /\ f <= d /\ l <= n /\ d <= Len(h) /\ Len(h) \in Nat
                        /\ Len(p) = d - f /\ Len(q) = n - l /\ Len(g) = n
  <1>7. Numbers
    BY <1>4, <1>5, <1>6
  <1> HIDE DEF Numbers
  <1>8. u = <<>>
    BY <1>6, Empty
  <1>9. CASE ~o.ok
    <2>1. FailedAt(g, n)
      BY <1>4, <1>9 DEF FailedAt
    <2>2. l = n
      BY <1>4, <1>6, <2>1, FailedOnce
    <2>3. q = <<>>
      BY <1>4, <1>6, <2>2, Empty
    <2>4. QED BY <1>3, <1>8, <2>3
  <1>10. CASE o.ok
    <2>1. l = IF f > e THEN f - e ELSE 0
      <3>1. PICK m, r : m = n - 1 /\ r = IF f > e THEN f - e ELSE 0
        OBVIOUS
      <3>2. /\ Len(g) \in Nat /\ m \in 0..Len(g) /\ m + e <= Len(h) /\ f <= m + e
            /\ Len(h) \in Nat /\ e \in Nat
        BY <1>7, <3>1 DEF Numbers
      <3>3. \A i \in 1..m : g[i].success = h[i + e].success
        BY <1>4, <3>1
      <3>4. \A i \in (m + 1)..Len(g) : i = n
        BY <1>7, <3>1 DEF Numbers
      <3>5. \A i \in (m + 1)..Len(g) : g[i].success
        BY <1>4, <1>10, <3>4
      <3>6. FailedAt(g, r)
        BY <1>5, <3>1, <3>2, <3>3, <3>5, FailedShift
      <3>7. QED BY <1>6, <3>1, <3>2, <3>6, FailedOnce
    <2>2. PICK k : k = e - f + l + 1
      OBVIOUS
    <2>3. k \in 1..(Len(p) + 2) /\ Len(q) = Len(p) + 2 - k
      BY <1>7, <2>1, <2>2 DEF Numbers
    <2>4. ASSUME NEW i \in 1..Len(q)
          PROVE  q[i] = IF i + k - 1 = Len(p) + 1 THEN v ELSE p[i + k - 1]
      <3>1. PICK j, x : j = l + i /\ x = i + k - 1
        OBVIOUS
      <3>2. q[i] = before'[g[j].command] /\ j \in 1..n
        <4>1. i \in 1..(n - l) /\ l + i \in 1..n
          BY <1>7 DEF Numbers
        <4>2. QED BY <1>6, <3>1, <4>1
      <3>3. x = j + e - f /\ (x = Len(p) + 1 <=> j = n)
        BY <1>7, <2>2, <3>1 DEF Numbers
      <3>4. CASE j = n
        BY <1>4, <3>1, <3>2, <3>3, <3>4
      <3>5. CASE j # n
        <4>1. j \in 1..(n - 1)
          BY <1>7, <3>2, <3>5 DEF Numbers
        <4>2. q[i] = before[h[j + e].command]
          BY <1>4, <3>2, <4>1
        <4>3. x \in 1..(d - f) /\ f + x = j + e
          <5>1. /\ e \in Nat /\ f \in Nat /\ d \in Nat /\ n \in Nat /\ d = n - 1 + e
            BY <1>7 DEF Numbers
          <5>2. x = j + e - f /\ j = l + i
            BY <3>1, <3>3
          <5>3. i \in Nat /\ i >= 1 /\ l \in Nat
            BY <1>7 DEF Numbers
          <5>4. x >= 1
            <6>1. CASE f > e
              BY <2>1, <5>1, <5>2, <5>3, <6>1
            <6>2. CASE ~(f > e)
              BY <2>1, <5>1, <5>2, <5>3, <6>2
            <6>3. QED BY <6>1, <6>2
          <5>5. QED BY <4>1, <5>1, <5>2, <5>4, <5>3
        <4>4. p[x] = before[h[j + e].command]
          BY <1>5, <4>3
        <4>5. QED BY <3>1, <3>3, <3>5, <4>2, <4>4
      <3>6. QED BY <3>4, <3>5
    <2>5. v \in S /\ p \in Seq(S) /\ q \in Seq(S)
      BY <1>2, <1>3, <1>5, <1>6
    <2>6. q = SubSeq(Append(p, v), k, Len(p) + 1)
      BY <2>3, <2>4, <2>5, Pushed
    <2>7. QED BY <1>3, <1>8, <2>3, <2>6
  <1>11. o.ok \in BOOLEAN
    <2>1. Result(State, c, o)
      BY <1>1, Outcome DEF Added, TopLevel
    <2>2. QED BY <2>1 DEF Result
  <1>12. QED BY <1>9, <1>10, <1>11

\* cleanupHistory takes charts from the old end of the past.
LEMMA CleanStacks ==
    ASSUME IInv, IInv', EInv, EInv', LInv, ~spoiled', Clean
    PROVE  /\ Future' = Future
           /\ \E k \in 1..(Len(Past) + 1) : Past' = SubSeq(Past, k, Len(Past))
  <1>1. PICK k : Cleaned(k)
    BY CleanEntries
  <1>2. PICK S : /\ View(chart) \in S /\ View(chart') \in S
                 /\ Stacks(history, Done, LastFailed, before, after, Past, Future, S)
                 /\ Stacks(history', Done', LastFailed', before', after', Past', Future', S)
    BY BothStacks
  <1>3. PICK h, g, d, f, l, p, q, u, w :
           /\ h = history /\ g = history' /\ d = Done /\ f = LastFailed /\ l = LastFailed'
           /\ p = Past /\ q = Past' /\ u = Future /\ w = Future'
    OBVIOUS
  <1>4. /\ k \in Nat /\ Len(g) = Len(h) - k /\ Done' = d - k /\ k < Len(h)
        /\ \A j \in 1..Len(g) : /\ g[j] = h[j + k]
                                /\ before'[h[j + k].command] = before[h[j + k].command]
                                /\ after'[h[j + k].command] = after[h[j + k].command]
    <2>1. k \in Nat /\ k < Len(h) /\ Len(g) = Len(h) - k /\ Len(h) \in Nat
      BY <1>1, <1>3, EntryFacts DEF Cleaned
    <2>2. h # <<>> /\ g # <<>>
      BY <2>1
    <2>3. currentIndex \in Int /\ currentIndex' \in Int /\ currentIndex' + k = currentIndex
      BY <1>1 DEF Cleaned, IInv, TypeOK
    <2>4. Done' = currentIndex' + 1 /\ d = currentIndex + 1
      BY <1>3, <2>2 DEF Done
    <2>5. \A j \in 1..Len(g) : /\ g[j] = h[j + k]
                               /\ before'[h[j + k].command] = before[h[j + k].command]
                               /\ after'[h[j + k].command] = after[h[j + k].command]
      BY <1>1, <1>3 DEF Cleaned, SameViews, Indices
    <2>6. Done' = d - k
      <3>1. PICK x, y : x = currentIndex /\ y = currentIndex'
        OBVIOUS
      <3>2. x \in Int /\ y \in Int
        BY <2>3, <3>1
      <3>3. k \in Int
        BY <2>1
      <3>4. y + k = x
        BY <2>3, <3>1
      <3>5. d = x + 1
        BY <2>4, <3>1
      <3>6. x \in Int /\ y \in Int /\ k \in Int /\ y + k = x /\ d = x + 1
        BY <3>2, <3>3, <3>4, <3>5
      <3>7. d - k = y + 1
        BY <3>6
      <3>8. QED BY <2>4, <3>1, <3>7
    <2>7. QED BY <2>1, <2>5, <2>6
  <1>5. /\ d \in 0..Len(h) /\ f \in 0..d /\ FailedAt(h, f) /\ Len(h) \in Nat
        /\ p \in Seq(S) /\ Len(p) = d - f
        /\ \A i \in 1..(d - f) : p[i] = before[h[f + i].command]
        /\ u \in Seq(S) /\ Len(u) = Len(h) - d
        /\ \A i \in 1..(Len(h) - d) : u[i] = after[h[d + i].command]
    BY <1>2, <1>3 DEF Stacks
  <1>6. PICK D : D = Done'
    OBVIOUS
  <1>7. /\ D \in 0..Len(g) /\ l \in 0..D /\ FailedAt(g, l) /\ Len(g) \in Nat
        /\ q \in Seq(S) /\ Len(q) = D - l
        /\ \A i \in 1..(D - l) : q[i] = before'[g[l + i].command]
        /\ w \in Seq(S) /\ Len(w) = Len(g) - D
        /\ \A i \in 1..(Len(g) - D) : w[i] = after'[g[D + i].command]
    BY <1>2, <1>3, <1>6 DEF Stacks
  <1> DEFINE Numbers == /\ k \in Nat /\ d \in Nat /\ f \in Nat /\ l \in Nat /\ D \in Nat
                        /\ Len(h) \in Nat /\ Len(g) \in Nat /\ Len(g) = Len(h) - k
                        /\ D = d - k /\ f <= d /\ l <= D /\ d <= Len(h) /\ D <= Len(g)
                        /\ Len(p) = d - f /\ Len(q) = D - l
                        /\ Len(u) = Len(h) - d /\ Len(w) = Len(g) - D
  <1>8. Numbers
    BY <1>4, <1>5, <1>6, <1>7
  <1> HIDE DEF Numbers
  <1>9. l = IF f > k THEN f - k ELSE 0
    <2>1. PICK m, r : m = Len(g) /\ r = IF f > k THEN f - k ELSE 0
      OBVIOUS
    <2>2. /\ m \in 0..Len(g) /\ m + k <= Len(h) /\ f <= m + k /\ k \in Nat
          /\ Len(g) \in Nat /\ Len(h) \in Nat /\ (m + 1)..Len(g) = {}
      BY <1>8, <2>1 DEF Numbers
    <2>3. \A i \in 1..m : g[i].success = h[i + k].success
      BY <1>4, <2>1
    <2>4. FailedAt(g, r)
      BY <1>5, <2>1, <2>2, <2>3, FailedShift
    <2>5. QED BY <1>7, <2>1, <2>4, FailedOnce
  <1>10. w = u
    <2>1. Len(w) = Len(u)
      BY <1>8 DEF Numbers
    <2>2. ASSUME NEW i \in 1..Len(w) PROVE w[i] = u[i]
      <3>1. PICK j : j = D + i
        OBVIOUS
      <3>2. j \in 1..Len(g) /\ j + k = d + i /\ i \in 1..(Len(h) - d)
        BY <1>8, <3>1 DEF Numbers
      <3>3. w[i] = after[h[j + k].command]
        <4>1. w[i] = after'[g[j].command]
          BY <1>7, <3>1
        <4>2. QED BY <1>4, <3>2, <4>1
      <3>4. u[i] = after[h[j + k].command]
        BY <1>5, <3>2
      <3>5. QED BY <3>3, <3>4
    <2>3. QED BY <1>5, <1>7, <2>1, <2>2, SeqEqual
  <1>11. PICK x : x = k + l - f + 1
    OBVIOUS
  <1>12. x \in 1..(Len(p) + 1) /\ Len(q) = Len(p) + 1 - x
    BY <1>8, <1>9, <1>11 DEF Numbers
  <1>13. ASSUME NEW i \in 1..Len(q) PROVE q[i] = p[i + x - 1]
    <2>1. PICK j, y : j = l + i /\ y = i + x - 1
      OBVIOUS
    <2>2. j \in 1..Len(g) /\ j + k = f + y /\ y \in 1..(d - f)
      BY <1>8, <1>9, <1>11, <2>1 DEF Numbers
    <2>3. q[i] = before[h[j + k].command]
      <3>1. i \in 1..(D - l)
        BY <1>7
      <3>2. q[i] = before'[g[j].command]
        BY <1>7, <2>1, <3>1
      <3>3. QED BY <1>4, <2>2, <3>2
    <2>4. p[y] = before[h[j + k].command]
      BY <1>5, <2>2
    <2>5. QED BY <2>1, <2>3, <2>4
  <1>14. q = SubSeq(p, x, Len(p))
    BY <1>5, <1>7, <1>12, <1>13, Forgotten
  <1>15. QED BY <1>3, <1>10, <1>12, <1>14

\* An undo moves the top of the past to the chart, and the chart to the future.
LEMMA UndoneStacks ==
    ASSUME IInv, IInv', LInv, LInv', ~spoiled, ~spoiled', ~hidden, ~hidden', history # <<>>,
           FinishUndo(TRUE), pending.command \in executed, UNCHANGED <<before, after>>
    PROVE  /\ Past # <<>> /\ View(chart') = Past[Len(Past)]
           /\ Past' = SubSeq(Past, 1, Len(Past) - 1)
           /\ Future' = <<View(chart)>> \o Future
  <1>1. PICK S : /\ View(chart) \in S /\ View(chart') \in S
                 /\ Stacks(history, Done, LastFailed, before, after, Past, Future, S)
                 /\ Stacks(history', Done', LastFailed', before', after', Past', Future', S)
    BY BothStacks
  <1>2. PICK h, g, d, f, l, p, q, u, w, v, D :
           /\ h = history /\ g = history' /\ d = Done /\ f = LastFailed /\ l = LastFailed'
           /\ p = Past /\ q = Past' /\ u = Future /\ w = Future' /\ v = View(chart)
           /\ D = Done'
    OBVIOUS
  <1>3. /\ pending.op = "undo" /\ history' = MarkUndone(pending.command, TRUE)
        /\ currentIndex' = currentIndex - 1
    BY DEF FinishUndo
  <1>4. /\ history' \in Seq(Entry) /\ Len(history') = Len(history)
        /\ Indices' = Indices
        /\ \A i \in Indices :
              /\ history'[i].command = history[i].command
              /\ history'[i].success = history[i].success
              /\ history'[i].undone =
                   IF history[i].command = pending.command THEN TRUE ELSE history[i].undone
        /\ CommandsDistinct'
    BY <1>3, MarkStep, ZenonT(60)
  <1>5. /\ Len(g) = Len(h)
        /\ \A i \in 1..Len(h) : g[i].command = h[i].command /\ g[i].success = h[i].success
    BY <1>2, <1>4 DEF Indices
  <1>6. /\ d \in 0..Len(h) /\ f \in 0..d /\ FailedAt(h, f) /\ Len(h) \in Nat
        /\ p \in Seq(S) /\ Len(p) = d - f
        /\ \A i \in 1..(d - f) : p[i] = before[h[f + i].command]
        /\ u \in Seq(S) /\ Len(u) = Len(h) - d
        /\ \A i \in 1..(Len(h) - d) : u[i] = after[h[d + i].command]
    BY <1>1, <1>2 DEF Stacks
  <1>7. /\ D \in 0..Len(g) /\ l \in 0..D /\ FailedAt(g, l)
        /\ q \in Seq(S) /\ Len(q) = D - l
        /\ \A i \in 1..(D - l) : q[i] = before[g[l + i].command]
        /\ w \in Seq(S) /\ Len(w) = Len(g) - D
        /\ \A i \in 1..(Len(g) - D) : w[i] = after[g[D + i].command]
    BY <1>1, <1>2 DEF Stacks
  <1>8. /\ d \in Indices /\ d = currentIndex + 1 /\ d >= 1
        /\ history[d].success
    <2>1. canUndo
      BY <1>3 DEF IInv, PendingInPlace
    <2>2. d = currentIndex + 1
      BY <1>2 DEF Done
    <2>3. currentIndex >= 0 /\ currentIndex < Len(history) /\ currentIndex \in Int
      BY <2>1 DEF canUndo, IInv, TypeOK
    <2>4. d \in Indices /\ d >= 1
      BY <2>2, <2>3, EntryFacts DEF Indices
    <2>5. QED BY <2>1, <2>2, <2>4 DEF canUndo, Current
  <1>9. D = d - 1 /\ d = currentIndex' + 2
    <2>1. D = currentIndex' + 1
      <3>1. history' # <<>>
        BY <1>4, <1>8 DEF Indices
      <3>2. QED BY <1>2, <3>1 DEF Done
    <2>2. currentIndex \in Int
      BY DEF IInv, TypeOK
    <2>3. QED BY <1>3, <1>8, <2>1, <2>2
  <1>10. f = l
    <2>1. FailedAt(g, f)
      <3>1. f \in 0..Len(h) /\ (f = 0 \/ ~h[f].success)
            /\ \A i \in (f + 1)..Len(h) : h[i].success
        BY <1>6 DEF FailedAt
      <3>2. f = 0 \/ ~g[f].success
        BY <1>5, <1>6, <3>1
      <3>3. \A i \in (f + 1)..Len(g) : i \in 1..Len(h)
        BY <1>5, <1>6, <3>1
      <3>4. \A i \in (f + 1)..Len(g) : g[i].success
        BY <1>5, <3>1, <3>3
      <3>5. QED BY <1>5, <3>1, <3>2, <3>4 DEF FailedAt
    <2>2. QED BY <1>5, <1>6, <1>7, <2>1, FailedOnce
  <1>11. f # d
    <2>1. h[d].success /\ d \in Nat /\ d # 0
      BY <1>2, <1>6, <1>8
    <2>2. f = 0 \/ ~h[f].success
      BY <1>6 DEF FailedAt
    <2>3. QED BY <2>1, <2>2
  <1> DEFINE Numbers == /\ d \in Nat /\ f \in Nat /\ D \in Nat /\ Len(h) \in Nat
                        /\ Len(g) = Len(h) /\ D = d - 1 /\ f < d /\ d <= Len(h) /\ d >= 1
                        /\ Len(p) = d - f /\ Len(q) = D - f
                        /\ Len(u) = Len(h) - d /\ Len(w) = Len(g) - D
  <1>12. Numbers
    BY <1>5, <1>6, <1>7, <1>8, <1>9, <1>10, <1>11
  <1> HIDE DEF Numbers
  <1>13. View(chart') = p[Len(p)]
    <2>1. d \in Indices' /\ d = currentIndex' + 2
      BY <1>4, <1>8, <1>9
    <2>2. Shown'
      BY DEF LInv
    <2>3. before'[history'[d].command] = View(chart')
      BY <2>1, <2>2 DEF Shown, View
    <2>4. Len(p) \in 1..(d - f) /\ f + Len(p) = d
      BY <1>12 DEF Numbers
    <2>5. p[Len(p)] = before[h[d].command]
      BY <1>6, <2>4
    <2>6. QED BY <1>2, <1>4, <1>8, <2>3, <2>5
  <1>14. q = SubSeq(p, 1, Len(p) - 1)
    <2>1. Len(p) >= 1 /\ Len(q) = Len(p) - 1
      BY <1>12 DEF Numbers
    <2>2. ASSUME NEW i \in 1..Len(q) PROVE q[i] = p[i]
      <3>1. i \in 1..(D - l) /\ i \in 1..(d - f) /\ f + i \in 1..Len(h)
        BY <1>10, <1>12 DEF Numbers
      <3>2. q[i] = before[g[f + i].command] /\ p[i] = before[h[f + i].command]
        BY <1>6, <1>7, <1>10, <3>1
      <3>3. QED BY <1>5, <3>1, <3>2
    <2>3. QED BY <1>6, <1>7, <2>1, <2>2, Popped
  <1>15. w = <<v>> \o u
    <2>1. Len(w) = Len(u) + 1
      BY <1>12 DEF Numbers
    <2>2. w[1] = v
      <3>1. 1 \in 1..(Len(g) - D) /\ D + 1 = d
        BY <1>12 DEF Numbers
      <3>2. w[1] = after[g[d].command]
        BY <1>7, <3>1
      <3>3. after[history[d].command] = v
        BY <1>2, <1>8 DEF LInv, Shown
      <3>4. QED BY <1>2, <1>4, <1>8, <3>2, <3>3
    <2>3. ASSUME NEW i \in 1..Len(u) PROVE w[i + 1] = u[i]
      <3>1. PICK j : j = i + 1
        OBVIOUS
      <3>2. /\ j \in 1..(Len(g) - D) /\ i \in 1..(Len(h) - d) /\ D + j = d + i
            /\ d + i \in 1..Len(h)
        BY <1>12, <3>1 DEF Numbers
      <3>3. w[j] = after[g[d + i].command] /\ u[i] = after[h[d + i].command]
        <4>1. w[j] = after[g[D + j].command]
          BY <1>7, <3>2
        <4>2. QED BY <1>6, <3>2, <4>1
      <3>4. QED BY <1>5, <3>1, <3>2, <3>3
    <2>4. v \in S
      BY <1>1, <1>2
    <2>5. u \in Seq(S) /\ w \in Seq(S)
      BY <1>6, <1>7
    <2>6. QED BY <2>1, <2>2, <2>3, <2>4, <2>5, Consed
  <1>16. p # <<>>
    BY <1>12 DEF Numbers
  <1>17. QED BY <1>2, <1>13, <1>14, <1>15, <1>16

\* A redo moves the top of the future to the chart, and the chart to the past.
LEMMA RedoneStacks ==
    ASSUME IInv, IInv', LInv, LInv', ~spoiled, ~spoiled', ~hidden, ~hidden', history # <<>>,
           FinishRedo(TRUE), UNCHANGED <<before, after>>
    PROVE  /\ Future # <<>> /\ View(chart') = Future[1]
           /\ Past' = Append(Past, View(chart))
           /\ Future' = Tail(Future)
  <1>1. PICK S : /\ View(chart) \in S /\ View(chart') \in S
                 /\ Stacks(history, Done, LastFailed, before, after, Past, Future, S)
                 /\ Stacks(history', Done', LastFailed', before', after', Past', Future', S)
    BY BothStacks
  <1>2. PICK h, g, d, f, l, p, q, u, w, v, D :
           /\ h = history /\ g = history' /\ d = Done /\ f = LastFailed /\ l = LastFailed'
           /\ p = Past /\ q = Past' /\ u = Future /\ w = Future' /\ v = View(chart)
           /\ D = Done'
    OBVIOUS
  <1>3. /\ pending.op = "redo" /\ history' = MarkUndone(pending.command, FALSE)
        /\ currentIndex' = currentIndex + 1
    BY DEF FinishRedo
  <1>4. /\ history' \in Seq(Entry) /\ Len(history') = Len(history)
        /\ Indices' = Indices
        /\ \A i \in Indices :
              /\ history'[i].command = history[i].command
              /\ history'[i].success = history[i].success
              /\ history'[i].undone =
                   IF history[i].command = pending.command THEN FALSE ELSE history[i].undone
        /\ CommandsDistinct'
    BY <1>3, MarkStep, ZenonT(60)
  <1>5. /\ Len(g) = Len(h)
        /\ \A i \in 1..Len(h) : g[i].command = h[i].command /\ g[i].success = h[i].success
    BY <1>2, <1>4 DEF Indices
  <1>6. /\ d \in 0..Len(h) /\ f \in 0..d /\ FailedAt(h, f) /\ Len(h) \in Nat
        /\ p \in Seq(S) /\ Len(p) = d - f
        /\ \A i \in 1..(d - f) : p[i] = before[h[f + i].command]
        /\ u \in Seq(S) /\ Len(u) = Len(h) - d
        /\ \A i \in 1..(Len(h) - d) : u[i] = after[h[d + i].command]
    BY <1>1, <1>2 DEF Stacks
  <1>7. /\ D \in 0..Len(g) /\ l \in 0..D /\ FailedAt(g, l)
        /\ q \in Seq(S) /\ Len(q) = D - l
        /\ \A i \in 1..(D - l) : q[i] = before[g[l + i].command]
        /\ w \in Seq(S) /\ Len(w) = Len(g) - D
        /\ \A i \in 1..(Len(g) - D) : w[i] = after[g[D + i].command]
    BY <1>1, <1>2 DEF Stacks
  <1>8. d = currentIndex + 1 /\ d + 1 = currentIndex + 2 /\ d + 1 \in Indices
    <2>1. canRedo
      BY <1>3 DEF IInv, PendingInPlace
    <2>2. d = currentIndex + 1
      BY <1>2 DEF Done
    <2>3. currentIndex >= -1 /\ currentIndex + 1 < Len(history) /\ currentIndex \in Int
      BY <2>1 DEF canRedo, IInv, TypeOK
    <2>4. d + 1 \in Indices /\ d + 1 = currentIndex + 2
      BY <2>2, <2>3, EntryFacts DEF Indices
    <2>5. QED BY <2>2, <2>4
  <1>9. D = d + 1 /\ d + 1 = currentIndex' + 1
    <2>1. D = currentIndex' + 1
      <3>1. history' # <<>>
        BY <1>4, <1>8 DEF Indices
      <3>2. QED BY <1>2, <3>1 DEF Done
    <2>2. currentIndex \in Int
      BY DEF IInv, TypeOK
    <2>3. QED BY <1>3, <1>8, <2>1, <2>2
  <1>10. f = l
    <2>1. FailedAt(g, f)
      <3>1. f \in 0..Len(h) /\ (f = 0 \/ ~h[f].success)
            /\ \A i \in (f + 1)..Len(h) : h[i].success
        BY <1>6 DEF FailedAt
      <3>2. f = 0 \/ ~g[f].success
        BY <1>5, <1>6, <3>1
      <3>3. \A i \in (f + 1)..Len(g) : i \in 1..Len(h)
        BY <1>5, <1>6, <3>1
      <3>4. \A i \in (f + 1)..Len(g) : g[i].success
        BY <1>5, <3>1, <3>3
      <3>5. QED BY <1>5, <3>1, <3>2, <3>4 DEF FailedAt
    <2>2. QED BY <1>5, <1>6, <1>7, <2>1, FailedOnce
  <1>11. d + 1 <= Len(h)
    BY <1>2, <1>8 DEF Indices
  <1> DEFINE Numbers == /\ d \in Nat /\ f \in Nat /\ D \in Nat /\ Len(h) \in Nat
                        /\ Len(g) = Len(h) /\ D = d + 1 /\ f <= d /\ d + 1 <= Len(h)
                        /\ Len(p) = d - f /\ Len(q) = D - f
                        /\ Len(u) = Len(h) - d /\ Len(w) = Len(g) - D
  <1>12. Numbers
    BY <1>5, <1>6, <1>7, <1>9, <1>10, <1>11
  <1> HIDE DEF Numbers
  <1>13. View(chart') = u[1]
    <2>1. D \in Indices' /\ D = currentIndex' + 1
      BY <1>4, <1>8, <1>9
    <2>2. Shown'
      BY DEF LInv
    <2>3. after'[history'[D].command] = View(chart')
      BY <2>1, <2>2 DEF Shown, View
    <2>4. 1 \in 1..(Len(h) - d)
      BY <1>12 DEF Numbers
    <2>5. u[1] = after[h[D].command]
      BY <1>6, <1>9, <2>4
    <2>6. QED BY <1>2, <1>4, <2>1, <2>3, <2>5
  <1>14. q = Append(p, v)
    <2>1. Len(q) = Len(p) + 1
      BY <1>12 DEF Numbers
    <2>2. q[Len(p) + 1] = v
      <3>1. PICK j : j = Len(p) + 1
        OBVIOUS
      <3>2. j \in 1..(D - l) /\ l + j = D
        BY <1>10, <1>12, <3>1 DEF Numbers
      <3>3. q[j] = before[g[D].command]
        BY <1>7, <3>2
      <3>4. before[history[D].command] = v
        BY <1>2, <1>8, <1>9 DEF LInv, Shown
      <3>5. g[D].command = h[D].command
        BY <1>2, <1>4, <1>8, <1>9
      <3>6. QED BY <1>2, <3>1, <3>3, <3>4, <3>5
    <2>3. ASSUME NEW i \in 1..Len(p) PROVE q[i] = p[i]
      <3>1. i \in 1..(D - l) /\ i \in 1..(d - f) /\ f + i \in 1..Len(h)
        BY <1>10, <1>12 DEF Numbers
      <3>2. q[i] = before[g[f + i].command] /\ p[i] = before[h[f + i].command]
        BY <1>6, <1>7, <1>10, <3>1
      <3>3. QED BY <1>5, <3>1, <3>2
    <2>4. v \in S
      BY <1>1, <1>2
    <2>5. p \in Seq(S) /\ q \in Seq(S)
      BY <1>6, <1>7
    <2>6. QED BY <2>1, <2>2, <2>3, <2>4, <2>5, Appended
  <1>15. u # <<>> /\ w = Tail(u)
    <2>1. Len(u) = Len(w) + 1
      BY <1>12 DEF Numbers
    <2>2. ASSUME NEW i \in 1..Len(w) PROVE w[i] = u[i + 1]
      <3>1. PICK j : j = i + 1
        OBVIOUS
      <3>2. /\ i \in 1..(Len(g) - D) /\ j \in 1..(Len(h) - d) /\ D + i = d + j
            /\ d + j \in 1..Len(h)
        BY <1>12, <3>1 DEF Numbers
      <3>3. w[i] = after[g[d + j].command] /\ u[j] = after[h[d + j].command]
        <4>1. w[i] = after[g[D + i].command]
          BY <1>7, <3>2
        <4>2. QED BY <1>6, <3>2, <4>1
      <3>4. QED BY <1>5, <3>1, <3>2, <3>3
    <2>3. QED BY <1>6, <1>7, <2>1, <2>2, Tailed
  <1>16. QED BY <1>2, <1>13, <1>14, <1>15

-----------------------------------------------------------------------------
(***************************************************************************)
(* The refinement: what each step is of the abstract stack.                *)
(***************************************************************************)
\* The charts that can be brought back, none once work was left half done or hidden.
PastNow == IF spoiled \/ hidden THEN <<>> ELSE Past
FutureNow == IF spoiled \/ hidden THEN <<>> ELSE Future

LEMMA ViewPrimed == (View(chart))' = View(chart')
  BY DEF View

LEMMA StackStill ==
    ASSUME View(chart') = View(chart), PastNow' = PastNow, FutureNow' = FutureNow
    PROVE  UNCHANGED Stack!stackVars
  <1>1. (View(chart))' = View(chart)
    BY ViewPrimed
  <1> HIDE DEF View
  <1>2. QED BY <1>1 DEF Stack!stackVars, PastNow, FutureNow

LEMMA StackFail ==
    ASSUME PastNow' = <<>>, FutureNow' = <<>>
    PROVE  Stack!Next
  BY DEF Stack!Next, Stack!Fail, PastNow, FutureNow

LEMMA StackEdit ==
    ASSUME FutureNow' = <<>>, NEW k \in 1..(Len(PastNow) + 2),
           PastNow' = SubSeq(Append(PastNow, View(chart)), k, Len(PastNow) + 1)
    PROVE  Stack!Next
  BY DEF Stack!Next, Stack!Edit, PastNow, FutureNow

LEMMA StackUndo ==
    ASSUME PastNow # <<>>, View(chart') = PastNow[Len(PastNow)],
           PastNow' = SubSeq(PastNow, 1, Len(PastNow) - 1),
           FutureNow' = <<View(chart)>> \o FutureNow
    PROVE  Stack!Next
  <1>1. (View(chart))' = PastNow[Len(PastNow)]
    BY ViewPrimed
  <1>2. QED BY <1>1 DEF Stack!Next, Stack!Undo, PastNow, FutureNow

LEMMA StackRedo ==
    ASSUME FutureNow # <<>>, View(chart') = FutureNow[1],
           PastNow' = Append(PastNow, View(chart)),
           FutureNow' = Tail(FutureNow)
    PROVE  Stack!Next
  <1>1. (View(chart))' = FutureNow[1]
    BY ViewPrimed
  <1>2. QED BY <1>1 DEF Stack!Next, Stack!Redo, PastNow, FutureNow

LEMMA StackForget ==
    ASSUME View(chart') = View(chart), NEW k \in 1..(Len(PastNow) + 1),
           PastNow' = SubSeq(PastNow, k, Len(PastNow)), FutureNow' = FutureNow
    PROVE  Stack!Next
  <1>1. (View(chart))' = View(chart)
    BY ViewPrimed
  <1>2. QED BY <1>1 DEF Stack!Next, Stack!Forget, PastNow, FutureNow

\* A step that changes neither the entries nor the chart.
LEMMA QuietStack ==
    ASSUME UNCHANGED <<history, currentIndex, chart, before, after, spoiled, hidden>>
    PROVE  UNCHANGED Stack!stackVars
  <1>1. Done' = Done
    BY DEF Done
  <1>2. LastFailed' = LastFailed
    BY DEF LastFailed
  <1>3. Past' = Past
    BY <1>1, <1>2 DEF Past
  <1>4. Future' = Future
    BY <1>1 DEF Future
  <1>5. QED BY <1>3, <1>4, StackStill DEF PastNow, FutureNow

\* Without entries there is nothing to bring back.
LEMMA EmptyStack ==
    ASSUME IInv, IInv', history' = <<>>
    PROVE  Stack!Next
  <1>1. PICK S : /\ View(chart) \in S /\ View(chart') \in S
                 /\ Stacks(history, Done, LastFailed, before, after, Past, Future, S)
                 /\ Stacks(history', Done', LastFailed', before', after', Past', Future', S)
    BY BothStacks
  <1>2. PICK d, n, p, f : d = Done' /\ n = LastFailed' /\ p = Past' /\ f = Future'
    OBVIOUS
  <1>3. /\ d \in 0..0 /\ n \in 0..d
        /\ p \in Seq(S) /\ Len(p) = d - n
        /\ f \in Seq(S) /\ Len(f) = 0 - d
    BY <1>1, <1>2 DEF Stacks
  <1>4. p = <<>> /\ f = <<>>
    <2>1. d = 0 /\ n = 0
      BY <1>3
    <2>2. Len(p) = 0 /\ Len(f) = 0
      BY <1>3, <2>1
    <2>3. QED BY <1>3, <2>2, Empty
  <1>5. PastNow' = <<>> /\ FutureNow' = <<>>
    BY <1>2, <1>4 DEF PastNow, FutureNow
  <1>6. QED BY <1>5, StackFail

LEMMA SpoiledStack ==
    ASSUME spoiled' \/ hidden'
    PROVE  Stack!Next
  BY StackFail DEF PastNow, FutureNow

LEMMA ExecutedStack ==
    ASSUME IInv, IInv', EInv, EInv', LInv, ~spoiled, ~hidden, ~hidden', Executed
    PROVE  Stack!Next
  <1>1. ~spoiled'
    BY DEF Executed
  <1>2. /\ PastNow = Past /\ FutureNow = Future
        /\ PastNow' = Past' /\ FutureNow' = Future'
    BY <1>1 DEF PastNow, FutureNow
  <1>3. /\ Future' = <<>>
        /\ \/ Past' = <<>>
           \/ \E k \in 1..(Len(Past) + 2) :
                 Past' = SubSeq(Append(Past, View(chart)), k, Len(Past) + 1)
    BY ExecutedStacks
  <1>4. CASE Past' = <<>>
    BY <1>2, <1>3, <1>4, StackFail
  <1>5. CASE \E k \in 1..(Len(Past) + 2) :
                Past' = SubSeq(Append(Past, View(chart)), k, Len(Past) + 1)
    <2>1. PICK k \in 1..(Len(PastNow) + 2) :
             PastNow' = SubSeq(Append(PastNow, View(chart)), k, Len(PastNow) + 1)
      BY <1>2, <1>5
    <2>2. FutureNow' = <<>>
      BY <1>2, <1>3
    <2>3. QED BY <2>1, <2>2, StackEdit
  <1>6. QED BY <1>3, <1>4, <1>5

LEMMA CleanStack ==
    ASSUME IInv, IInv', EInv, EInv', LInv, ~spoiled, ~hidden, Clean
    PROVE  Stack!Next
  <1>1. CASE spoiled'
    BY <1>1, SpoiledStack
  <1>2. CASE ~spoiled'
    <2>1. /\ PastNow = Past /\ FutureNow = Future
          /\ PastNow' = Past' /\ FutureNow' = Future'
      BY <1>2 DEF PastNow, FutureNow, Clean
    <2>2. /\ Future' = Future
          /\ \E k \in 1..(Len(Past) + 1) : Past' = SubSeq(Past, k, Len(Past))
      BY <1>2, CleanStacks
    <2>3. PICK k \in 1..(Len(PastNow) + 1) : PastNow' = SubSeq(PastNow, k, Len(PastNow))
      BY <2>1, <2>2
    <2>4. View(chart') = View(chart)
      BY DEF Clean
    <2>5. FutureNow' = FutureNow
      BY <2>1, <2>2
    <2>6. QED BY <2>3, <2>4, <2>5, StackForget
  <1>3. QED BY <1>1, <1>2

LEMMA UndoneStack ==
    ASSUME IInv, IInv', EInv, EInv', LInv, LInv', ~spoiled, ~hidden, Undone
    PROVE  [Stack!Next]_Stack!stackVars
  <1>1. CASE FinishUndo(FALSE) /\ UNCHANGED editVars
    <2>1. UNCHANGED <<history, currentIndex, chart, before, after, spoiled, hidden>>
      BY <1>1 DEF FinishUndo, editVars
    <2>2. QED BY <2>1, QuietStack
  <1>2. CASE spoiled'
    BY <1>2, SpoiledStack
  <1>3. CASE /\ ~spoiled' /\ FinishUndo(TRUE) /\ pending.command \in executed
             /\ UNCHANGED <<before, after, hidden>>
    <2>1. CASE history = <<>>
      <3>1. history' = MarkUndone(pending.command, TRUE)
        BY <1>3 DEF FinishUndo
      <3>2. history' \in Seq(Entry) /\ Len(history') = Len(history)
        BY <3>1, MarkStep
      <3>3. history' = <<>>
        BY <2>1, <3>2, EmptySeq
      <3>4. QED BY <3>3, EmptyStack
    <2>2. CASE history # <<>>
      <3>1. /\ PastNow = Past /\ FutureNow = Future
            /\ PastNow' = Past' /\ FutureNow' = Future'
        BY <1>3 DEF PastNow, FutureNow
      <3>2. /\ Past # <<>> /\ View(chart') = Past[Len(Past)]
            /\ Past' = SubSeq(Past, 1, Len(Past) - 1)
            /\ Future' = <<View(chart)>> \o Future
        BY <1>3, <2>2, UndoneStacks
      <3>3. QED BY <3>1, <3>2, StackUndo
    <2>3. QED BY <2>1, <2>2
  <1>4. QED BY <1>1, <1>2, <1>3 DEF Undone

LEMMA RedoneStack ==
    ASSUME IInv, IInv', EInv, EInv', LInv, LInv', ~spoiled, ~hidden, Redone
    PROVE  [Stack!Next]_Stack!stackVars
  <1>1. PICK o \in Outcomes(State, pending.command) :
           /\ FinishRedo(o.ok) /\ Apply(o.state)
           /\ spoiled' = (spoiled \/ o.half)
           /\ hidden' = (hidden \/ o.hidden)
           /\ UNCHANGED <<target, before, after>>
    BY DEF Redone
  <1>2. Result(State, pending.command, o)
    BY <1>1, PendingReady, Outcome DEF EInv, Redone
  <1>3. CASE spoiled' \/ hidden'
    BY <1>3, SpoiledStack
  <1>4. CASE ~spoiled' /\ ~hidden' /\ ~o.ok
    <2>1. chart' = chart
      BY <1>1, <1>2, <1>4 DEF Result, Apply, State
    <2>2. UNCHANGED <<history, currentIndex>>
      BY <1>1, <1>4 DEF FinishRedo
    <2>3. spoiled' = spoiled /\ hidden' = hidden
      BY <1>1, <1>4 DEF EInv
    <2>4. QED BY <1>1, <2>1, <2>2, <2>3, QuietStack
  <1>5. CASE ~spoiled' /\ ~hidden' /\ o.ok
    <2>1. FinishRedo(TRUE)
      <3>1. o.ok = TRUE
        BY <1>2, <1>5 DEF Result
      <3>2. QED BY <1>1, <3>1
    <2>2. CASE history = <<>>
      <3>1. history' = MarkUndone(pending.command, FALSE)
        BY <2>1 DEF FinishRedo
      <3>2. /\ history' \in Seq(Entry) /\ Len(history') = Len(history)
            /\ Indices' = Indices
            /\ \A i \in Indices :
                  /\ history'[i].command = history[i].command
                  /\ history'[i].success = history[i].success
                  /\ history'[i].undone =
                       IF history[i].command = pending.command THEN FALSE
                       ELSE history[i].undone
            /\ CommandsDistinct'
        BY <3>1, MarkStep, ZenonT(60)
      <3>3. history' = <<>>
        BY <2>2, <3>2, EmptySeq
      <3>4. QED BY <3>3, EmptyStack
    <2>3. CASE history # <<>>
      <3>1. /\ PastNow = Past /\ FutureNow = Future
            /\ PastNow' = Past' /\ FutureNow' = Future'
        BY <1>5 DEF PastNow, FutureNow
      <3>2. /\ Future # <<>> /\ View(chart') = Future[1]
            /\ Past' = Append(Past, View(chart))
            /\ Future' = Tail(Future)
        BY <1>1, <1>5, <2>1, <2>3, RedoneStacks
      <3>3. QED BY <3>1, <3>2, StackRedo
    <2>4. QED BY <2>2, <2>3
  <1>6. QED BY <1>3, <1>4, <1>5

LEMMA StackStep ==
    ASSUME IInv, IInv', EInv, EInv', LInv, LInv', [EditsNext]_allVars
    PROVE  [Stack!Next]_Stack!stackVars
  <1>1. CASE UNCHANGED allVars
    <2>1. UNCHANGED <<history, currentIndex, chart, before, after, spoiled, hidden>>
      BY <1>1 DEF allVars
    <2>2. QED BY <2>1, QuietStack
  <1>2. CASE hidden'
    BY <1>2, SpoiledStack
  <1>3. CASE hidden /\ ~hidden' /\ EditsNext
    <2>1. Clear
      BY <1>3, HiddenStays
    <2>2. QED BY <2>1, EmptyStack DEF Clear, ClearHistory
  <1>4. CASE ~hidden /\ ~hidden' /\ EditsNext
    <2>1. ~spoiled
      BY <1>4 DEF EditsNext
    <2>2. ASSUME NEW c \in Commands, Start(c) PROVE [Stack!Next]_Stack!stackVars
      <3>1. UNCHANGED <<history, currentIndex, chart, before, after, spoiled, hidden>>
        BY <2>2 DEF Start, StartExecute
      <3>2. QED BY <3>1, QuietStack
    <2>3. ASSUME StartUndo, UNCHANGED editVars PROVE [Stack!Next]_Stack!stackVars
      <3>1. UNCHANGED <<history, currentIndex, chart, before, after, spoiled, hidden>>
        BY <2>3 DEF StartUndo, editVars
      <3>2. QED BY <3>1, QuietStack
    <2>4. ASSUME StartRedo, UNCHANGED editVars PROVE [Stack!Next]_Stack!stackVars
      <3>1. UNCHANGED <<history, currentIndex, chart, before, after, spoiled, hidden>>
        BY <2>4 DEF StartRedo, editVars
      <3>2. QED BY <3>1, QuietStack
    <2>5. ASSUME NEW S, GrowOld(S), UNCHANGED editVars PROVE [Stack!Next]_Stack!stackVars
      <3>1. UNCHANGED <<history, currentIndex, chart, before, after, spoiled, hidden>>
        BY <2>5 DEF GrowOld, editVars
      <3>2. QED BY <3>1, QuietStack
    <2>6. CASE Clear
      BY <2>6, EmptyStack DEF Clear, ClearHistory
    <2>7. CASE Executed
      BY <1>4, <2>1, <2>7, ExecutedStack
    <2>8. CASE Undone
      BY <1>4, <2>1, <2>8, UndoneStack
    <2>9. CASE Redone
      BY <1>4, <2>1, <2>9, RedoneStack
    <2>10. CASE Clean
      BY <1>4, <2>1, <2>10, CleanStack
    <2>11. QED
      BY <1>4, <2>2, <2>3, <2>4, <2>5, <2>6, <2>7, <2>8, <2>9, <2>10 DEF EditsNext
  <1>5. hidden \in BOOLEAN /\ hidden' \in BOOLEAN
    BY DEF EInv
  <1>6. QED BY <1>1, <1>2, <1>3, <1>4, <1>5

LEMMA StackInit == ASSUME EditsInit PROVE Stack!Init
  <1>1. Init /\ history = <<>> /\ Len(history) = 0 /\ ~spoiled /\ ~hidden /\ chart = EmptyChart
    BY DEF EditsInit, Init
  <1>2. IInv
    BY <1>1, InvokerAssumption, InitIInv
  <1>3. PICK S : S = {before[c] : c \in Commands} \cup {after[c] : c \in Commands}
    OBVIOUS
  <1>4. Stacks(history, Done, LastFailed, before, after, Past, Future, S)
    BY <1>2, <1>3, StacksNow
  <1>5. PICK d, n, p, f : d = Done /\ n = LastFailed /\ p = Past /\ f = Future
    OBVIOUS
  <1>6. /\ d \in 0..0 /\ n \in 0..d
        /\ p \in Seq(S) /\ Len(p) = d - n
        /\ f \in Seq(S) /\ Len(f) = 0 - d
    BY <1>1, <1>4, <1>5 DEF Stacks
  <1>7. d = 0 /\ n = 0
    BY <1>6
  <1>8. Len(p) = 0 /\ Len(f) = 0
    BY <1>6, <1>7
  <1>9. p = <<>> /\ f = <<>>
    BY <1>6, <1>8, Empty
  <1>10. QED BY <1>1, <1>5, <1>9 DEF Stack!Init

\* The commands and their history implement the abstract undo stack: every undo gives
\* back the chart as it was before the last edit and every redo the chart as it was
\* after it, whatever fails, is trimmed, cleared or cleaned up in between, until work is
\* left half done or an error hidden.
THEOREM EditsImplementUndoStack ==
    ~CleanupWhileExecuting => (EditsSpec => ImplementsUndoStack)
  <1> SUFFICES ASSUME ~CleanupWhileExecuting
               PROVE  EditsSpec => ImplementsUndoStack
    OBVIOUS
  <1>1. EditsInit => Stack!Init
    BY StackInit
  <1>2. /\ IInv /\ IInv' /\ EInv /\ EInv' /\ LInv /\ LInv' /\ [EditsNext]_allVars
        => [Stack!Next]_Stack!stackVars
    BY StackStep
  <1>3. EditsSpec => [](IInv /\ EInv /\ LInv)
    BY LinksInvariance
  <1>4. QED BY <1>1, <1>2, <1>3, PTL DEF EditsSpec, ImplementsUndoStack, Stack!Spec
=============================================================================
