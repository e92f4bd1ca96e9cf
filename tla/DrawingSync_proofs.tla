------------------------- MODULE DrawingSync_proofs -------------------------
(***************************************************************************)
(* Proofs about DrawingSync for every set of charts, drawings, row ids and *)
(* save slots, and in every world.                                         *)
(***************************************************************************)
EXTENDS DrawingSync, FiniteSetTheorems, TLAPS

\* Whatever a load or a save carries was drawn on the chart it is for.
CargoHome ==
    /\ \A d \in Drawings : load.got[d] > 0 => HomeOf[d] = chart
    /\ \A i \in Slots, d \in Drawings :
          saves[i].adds[d] > 0 => HomeOf[d] = saves[i].chart

\* The inductive invariant.
IInv == TypeOK /\ IsFiniteSet(rows) /\ HomeKept /\ CargoHome

LEMMA InitIInv == ASSUME SyncAssumption, Init PROVE IInv
  <1>1. TypeOK
    BY DEF SyncAssumption, Init, TypeOK, Nothing, Bags, NoLoad, Loads, NoSave,
           Saves
  <1>2. IsFiniteSet(rows)
    BY FS_EmptySet DEF Init
  <1>3. HomeKept /\ CargoHome
    BY DEF Init, HomeKept, CargoHome, Nothing, NoLoad, NoSave
  <1>4. QED
    BY <1>1, <1>2, <1>3 DEF IInv

\* What is stored is a bag, and a drawing counted in it has a row.
LEMMA StoredLemma ==
    ASSUME IInv, NEW ch \in Charts
    PROVE  /\ Stored(ch) \in Bags
           /\ \A d \in Drawings : Stored(ch)[d] > 0 =>
                 \E r \in rows : r.chart = ch /\ r.drawing = d
  <1> DEFINE Of(d) == {r \in RowsOf(ch) : r.drawing = d}
  <1>1. \A d \in Drawings : IsFiniteSet(Of(d)) /\ Cardinality(Of(d)) \in Nat
    BY FS_Subset, FS_CardinalityType DEF IInv, RowsOf
  <1>2. \A d \in Drawings : Cardinality(Of(d)) > 0 => Of(d) # {}
    BY FS_EmptySet
  <1>3. \A d \in Drawings : Stored(ch)[d] = Cardinality(Of(d))
    BY DEF Stored
  <1>4. Stored(ch) \in Bags
    BY <1>1 DEF Stored, Bags
  <1>5. QED
    BY <1>2, <1>3, <1>4 DEF RowsOf

\* The steps of the user.
LEMMA UserSteps ==
    ASSUME SyncAssumption, IInv,
           \/ \E ch \in Charts : Mount(ch)
           \/ Unmount
           \/ CloseTab
           \/ Rest
           \/ \E d \in Drawings : Draw(d) \/ Erase(d)
           \/ \E d, e \in Drawings : Change(d, e)
    PROVE  IInv'
  <1> USE DEF IInv, TypeOK, Bags, Nothing, NoLoad, Loads
  <1>1. ASSUME NEW ch \in Charts, Mount(ch) PROVE IInv'
    <2>1. TypeOK'
      BY <1>1, SyncAssumption DEF Mount, SyncAssumption
    <2>2. HomeKept'
      BY <1>1, SyncAssumption DEF Mount, HomeKept, SyncAssumption
    <2>3. CargoHome'
      BY <1>1 DEF Mount, CargoHome
    <2>4. QED
      BY <1>1, <2>1, <2>2, <2>3 DEF Mount
  <1>2. ASSUME Unmount PROVE IInv'
    <2>1. TypeOK'
      BY <1>2 DEF Unmount
    <2>2. HomeKept'
      BY <1>2 DEF Unmount, HomeKept
    <2>3. CargoHome'
      BY <1>2 DEF Unmount, CargoHome
    <2>4. rows' = rows
      BY <1>2 DEF Unmount
    <2>5. IsFiniteSet(rows')
      BY <2>4
    <2>6. QED
      BY <2>1, <2>2, <2>3, <2>5
  <1>3. ASSUME CloseTab PROVE IInv'
    <2>1. TypeOK'
      BY <1>3 DEF CloseTab, NoSave, Saves
    <2>2. HomeKept'
      BY <1>3 DEF CloseTab, HomeKept
    <2>3. CargoHome'
      BY <1>3 DEF CloseTab, CargoHome, NoSave
    <2>4. IsFiniteSet(rows')
      BY <1>3 DEF CloseTab
    <2>5. QED
      BY <2>1, <2>2, <2>3, <2>4
  <1>4. ASSUME Rest PROVE IInv'
    BY <1>4 DEF Rest, HomeKept, CargoHome
  <1>5. ASSUME NEW d \in Drawings, Draw(d) PROVE IInv'
    BY <1>5 DEF Draw, MayEdit, Fresh, HomeKept, CargoHome
  <1>6. ASSUME NEW d \in Drawings, Erase(d) PROVE IInv'
    BY <1>6 DEF Erase, MayEdit, HomeKept, CargoHome
  <1>7. ASSUME NEW d \in Drawings, NEW e \in Drawings, Change(d, e) PROVE IInv'
    BY <1>7 DEF Change, MayEdit, Fresh, HomeKept, CargoHome
  <1>8. QED
    BY <1>1, <1>2, <1>3, <1>4, <1>5, <1>6, <1>7

\* The steps of a load.
LEMMA LoadSteps == ASSUME SyncAssumption, IInv, LoadStep PROVE IInv'
  <1>1. chart \in Charts /\ load \in Loads
    BY DEF IInv, TypeOK, LoadStep, ServeLoad, FinishLoad, FailLoad, NoLoad
  <1>2. CASE ServeLoad
    <2>1. load' \in Loads
      BY <1>1, <1>2, StoredLemma DEF ServeLoad, Loads
    <2>2. \A d \in Drawings : load'.got[d] > 0 => HomeOf[d] = chart
      BY <1>1, <1>2, StoredLemma DEF ServeLoad, IInv, HomeKept
    <2>3. QED
      BY <1>1, <1>2, <2>1, <2>2, SyncAssumption
      DEF ServeLoad, SyncAssumption, IInv, TypeOK, HomeKept, CargoHome
  <1>3. CASE FinishLoad
    BY <1>1, <1>3, SyncAssumption
    DEF FinishLoad, SyncAssumption, IInv, TypeOK, HomeKept, CargoHome, NoLoad,
        Nothing, Loads, Bags
  <1>4. CASE FailLoad
    BY <1>1, <1>4, SyncAssumption
    DEF FailLoad, SyncAssumption, IInv, TypeOK, HomeKept, CargoHome, NoLoad,
        Nothing, Loads, Bags
  <1>5. QED
    BY <1>2, <1>3, <1>4 DEF LoadStep

\* What is left of a save is still a save, and carries no more than before.
LEMMA ProceedLemma ==
    ASSUME NEW s \in Saves
    PROVE  /\ Proceed(s) \in Saves
           /\ Proceed(s).phase # "none" => Proceed(s) = s
           /\ \A d \in Drawings : Proceed(s).adds[d] > 0 => Proceed(s) = s
  BY DEF Proceed, NoSave, Nothing, Saves, Bags

\* A change of one save alone.
LEMMA OneSaveChanges ==
    ASSUME IInv, NEW i \in Slots, NEW s \in Saves,
           \A d \in Drawings : s.adds[d] > 0 => HomeOf[d] = s.chart,
           saves' = [saves EXCEPT ![i] = s],
           UNCHANGED <<hitches, chart, tools, load, kept, resting>>,
           armed' \in BOOLEAN, armed' => armed,
           rows' \in SUBSET Rows, IsFiniteSet(rows'),
           \A r \in rows' : HomeOf[r.drawing] = r.chart
    PROVE  IInv'
  <1>1. TypeOK'
    BY DEF IInv, TypeOK
  <1>2. HomeKept'
    BY DEF IInv, HomeKept
  <1>3. CargoHome'
    BY DEF IInv, TypeOK, CargoHome
  <1>4. QED
    BY <1>1, <1>2, <1>3 DEF IInv

\* The steps of a save.
LEMMA SaveSteps ==
    ASSUME SyncAssumption, IInv, NEW i \in Slots, StartSave(i) \/ SaveStep(i)
    PROVE  IInv'
  <1> DEFINE s == saves[i]
  <1>1. /\ s \in Saves
        /\ \A d \in Drawings : s.adds[d] > 0 => HomeOf[d] = s.chart
        /\ NoSave \in Saves
        /\ \A d \in Drawings : ~(NoSave.adds[d] > 0)
        /\ armed \in BOOLEAN /\ rows \in SUBSET Rows /\ IsFiniteSet(rows)
        /\ \A r \in rows : HomeOf[r.drawing] = r.chart
    BY DEF IInv, TypeOK, CargoHome, HomeKept, NoSave, Nothing, Saves, Bags
  <1>2. CASE StartSave(i)
    <2> DEFINE t == [phase |-> "get", chart |-> chart, dels |-> {}, adds |-> tools]
    <2>1. t \in Saves
      BY DEF IInv, TypeOK, Saves
    <2>2. \A d \in Drawings : t.adds[d] > 0 => HomeOf[d] = t.chart
      BY DEF IInv, HomeKept
    <2>3. saves' = [saves EXCEPT ![i] = t] /\ armed' = FALSE /\ rows' = rows
      BY <1>2 DEF StartSave
    <2>4. UNCHANGED <<hitches, chart, tools, load, kept, resting>>
      BY <1>2 DEF StartSave
    <2> HIDE DEF t
    <2>5. QED
      BY <1>1, <2>1, <2>2, <2>3, <2>4, OneSaveChanges
  <1>3. CASE SaveGet(i)
    <2> DEFINE ids == {r.id : r \in RowsOf(s.chart)}
               t == [s EXCEPT !.phase = "replace", !.dels = ids]
    <2>1. saves' = [saves EXCEPT ![i] = Proceed(t)]
      BY <1>3 DEF SaveGet
    <2>2. UNCHANGED <<hitches, chart, tools, load, kept, resting>>
      BY <1>3 DEF SaveGet
    <2>3. armed' = armed /\ rows' = rows
      BY <1>3 DEF SaveGet
    <2>4. ids \in SUBSET Ids
      BY <1>1 DEF Rows, RowsOf
    <2> HIDE DEF ids
    <2>5. /\ t \in Saves
          /\ t.adds = s.adds /\ t.chart = s.chart
      BY <1>1, <2>4 DEF Saves
    <2> HIDE DEF t
    <2>6. /\ Proceed(t) \in Saves
          /\ \A d \in Drawings :
                Proceed(t).adds[d] > 0 => HomeOf[d] = Proceed(t).chart
      BY <1>1, <2>5, ProceedLemma
    <2>7. QED
      BY <1>1, <2>1, <2>2, <2>3, <2>6, OneSaveChanges
  <1>4. ASSUME NEW id \in Ids, SaveDelete(i, id) PROVE IInv'
    <2> DEFINE t == [s EXCEPT !.dels = @ \ {id}]
               u == IF rows' # rows THEN Proceed(t) ELSE NoSave
    <2>1. /\ t \in Saves
          /\ \A d \in Drawings : t.adds[d] > 0 => HomeOf[d] = t.chart
      BY <1>1 DEF Saves
    <2>2. saves' = [saves EXCEPT ![i] = u]
      BY <1>4 DEF SaveDelete
    <2>3. UNCHANGED <<hitches, chart, tools, armed, load, kept, resting>>
      BY <1>4 DEF SaveDelete
    <2>4. rows' \subseteq rows
      BY <1>4 DEF SaveDelete
    <2>5. IsFiniteSet(rows')
      BY <1>1, <2>4, FS_Subset
    <2> HIDE DEF t
    <2>6. /\ u \in Saves
          /\ \A d \in Drawings : u.adds[d] > 0 => HomeOf[d] = u.chart
      BY <1>1, <2>1, ProceedLemma
    <2> HIDE DEF u
    <2>7. QED
      BY <1>1, <2>2, <2>3, <2>4, <2>5, <2>6, OneSaveChanges
  <1>5. ASSUME NEW d \in Drawings, SaveCreate(i, d) PROVE IInv'
    <2> DEFINE t == [s EXCEPT !.adds[d] = @ - 1]
               new == [id |-> CHOOSE id \in FreeIds : TRUE,
                       chart |-> s.chart, drawing |-> d]
    <2>1. s.adds[d] > 0 /\ s.adds \in Bags
      BY <1>1, <1>5 DEF SaveCreate, Saves
    <2>2. /\ t \in Saves
          /\ \A e \in Drawings : t.adds[e] > 0 => HomeOf[e] = t.chart
      BY <1>1, <2>1 DEF Saves, Bags
    <2>3. HomeOf[d] = s.chart /\ s.chart \in Charts
      BY <1>1, <2>1, SyncAssumption DEF SyncAssumption
    <2>4. new \in Rows
      BY <1>5, <2>3 DEF SaveCreate, FreeIds, Rows
    <2>5. rows' = rows \cup {new}
      BY <1>5 DEF SaveCreate
    <2>6. saves' = [saves EXCEPT ![i] = Proceed(t)]
      BY <1>5 DEF SaveCreate
    <2>7. UNCHANGED <<hitches, chart, tools, armed, load, kept, resting>>
      BY <1>5 DEF SaveCreate
    <2>8. new.drawing = d /\ new.chart = s.chart
      OBVIOUS
    <2> HIDE DEF t, new
    <2>9. IsFiniteSet(rows')
      BY <1>1, <2>5, FS_AddElement
    <2>10. /\ Proceed(t) \in Saves
           /\ \A e \in Drawings :
                 Proceed(t).adds[e] > 0 => HomeOf[e] = Proceed(t).chart
      BY <2>2, ProceedLemma
    <2>11. /\ rows' \in SUBSET Rows
           /\ \A r \in rows' : HomeOf[r.drawing] = r.chart
      BY <1>1, <2>3, <2>4, <2>5, <2>8
    <2>12. QED
      BY <1>1, <2>6, <2>7, <2>9, <2>10, <2>11, OneSaveChanges
  <1>6. CASE FailSave(i)
    <2>1. saves' = [saves EXCEPT ![i] = NoSave]
      BY <1>6 DEF FailSave
    <2>2. UNCHANGED <<hitches, chart, tools, armed, load, rows, kept, resting>>
      BY <1>6 DEF FailSave
    <2>3. QED
      BY <1>1, <2>1, <2>2, OneSaveChanges
  <1>7. QED
    BY <1>2, <1>3, <1>4, <1>5, <1>6 DEF SaveStep

LEMMA NextIInv == ASSUME SyncAssumption, IInv, [Next]_vars PROVE IInv'
  <1>1. CASE UNCHANGED vars
    <2>1. TypeOK'
      BY <1>1 DEF vars, IInv, TypeOK
    <2>2. HomeKept' /\ CargoHome'
      BY <1>1 DEF vars, IInv, HomeKept, CargoHome
    <2>3. IsFiniteSet(rows')
      BY <1>1 DEF vars, IInv
    <2>4. QED
      BY <2>1, <2>2, <2>3 DEF IInv
  <1>2. CASE Next
    BY <1>2, UserSteps, LoadSteps, SaveSteps DEF Next
  <1>3. QED
    BY <1>1, <1>2

-----------------------------------------------------------------------------
\* The inductive invariant holds in every reachable state, in every world.
THEOREM Invariance == Spec => []IInv
  <1>1. Init => IInv
    BY SyncAssumption, InitIInv
  <1>2. IInv /\ [Next]_vars => IInv'
    BY SyncAssumption, NextIInv
  <1>3. QED
    BY <1>1, <1>2, PTL DEF Spec

\* Types; and with no chart on screen there is no list, timeout or load.
THEOREM TypeCorrect == Spec => []TypeOK
  <1>1. IInv => TypeOK
    BY DEF IInv
  <1>2. QED
    BY <1>1, Invariance, PTL

\* No drawing is stored under, or shown on, a chart it was not drawn on.
THEOREM DrawingsStayHome == Spec => []HomeKept
  <1>1. IInv => HomeKept
    BY DEF IInv
  <1>2. QED
    BY <1>1, Invariance, PTL
-----------------------------------------------------------------------------
(***************************************************************************)
(* What is on screen gets stored.  Without overlap and failing saves there *)
(* is one save at a time; while it replaces the rows of the chart, those   *)
(* it will keep and the drawings it has yet to send add up to the list     *)
(* that was on screen when it started, which is the list on screen unless  *)
(* the autosave has been armed again.                                      *)
(***************************************************************************)
Calm == hitches \cap {"overlap", "savefails"} = {}

OneSave ==
    \A i, j \in Slots :
        saves[i].phase # "none" /\ saves[j].phase # "none" => i = j

\* Every row a save has yet to delete is there.
ListedAreThere ==
    \A i \in Slots : saves[i].phase = "replace" =>
        \A id \in saves[i].dels : \E r \in rows : r.id = id

\* The rows in R of drawing d under chart ch, but for those with an id in D.
Left(R, ch, D, d) ==
    {r \in R : r.chart = ch /\ r.drawing = d /\ r.id \notin D}

\* Save s, with rows R, will make them the list b of chart ch.
Makes(s, R, ch, b) ==
    /\ s.chart = ch
    /\ s.phase = "get" => s.adds = b
    /\ s.phase = "replace" => \A d \in Drawings :
          Cardinality(Left(R, ch, s.dels, d)) + s.adds[d] = b[d]

OnTheWay ==
    (chart # None /\ ~armed) =>
        /\ ~Saving => Stored(chart) = tools
        /\ \A i \in Slots :
              saves[i].phase # "none" => Makes(saves[i], rows, chart, tools)

CalmInv == Calm => OneSave /\ ListedAreThere /\ OnTheWay

\* Every step keeps CalmInv that leaves rows and saves alone and either arms
\* the autosave, takes the chart off the screen or leaves them alone as well.
LEMMA NoSaveMoves ==
    ASSUME CalmInv, UNCHANGED <<hitches, saves, rows>>,
           \/ armed' = TRUE
           \/ chart' = None
           \/ UNCHANGED <<chart, tools, armed>>
    PROVE  CalmInv'
  <1>1. CASE armed' = TRUE \/ chart' = None
    BY <1>1 DEF CalmInv, Calm, OneSave, ListedAreThere, OnTheWay
  <1>2. CASE UNCHANGED <<chart, tools, armed>>
    BY <1>2 DEF CalmInv, Calm, OneSave, ListedAreThere, OnTheWay, Saving, Stored,
                RowsOf
  <1>3. QED
    BY <1>1, <1>2

LEMMA OtherStepsCalm ==
    ASSUME CalmInv,
           \/ \E ch \in Charts : Mount(ch)
           \/ Unmount
           \/ Rest
           \/ \E d \in Drawings : Draw(d) \/ Erase(d)
           \/ \E d, e \in Drawings : Change(d, e)
           \/ LoadStep
           \/ UNCHANGED vars
    PROVE  CalmInv'
  <1>1. CASE \/ \E ch \in Charts : Mount(ch)
             \/ \E d \in Drawings : Draw(d) \/ Erase(d)
             \/ \E d, e \in Drawings : Change(d, e)
             \/ FinishLoad
             \/ FailLoad
    <2>1. UNCHANGED <<hitches, saves, rows>> /\ armed' = TRUE
      BY <1>1 DEF Mount, Draw, Erase, Change, FinishLoad, FailLoad
    <2>2. QED
      BY <2>1, NoSaveMoves
  <1>2. CASE Unmount
    <2>1. UNCHANGED <<hitches, saves, rows>> /\ chart' = None
      BY <1>2 DEF Unmount
    <2>2. QED
      BY <2>1, NoSaveMoves
  <1>3. CASE Rest \/ ServeLoad \/ UNCHANGED vars
    <2>1. /\ UNCHANGED <<hitches, saves, rows>>
          /\ UNCHANGED <<chart, tools, armed>>
      BY <1>3 DEF Rest, ServeLoad, vars
    <2>2. QED
      BY <2>1, NoSaveMoves
  <1>4. QED
    BY <1>1, <1>2, <1>3 DEF LoadStep

LEMMA CloseTabCalm ==
    ASSUME CalmInv, CloseTab PROVE CalmInv'
  <1>1. hitches' = hitches /\ chart' = None
    BY DEF CloseTab
  <1>2. saves' = [i \in Slots |-> NoSave]
    BY DEF CloseTab
  <1>3. \A i \in Slots : saves'[i].phase = "none"
    BY <1>2 DEF NoSave
  <1>4. QED
    BY <1>1, <1>3 DEF CalmInv, Calm, OneSave, ListedAreThere, OnTheWay

\* With nothing left to delete, the rows left of a drawing are those stored.
LEMMA StoredIsLeft ==
    ASSUME NEW R, NEW ch, NEW d
    PROVE  {r \in {x \in R : x.chart = ch} : r.drawing = d} = Left(R, ch, {}, d)
  BY DEF Left

\* Save i alone goes on and becomes what is left of t.
LEMMA SaveMoves ==
    ASSUME IInv, IInv', CalmInv, Calm, NEW i \in Slots, NEW t \in Saves,
           saves[i].phase # "none",
           saves' = [saves EXCEPT ![i] = Proceed(t)],
           UNCHANGED <<hitches, chart, tools, armed>>,
           t.phase = "replace",
           \A id \in t.dels : \E r \in rows' : r.id = id,
           chart # None /\ ~armed => Makes(t, rows', chart, tools)
    PROVE  CalmInv'
  <1>1. \A j \in Slots : j # i => saves[j].phase = "none"
    BY DEF CalmInv, OneSave
  <1>2. saves'[i] = Proceed(t) /\ \A j \in Slots : j # i => saves'[j] = saves[j]
    BY DEF IInv, TypeOK
  <1>3. \A j \in Slots : j # i => saves'[j].phase = "none"
    BY <1>1, <1>2
  <1>4. OneSave'
    BY <1>3 DEF OneSave
  <1>5. Proceed(t) = t \/ Proceed(t) = NoSave
    BY DEF Proceed
  <1>6. ListedAreThere'
    BY <1>2, <1>3, <1>5 DEF ListedAreThere, NoSave
  <1>7. ASSUME chart # None, ~armed PROVE OnTheWay'
    <2>1. Makes(t, rows', chart, tools)
      BY <1>7
    <2>2. CASE Proceed(t) = t
      BY <1>2, <1>3, <2>1, <2>2 DEF OnTheWay, Saving
    <2>3. CASE Proceed(t) # t
      <3>1. t.dels = {} /\ t.adds = Nothing
        BY <2>3 DEF Proceed
      <3>2. \A d \in Drawings : Cardinality(Left(rows', chart, {}, d)) + 0 = tools[d]
        BY <2>1, <3>1 DEF Makes, Nothing
      <3>3. \A d \in Drawings : Cardinality(Left(rows', chart, {}, d)) \in Nat
        BY FS_Subset, FS_CardinalityType DEF IInv, Left
      <3>4. \A d \in Drawings : Cardinality(Left(rows', chart, {}, d)) = tools[d]
        BY <3>2, <3>3
      <3>5. Stored(chart)'
              = [d \in Drawings |-> Cardinality(Left(rows', chart, {}, d))]
        <4>1. \A d \in Drawings :
                 {r \in {x \in rows' : x.chart = chart} : r.drawing = d}
                   = Left(rows', chart, {}, d)
          BY StoredIsLeft
        <4>2. Stored(chart)' = [d \in Drawings |->
                Cardinality({r \in {x \in rows' : x.chart = chart} : r.drawing = d})]
          BY DEF Stored, RowsOf
        <4>3. QED
          BY <4>1, <4>2
      <3>6. tools \in Bags
        BY DEF IInv, TypeOK
      <3>7. Stored(chart)' = tools
        BY <3>4, <3>5, <3>6 DEF Bags
      <3>8. \A j \in Slots : saves'[j].phase = "none"
        BY <1>2, <1>3, <1>5, <2>3 DEF NoSave
      <3>9. QED
        BY <3>7, <3>8 DEF OnTheWay
    <2>4. QED
      BY <2>2, <2>3
  <1>8. OnTheWay'
    BY <1>7 DEF OnTheWay
  <1>9. QED
    BY <1>4, <1>6, <1>8 DEF CalmInv

LEMMA StartSaveCalm ==
    ASSUME IInv, CalmInv, NEW i \in Slots, StartSave(i) PROVE CalmInv'
  <1> SUFFICES ASSUME Calm PROVE OneSave' /\ ListedAreThere' /\ OnTheWay'
    BY DEF CalmInv, Calm, StartSave
  <1>1. \A j \in Slots : saves[j].phase = "none"
    BY DEF StartSave, Calm, Saving
  <1>2. /\ saves'[i] = [phase |-> "get", chart |-> chart, dels |-> {}, adds |-> tools]
        /\ \A j \in Slots : j # i => saves'[j] = saves[j]
        /\ UNCHANGED <<chart, tools, rows>>
    BY DEF StartSave, IInv, TypeOK
  <1>3. OneSave' /\ ListedAreThere'
    BY <1>1, <1>2 DEF OneSave, ListedAreThere
  <1>4. OnTheWay'
    BY <1>1, <1>2 DEF OnTheWay, Saving, Makes
  <1>5. QED
    BY <1>3, <1>4

LEMMA SaveStepCalm ==
    ASSUME SyncAssumption, IInv, IInv', CalmInv, NEW i \in Slots, SaveStep(i)
    PROVE  CalmInv'
  <1> DEFINE s == saves[i]
  <1>1. s \in Saves /\ rows \in SUBSET Rows /\ IsFiniteSet(rows)
    BY DEF IInv, TypeOK
  <1>2. hitches' = hitches
    BY DEF SaveStep, SaveGet, SaveDelete, SaveCreate, FailSave
  <1> SUFFICES ASSUME Calm PROVE CalmInv'
    BY <1>2 DEF CalmInv, Calm
  <1>3. /\ OneSave /\ ListedAreThere
        /\ s.phase # "none" /\ chart # None /\ ~armed => Makes(s, rows, chart, tools)
    BY DEF CalmInv, OnTheWay
  <1>4. CASE SaveGet(i)
    <2> DEFINE ids == {r.id : r \in RowsOf(s.chart)}
               t == [s EXCEPT !.phase = "replace", !.dels = ids]
    <2>1. saves' = [saves EXCEPT ![i] = Proceed(t)]
      BY <1>4 DEF SaveGet
    <2>2. s.phase = "get" /\ UNCHANGED <<hitches, chart, tools, armed>> /\ rows' = rows
      BY <1>4 DEF SaveGet
    <2>3. /\ ids \in SUBSET Ids
          /\ \A id \in ids : \E r \in rows : r.id = id
          /\ \A r \in rows : r.chart = s.chart => r.id \in ids
      BY <1>1 DEF Rows, RowsOf
    <2> HIDE DEF ids
    <2>4. /\ t \in Saves
          /\ t.phase = "replace" /\ t.chart = s.chart /\ t.dels = ids
          /\ t.adds = s.adds
      BY <1>1, <2>3 DEF Saves
    <2> HIDE DEF t
    <2>5. ASSUME chart # None, ~armed PROVE Makes(t, rows', chart, tools)
      <3>1. s.chart = chart /\ s.adds = tools
        BY <1>3, <2>2, <2>5 DEF Makes
      <3>2. \A d \in Drawings : Left(rows', chart, t.dels, d) = {}
        BY <2>2, <2>3, <2>4, <3>1 DEF Left
      <3>3. tools \in Bags
        BY DEF IInv, TypeOK
      <3>4. \A d \in Drawings :
               Cardinality(Left(rows', chart, t.dels, d)) + t.adds[d] = tools[d]
        <4>1. \A d \in Drawings : Cardinality(Left(rows', chart, t.dels, d)) = 0
          BY <3>2, FS_EmptySet
        <4>2. t.adds = tools /\ \A d \in Drawings : tools[d] \in Nat
          BY <2>4, <3>1, <3>3 DEF Bags
        <4>3. QED
          BY <4>1, <4>2
      <3>5. QED
        BY <2>4, <3>1, <3>4 DEF Makes
    <2>6. s.phase # "none" /\ \A id \in t.dels : \E r \in rows' : r.id = id
      BY <2>2, <2>3, <2>4
    <2>7. QED
      BY <2>1, <2>2, <2>4, <2>5, <2>6, SaveMoves
  <1>5. ASSUME NEW id \in Ids, SaveDelete(i, id) PROVE CalmInv'
    <2> DEFINE t == [s EXCEPT !.dels = @ \ {id}]
    <2>1. s.phase = "replace" /\ id \in s.dels
      BY <1>5 DEF SaveDelete
    <2>2. UNCHANGED <<hitches, chart, tools, armed>> /\ rows' = {r \in rows : r.id # id}
      BY <1>5 DEF SaveDelete
    <2>3. rows' # rows
      BY <1>3, <2>1, <2>2 DEF ListedAreThere
    <2>4. saves' = [saves EXCEPT ![i] = Proceed(t)]
      BY <1>5, <2>3 DEF SaveDelete
    <2>5. /\ t \in Saves
          /\ t.phase = "replace" /\ t.chart = s.chart /\ t.dels = s.dels \ {id}
          /\ t.adds = s.adds
      BY <1>1, <2>1 DEF Saves
    <2> HIDE DEF t
    <2>6. ASSUME chart # None, ~armed PROVE Makes(t, rows', chart, tools)
      <3>1. Makes(s, rows, chart, tools)
        BY <1>3, <2>1, <2>6
      <3>2. \A d \in Drawings :
               Left(rows', chart, t.dels, d) = Left(rows, chart, s.dels, d)
        BY <2>1, <2>2, <2>5 DEF Left
      <3>3. QED
        BY <2>1, <2>5, <3>1, <3>2 DEF Makes
    <2>7. s.phase # "none" /\ \A x \in t.dels : \E r \in rows' : r.id = x
      BY <1>3, <2>1, <2>2, <2>5 DEF ListedAreThere
    <2>8. QED
      BY <2>2, <2>4, <2>5, <2>6, <2>7, SaveMoves
  <1>6. ASSUME NEW d \in Drawings, SaveCreate(i, d) PROVE CalmInv'
    <2> DEFINE t == [s EXCEPT !.adds[d] = @ - 1]
               id == CHOOSE x \in FreeIds : TRUE
               new == [id |-> id, chart |-> s.chart, drawing |-> d]
    <2>1. /\ s.phase = "replace" /\ s.dels = {} /\ s.adds[d] > 0
          /\ s.adds \in Bags
      BY <1>1, <1>6 DEF SaveCreate, Saves
    <2>2. UNCHANGED <<hitches, chart, tools, armed>> /\ rows' = rows \cup {new}
      BY <1>6 DEF SaveCreate
    <2>3. saves' = [saves EXCEPT ![i] = Proceed(t)]
      BY <1>6 DEF SaveCreate
    <2>4. /\ t \in Saves
          /\ t.phase = "replace" /\ t.chart = s.chart /\ t.dels = {}
          /\ t.adds[d] = s.adds[d] - 1
          /\ \A e \in Drawings : e # d => t.adds[e] = s.adds[e]
      BY <1>1, <2>1 DEF Saves, Bags
    <2>5. id \in FreeIds
      BY <1>6 DEF SaveCreate
    <2>6. new \notin rows
      BY <2>5 DEF FreeIds
    <2>7. new.chart = s.chart /\ new.drawing = d
      OBVIOUS
    <2> HIDE DEF t, new
    <2>8. ASSUME chart # None, ~armed PROVE Makes(t, rows', chart, tools)
      <3>1. s.chart = chart /\ \A e \in Drawings :
               Cardinality(Left(rows, chart, {}, e)) + s.adds[e] = tools[e]
        BY <1>3, <2>1, <2>8 DEF Makes
      <3>2. \A e \in Drawings : /\ IsFiniteSet(Left(rows, chart, {}, e))
                                /\ Cardinality(Left(rows, chart, {}, e)) \in Nat
        BY <1>1, FS_Subset, FS_CardinalityType DEF Left
      <3>3. /\ Left(rows', chart, {}, d) = Left(rows, chart, {}, d) \cup {new}
            /\ new \notin Left(rows, chart, {}, d)
        BY <2>2, <2>6, <2>7, <3>1 DEF Left
      <3>4. Cardinality(Left(rows', chart, {}, d))
              = Cardinality(Left(rows, chart, {}, d)) + 1
        BY <3>2, <3>3, FS_AddElement
      <3>5. \A e \in Drawings : e # d =>
               Left(rows', chart, {}, e) = Left(rows, chart, {}, e)
        BY <2>2, <2>7 DEF Left
      <3>6. \A e \in Drawings :
               Cardinality(Left(rows', chart, {}, e)) + t.adds[e] = tools[e]
        <4>1. \A e \in Drawings : s.adds[e] \in Nat
          BY <2>1 DEF Bags
        <4>2. ASSUME NEW e \in Drawings, e # d
              PROVE  Cardinality(Left(rows', chart, {}, e)) + t.adds[e] = tools[e]
          BY <2>4, <3>1, <3>5, <4>2
        <4>3. Cardinality(Left(rows', chart, {}, d)) + t.adds[d] = tools[d]
          <5> DEFINE n == Cardinality(Left(rows, chart, {}, d))
          <5>1. n \in Nat /\ s.adds[d] \in Nat /\ n + s.adds[d] = tools[d]
            BY <3>1, <3>2, <4>1
          <5>2. /\ Cardinality(Left(rows', chart, {}, d)) = n + 1
                /\ t.adds[d] = s.adds[d] - 1
            BY <2>4, <3>4
          <5> HIDE DEF n
          <5>3. QED
            BY <5>1, <5>2
        <4>4. QED
          BY <4>2, <4>3
      <3>7. QED
        BY <2>4, <3>1, <3>6 DEF Makes
    <2>9. s.phase # "none" /\ \A x \in t.dels : \E r \in rows' : r.id = x
      BY <2>1, <2>4
    <2>10. QED
      BY <2>2, <2>3, <2>4, <2>8, <2>9, SaveMoves
  <1>7. CASE FailSave(i)
    BY <1>7 DEF FailSave, Calm
  <1>8. QED
    BY <1>4, <1>5, <1>6, <1>7 DEF SaveStep

LEMMA NextCalm ==
    ASSUME IInv, IInv', CalmInv, [Next]_vars PROVE CalmInv'
  BY SyncAssumption, OtherStepsCalm, CloseTabCalm, StartSaveCalm, SaveStepCalm
  DEF Next

\* When the autosave has come to rest, the rows of the chart are what is on
\* screen, if no save fails or overlaps another.
THEOREM SettledSaved == Spec => []SettledIsSaved
  <1>1. Init => CalmInv
    BY DEF Init, CalmInv, OneSave, ListedAreThere, OnTheWay, NoSave
  <1>2. IInv /\ IInv' /\ CalmInv /\ [Next]_vars => CalmInv'
    BY NextCalm
  <1>3. IInv /\ CalmInv => SettledIsSaved
    BY DEF CalmInv, Calm, OnTheWay, SettledIsSaved, Settled
  <1>4. QED
    BY <1>1, <1>2, <1>3, Invariance, PTL DEF Spec

-----------------------------------------------------------------------------
(***************************************************************************)
(* Nothing is lost.  Every id of a row is its own, and the rows a save has *)
(* listed stay rows of its chart: a new row never takes an id that is      *)
(* listed.  That holds in every world.                                     *)
(***************************************************************************)
IdsApart == \A r, q \in rows : r.id = q.id => r = q

ListedAreMine ==
    \A i \in Slots, r \in rows :
        r.id \in saves[i].dels => r.chart = saves[i].chart

RowInv == IdsApart /\ ListedAreMine

\* The rows of drawing d, and how many there should be.
RowsWith(d) == {r \in rows : r.drawing = d}

Due(d) == IF d \in kept THEN 1 ELSE 0

(***************************************************************************)
(* In the world without hitches a save is for the chart on screen, and     *)
(* does not meet a load; a load that has been served has what is stored;   *)
(* and what the user keeps is on screen if it belongs to a chart that has  *)
(* been loaded, and in the table if not.                                   *)
(***************************************************************************)
SavesOfScreen ==
    \A i \in Slots : saves[i].phase # "none" =>
        chart # None /\ saves[i].chart = chart /\ load.phase = "none"

ServedIsStored == load.phase = "served" => load.got = Stored(chart)

KeptSomewhere ==
    \A d \in Drawings :
        IF HomeOf[d] = chart /\ load.phase = "none"
        THEN tools[d] = Due(d)
        ELSE Cardinality(RowsWith(d)) = Due(d)

PatientInv == hitches = {} => SavesOfScreen /\ ServedIsStored /\ KeptSomewhere

LEMMA NextRowInv ==
    ASSUME SyncAssumption, IInv, RowInv, [Next]_vars PROVE RowInv'
  <1> USE DEF RowInv, IdsApart, ListedAreMine
  <1>1. CASE /\ rows' = rows
             /\ \A i \in Slots : saves'[i] = saves[i] \/ saves'[i].dels = {}
    BY <1>1
  <1>2. CASE UNCHANGED vars
    BY <1>1, <1>2 DEF vars
  <1>3. CASE \/ \E ch \in Charts : Mount(ch)
             \/ Unmount
             \/ \E d \in Drawings : Draw(d) \/ Erase(d)
             \/ \E d, e \in Drawings : Change(d, e)
             \/ Rest
             \/ LoadStep
    BY <1>1, <1>3 DEF Mount, Unmount, Draw, Erase, Change, Rest, LoadStep,
                      ServeLoad, FinishLoad, FailLoad
  <1>4. CASE CloseTab
    <2>1. rows' = rows /\ saves' = [i \in Slots |-> NoSave]
      BY <1>4 DEF CloseTab
    <2>2. QED
      BY <1>1, <2>1 DEF NoSave
  <1>5. ASSUME NEW i \in Slots, StartSave(i) \/ FailSave(i) PROVE RowInv'
    <2>1. /\ rows' = rows
          /\ \E t : t.dels = {} /\ saves' = [saves EXCEPT ![i] = t]
      BY <1>5 DEF StartSave, FailSave, NoSave
    <2>2. \A j \in Slots : saves'[j] = saves[j] \/ saves'[j].dels = {}
      BY <2>1 DEF IInv, TypeOK
    <2>3. QED
      BY <1>1, <2>1, <2>2
  <1>6. ASSUME NEW i \in Slots, SaveGet(i) PROVE RowInv'
    <2> DEFINE ids == {r.id : r \in RowsOf(saves[i].chart)}
               t == [saves[i] EXCEPT !.phase = "replace", !.dels = ids]
    <2>1. saves' = [saves EXCEPT ![i] = Proceed(t)] /\ rows' = rows
      BY <1>6 DEF SaveGet
    <2>2. saves[i] \in Saves
      BY DEF IInv, TypeOK
    <2>3. t.dels = ids /\ t.chart = saves[i].chart
      BY <2>2 DEF Saves
    <2>4. \A r \in rows : r.id \in ids => r.chart = saves[i].chart
      BY DEF RowsOf
    <2> HIDE DEF t, ids
    <2>5. Proceed(t).dels = {} \/ Proceed(t) = t
      BY DEF Proceed, NoSave
    <2>6. \A j \in Slots : saves'[j] = IF j = i THEN Proceed(t) ELSE saves[j]
      BY <2>1 DEF IInv, TypeOK
    <2>7. QED
      BY <2>1, <2>3, <2>4, <2>5, <2>6
  <1>7. ASSUME NEW i \in Slots, NEW id \in Ids, SaveDelete(i, id) PROVE RowInv'
    <2> DEFINE t == [saves[i] EXCEPT !.dels = @ \ {id}]
               u == IF rows' # rows THEN Proceed(t) ELSE NoSave
    <2>1. saves' = [saves EXCEPT ![i] = u] /\ rows' \subseteq rows
      BY <1>7 DEF SaveDelete
    <2>2. saves[i] \in Saves
      BY DEF IInv, TypeOK
    <2>3. t.dels \subseteq saves[i].dels /\ t.chart = saves[i].chart
      BY <2>2 DEF Saves
    <2> HIDE DEF t
    <2>4. u.dels = {} \/ u = t
      BY DEF Proceed, NoSave
    <2> HIDE DEF u
    <2>5. \A j \in Slots : saves'[j] = IF j = i THEN u ELSE saves[j]
      BY <2>1 DEF IInv, TypeOK
    <2>6. QED
      BY <2>1, <2>3, <2>4, <2>5
  <1>8. ASSUME NEW i \in Slots, NEW d \in Drawings, SaveCreate(i, d) PROVE RowInv'
    <2> DEFINE t == [saves[i] EXCEPT !.adds[d] = @ - 1]
               new == [id |-> CHOOSE x \in FreeIds : TRUE,
                       chart |-> saves[i].chart, drawing |-> d]
    <2>1. saves' = [saves EXCEPT ![i] = Proceed(t)] /\ rows' = rows \cup {new}
      BY <1>8 DEF SaveCreate
    <2>2. new.id \in FreeIds
      BY <1>8 DEF SaveCreate
    <2>3. saves[i] \in Saves
      BY DEF IInv, TypeOK
    <2>4. t.dels = saves[i].dels /\ t.chart = saves[i].chart
      BY <2>3 DEF Saves
    <2> HIDE DEF t, new
    <2>5. Proceed(t).dels = {} \/ Proceed(t) = t
      BY DEF Proceed, NoSave
    <2>6. \A j \in Slots : saves'[j] = IF j = i THEN Proceed(t) ELSE saves[j]
      BY <2>1 DEF IInv, TypeOK
    <2>7. /\ \A r \in rows : r.id # new.id
          /\ \A j \in Slots : new.id \notin saves[j].dels
      BY <2>2 DEF FreeIds
    <2>8. QED
      BY <2>1, <2>4, <2>5, <2>6, <2>7
  <1>9. QED
    BY <1>2, <1>3, <1>4, <1>5, <1>6, <1>7, <1>8 DEF Next, SaveStep

\* A drawing of the chart on screen has as many rows as are stored for it.
LEMMA RowsOnScreen ==
    ASSUME IInv, NEW d \in Drawings, NEW ch, HomeOf[d] = ch
    PROVE  Stored(ch)[d] = Cardinality(RowsWith(d))
  <1>1. {r \in RowsOf(ch) : r.drawing = d} = RowsWith(d)
    BY DEF IInv, HomeKept, RowsOf, RowsWith
  <1>2. QED
    BY <1>1 DEF Stored

\* When everything is at rest, what is kept is in the table.
LEMMA AtRest ==
    ASSUME IInv, CalmInv, PatientInv, hitches = {}, Settled, NEW d \in Drawings
    PROVE  Cardinality(RowsWith(d)) = Due(d)
  <1>1. KeptSomewhere
    BY DEF PatientInv
  <1>2. CASE HomeOf[d] = chart /\ chart # None
    <2>1. Stored(chart) = tools
      BY <1>2 DEF CalmInv, Calm, OnTheWay, Settled
    <2>2. tools[d] = Due(d)
      BY <1>1, <1>2 DEF KeptSomewhere, Settled
    <2>3. QED
      BY <1>2, <2>1, <2>2, RowsOnScreen
  <1>3. CASE HomeOf[d] # chart
    BY <1>1, <1>3 DEF KeptSomewhere
  <1>4. chart # None \/ HomeOf[d] # chart
    BY SyncAssumption DEF SyncAssumption
  <1>5. QED
    BY <1>2, <1>3, <1>4

\* The steps that change neither the table nor what is being saved.
LEMMA PatientUser ==
    ASSUME SyncAssumption, IInv, CalmInv, PatientInv, hitches = {},
           \/ \E ch \in Charts : Mount(ch)
           \/ Unmount
           \/ CloseTab
           \/ \E d \in Drawings : Draw(d) \/ Erase(d)
           \/ \E d, e \in Drawings : Change(d, e)
           \/ Rest
    PROVE  PatientInv'
  <1> USE DEF SavesOfScreen, ServedIsStored, KeptSomewhere
  <1>1. SavesOfScreen /\ ServedIsStored /\ KeptSomewhere
    BY DEF PatientInv
  <1>2. \A d \in Drawings : RowsWith(d)' = RowsWith(d)
    BY DEF Mount, Unmount, CloseTab, Draw, Erase, Change, Rest, RowsWith
  <1>3. ASSUME NEW ch \in Charts, Mount(ch) PROVE PatientInv'
    <2>1. /\ chart = None /\ chart' = ch /\ load'.phase = "asked"
          /\ UNCHANGED <<saves, rows, kept>>
      BY <1>3 DEF Mount, NoLoad
    <2>2. \A d \in Drawings : HomeOf[d] # None
      BY SyncAssumption DEF SyncAssumption
    <2>3. \A d \in Drawings : Cardinality(RowsWith(d)) = Due(d)
      BY <1>1, <2>1, <2>2
    <2>4. KeptSomewhere'
      BY <1>2, <2>1, <2>3 DEF Due
    <2>5. \A i \in Slots : saves[i].phase = "none"
      BY <1>1, <2>1
    <2>6. QED
      BY <2>1, <2>4, <2>5 DEF PatientInv
  <1>4. CASE Unmount \/ CloseTab
    <2>1. /\ Settled
          /\ UNCHANGED <<rows, kept>>
          /\ chart' = None
          /\ load' = NoLoad
          /\ saves' = saves \/ saves' = [i \in Slots |-> NoSave]
      BY <1>4 DEF Unmount, CloseTab, MayLeave
    <2>2. \A i \in Slots : saves'[i].phase = "none"
      BY <2>1 DEF Settled, Saving, NoSave
    <2>3. \A d \in Drawings : Cardinality(RowsWith(d)) = Due(d)
      BY <2>1, AtRest
    <2>4. \A d \in Drawings : HomeOf[d] # chart'
      BY <2>1, SyncAssumption DEF SyncAssumption
    <2>5. KeptSomewhere'
      BY <1>2, <2>1, <2>3, <2>4 DEF Due
    <2>6. QED
      BY <2>1, <2>2, <2>5 DEF PatientInv, NoLoad
  <1>5. ASSUME NEW d \in Drawings, Draw(d) PROVE PatientInv'
    <2>1. /\ load.phase = "none" /\ HomeOf[d] = chart
          /\ UNCHANGED <<chart, load, saves, rows>>
          /\ tools' = [tools EXCEPT ![d] = 1] /\ kept' = kept \cup {d}
      BY <1>5 DEF Draw, MayEdit, Fresh
    <2>2. tools \in Bags
      BY DEF IInv, TypeOK
    <2>3. KeptSomewhere'
      BY <1>1, <1>2, <2>1, <2>2 DEF Due, Bags
    <2>4. QED
      BY <1>1, <2>1, <2>3 DEF PatientInv
  <1>6. ASSUME NEW d \in Drawings, Erase(d) PROVE PatientInv'
    <2>1. /\ load.phase = "none" /\ tools[d] > 0
          /\ UNCHANGED <<chart, load, saves, rows>>
          /\ tools' = [tools EXCEPT ![d] = @ - 1] /\ kept' = kept \ {d}
      BY <1>6 DEF Erase, MayEdit
    <2>2. tools \in Bags /\ HomeOf[d] = chart
      BY <2>1 DEF IInv, TypeOK, HomeKept
    <2>3. tools[d] = 1
      BY <1>1, <2>1, <2>2 DEF Due
    <2>4. KeptSomewhere'
      BY <1>1, <1>2, <2>1, <2>2, <2>3 DEF Due, Bags
    <2>5. QED
      BY <1>1, <2>1, <2>4 DEF PatientInv
  <1>7. ASSUME NEW d \in Drawings, NEW e \in Drawings, Change(d, e) PROVE PatientInv'
    <2>1. /\ load.phase = "none" /\ tools[d] > 0 /\ tools[e] = 0
          /\ HomeOf[e] = chart
          /\ UNCHANGED <<chart, load, saves, rows>>
          /\ tools' = [tools EXCEPT ![d] = @ - 1, ![e] = 1]
          /\ kept' = (kept \ {d}) \cup {e}
      BY <1>7 DEF Change, MayEdit, Fresh
    <2>2. tools \in Bags /\ HomeOf[d] = chart
      BY <2>1 DEF IInv, TypeOK, HomeKept
    <2>3. tools[d] = 1 /\ d # e
      BY <1>1, <2>1, <2>2 DEF Due
    <2>4. KeptSomewhere'
      BY <1>1, <1>2, <2>1, <2>2, <2>3 DEF Due, Bags
    <2>5. QED
      BY <1>1, <2>1, <2>4 DEF PatientInv
  <1>8. CASE Rest
    BY <1>1, <1>8 DEF Rest, PatientInv, Stored, RowsOf, RowsWith, Due
  <1>9. QED
    BY <1>3, <1>4, <1>5, <1>6, <1>7, <1>8

LEMMA PatientLoad ==
    ASSUME SyncAssumption, IInv, PatientInv, hitches = {}, LoadStep
    PROVE  PatientInv'
  <1> USE DEF SavesOfScreen, ServedIsStored, KeptSomewhere
  <1>1. SavesOfScreen /\ ServedIsStored /\ KeptSomewhere
    BY DEF PatientInv
  <1>2. UNCHANGED <<chart, saves, rows, kept>> /\ load.phase # "none"
    BY DEF LoadStep, ServeLoad, FinishLoad, FailLoad
  <1>3. \A d \in Drawings : RowsWith(d)' = RowsWith(d) /\ Due(d)' = Due(d)
    BY <1>2 DEF RowsWith, Due
  <1>4. \A i \in Slots : saves[i].phase = "none"
    BY <1>1, <1>2
  <1>5. CASE ServeLoad
    <2>1. load'.phase = "served" /\ load'.got = Stored(chart)
      BY <1>5 DEF ServeLoad
    <2>2. ServedIsStored'
      BY <1>2, <2>1 DEF Stored, RowsOf
    <2>3. QED
      BY <1>1, <1>2, <1>3, <1>4, <2>1, <2>2 DEF PatientInv
  <1>6. CASE FinishLoad
    <2>1. tools' = Stored(chart) /\ load'.phase = "none"
      BY <1>1, <1>6 DEF FinishLoad, NoLoad
    <2>2. \A d \in Drawings : HomeOf[d] = chart => tools'[d] = Due(d)
      BY <1>1, <1>2, <2>1, RowsOnScreen
    <2>3. KeptSomewhere'
      BY <1>1, <1>2, <1>3, <2>1, <2>2
    <2>4. QED
      BY <1>2, <1>4, <2>1, <2>3 DEF PatientInv
  <1>7. CASE FailLoad
    BY <1>7 DEF FailLoad
  <1>8. QED
    BY <1>5, <1>6, <1>7 DEF LoadStep

\* The steps of a save only touch rows of the chart on screen.
LEMMA PatientSave ==
    ASSUME SyncAssumption, IInv, IInv', RowInv, PatientInv, hitches = {},
           NEW i \in Slots, StartSave(i) \/ SaveStep(i)
    PROVE  PatientInv'
  <1> USE DEF SavesOfScreen, ServedIsStored, KeptSomewhere
  <1>1. SavesOfScreen /\ ServedIsStored /\ KeptSomewhere
    BY DEF PatientInv
  <1>2. UNCHANGED <<chart, tools, load, kept>>
    BY DEF StartSave, SaveStep, SaveGet, SaveDelete, SaveCreate, FailSave
  <1>3. load.phase = "none"
    <2>1. CASE StartSave(i)
      BY <2>1 DEF StartSave
    <2>2. CASE SaveStep(i)
      BY <1>1, <2>2 DEF SaveStep, SaveGet, SaveDelete, SaveCreate, FailSave
    <2>3. QED
      BY <2>1, <2>2
  <1>4. SavesOfScreen'
    <2>1. \A j \in Slots : j # i => saves'[j] = saves[j]
      <3>1. \E t : saves' = [saves EXCEPT ![i] = t]
        BY DEF StartSave, SaveStep, SaveGet, SaveDelete, SaveCreate, FailSave
      <3>2. QED
        BY <3>1 DEF IInv, TypeOK
    <2>2. saves'[i].phase # "none" => chart # None /\ saves'[i].chart = chart
      <3> DEFINE s == saves[i]
      <3>1. s \in Saves
        BY DEF IInv, TypeOK
      <3>2. CASE StartSave(i)
        BY <3>2 DEF StartSave, IInv, TypeOK
      <3>3. CASE SaveStep(i)
        <4>1. chart # None /\ s.chart = chart
          BY <1>1, <3>3 DEF SaveStep, SaveGet, SaveDelete, SaveCreate, FailSave
        <4>2. CASE SaveGet(i)
          BY <3>1, <4>1, <4>2 DEF SaveGet, Proceed, NoSave, Saves, IInv, TypeOK
        <4>3. ASSUME NEW id \in Ids, SaveDelete(i, id)
              PROVE  saves'[i].phase # "none" => chart # None /\ saves'[i].chart = chart
          BY <3>1, <4>1, <4>3 DEF SaveDelete, Proceed, NoSave, Saves, IInv, TypeOK
        <4>4. ASSUME NEW d \in Drawings, SaveCreate(i, d)
              PROVE  saves'[i].phase # "none" => chart # None /\ saves'[i].chart = chart
          BY <3>1, <4>1, <4>4 DEF SaveCreate, Proceed, NoSave, Saves, IInv, TypeOK
        <4>5. CASE FailSave(i)
          BY <4>5 DEF FailSave
        <4>6. QED
          BY <3>3, <4>2, <4>3, <4>4, <4>5 DEF SaveStep
      <3>4. QED
        BY <3>2, <3>3
    <2>3. QED
      BY <1>1, <1>2, <1>3, <2>1, <2>2
  <1>5. \A d \in Drawings : HomeOf[d] # chart => RowsWith(d)' = RowsWith(d)
    <2>1. CASE StartSave(i) \/ SaveGet(i) \/ FailSave(i)
      BY <2>1 DEF StartSave, SaveGet, FailSave, RowsWith
    <2>2. ASSUME NEW id \in Ids, SaveDelete(i, id),
                 NEW d \in Drawings, HomeOf[d] # chart
          PROVE  RowsWith(d)' = RowsWith(d)
      <3>1. /\ saves[i].phase # "none" /\ id \in saves[i].dels
            /\ rows' = {r \in rows : r.id # id}
        BY <2>2 DEF SaveDelete
      <3>2. \A r \in rows : r.id = id => HomeOf[r.drawing] = chart
        BY <1>1, <3>1 DEF RowInv, ListedAreMine, IInv, HomeKept
      <3>3. QED
        BY <2>2, <3>1, <3>2 DEF RowsWith
    <2>3. ASSUME NEW e \in Drawings, SaveCreate(i, e),
                 NEW d \in Drawings, HomeOf[d] # chart
          PROVE  RowsWith(d)' = RowsWith(d)
      <3> DEFINE new == [id |-> CHOOSE id \in FreeIds : TRUE,
                         chart |-> saves[i].chart, drawing |-> e]
      <3>1. saves[i].phase # "none" /\ rows' = rows \cup {new}
        BY <2>3 DEF SaveCreate
      <3>2. new.drawing = e /\ new.chart = saves[i].chart
        OBVIOUS
      <3> HIDE DEF new
      <3>3. new \in rows'
        BY <3>1
      <3>4. HomeOf[e] = chart
        BY <1>1, <3>1, <3>2, <3>3 DEF IInv, HomeKept
      <3>5. d # e
        BY <2>3, <3>4
      <3>6. QED
        BY <3>1, <3>2, <3>5 DEF RowsWith
    <2>4. QED
      BY <2>1, <2>2, <2>3 DEF SaveStep
  <1>6. QED
    BY <1>1, <1>2, <1>3, <1>4, <1>5 DEF PatientInv, Due

\* With a patient user and a quick, reliable server the table holds, once the
\* autosave is at rest, what the user drew and did not delete, once each.
THEOREM NothingIsLost == Spec => []NothingLost
  <1>1. Init => CalmInv /\ RowInv /\ PatientInv
    <2> SUFFICES ASSUME Init PROVE CalmInv /\ RowInv /\ PatientInv
      OBVIOUS
    <2>1. CalmInv
      BY DEF Init, CalmInv, OneSave, ListedAreThere, OnTheWay, NoSave
    <2>2. RowInv
      BY DEF Init, RowInv, IdsApart, ListedAreMine
    <2>3. \A d \in Drawings : Cardinality(RowsWith(d)) = 0 /\ Due(d) = 0
      BY FS_EmptySet DEF Init, RowsWith, Due
    <2>4. PatientInv
      BY <2>3, SyncAssumption
      DEF SyncAssumption, Init, PatientInv, SavesOfScreen, ServedIsStored,
          KeptSomewhere, NoSave, NoLoad
    <2>5. QED
      BY <2>1, <2>2, <2>4
  <1>2. IInv /\ IInv' /\ CalmInv /\ RowInv /\ PatientInv /\ [Next]_vars
          => CalmInv' /\ RowInv' /\ PatientInv'
    <2> SUFFICES ASSUME IInv, IInv', CalmInv, RowInv, PatientInv, [Next]_vars
                 PROVE  CalmInv' /\ RowInv' /\ PatientInv'
      OBVIOUS
    <2>1. CalmInv'
      BY NextCalm
    <2>2. RowInv'
      BY SyncAssumption, NextRowInv
    <2> SUFFICES PatientInv'
      BY <2>1, <2>2
    <2>3. hitches' = hitches
      BY DEF Next, vars, Mount, Unmount, CloseTab, Draw, Erase, Change, Rest,
             LoadStep, ServeLoad, FinishLoad, FailLoad, StartSave, SaveStep,
             SaveGet, SaveDelete, SaveCreate, FailSave
    <2>4. CASE UNCHANGED vars
      <3>1. \A d \in Drawings : RowsWith(d)' = RowsWith(d) /\ Due(d)' = Due(d)
        BY <2>4 DEF vars, RowsWith, Due
      <3>2. Stored(chart)' = Stored(chart)
        BY <2>4 DEF vars, Stored, RowsOf
      <3>3. QED
        BY <2>4, <3>1, <3>2
        DEF vars, PatientInv, SavesOfScreen, ServedIsStored, KeptSomewhere
    <2>5. CASE Next /\ hitches = {}
      <3>1. CASE LoadStep
        BY <2>5, <3>1, SyncAssumption, PatientLoad
      <3>2. ASSUME NEW i \in Slots, StartSave(i) \/ SaveStep(i) PROVE PatientInv'
        BY <2>5, <3>2, SyncAssumption, PatientSave
      <3>3. CASE \/ \E ch \in Charts : Mount(ch)
                 \/ Unmount
                 \/ CloseTab
                 \/ \E d \in Drawings : Draw(d) \/ Erase(d)
                 \/ \E d, e \in Drawings : Change(d, e)
                 \/ Rest
        BY <2>5, <3>3, SyncAssumption, PatientUser
      <3>4. QED
        BY <2>5, <3>1, <3>2, <3>3 DEF Next
    <2>6. QED
      BY <2>3, <2>4, <2>5 DEF PatientInv
  <1>3. IInv /\ CalmInv /\ PatientInv => NothingLost
    <2> SUFFICES ASSUME IInv, CalmInv, PatientInv, hitches = {}, Settled,
                        NEW d \in Drawings
                 PROVE  Cardinality({r \in rows : r.drawing = d})
                          = (IF d \in kept THEN 1 ELSE 0)
      BY DEF NothingLost, KeptDespite
    <2>1. QED
      BY AtRest DEF RowsWith, Due
  <1>4. QED
    BY <1>1, <1>2, <1>3, Invariance, PTL DEF Spec
=============================================================================
