--------------------------- MODULE UEditor_proofs ---------------------------
(***************************************************************************)
(* The two parts of the rich text editor that are proved about: the undo   *)
(* list, for any contents, carets and limits, and the dialog that uploads  *)
(* images, for any files, any number of threads and any number of pauses.  *)
(***************************************************************************)
EXTENDS UndoManager, UploadDialog, WellFoundedInduction, FiniteSetTheorems, TLAPS

-----------------------------------------------------------------------------
(* The undo list.                                                          *)

(* The list never holds more than it may, the index points into it, and    *)
(* hasUndo and hasRedo tell whether there is a scene before and behind.    *)
Fits(e) ==
    /\ e \in EditorStates
    /\ Len(e.list) <= maxUndoCount
    /\ e.index \in 1..(IF e.list = <<>> THEN 1 ELSE Len(e.list))
    /\ e.hasUndo <=> e.index - 1 \in DOMAIN e.list
    /\ e.hasRedo <=> e.index + 1 \in DOMAIN e.list

(* A composition begins only where its interval has a place.               *)
Waits(e) == e.inputType /\ e.saveSceneTimer # "none" => e.intervals < MaxIntervals

Quiet(e) == e.saveSceneTimer = "none" /\ e.intervals = 0 => e.unsaved <= 1

UndoInv == Fits(ed) /\ Waits(ed) /\ Quiet(ed)

-----------------------------------------------------------------------------
\* A set of natural numbers that has a member has a least one.
LEMMA MinIsLeast ==
  ASSUME NEW S \in SUBSET Nat, S # {}
  PROVE  Min(S) \in S /\ \A x \in S : Min(S) <= x
<1>1. PICK x \in S : \A y \in S : ~(<<y, x>> \in OpToRel(<, Nat))
  BY NatLessThanWellFounded, WFMin, Zenon
<1>2. ASSUME NEW y \in S, y < x
      PROVE  FALSE
  <2>1. <<y, x>> \in Nat \X Nat /\ <<y, x>>[1] < <<y, x>>[2]
    BY <1>2
  <2>2. <<y, x>> \in OpToRel(<, Nat)
    BY <2>1 DEF OpToRel
  <2> QED BY <1>1, <2>2
<1>3. x \in S /\ \A y \in S : x <= y
  BY <1>2
<1> QED BY <1>3 DEF Min

\* One that has a bound has a greatest one.
LEMMA MaxIsGreatest ==
  ASSUME NEW n \in Nat, NEW S \in SUBSET (0..n), S # {}
  PROVE  Max(S) \in S /\ \A x \in S : x <= Max(S)
<1> DEFINE gaps == {k \in 0..n : n - k \in S}
<1>1. gaps \in SUBSET Nat /\ gaps # {}
  <2>1. PICK x \in S : x \in 0..n
    OBVIOUS
  <2>2. n - x \in 0..n /\ n - (n - x) = x
    BY <2>1
  <2>3. n - x \in gaps
    BY <2>1, <2>2
  <2>4. gaps \in SUBSET Nat
    OBVIOUS
  <2> QED BY <2>3, <2>4
<1>2. Min(gaps) \in gaps /\ \A k \in gaps : Min(gaps) <= k
  BY <1>1, MinIsLeast
<1>3. ASSUME NEW y \in S
      PROVE  y <= n - Min(gaps)
  <2>1. n - y \in 0..n /\ n - (n - y) = y
    OBVIOUS
  <2> QED BY <1>2, <2>1
<1>4. n - Min(gaps) \in S /\ \A y \in S : n - Min(gaps) >= y
  BY <1>2, <1>3
<1>5. \E x \in S : \A y \in S : x >= y
  BY <1>4
<1> QED BY <1>5 DEF Max

\* The lesser of two numbers.
LEMMA MinOfTwo ==
  ASSUME NEW a \in Nat, NEW b \in Nat
  PROVE  Min({a, b}) = IF a <= b THEN a ELSE b
  BY MinIsLeast

-----------------------------------------------------------------------------
\* Updates of the editor's state that keep the types: the timer and the keys
\* not saved.
LEMMA TimerTyped ==
  ASSUME NEW e \in EditorStates, NEW t \in {"none", "set", "due"}, NEW u \in 0..2
  PROVE  [e EXCEPT !.saveSceneTimer = t, !.unsaved = u] \in EditorStates
  BY DEF EditorStates

\* A list and an index.
LEMMA ListTyped ==
  ASSUME NEW e \in EditorStates, NEW list \in Seq(Scenes), NEW index \in Nat
  PROVE  [e EXCEPT !.list = list, !.index = index] \in EditorStates
  BY DEF EditorStates

\* The count of keys.
LEMMA KeyTyped ==
  ASSUME NEW e \in EditorStates
  PROVE  /\ clearKey(e) \in EditorStates
         /\ clearKey(e) = [e EXCEPT !.keycont = clearKey(e).keycont]
<1>1. ASSUME NEW k \in Nat
      PROVE  [e EXCEPT !.keycont = k] \in EditorStates
  BY DEF EditorStates
<1>2. 0 \in Nat
  OBVIOUS
<1>3. [e EXCEPT !.keycont = 0] \in EditorStates
  BY <1>1, <1>2, Zenon
<1> QED BY <1>3 DEF clearKey, EditorStates

\* hasUndo and hasRedo, which are then what Fits says.
LEMMA FlagsTyped ==
  ASSUME NEW e \in EditorStates
  PROVE  /\ updated(e) \in EditorStates
         /\ updated(e).hasUndo <=> e.index - 1 \in DOMAIN e.list
         /\ updated(e).hasRedo <=> e.index + 1 \in DOMAIN e.list
<1> DEFINE before == e.index - 1 \in DOMAIN e.list
           behind == e.index + 1 \in DOMAIN e.list
<1>1. ASSUME NEW u \in BOOLEAN, NEW r \in BOOLEAN
      PROVE  [e EXCEPT !.hasUndo = u, !.hasRedo = r] \in EditorStates
  BY DEF EditorStates
<1>2. before \in BOOLEAN /\ behind \in BOOLEAN
  OBVIOUS
<1>3. updated(e) = [e EXCEPT !.hasUndo = before, !.hasRedo = behind]
  BY DEF updated
<1> HIDE DEF before, behind
<1>4. updated(e) \in EditorStates
  BY <1>1, <1>2, <1>3, Zenon
<1>5. updated(e).hasUndo = before /\ updated(e).hasRedo = behind
  BY <1>3 DEF EditorStates
<1> QED BY <1>4, <1>5 DEF before, behind

-----------------------------------------------------------------------------
\* A new list with an index into it fits once the flags are brought up to date.
LEMMA NewListFits ==
  ASSUME NEW e \in EditorStates, Len(e.list) <= maxUndoCount,
         e.index \in 1..(IF e.list = <<>> THEN 1 ELSE Len(e.list))
  PROVE  LET s == updated(clearKey(e))
         IN  /\ Fits(s)
             /\ s.saveSceneTimer = e.saveSceneTimer /\ s.unsaved = e.unsaved
             /\ s.doc = e.doc /\ s.intervals = e.intervals /\ s.inputType = e.inputType
             /\ s.list = e.list /\ s.index = e.index
<1> DEFINE c == clearKey(e)
           s == updated(c)
<1>1. c \in EditorStates /\ c.list = e.list /\ c.index = e.index /\ c.doc = e.doc
      /\ c.saveSceneTimer = e.saveSceneTimer /\ c.unsaved = e.unsaved
      /\ c.intervals = e.intervals /\ c.inputType = e.inputType
  <2>1. c \in EditorStates
    BY KeyTyped
  <2> QED BY <2>1 DEF clearKey, EditorStates
<1> HIDE DEF c
<1>2. s \in EditorStates /\ (s.hasUndo <=> c.index - 1 \in DOMAIN c.list)
      /\ (s.hasRedo <=> c.index + 1 \in DOMAIN c.list)
  BY <1>1, FlagsTyped
<1>3. s.list = c.list /\ s.index = c.index /\ s.doc = c.doc
      /\ s.saveSceneTimer = c.saveSceneTimer /\ s.unsaved = c.unsaved
      /\ s.intervals = c.intervals /\ s.inputType = c.inputType
  BY <1>1 DEF updated, EditorStates
<1> HIDE DEF s
<1>4. Fits(s)
  BY <1>1, <1>2, <1>3 DEF Fits
<1> QED BY <1>1, <1>3, <1>4 DEF s, c

\* save leaves no timer and no key unsaved, and touches nothing else than the
\* list.
LEMMA SaveFits ==
  ASSUME NEW e, Fits(e), NEW notCompareRange \in BOOLEAN
  PROVE  LET s == save(e, notCompareRange)
         IN  /\ Fits(s)
             /\ s.saveSceneTimer = "none" /\ s.unsaved = 0
             /\ s.doc = e.doc /\ s.intervals = e.intervals /\ s.inputType = e.inputType
<1> DEFINE stopped == [e EXCEPT !.saveSceneTimer = "none", !.unsaved = 0]
           n == Min({e.index, Len(e.list)})
           longer == Append(SubSeq(e.list, 1, n), e.doc)
           list == IF Len(longer) > maxUndoCount THEN Tail(longer) ELSE longer
           moved == [stopped EXCEPT !.list = list, !.index = Len(list)]
           s == save(e, notCompareRange)
<1>1. s = stopped \/ s = updated(clearKey(moved))
  BY DEF save
<1>2. e \in EditorStates /\ e.list \in Seq(Scenes) /\ Len(e.list) \in 0..maxUndoCount
      /\ e.doc \in Scenes /\ e.index \in Nat
  BY DEF Fits, EditorStates
<1>3. stopped \in EditorStates
  <2>1. "none" \in {"none", "set", "due"} /\ 0 \in 0..2
    OBVIOUS
  <2> QED BY <1>2, <2>1, TimerTyped, Zenon
<1>4. stopped.list = e.list /\ stopped.index = e.index /\ stopped.hasUndo = e.hasUndo
      /\ stopped.hasRedo = e.hasRedo /\ stopped.saveSceneTimer = "none" /\ stopped.unsaved = 0
      /\ stopped.doc = e.doc /\ stopped.intervals = e.intervals /\ stopped.inputType = e.inputType
  BY <1>2 DEF EditorStates
<1> HIDE DEF stopped
<1>5. Fits(stopped)
  BY <1>3, <1>4 DEF Fits
<1>6. n \in 0..Len(e.list)
  BY <1>2, MinOfTwo
<1> HIDE DEF n
<1>7. longer \in Seq(Scenes) /\ Len(longer) = n + 1
  <2>1. SubSeq(e.list, 1, n) \in Seq(Scenes) /\ Len(SubSeq(e.list, 1, n)) = n
    BY <1>2, <1>6
  <2> QED BY <1>2, <2>1
<1> HIDE DEF longer
<1>8. list \in Seq(Scenes) /\ Len(list) \in 1..maxUndoCount
  BY <1>2, <1>6, <1>7, UndoAssumption
<1> HIDE DEF list
<1>9. moved \in EditorStates
  <2>1. Len(list) \in Nat
    BY <1>8
  <2> QED BY <1>3, <1>8, <2>1, ListTyped, Zenon
<1>10. moved.list = list /\ moved.index = Len(list) /\ moved.saveSceneTimer = "none"
       /\ moved.unsaved = 0 /\ moved.doc = e.doc /\ moved.intervals = e.intervals
       /\ moved.inputType = e.inputType
  BY <1>3, <1>4 DEF EditorStates
<1> HIDE DEF moved
<1>11. Fits(updated(clearKey(moved)))
       /\ updated(clearKey(moved)).saveSceneTimer = "none" /\ updated(clearKey(moved)).unsaved = 0
       /\ updated(clearKey(moved)).doc = e.doc /\ updated(clearKey(moved)).intervals = e.intervals
       /\ updated(clearKey(moved)).inputType = e.inputType
  <2>1. moved.list # <<>> /\ Len(moved.list) <= maxUndoCount /\ moved.index \in 1..Len(moved.list)
    BY <1>8, <1>10
  <2> QED BY <1>9, <1>10, <2>1, NewListFits
<1> QED BY <1>1, <1>4, <1>5, <1>11

\* restore takes a scene of the list into the document.
LEMMA RestoreFits ==
  ASSUME NEW e, Fits(e), NEW index \in DOMAIN e.list
  PROVE  LET s == restore(e, index)
         IN  /\ Fits(s)
             /\ s.unsaved = 0 /\ s.index = index /\ s.list = e.list /\ s.doc = e.list[index]
             /\ s.saveSceneTimer = e.saveSceneTimer /\ s.intervals = e.intervals
             /\ s.inputType = e.inputType
<1> DEFINE moved == [e EXCEPT !.index = index, !.doc = e.list[index], !.unsaved = 0]
<1>1. e \in EditorStates /\ e.list \in Seq(Scenes) /\ index \in 1..Len(e.list)
      /\ e.list[index] \in Scenes /\ Len(e.list) <= maxUndoCount
  BY DEF Fits, EditorStates
<1>2. moved \in EditorStates
  <2>1. ASSUME NEW k \in Nat, NEW d \in Scenes, NEW u \in 0..2
        PROVE  [e EXCEPT !.index = k, !.doc = d, !.unsaved = u] \in EditorStates
    BY <1>1 DEF EditorStates
  <2>2. index \in Nat /\ 0 \in 0..2
    BY <1>1
  <2> QED BY <1>1, <2>1, <2>2, Zenon
<1>3. moved.index = index /\ moved.doc = e.list[index] /\ moved.unsaved = 0 /\ moved.list = e.list
      /\ moved.saveSceneTimer = e.saveSceneTimer /\ moved.intervals = e.intervals
      /\ moved.inputType = e.inputType
  BY <1>1 DEF EditorStates
<1>4. restore(e, index) = updated(clearKey(moved))
  BY DEF restore
<1> HIDE DEF moved
<1>5. moved.list # <<>> /\ moved.index \in 1..Len(moved.list)
  BY <1>1, <1>3
<1> QED BY <1>1, <1>2, <1>3, <1>4, <1>5, NewListFits

\* An undo goes to the scene before the last one in which the content changed.
LEMMA UndoTarget ==
  ASSUME NEW e, Fits(e), e.hasUndo
  PROVE  \E k \in 1..(e.index - 1) :
            /\ k \in DOMAIN e.list
            /\ undo(e) = restore(e, k)
            /\ \A m \in (k + 1)..e.index : e.list[m].content = e.list[e.index].content
            /\ e.list[k].content = e.list[e.index].content => k = 1
<1> DEFINE changes == {k \in 2..e.index : e.list[k].content # e.list[k - 1].content}
           goal == IF changes = {} THEN 1 ELSE Max(changes) - 1
<1>1. e.list \in Seq(Scenes) /\ e.index \in 2..Len(e.list) /\ Len(e.list) \in Nat
  BY DEF Fits, EditorStates
<1>2. undo(e) = restore(e, goal)
  BY DEF undo
<1>3. changes \in SUBSET (0..e.index) /\ e.index \in Nat
      /\ \A k \in changes : k \in 2..e.index /\ e.list[k].content # e.list[k - 1].content
  BY <1>1
<1>4. changes # {} => Max(changes) \in changes /\ \A k \in changes : k <= Max(changes)
  <2> HIDE DEF changes
  <2> QED BY <1>3, MaxIsGreatest
<1>5. goal \in 1..(e.index - 1) /\ \A k \in (goal + 2)..e.index : k \notin changes
  <2>1. CASE changes = {}
    BY <1>1, <2>1
  <2>2. CASE changes # {}
    <3>1. PICK x \in changes : x = Max(changes) /\ \A k \in changes : k <= x
      BY <1>4, <2>2
    <3>2. goal = x - 1 /\ x \in 2..e.index
      BY <1>3, <2>2, <3>1
    <3> HIDE DEF goal
    <3>3. \A k \in (goal + 2)..e.index : k \notin changes
      BY <1>1, <3>1, <3>2
    <3> QED BY <1>1, <3>2, <3>3
  <2> QED BY <2>1, <2>2
<1> DEFINE others == {m \in 0..e.index : m > goal /\ e.list[m].content # e.list[e.index].content}
<1> HIDE DEF goal
<1>6. others = {}
  <2> SUFFICES ASSUME others # {} PROVE FALSE
    OBVIOUS
  <2>1. Max(others) \in others /\ \A m \in others : m <= Max(others)
    <3>1. others \in SUBSET (0..e.index)
      OBVIOUS
    <3> HIDE DEF others
    <3> QED BY <1>3, <3>1, MaxIsGreatest
  <2>2. PICK m \in others : \A x \in others : x <= m
    BY <2>1
  <2>3. m < e.index /\ m > goal /\ m \in Nat
    BY <1>1, <2>2
  <2>4. m + 1 \notin others /\ m + 1 \in (goal + 2)..e.index
    BY <1>1, <1>5, <2>2, <2>3
  <2>5. e.list[m + 1].content = e.list[m].content
    BY <1>1, <1>5, <2>3, <2>4
  <2> QED BY <1>1, <1>5, <2>2, <2>3, <2>4, <2>5
<1>7. e.list[goal].content = e.list[e.index].content => goal = 1
  <2> SUFFICES ASSUME e.list[goal].content = e.list[e.index].content, goal # 1 PROVE FALSE
    OBVIOUS
  <2>1. changes # {} /\ goal = Max(changes) - 1
    BY DEF goal
  <2>2. goal + 1 \in changes
    <3>1. Max(changes) \in changes /\ Max(changes) \in Nat
      BY <1>4, <1>3, <2>1
    <3> HIDE DEF changes
    <3>2. goal + 1 = Max(changes)
      BY <2>1, <3>1
    <3> QED BY <3>1, <3>2
  <2>3. e.list[goal + 1].content = e.list[e.index].content
    BY <1>1, <1>5, <1>6, <2>2
  <2> QED BY <1>5, <2>2, <2>3
<1>8. goal \in DOMAIN e.list
  BY <1>1, <1>5
<1>9. \A m \in (goal + 1)..e.index : e.list[m].content = e.list[e.index].content
  BY <1>1, <1>5, <1>6
<1> QED BY <1>2, <1>5, <1>7, <1>8, <1>9

\* A redo goes to the next scene in which the content changes.
LEMMA RedoTarget ==
  ASSUME NEW e, Fits(e), e.hasRedo
  PROVE  \E k \in (e.index + 1)..Len(e.list) :
            /\ k \in DOMAIN e.list
            /\ redo(e) = restore(e, k)
            /\ \A m \in e.index..(k - 1) : e.list[m].content = e.list[e.index].content
<1> DEFINE changes == {k \in (e.index + 1)..Len(e.list) : e.list[k].content # e.list[k - 1].content}
           goal == IF changes = {} THEN Len(e.list) ELSE Min(changes)
<1>1. e.list \in Seq(Scenes) /\ e.index \in 1..(Len(e.list) - 1) /\ Len(e.list) \in Nat
  BY DEF Fits, EditorStates
<1>2. redo(e) = restore(e, goal)
  BY DEF redo
<1>3. changes \in SUBSET Nat /\ changes \in SUBSET ((e.index + 1)..Len(e.list))
  BY <1>1
<1>4. changes # {} => Min(changes) \in changes /\ \A k \in changes : Min(changes) <= k
  <2> HIDE DEF changes
  <2> QED BY <1>3, MinIsLeast
<1>5. goal \in (e.index + 1)..Len(e.list) /\ \A k \in (e.index + 1)..(goal - 1) : k \notin changes
  <2>1. CASE changes = {}
    BY <1>1, <2>1
  <2>2. CASE changes # {}
    <3> HIDE DEF changes
    <3>1. PICK x \in changes : x = Min(changes) /\ \A k \in changes : x <= k
      BY <1>4, <2>2
    <3>2. goal = x /\ x \in (e.index + 1)..Len(e.list)
      BY <1>3, <2>2, <3>1
    <3> HIDE DEF goal
    <3> QED BY <1>1, <3>1, <3>2
  <2> QED BY <2>1, <2>2
<1> DEFINE others == {m \in Nat : m \in e.index..(goal - 1) /\ e.list[m].content # e.list[e.index].content}
<1> HIDE DEF goal
<1>6. others = {}
  <2> SUFFICES ASSUME others # {} PROVE FALSE
    OBVIOUS
  <2>1. Min(others) \in others /\ \A m \in others : Min(others) <= m
    <3>1. others \in SUBSET Nat
      OBVIOUS
    <3> HIDE DEF others
    <3> QED BY <3>1, MinIsLeast
  <2>2. PICK m \in others : \A x \in others : m <= x
    BY <2>1
  <2>3. m > e.index /\ m < goal /\ m \in Nat
    BY <1>1, <1>5, <2>2
  <2>4. m - 1 \notin others /\ m \in (e.index + 1)..(goal - 1) /\ m - 1 \in Nat
    BY <1>1, <1>5, <2>2, <2>3
  <2>5. m \in (e.index + 1)..Len(e.list) /\ m \notin changes
    BY <1>1, <1>5, <2>3, <2>4
  <2>6. e.list[m].content = e.list[m - 1].content
    BY <2>5
  <2> QED BY <1>1, <1>5, <2>2, <2>3, <2>4, <2>6
<1>7. goal \in DOMAIN e.list
  BY <1>1, <1>5
<1>8. \A m \in e.index..(goal - 1) : e.list[m].content = e.list[e.index].content
  BY <1>1, <1>5, <1>6
<1> QED BY <1>2, <1>5, <1>7, <1>8

\* A redo after an undo that changed a saved document.
LEMMA RedoTakesBack ==
  ASSUME NEW e, Fits(e), e.index \in DOMAIN e.list, e.doc.content = e.list[e.index].content,
         undo(e).doc.content # e.doc.content
  PROVE  redo(undo(e)).doc.content = e.doc.content
<1>1. e.hasUndo
  BY DEF undo
<1>2. PICK k \in 1..(e.index - 1) :
         /\ k \in DOMAIN e.list
         /\ undo(e) = restore(e, k)
         /\ \A m \in (k + 1)..e.index : e.list[m].content = e.list[e.index].content
  BY <1>1, UndoTarget
<1> DEFINE u == undo(e)
<1>3. Fits(u) /\ u.index = k /\ u.list = e.list /\ u.doc = e.list[k]
  BY <1>2, RestoreFits
<1> HIDE DEF u
<1>4. e.list \in Seq(Scenes) /\ e.index \in 1..Len(e.list)
  BY DEF Fits, EditorStates
<1>5. k + 1 \in DOMAIN e.list /\ e.list[k + 1].content = e.doc.content /\ e.list[k].content # e.doc.content
  BY <1>2, <1>3, <1>4 DEF u
<1>6. u.hasRedo
  BY <1>3, <1>5 DEF Fits
<1>7. PICK j \in (u.index + 1)..Len(u.list) :
         /\ j \in DOMAIN u.list
         /\ redo(u) = restore(u, j)
         /\ \A m \in u.index..(j - 1) : u.list[m].content = u.list[u.index].content
  BY <1>3, <1>6, RedoTarget
<1>8. j = k + 1
  BY <1>2, <1>3, <1>4, <1>5, <1>7
<1>9. restore(u, j).doc = u.list[j]
  BY <1>3, <1>7, RestoreFits
<1> QED BY <1>3, <1>5, <1>7, <1>8, <1>9 DEF u

\* An undo after a redo that changed a saved document.
LEMMA UndoTakesBack ==
  ASSUME NEW e, Fits(e), e.index \in DOMAIN e.list, e.doc.content = e.list[e.index].content,
         redo(e).doc.content # e.doc.content
  PROVE  undo(redo(e)).doc.content = e.doc.content
<1>1. e.hasRedo
  BY DEF redo
<1>2. PICK k \in (e.index + 1)..Len(e.list) :
         /\ k \in DOMAIN e.list
         /\ redo(e) = restore(e, k)
         /\ \A m \in e.index..(k - 1) : e.list[m].content = e.list[e.index].content
  BY <1>1, RedoTarget
<1> DEFINE u == redo(e)
<1>3. Fits(u) /\ u.index = k /\ u.list = e.list /\ u.doc = e.list[k]
  BY <1>2, RestoreFits
<1> HIDE DEF u
<1>4. e.list \in Seq(Scenes) /\ e.index \in 1..Len(e.list)
  BY DEF Fits, EditorStates
<1>5. k - 1 \in DOMAIN e.list /\ e.list[k - 1].content = e.doc.content /\ e.list[k].content # e.doc.content
  BY <1>2, <1>3, <1>4 DEF u
<1>6. u.hasUndo
  BY <1>3, <1>5 DEF Fits
<1>7. PICK j \in 1..(u.index - 1) :
         /\ j \in DOMAIN u.list
         /\ undo(u) = restore(u, j)
         /\ \A m \in (j + 1)..u.index : u.list[m].content = u.list[u.index].content
  BY <1>3, <1>6, UndoTarget
<1>8. j = k - 1
  BY <1>2, <1>3, <1>4, <1>5, <1>7
<1>9. restore(u, j).doc = u.list[j]
  BY <1>3, <1>7, RestoreFits
<1> QED BY <1>3, <1>5, <1>7, <1>8, <1>9 DEF u

-----------------------------------------------------------------------------
\* A state with the list, index and flags of one that fits.
LEMMA SameListFits ==
  ASSUME NEW e, Fits(e), NEW f \in EditorStates,
         f.list = e.list, f.index = e.index, f.hasUndo = e.hasUndo, f.hasRedo = e.hasRedo
  PROVE  Fits(f)
  BY DEF Fits

\* Another document, as a command, a mouse or an input method leaves it.
LEMMA DocFits ==
  ASSUME NEW e, Fits(e), NEW scene \in Scenes
  PROVE  LET f == [e EXCEPT !.doc = scene]
         IN  /\ Fits(f)
             /\ f.saveSceneTimer = e.saveSceneTimer /\ f.unsaved = e.unsaved
             /\ f.intervals = e.intervals /\ f.inputType = e.inputType
<1> DEFINE f == [e EXCEPT !.doc = scene]
<1>1. e \in EditorStates
  BY DEF Fits
<1>2. f \in EditorStates
  BY <1>1 DEF EditorStates
<1>3. /\ f.list = e.list /\ f.index = e.index /\ f.hasUndo = e.hasUndo /\ f.hasRedo = e.hasRedo
      /\ f.saveSceneTimer = e.saveSceneTimer /\ f.unsaved = e.unsaved
      /\ f.intervals = e.intervals /\ f.inputType = e.inputType
  BY <1>1 DEF EditorStates
<1> HIDE DEF f
<1>4. Fits(f)
  BY <1>2, <1>3, SameListFits
<1> QED BY <1>3, <1>4 DEF f

\* Another timer, another number of intervals.
LEMMA TimersFit ==
  ASSUME NEW e, Fits(e), NEW t \in {"none", "set", "due"}, NEW k \in 0..MaxIntervals
  PROVE  LET f == [e EXCEPT !.saveSceneTimer = t, !.intervals = k]
         IN  /\ Fits(f)
             /\ f.saveSceneTimer = t /\ f.intervals = k
             /\ f.unsaved = e.unsaved /\ f.inputType = e.inputType
<1> DEFINE f == [e EXCEPT !.saveSceneTimer = t, !.intervals = k]
<1>1. e \in EditorStates
  BY DEF Fits
<1>2. f \in EditorStates
  BY <1>1 DEF EditorStates
<1>3. /\ f.list = e.list /\ f.index = e.index /\ f.hasUndo = e.hasUndo /\ f.hasRedo = e.hasRedo
      /\ f.saveSceneTimer = t /\ f.intervals = k
      /\ f.unsaved = e.unsaved /\ f.inputType = e.inputType
  BY <1>1 DEF EditorStates
<1> HIDE DEF f
<1>4. Fits(f)
  BY <1>2, <1>3, SameListFits
<1> QED BY <1>3, <1>4 DEF f

\* No timer.
LEMMA NoTimerFits ==
  ASSUME NEW e, Fits(e), NEW k \in 0..MaxIntervals
  PROVE  LET f == [e EXCEPT !.saveSceneTimer = "none", !.intervals = k]
         IN  /\ Fits(f)
             /\ f.saveSceneTimer = "none" /\ f.intervals = k
             /\ f.unsaved = e.unsaved /\ f.inputType = e.inputType
<1> DEFINE f == [e EXCEPT !.saveSceneTimer = "none", !.intervals = k]
<1>1. e \in EditorStates
  BY DEF Fits
<1>2. f \in EditorStates
  <2>1. ASSUME NEW t \in {"none", "set", "due"}
        PROVE  [e EXCEPT !.saveSceneTimer = t, !.intervals = k] \in EditorStates
    BY <1>1 DEF EditorStates
  <2>2. "none" \in {"none", "set", "due"}
    OBVIOUS
  <2> QED BY <2>1, <2>2, Zenon
<1>3. /\ f.list = e.list /\ f.index = e.index /\ f.hasUndo = e.hasUndo /\ f.hasRedo = e.hasRedo
      /\ f.saveSceneTimer = "none" /\ f.intervals = k
      /\ f.unsaved = e.unsaved /\ f.inputType = e.inputType
  BY <1>1 DEF EditorStates
<1> HIDE DEF f
<1>4. Fits(f)
  BY <1>2, <1>3, SameListFits
<1> QED BY <1>3, <1>4 DEF f

\* The flag of a composition.
LEMMA ComposingFits ==
  ASSUME NEW e, Fits(e), NEW composing \in BOOLEAN
  PROVE  LET f == [e EXCEPT !.inputType = composing]
         IN  /\ Fits(f)
             /\ f.saveSceneTimer = e.saveSceneTimer /\ f.intervals = e.intervals
             /\ f.unsaved = e.unsaved /\ f.inputType = composing
<1> DEFINE f == [e EXCEPT !.inputType = composing]
<1>1. e \in EditorStates
  BY DEF Fits
<1>2. f \in EditorStates
  BY <1>1 DEF EditorStates
<1>3. /\ f.list = e.list /\ f.index = e.index /\ f.hasUndo = e.hasUndo /\ f.hasRedo = e.hasRedo
      /\ f.saveSceneTimer = e.saveSceneTimer /\ f.intervals = e.intervals
      /\ f.unsaved = e.unsaved /\ f.inputType = composing
  BY <1>1 DEF EditorStates
<1> HIDE DEF f
<1>4. Fits(f)
  BY <1>2, <1>3, SameListFits
<1> QED BY <1>3, <1>4 DEF f

\* The flags of a selection and of a command.
LEMMA FlagsFit ==
  ASSUME NEW e, Fits(e), NEW flag \in BOOLEAN,
         NEW f \in {[e EXCEPT !.isCollapsed = flag], [e EXCEPT !.hasEnterExecCommand = flag]}
  PROVE  /\ Fits(f)
         /\ f.saveSceneTimer = e.saveSceneTimer /\ f.intervals = e.intervals
         /\ f.unsaved = e.unsaved /\ f.inputType = e.inputType
<1>1. e \in EditorStates
  BY DEF Fits
<1>2. f \in EditorStates
  BY <1>1 DEF EditorStates
<1>3. /\ f.list = e.list /\ f.index = e.index /\ f.hasUndo = e.hasUndo /\ f.hasRedo = e.hasRedo
      /\ f.saveSceneTimer = e.saveSceneTimer /\ f.intervals = e.intervals
      /\ f.unsaved = e.unsaved /\ f.inputType = e.inputType
  BY <1>1 DEF EditorStates
<1> QED BY <1>2, <1>3, SameListFits

\* One more key press that is not in the list.
LEMMA AddUnsavedFits ==
  ASSUME NEW e, Fits(e)
  PROVE  LET f == AddUnsaved(e)
         IN  /\ Fits(f)
             /\ f.saveSceneTimer = e.saveSceneTimer /\ f.intervals = e.intervals
             /\ f.inputType = e.inputType
             /\ f.unsaved = IF e.unsaved = 2 THEN 2 ELSE e.unsaved + 1
<1> DEFINE u == IF e.unsaved = 2 THEN 2 ELSE e.unsaved + 1
           f == AddUnsaved(e)
<1>1. e \in EditorStates /\ u \in 0..2
  BY DEF Fits, EditorStates
<1>2. f = [e EXCEPT !.unsaved = u]
  BY <1>1 DEF AddUnsaved, EditorStates
<1> HIDE DEF f, u
<1>3. f \in EditorStates
  BY <1>1, <1>2 DEF EditorStates
<1>4. /\ f.list = e.list /\ f.index = e.index /\ f.hasUndo = e.hasUndo /\ f.hasRedo = e.hasRedo
      /\ f.saveSceneTimer = e.saveSceneTimer /\ f.intervals = e.intervals
      /\ f.inputType = e.inputType /\ f.unsaved = u
  BY <1>1, <1>2 DEF EditorStates
<1>5. Fits(f)
  BY <1>3, <1>4, SameListFits
<1> QED BY <1>4, <1>5 DEF f, u

\* The handler of a key press saves a scene or leaves the timer set.
LEMMA PressedFits ==
  ASSUME NEW e, Fits(e)
  PROVE  LET p == pressed(e)
         IN  /\ Fits(p)
             /\ p.intervals = e.intervals /\ p.inputType = e.inputType
             /\ p.saveSceneTimer \in {"none", "set"}
             /\ p.saveSceneTimer = "none" => p.unsaved = 0
<1> DEFINE first == IF e.list = <<>> THEN save(e, TRUE) ELSE e
           armed == [first EXCEPT !.saveSceneTimer = "set", !.keycont = Min({@ + 1, maxInputCount})]
           p == pressed(e)
<1>1. Fits(first) /\ first.intervals = e.intervals /\ first.inputType = e.inputType
  BY SaveFits
<1> HIDE DEF first
<1>2. first \in EditorStates /\ first.keycont + 1 \in Nat /\ maxInputCount \in Nat
  BY <1>1, UndoAssumption DEF Fits, EditorStates
<1>3. Min({first.keycont + 1, maxInputCount}) \in Nat
  BY <1>2, MinOfTwo
<1>4. Fits(armed) /\ armed.intervals = e.intervals /\ armed.inputType = e.inputType
      /\ armed.saveSceneTimer = "set"
  <2>1. ASSUME NEW k \in Nat, NEW t \in {"none", "set", "due"}
        PROVE  LET a == [first EXCEPT !.saveSceneTimer = t, !.keycont = k]
               IN  /\ Fits(a) /\ a.intervals = e.intervals /\ a.inputType = e.inputType
                   /\ a.saveSceneTimer = t
    <3> DEFINE a == [first EXCEPT !.saveSceneTimer = t, !.keycont = k]
    <3>1. a \in EditorStates
      BY <1>2 DEF EditorStates
    <3>2. /\ a.list = first.list /\ a.index = first.index
          /\ a.hasUndo = first.hasUndo /\ a.hasRedo = first.hasRedo
          /\ a.intervals = e.intervals /\ a.inputType = e.inputType /\ a.saveSceneTimer = t
      BY <1>1, <1>2 DEF EditorStates
    <3> HIDE DEF a
    <3>3. Fits(a)
      BY <1>1, <3>1, <3>2, SameListFits
    <3> QED BY <3>2, <3>3 DEF a
  <2>2. "set" \in {"none", "set", "due"}
    OBVIOUS
  <2> DEFINE n == Min({first.keycont + 1, maxInputCount})
  <2>3. armed = [first EXCEPT !.saveSceneTimer = "set", !.keycont = n]
    BY <1>2 DEF EditorStates
  <2> HIDE DEF n
  <2>4. n \in Nat
    BY <1>3 DEF n
  <2> QED BY <2>1, <2>2, <2>3, <2>4, Zenon
<1> HIDE DEF armed
<1>5. CASE e.doc.address \in Spans
  <2> DEFINE s == save(e, FALSE)
             f == [s EXCEPT !.isCollapsed = FALSE]
  <2>1. Fits(s) /\ s.saveSceneTimer = "none" /\ s.unsaved = 0 /\ s.intervals = e.intervals
        /\ s.inputType = e.inputType
    BY SaveFits
  <2>2. p = f
    BY <1>5 DEF pressed
  <2> HIDE DEF s
  <2>3. FALSE \in BOOLEAN /\ f \in {f, [s EXCEPT !.hasEnterExecCommand = FALSE]}
    OBVIOUS
  <2>4. Fits(f) /\ f.saveSceneTimer = s.saveSceneTimer /\ f.intervals = s.intervals
        /\ f.inputType = s.inputType /\ f.unsaved = s.unsaved
    BY <2>1, <2>3, FlagsFit, Zenon
  <2> HIDE DEF f, p
  <2> QED BY <2>1, <2>2, <2>4 DEF p
<1>6. CASE e.doc.address \notin Spans /\ armed.keycont < maxInputCount
  <2>1. p = armed
    BY <1>6, Zenon DEF pressed, armed, first
  <2> QED BY <1>4, <2>1
<1>7. CASE e.doc.address \notin Spans /\ ~(armed.keycont < maxInputCount)
  <2>1. p = save(armed, FALSE)
    BY <1>7, Zenon DEF pressed, armed, first
  <2>2. Fits(save(armed, FALSE)) /\ save(armed, FALSE).saveSceneTimer = "none"
        /\ save(armed, FALSE).unsaved = 0 /\ save(armed, FALSE).intervals = armed.intervals
        /\ save(armed, FALSE).inputType = armed.inputType
    BY <1>4, SaveFits
  <2> QED BY <1>4, <2>1, <2>2
<1> QED BY <1>5, <1>6, <1>7

-----------------------------------------------------------------------------
\* A document that was just saved, or that has a timer or an interval.
LEMMA InvOf ==
  ASSUME NEW f, Fits(f), Waits(f), Quiet(f), ed' = f
  PROVE  UndoInv'
  BY DEF UndoInv, Fits, Waits, Quiet

\* Key presses, with or without an input method.
LEMMA KeysKeepInv ==
  ASSUME UndoInv, \/ \E text \in Contents, caret \in Carets : keydown(text, caret) \/ Compose(text, caret)
                  \/ keyup \/ compositionstart \/ compositionend
  PROVE  UndoInv'
<1>1. Fits(ed) /\ Waits(ed) /\ Quiet(ed) /\ ed \in EditorStates
  BY DEF UndoInv, Fits
<1> DEFINE p == pressed(ed)
<1>2. Fits(p) /\ p.intervals = ed.intervals /\ p.inputType = ed.inputType
      /\ p.saveSceneTimer \in {"none", "set"} /\ (p.saveSceneTimer = "none" => p.unsaved = 0)
  BY <1>1, PressedFits
<1> HIDE DEF p
<1>3. ASSUME NEW text \in Contents, NEW caret \in Carets
      PROVE  [content |-> text, address |-> caret] \in Scenes
  BY DEF Scenes
<1>4. ASSUME NEW text \in Contents, NEW caret \in Carets, keydown(text, caret)
      PROVE  UndoInv'
  <2> DEFINE scene == [content |-> text, address |-> caret]
             d == [p EXCEPT !.doc = scene]
             f == AddUnsaved(d)
  <2>1. scene \in Scenes
    BY <1>3
  <2>2. ~ed.inputType /\ ed' = f
    BY <1>4 DEF keydown, p
  <2> HIDE DEF scene
  <2>3. Fits(d) /\ d.saveSceneTimer = p.saveSceneTimer /\ d.unsaved = p.unsaved
        /\ d.intervals = p.intervals /\ d.inputType = p.inputType
    BY <1>2, <2>1, DocFits
  <2> HIDE DEF d
  <2>4. Fits(f) /\ f.saveSceneTimer = d.saveSceneTimer /\ f.intervals = d.intervals
        /\ f.inputType = d.inputType /\ f.unsaved = IF d.unsaved = 2 THEN 2 ELSE d.unsaved + 1
    BY <2>3, AddUnsavedFits
  <2> HIDE DEF f
  <2>5. Waits(f) /\ Quiet(f)
    BY <1>2, <2>2, <2>3, <2>4 DEF Waits, Quiet
  <2> QED BY <2>2, <2>4, <2>5, InvOf
<1>5. ASSUME NEW text \in Contents, NEW caret \in Carets, Compose(text, caret)
      PROVE  UndoInv'
  <2> DEFINE scene == [content |-> text, address |-> caret]
             f == [ed EXCEPT !.doc = scene]
  <2>1. scene \in Scenes
    BY <1>3
  <2>2. ed' = f
    BY <1>5 DEF Compose
  <2> HIDE DEF scene
  <2>3. Fits(f) /\ f.saveSceneTimer = ed.saveSceneTimer /\ f.unsaved = ed.unsaved
        /\ f.intervals = ed.intervals /\ f.inputType = ed.inputType
    BY <1>1, <2>1, DocFits
  <2> HIDE DEF f
  <2>4. Waits(f) /\ Quiet(f)
    BY <1>1, <2>3 DEF Waits, Quiet
  <2> QED BY <2>2, <2>3, <2>4, InvOf
<1>6. ASSUME keyup PROVE UndoInv'
  <2> DEFINE s == save(ed, FALSE)
             f == [s EXCEPT !.isCollapsed = TRUE]
  <2>1. Fits(s) /\ s.saveSceneTimer = "none" /\ s.unsaved = 0
    BY <1>1, SaveFits
  <2>2. ed' = f
    BY <1>6 DEF keyup
  <2> HIDE DEF s
  <2>3. TRUE \in BOOLEAN /\ f \in {f, [s EXCEPT !.hasEnterExecCommand = TRUE]}
    OBVIOUS
  <2>4. Fits(f) /\ f.saveSceneTimer = s.saveSceneTimer /\ f.unsaved = s.unsaved
    BY <2>1, <2>3, FlagsFit, Zenon
  <2> HIDE DEF f
  <2>5. Waits(f) /\ Quiet(f)
    BY <2>1, <2>4 DEF Waits, Quiet
  <2> QED BY <2>2, <2>4, <2>5, InvOf
<1>7. ASSUME compositionstart PROVE UndoInv'
  <2> DEFINE c == [p EXCEPT !.inputType = TRUE]
             f == AddUnsaved(c)
  <2>1. ed' = f /\ ed.intervals < MaxIntervals
    BY <1>7 DEF compositionstart, p
  <2>2. Fits(c) /\ c.saveSceneTimer = p.saveSceneTimer /\ c.intervals = p.intervals
        /\ c.unsaved = p.unsaved
    <3>1. TRUE \in BOOLEAN
      OBVIOUS
    <3> QED BY <1>2, <3>1, ComposingFits, Zenon
  <2> HIDE DEF c
  <2>3. Fits(f) /\ f.saveSceneTimer = c.saveSceneTimer /\ f.intervals = c.intervals
        /\ f.unsaved = IF c.unsaved = 2 THEN 2 ELSE c.unsaved + 1
    BY <2>2, AddUnsavedFits
  <2> HIDE DEF f
  <2>4. Waits(f) /\ Quiet(f)
    BY <1>2, <2>1, <2>2, <2>3 DEF Waits, Quiet
  <2> QED BY <2>1, <2>3, <2>4, InvOf
<1>8. ASSUME compositionend PROVE UndoInv'
  <2> DEFINE f == [ed EXCEPT !.inputType = FALSE]
  <2>1. ed' = f
    BY <1>8 DEF compositionend
  <2>2. Fits(f) /\ f.saveSceneTimer = ed.saveSceneTimer /\ f.intervals = ed.intervals
        /\ f.inputType = FALSE /\ f.unsaved = ed.unsaved
    <3>1. FALSE \in BOOLEAN
      OBVIOUS
    <3> QED BY <1>1, <3>1, ComposingFits, Zenon
  <2> HIDE DEF f
  <2>3. Waits(f) /\ Quiet(f)
    BY <1>1, <2>2 DEF Waits, Quiet
  <2> QED BY <2>1, <2>2, <2>3, InvOf
<1> QED BY <1>4, <1>5, <1>6, <1>7, <1>8

\* The timer and the intervals.
LEMMA TimersKeepInv ==
  ASSUME UndoInv, TimePasses \/ TimerFires \/ IntervalFires
  PROVE  UndoInv'
<1>1. Fits(ed) /\ Waits(ed) /\ Quiet(ed) /\ ed \in EditorStates
  BY DEF UndoInv, Fits
<1>2. ed.intervals \in 0..MaxIntervals /\ MaxIntervals \in Nat /\ ed.saveSceneTimer \in {"none", "set", "due"}
  BY <1>1, UndoAssumption DEF EditorStates
<1> DEFINE s == save(ed, FALSE)
<1>3. Fits(s) /\ s.saveSceneTimer = "none" /\ s.unsaved = 0 /\ s.intervals = ed.intervals
  BY <1>1, SaveFits
<1> HIDE DEF s
<1>4. ASSUME TimePasses PROVE UndoInv'
  <2> DEFINE k == ed.intervals
             f == [ed EXCEPT !.saveSceneTimer = "due", !.intervals = k]
  <2>1. ed' = f /\ ed.saveSceneTimer = "set"
    BY <1>1, <1>4 DEF TimePasses, EditorStates
  <2>2. "due" \in {"none", "set", "due"} /\ k \in 0..MaxIntervals
    BY <1>2
  <2> HIDE DEF k
  <2>3. Fits(f) /\ f.saveSceneTimer = "due" /\ f.intervals = k /\ f.inputType = ed.inputType
    BY <1>1, <2>2, TimersFit, Zenon
  <2> HIDE DEF f
  <2>4. Waits(f) /\ Quiet(f)
    BY <1>1, <2>1, <2>3 DEF Waits, Quiet, k
  <2> QED BY <2>1, <2>3, <2>4, InvOf
<1>5. ASSUME TimerFires, ed.inputType PROVE UndoInv'
  <2> DEFINE k == ed.intervals + 1
             f == [ed EXCEPT !.saveSceneTimer = "none", !.intervals = k]
  <2>1. ed' = f /\ ed.saveSceneTimer = "due"
    BY <1>1, <1>5 DEF TimerFires, EditorStates
  <2>2. k \in 0..MaxIntervals /\ k > 0
    BY <1>1, <1>2, <1>5, <2>1 DEF Waits
  <2> HIDE DEF k
  <2>3. Fits(f) /\ f.saveSceneTimer = "none" /\ f.intervals = k
    BY <1>1, <2>2, NoTimerFits
  <2> HIDE DEF f
  <2>4. Waits(f) /\ Quiet(f)
    BY <2>2, <2>3 DEF Waits, Quiet
  <2> QED BY <2>1, <2>3, <2>4, InvOf
<1>6. ASSUME TimerFires, ~ed.inputType PROVE UndoInv'
  <2>1. ed' = s
    BY <1>6 DEF TimerFires, s
  <2>2. Waits(s) /\ Quiet(s)
    BY <1>3 DEF Waits, Quiet
  <2> QED BY <1>3, <2>1, <2>2, InvOf
<1>7. ASSUME IntervalFires PROVE UndoInv'
  <2> DEFINE k == ed.intervals - 1
             f == [s EXCEPT !.saveSceneTimer = "none", !.intervals = k]
  <2>1. s \in EditorStates
    BY <1>3 DEF Fits
  <2>2. ed' = [s EXCEPT !.intervals = @ - 1] /\ ed.intervals > 0
    BY <1>7 DEF IntervalFires, s
  <2>3. ed' = f
    BY <1>3, <2>1, <2>2 DEF EditorStates
  <2>4. k \in 0..MaxIntervals
    BY <1>2, <2>2
  <2> HIDE DEF k
  <2>5. Fits(f) /\ f.saveSceneTimer = "none" /\ f.intervals = k /\ f.unsaved = s.unsaved
    BY <1>3, <2>4, NoTimerFits
  <2> HIDE DEF f
  <2>6. Waits(f) /\ Quiet(f)
    BY <1>3, <2>5 DEF Waits, Quiet
  <2> QED BY <2>3, <2>5, <2>6, InvOf
<1> QED BY <1>4, <1>5, <1>6, <1>7

\* The mouse and the commands.
LEMMA CommandsKeepInv ==
  ASSUME UndoInv, \/ \E address \in Carets \union Spans : Select(address)
                  \/ \E scene \in Scenes : execCommand(scene) \/ execCommandFails(scene)
  PROVE  UndoInv'
<1>1. Fits(ed) /\ Waits(ed) /\ Quiet(ed) /\ ed \in EditorStates
  BY DEF UndoInv, Fits
<1> DEFINE s == save(ed, FALSE)
<1>2. Fits(s) /\ s.saveSceneTimer = "none" /\ s.unsaved = 0
  BY <1>1, SaveFits
<1> HIDE DEF s
<1>3. ASSUME NEW address \in Carets \union Spans, Select(address) PROVE UndoInv'
  <2> DEFINE scene == [ed.doc EXCEPT !.address = address]
             f == [ed EXCEPT !.doc = scene]
  <2>1. ed.doc \in Scenes
    BY <1>1 DEF EditorStates
  <2>2. scene \in Scenes
    BY <2>1 DEF Scenes
  <2>3. ed' = f
    BY <1>1, <1>3 DEF Select, EditorStates
  <2> HIDE DEF scene
  <2>4. Fits(f) /\ f.saveSceneTimer = ed.saveSceneTimer /\ f.unsaved = ed.unsaved
        /\ f.intervals = ed.intervals /\ f.inputType = ed.inputType
    BY <1>1, <2>2, DocFits
  <2> HIDE DEF f
  <2>5. Waits(f) /\ Quiet(f)
    BY <1>1, <2>4 DEF Waits, Quiet
  <2> QED BY <2>3, <2>4, <2>5, InvOf
<1>4. ASSUME NEW scene \in Scenes, execCommand(scene) PROVE UndoInv'
  <2>1. CASE ed.hasEnterExecCommand
    <3> DEFINE f == [ed EXCEPT !.doc = scene]
    <3>1. ed' = f
      BY <1>4, <2>1 DEF execCommand
    <3>2. Fits(f) /\ f.saveSceneTimer = ed.saveSceneTimer /\ f.unsaved = ed.unsaved
          /\ f.intervals = ed.intervals /\ f.inputType = ed.inputType
      BY <1>1, DocFits
    <3> HIDE DEF f
    <3>3. Waits(f) /\ Quiet(f)
      BY <1>1, <3>2 DEF Waits, Quiet
    <3> QED BY <3>1, <3>2, <3>3, InvOf
  <2>2. CASE ~ed.hasEnterExecCommand
    <3> DEFINE d == [s EXCEPT !.doc = scene]
               f == save(d, FALSE)
    <3>1. ed' = f
      BY <1>4, <2>2 DEF execCommand, s
    <3>2. Fits(d)
      BY <1>2, DocFits
    <3> HIDE DEF d
    <3>3. Fits(f) /\ f.saveSceneTimer = "none" /\ f.unsaved = 0
      BY <3>2, SaveFits
    <3> HIDE DEF f
    <3>4. Waits(f) /\ Quiet(f)
      BY <3>3 DEF Waits, Quiet
    <3> QED BY <3>1, <3>3, <3>4, InvOf
  <2> QED BY <2>1, <2>2
<1>5. ASSUME NEW scene \in Scenes, execCommandFails(scene) PROVE UndoInv'
  <2> DEFINE g == IF ed.hasEnterExecCommand THEN ed ELSE s
             d == [g EXCEPT !.doc = scene]
             f == [d EXCEPT !.hasEnterExecCommand = TRUE]
  <2>1. ed' = f
    BY <1>5 DEF execCommandFails, s
  <2>2. Fits(g) /\ Waits(g) /\ Quiet(g)
    BY <1>1, <1>2 DEF Waits, Quiet
  <2> HIDE DEF g
  <2>3. Fits(d) /\ d.saveSceneTimer = g.saveSceneTimer /\ d.unsaved = g.unsaved
        /\ d.intervals = g.intervals /\ d.inputType = g.inputType
    BY <2>2, DocFits
  <2> HIDE DEF d
  <2>4. TRUE \in BOOLEAN /\ f \in {[d EXCEPT !.isCollapsed = TRUE], f}
    OBVIOUS
  <2>5. Fits(f) /\ f.saveSceneTimer = d.saveSceneTimer /\ f.unsaved = d.unsaved
        /\ f.intervals = d.intervals /\ f.inputType = d.inputType
    BY <2>3, <2>4, FlagsFit, Zenon
  <2> HIDE DEF f
  <2>6. Waits(f) /\ Quiet(f)
    BY <2>2, <2>3, <2>5 DEF Waits, Quiet
  <2> QED BY <2>1, <2>5, <2>6, InvOf
<1> QED BY <1>3, <1>4, <1>5

\* Undo, redo and a new start of the list.
LEMMA UndoRedoKeepInv ==
  ASSUME UndoInv, Undo \/ Redo \/ reset
  PROVE  UndoInv'
<1>1. Fits(ed) /\ Waits(ed) /\ Quiet(ed) /\ ed \in EditorStates
  BY DEF UndoInv, Fits
<1>2. ASSUME NEW k \in DOMAIN ed.list, ed' = restore(ed, k) PROVE UndoInv'
  <2> DEFINE f == restore(ed, k)
  <2>1. Fits(f) /\ f.unsaved = 0 /\ f.saveSceneTimer = ed.saveSceneTimer
        /\ f.intervals = ed.intervals /\ f.inputType = ed.inputType
    BY <1>1, RestoreFits
  <2> HIDE DEF f
  <2>2. Waits(f) /\ Quiet(f)
    BY <1>1, <2>1 DEF Waits, Quiet
  <2> QED BY <1>2, <2>1, <2>2, InvOf DEF f
<1>3. ASSUME Undo PROVE UndoInv'
  BY <1>1, <1>2, <1>3, UndoTarget DEF Undo
<1>4. ASSUME Redo PROVE UndoInv'
  BY <1>1, <1>2, <1>4, RedoTarget DEF Redo
<1>5. ASSUME reset PROVE UndoInv'
  <2> DEFINE g == [ed EXCEPT !.list = <<>>, !.index = 1, !.hasUndo = FALSE, !.hasRedo = FALSE, !.unsaved = 0]
             f == clearKey(g)
  <2>1. ed' = f
    BY <1>5 DEF reset
  <2>2. g \in EditorStates
    <3>1. ASSUME NEW list \in Seq(Scenes), NEW k \in Nat, NEW b \in BOOLEAN, NEW c \in BOOLEAN, NEW u \in 0..2
          PROVE  [ed EXCEPT !.list = list, !.index = k, !.hasUndo = b, !.hasRedo = c, !.unsaved = u] \in EditorStates
      BY <1>1 DEF EditorStates
    <3>2. <<>> \in Seq(Scenes) /\ 1 \in Nat /\ FALSE \in BOOLEAN /\ 0 \in 0..2
      OBVIOUS
    <3> QED BY <3>1, <3>2, Zenon
  <2>3. g.list = <<>> /\ g.index = 1 /\ g.hasUndo = FALSE /\ g.hasRedo = FALSE /\ g.unsaved = 0
        /\ g.saveSceneTimer = ed.saveSceneTimer /\ g.intervals = ed.intervals
        /\ g.inputType = ed.inputType
    BY <1>1 DEF EditorStates
  <2> HIDE DEF g
  <2>4. f \in EditorStates
    BY <2>2, KeyTyped
  <2>5. f.list = <<>> /\ f.index = 1 /\ f.hasUndo = FALSE /\ f.hasRedo = FALSE /\ f.unsaved = 0
        /\ f.saveSceneTimer = ed.saveSceneTimer /\ f.intervals = ed.intervals
        /\ f.inputType = ed.inputType
    BY <2>2, <2>3 DEF clearKey, EditorStates
  <2> HIDE DEF f
  <2>6. Fits(f)
    BY <2>4, <2>5, UndoAssumption DEF Fits
  <2>7. Waits(f) /\ Quiet(f)
    BY <1>1, <2>5 DEF Waits, Quiet
  <2> QED BY <2>1, <2>6, <2>7, InvOf
<1> QED BY <1>3, <1>4, <1>5

\* The first states.
LEMMA InitInv == UndoInit => UndoInv
<1> SUFFICES ASSUME UndoInit PROVE UndoInv
  OBVIOUS
<1>1. PICK scene \in [content : Contents, address : Carets] :
        ed = [doc |-> scene, list |-> <<>>, index |-> 1, hasUndo |-> FALSE, hasRedo |-> FALSE,
              saveSceneTimer |-> "none", intervals |-> 0, keycont |-> 0,
              inputType |-> FALSE, isCollapsed |-> TRUE, hasEnterExecCommand |-> FALSE, unsaved |-> 0]
  BY DEF UndoInit
<1>2. scene \in Scenes /\ MaxIntervals \in Nat /\ maxUndoCount \in Nat
  BY UndoAssumption DEF Scenes
<1>3. ed \in EditorStates
  BY <1>1, <1>2 DEF EditorStates
<1>4. ed.list = <<>> /\ ed.index = 1 /\ ed.hasUndo = FALSE /\ ed.hasRedo = FALSE
      /\ ed.unsaved = 0 /\ ed.inputType = FALSE
  BY <1>1
<1> QED BY <1>2, <1>3, <1>4 DEF UndoInv, Fits, Waits, Quiet

\* Every step.
LEMMA UndoInductive == UndoInv /\ [UndoNext]_ed => UndoInv'
<1> SUFFICES ASSUME UndoInv, [UndoNext]_ed PROVE UndoInv'
  OBVIOUS
<1>1. CASE ed' = ed
  BY <1>1 DEF UndoInv, Fits, Waits, Quiet
<1>2. CASE UndoNext
  BY <1>2, KeysKeepInv, TimersKeepInv, CommandsKeepInv, UndoRedoKeepInv, Zenon DEF UndoNext
<1> QED BY <1>1, <1>2

-----------------------------------------------------------------------------
\* For any limits: once no timer and no interval waits, the undo list lacks
\* one key press at most.
THEOREM OneKeyAtMost == UndoSpec => []QuietLosesOneKey
<1>1. UndoInv => QuietLosesOneKey
  BY DEF UndoInv, Quiet, QuietLosesOneKey
<1> QED BY <1>1, InitInv, UndoInductive, PTL DEF UndoSpec

\* For any list of any length: a redo takes back the undo that changed a
\* saved document, and an undo the redo.
THEOREM RedoIsInverse == UndoSpec => []UndoThenRedo
<1>1. UndoInv => UndoThenRedo
  BY RedoTakesBack, UndoTakesBack DEF UndoInv, UndoThenRedo
<1> QED BY <1>1, InitInv, UndoInductive, PTL DEF UndoSpec

\* The list never outgrows its limit, and the index points into it.
THEOREM UndoTypes == UndoSpec => []UndoTypeOK
<1>1. UndoInv => UndoTypeOK
  BY DEF UndoInv, Fits, UndoTypeOK
<1> QED BY <1>1, InitInv, UndoInductive, PTL DEF UndoSpec

-----------------------------------------------------------------------------
(* The upload dialog.                                                      *)

Statuses == {"new", "queued", "progress", "complete", "error", "cancelled"}

Uploaders ==
    [runing : BOOLEAN, trigged : BOOLEAN, preparing : Files \union {NoFile}, waiting : Nat, dead : BOOLEAN,
     pool : SUBSET Files, ticks : Nat, finished : Nat]

DialogStates ==
    [state : {"pedding", "ready", "uploading", "paused", "confirm", "finish"}, disabled : BOOLEAN,
     open : BOOLEAN, stops : Nat]

UploadTypes ==
    /\ status \in [Files -> Statuses] /\ button \in SUBSET Files
    /\ wu \in Uploaders /\ dialog \in DialogStates /\ imageList \in Seq(Files)

(* What is on its way is in the pool.                                      *)
PoolIsSending == IsFiniteSet(wu.pool) /\ wu.pool = {f \in Files : status[f] = "progress"}

(* A file that is being prepared has a place in the pool, and nothing but  *)
(* its button can have happened to it.                                     *)
PreparedHasPlace ==
    wu.preparing # NoFile /\ ~wu.dead =>
        /\ status[wu.preparing] = "queued" \/ (status[wu.preparing] = "cancelled" /\ wu.preparing \notin button)
        /\ Cardinality(wu.pool) < threads

ButtonsOfUnsent == \A f \in button : status[f] \in {"queued", "cancelled"}

StoredIsComplete == \A f \in Stored : status[f] = "complete"

UploadInv ==
    UploadTypes /\ PoolIsSending /\ PreparedHasPlace /\ ButtonsOfUnsent /\ StoredIsComplete

-----------------------------------------------------------------------------
\* An empty list has stored nothing.
LEMMA NothingStored == ASSUME imageList = <<>> PROVE Stored = {}
  BY DEF Stored

\* What has been stored is a set of files.
LEMMA StoredAreFiles == ASSUME imageList \in Seq(Files) PROVE Stored \in SUBSET Files
  BY DEF Stored

\* A file that is appended is stored, with those that were.
LEMMA AppendStores ==
  ASSUME imageList \in Seq(Files), NEW f \in Files, imageList' = Append(imageList, f)
  PROVE  imageList' \in Seq(Files) /\ Stored' = Stored \union {f}
<1>1. imageList' \in Seq(Files) /\ Len(imageList') = Len(imageList) + 1 /\ Len(imageList) \in Nat
  OBVIOUS
<1>2. DOMAIN imageList = 1..Len(imageList) /\ DOMAIN imageList' = 1..(Len(imageList) + 1)
  BY <1>1
<1>3. \A k \in DOMAIN imageList : k \in DOMAIN imageList' /\ imageList'[k] = imageList[k]
  BY <1>1, <1>2
<1>4. imageList'[Len(imageList) + 1] = f /\ Len(imageList) + 1 \in DOMAIN imageList'
  BY <1>1, <1>2
<1>5. \A k \in DOMAIN imageList' : k \in DOMAIN imageList \/ k = Len(imageList) + 1
  BY <1>2, <1>1
<1>6. Stored' = {imageList'[k] : k \in DOMAIN imageList'}
  BY DEF Stored
<1>7. ASSUME NEW g \in Stored' PROVE g \in Stored \union {f}
  BY <1>3, <1>4, <1>5, <1>6 DEF Stored
<1>8. ASSUME NEW g \in Stored \union {f} PROVE g \in Stored'
  BY <1>3, <1>4, <1>6 DEF Stored
<1> QED BY <1>1, <1>7, <1>8

-----------------------------------------------------------------------------
\* Nothing is chosen, on its way or stored in the beginning.
LEMMA UploadInitHolds == UploadInit => UploadInv
<1> SUFFICES ASSUME UploadInit PROVE UploadInv
  OBVIOUS
<1>1. UploadTypes
  BY DEF UploadInit, UploadTypes, Statuses, Uploaders, DialogStates
<1>2. PoolIsSending
  BY FS_EmptySet DEF UploadInit, PoolIsSending
<1>3. PreparedHasPlace /\ ButtonsOfUnsent
  BY DEF UploadInit, PreparedHasPlace, ButtonsOfUnsent
<1>4. StoredIsComplete
  BY NothingStored DEF UploadInit, StoredIsComplete
<1> QED BY <1>1, <1>2, <1>3, <1>4 DEF UploadInv

\* setState leaves the dialog a dialog, open or not as it was.
LEMMA SetStateType ==
  ASSUME dialog \in DialogStates, NEW val \in {"pedding", "ready", "uploading", "paused", "confirm", "finish"},
         NEW of
  PROVE  setState(val, of) \in DialogStates /\ setState(val, of).open = dialog.open
  BY DEF setState, DialogStates

\* So does the event that tells of chosen files.
LEMMA FilesQueuedType ==
  ASSUME dialog \in DialogStates, NEW waits \in BOOLEAN, filesQueued(waits)
  PROVE  dialog' \in DialogStates /\ dialog'.open = dialog.open
  BY DEF filesQueued, DialogStates

-----------------------------------------------------------------------------
(* What the operations write into the uploader leaves it one, most of them *)
(* with the pool and the prepared file as they were.                       *)
Kept(u, v) == v \in Uploaders /\ v.pool = u.pool /\ v.preparing = u.preparing /\ v.dead = u.dead

\* The click that starts.
LEMMA StartWrites ==
  ASSUME NEW u \in Uploaders, NEW n \in Nat
  PROVE  Kept(u, [u EXCEPT !.runing = TRUE, !.trigged = FALSE, !.ticks = n])
  BY DEF Uploaders, Kept

\* A tick that waits.
LEMMA WaitWrites ==
  ASSUME NEW u \in Uploaders, NEW n \in Nat, NEW w \in Nat
  PROVE  Kept(u, [u EXCEPT !.ticks = n, !.waiting = w])
  BY DEF Uploaders, Kept

\* A tick that finds nothing to send, and one that finds that all is done.
LEMMA EndWrites ==
  ASSUME NEW u \in Uploaders, NEW n \in Nat, NEW m \in Nat
  PROVE  /\ Kept(u, [u EXCEPT !.ticks = n])
         /\ Kept(u, [u EXCEPT !.ticks = n, !.runing = FALSE, !.trigged = TRUE, !.finished = m])
<1> DEFINE w == [u EXCEPT !.ticks = n, !.runing = FALSE]
           v == [w EXCEPT !.trigged = TRUE, !.finished = m]
<1>1. Kept(u, w) /\ Kept(u, [u EXCEPT !.ticks = n])
  BY DEF Uploaders, Kept
<1>2. Kept(w, v)
  <2> HIDE DEF w
  <2> QED BY <1>1 DEF Uploaders, Kept
<1>3. v = [u EXCEPT !.ticks = n, !.runing = FALSE, !.trigged = TRUE, !.finished = m]
  BY DEF Uploaders
<1> HIDE DEF w, v
<1> QED BY <1>1, <1>2, <1>3 DEF Kept

\* A tick that begins with a file.
LEMMA PrepareWrites ==
  ASSUME NEW u \in Uploaders, NEW n \in Nat, NEW f \in Files
  PROVE  [u EXCEPT !.ticks = n, !.preparing = f, !.trigged = FALSE] \in Uploaders
  BY DEF Uploaders

\* The end of the preparation of a file.
LEMMA PreparedWrites ==
  ASSUME wu \in Uploaders
  PROVE  Prepared \in Uploaders /\ Prepared.pool = wu.pool /\ Prepared.preparing = NoFile
<1>1. wu.ticks + wu.waiting + 1 \in Nat
  BY DEF Uploaders
<1>2. ASSUME NEW n \in Nat
      PROVE  LET v == [wu EXCEPT !.preparing = NoFile, !.waiting = 0, !.ticks = n]
             IN  v \in Uploaders /\ v.pool = wu.pool /\ v.preparing = NoFile
  BY DEF Uploaders
<1> QED BY <1>1, <1>2 DEF Prepared

\* A status that changes leaves the other conjuncts alone if it was not that
\* of a file on its way, being prepared, or stored, nor becomes "progress".
LEMMA StatusKeeps ==
  ASSUME UploadInv, NEW f \in Files, NEW s \in Statuses \ {"progress"},
         status' = [status EXCEPT ![f] = s], status[f] \notin {"progress", "complete"},
         wu'.pool = wu.pool, UNCHANGED imageList
  PROVE  PoolIsSending' /\ StoredIsComplete'
<1> USE DEF UploadInv, UploadTypes
<1>1. PoolIsSending'
  BY DEF PoolIsSending
<1>2. Stored' = Stored /\ Stored \in SUBSET Files
  BY StoredAreFiles DEF Stored
<1>3. StoredIsComplete'
  BY <1>2 DEF StoredIsComplete
<1> QED BY <1>1, <1>3

\* The author may choose any file.
LEMMA PickFileKeeps ==
  ASSUME UploadInv, NEW f \in Files, PickFile(f)
  PROVE  UploadInv'
<1> USE DEF PickFile, UploadInv
<1>1. UploadTypes'
  BY FilesQueuedType DEF UploadTypes, Statuses
<1>2. PoolIsSending' /\ StoredIsComplete'
  BY StatusKeeps DEF Statuses
<1>3. PreparedHasPlace' /\ ButtonsOfUnsent'
  BY DEF PreparedHasPlace, ButtonsOfUnsent, UploadTypes
<1> QED BY <1>1, <1>2, <1>3

\* So may one that is refused.
LEMMA PickRefusedKeeps ==
  ASSUME UploadInv, NEW f \in Files, PickRefused(f)
  PROVE  UploadInv'
<1> USE DEF PickRefused, UploadInv
<1>1. UploadTypes'
  BY FilesQueuedType DEF UploadTypes, Statuses
<1>2. PoolIsSending' /\ StoredIsComplete'
  BY StatusKeeps DEF Statuses
<1>3. PreparedHasPlace' /\ ButtonsOfUnsent'
  BY DEF PreparedHasPlace, ButtonsOfUnsent, UploadTypes
<1> QED BY <1>1, <1>2, <1>3

\* Deleting a file is harmless, as only one that is not on its way has a button.
LEMMA DeleteFileKeeps ==
  ASSUME UploadInv, NEW f \in Files, DeleteFile(f)
  PROVE  UploadInv'
<1> USE DEF DeleteFile, UploadInv
<1>1. status[f] \in {"queued", "cancelled"}
  BY DEF ButtonsOfUnsent
<1>2. UploadTypes'
  BY DEF UploadTypes, Statuses
<1>3. PoolIsSending' /\ StoredIsComplete'
  BY <1>1, StatusKeeps DEF Statuses
<1>4. PreparedHasPlace' /\ ButtonsOfUnsent'
  BY DEF PreparedHasPlace, ButtonsOfUnsent, UploadTypes
<1> QED BY <1>2, <1>3, <1>4

\* What touches neither a status, nor the pool, nor the stored files keeps the
\* invariant if it keeps the types and what is being prepared.
LEMMA OthersKeep ==
  ASSUME UploadInv, UNCHANGED <<status, button, imageList>>, UploadTypes', Kept(wu, wu')
  PROVE  UploadInv'
<1> USE DEF UploadInv
<1>1. PoolIsSending' /\ PreparedHasPlace' /\ ButtonsOfUnsent'
  BY DEF PoolIsSending, PreparedHasPlace, ButtonsOfUnsent, Kept
<1>2. StoredIsComplete'
  BY DEF StoredIsComplete, Stored
<1> QED BY <1>1, <1>2

\* The clicks on the button, and OK.
LEMMA ClicksKeep ==
  ASSUME UploadInv, start \/ stop \/ onok
  PROVE  UploadInv'
<1>1. UploadTypes /\ dialog \in DialogStates /\ wu \in Uploaders
  BY DEF UploadInv, UploadTypes
<1>2. CASE start
  <2>1. setState("uploading", status) \in DialogStates
    BY <1>1, SetStateType
  <2>2. dialog' \in DialogStates
    BY <1>1, <1>2, <2>1 DEF start
  <2>3. Kept(wu, wu')
    <3>1. wu.ticks + 1 \in Nat
      BY <1>1 DEF Uploaders
    <3>2. CASE wu.runing
      BY <1>1, <1>2, <3>2 DEF start, Kept
    <3>3. CASE ~wu.runing
      BY <1>1, <1>2, <3>1, <3>3, StartWrites DEF start
    <3> QED BY <3>2, <3>3
  <2> QED BY <1>1, <1>2, <2>2, <2>3, OthersKeep DEF start, UploadTypes, Kept
<1>3. CASE stop
  <2>1. setState("paused", status) \in DialogStates
    BY <1>1, SetStateType
  <2>2. dialog' \in DialogStates
    BY <1>1, <1>3, <2>1 DEF stop, DialogStates
  <2>3. Kept(wu, wu')
    BY <1>1, <1>3 DEF stop, Uploaders, Kept
  <2> QED BY <1>1, <1>3, <2>2, <2>3, OthersKeep DEF stop, UploadTypes, Kept
<1>4. CASE onok
  <2>1. dialog' \in DialogStates
    BY <1>1, <1>4 DEF onok, DialogStates
  <2> QED BY <1>1, <1>4, <2>1, OthersKeep DEF onok, UploadTypes, Kept
<1> QED BY <1>2, <1>3, <1>4

\* Ticks that wait or end, and the event that tells of the end.
LEMMA TicksKeep ==
  ASSUME UploadInv, TickWaits \/ TickEnds \/ uploadFinished
  PROVE  UploadInv'
<1>1. UploadTypes /\ dialog \in DialogStates /\ wu \in Uploaders
  BY DEF UploadInv, UploadTypes
<1>2. CASE TickWaits
  <2>1. Kept(wu, wu')
    <3>1. wu.ticks - 1 \in Nat /\ wu.waiting + 1 \in Nat
      BY <1>1, <1>2 DEF TickWaits, Uploaders
    <3> QED BY <1>1, <1>2, <3>1, WaitWrites DEF TickWaits
  <2> QED BY <1>1, <1>2, <2>1, OthersKeep DEF TickWaits, UploadTypes, Kept
<1>3. CASE TickEnds
  <2>1. Kept(wu, wu')
    <3>1. wu.ticks - 1 \in Nat /\ wu.finished \in Nat /\ wu.finished + 1 \in Nat
      BY <1>1, <1>3 DEF TickEnds, Uploaders
    <3> QED BY <1>1, <1>3, <3>1, EndWrites DEF TickEnds
  <2> QED BY <1>1, <1>3, <2>1, OthersKeep DEF TickEnds, UploadTypes, Kept
<1>4. CASE uploadFinished
  <2>1. dialog' \in DialogStates
    BY <1>1, <1>4, SetStateType DEF uploadFinished
  <2>2. Kept(wu, wu')
    BY <1>1, <1>4 DEF uploadFinished, Uploaders, Kept
  <2> QED BY <1>1, <1>4, <2>1, <2>2, OthersKeep DEF uploadFinished, UploadTypes, Kept
<1> QED BY <1>2, <1>3, <1>4

\* The file that is fetched is queued, and there is a place for it.
LEMMA PrepareKeeps ==
  ASSUME UploadInv, prepareNextFile
  PROVE  UploadInv'
<1>1. PICK f \in Files : IsNext(f) /\ wu' = [wu EXCEPT !.ticks = @ - 1, !.preparing = f, !.trigged = FALSE]
  BY DEF prepareNextFile
<1>2. status[f] = "queued" /\ Cardinality(wu.pool) < threads
  BY <1>1 DEF IsNext, Queued, prepareNextFile, CanFetch
<1>3. UploadTypes'
  <2>1. wu \in Uploaders /\ wu.ticks - 1 \in Nat
    BY DEF UploadInv, UploadTypes, Uploaders, prepareNextFile
  <2>2. wu' \in Uploaders
    BY <1>1, <2>1, PrepareWrites
  <2> QED BY <2>2 DEF UploadInv, UploadTypes, prepareNextFile
<1>4. wu'.pool = wu.pool /\ wu'.preparing = f /\ UNCHANGED <<status, button, imageList>>
  BY <1>1 DEF UploadInv, UploadTypes, Uploaders, prepareNextFile
<1>5. PoolIsSending' /\ PreparedHasPlace' /\ ButtonsOfUnsent' /\ StoredIsComplete'
  BY <1>2, <1>4 DEF UploadInv, PoolIsSending, PreparedHasPlace, ButtonsOfUnsent, StoredIsComplete, Stored
<1> QED BY <1>3, <1>5 DEF UploadInv

\* A file is prepared: it goes into the pool, or was deleted meanwhile.
LEMMA StartSendKeeps ==
  ASSUME UploadInv, startSend
  PROVE  UploadInv'
<1> USE DEF UploadInv
<1>1. UploadTypes'
  <2>1. wu \in Uploaders /\ wu.preparing \in Files
    BY DEF startSend, UploadTypes, Uploaders
  <2>2. Prepared \in Uploaders /\ Prepared.pool = wu.pool
    BY <2>1, PreparedWrites
  <2>3. wu' \in Uploaders
    BY <2>1, <2>2 DEF startSend, Uploaders
  <2>4. status' \in [Files -> Statuses] /\ button' \in SUBSET Files
    BY <2>1 DEF startSend, UploadTypes, Statuses
  <2> QED BY <2>3, <2>4 DEF startSend, UploadTypes
<1>2. wu.preparing \in Files /\ wu'.preparing = NoFile /\ UNCHANGED imageList
  BY DEF startSend, Prepared, UploadTypes, Uploaders
<1>3. PreparedHasPlace'
  BY <1>2 DEF PreparedHasPlace
<1>4. PoolIsSending'
  <2>1. CASE status[wu.preparing] = "queued"
    <3>1. wu'.pool = wu.pool \union {wu.preparing}
      BY <2>1 DEF startSend, Prepared, UploadTypes, Uploaders
    <3>2. IsFiniteSet(wu'.pool)
      BY <3>1, FS_AddElement DEF PoolIsSending
    <3> QED BY <1>2, <2>1, <3>1, <3>2 DEF startSend, PoolIsSending, UploadTypes
  <2>2. CASE status[wu.preparing] = "cancelled"
    <3>1. wu'.pool = wu.pool
      BY <2>2 DEF startSend, Prepared, UploadTypes, Uploaders
    <3> QED BY <1>2, <2>2, <3>1 DEF startSend, PoolIsSending, UploadTypes
  <2> QED BY <2>1, <2>2 DEF startSend
<1>5. ButtonsOfUnsent'
  <2>1. wu.preparing \notin button' /\ button' \subseteq button
    BY <1>2 DEF startSend, PreparedHasPlace
  <2>2. \A f \in Files \ {wu.preparing} : status'[f] = status[f]
    BY <1>2 DEF startSend, UploadTypes
  <2> QED BY <2>1, <2>2 DEF ButtonsOfUnsent, UploadTypes
<1>6. Stored' = Stored /\ Stored \in SUBSET Files
  BY <1>2, StoredAreFiles DEF Stored, UploadTypes
<1>7. StoredIsComplete'
  BY <1>2, <1>6 DEF StoredIsComplete, startSend, UploadTypes
<1> QED BY <1>1, <1>3, <1>4, <1>5, <1>7

\* A file that cannot be read leaves the pool alone, and may leave the uploader
\* dead.
LEMMA CompressFailsKeeps ==
  ASSUME UploadInv, compressFails
  PROVE  UploadInv'
<1> USE DEF UploadInv
<1>1. wu \in Uploaders /\ wu.preparing \in Files /\ ~wu.dead
  BY DEF compressFails, UploadTypes, Uploaders
<1>2. wu' \in Uploaders /\ wu'.pool = wu.pool /\ (wu'.preparing = NoFile \/ wu'.dead)
  <2>1. CASE status[wu.preparing] = "queued"
    BY <1>1, <2>1, PreparedWrites DEF compressFails
  <2>2. CASE status[wu.preparing] # "queued"
    BY <1>1, <2>2 DEF compressFails, Uploaders
  <2> QED BY <2>1, <2>2
<1>3. status[wu.preparing] \notin {"progress", "complete"}
  BY <1>1, UploadAssumption DEF PreparedHasPlace
<1>4. UploadTypes'
  BY <1>1, <1>2 DEF compressFails, UploadTypes, Statuses
<1>5. PoolIsSending' /\ StoredIsComplete'
  BY <1>1, <1>2, <1>3, StatusKeeps DEF compressFails, Statuses
<1>6. PreparedHasPlace'
  BY <1>2 DEF PreparedHasPlace
<1>7. ButtonsOfUnsent'
  BY <1>1 DEF compressFails, ButtonsOfUnsent, UploadTypes
<1> QED BY <1>4, <1>5, <1>6, <1>7

\* The end of a transfer makes a place in the pool.
LEMMA PopKeeps ==
  ASSUME UploadInv, NEW f \in wu.pool, NEW s \in {"complete", "error"}, popBlock(f),
         status' = [status EXCEPT ![f] = s], UNCHANGED <<button, dialog>>,
         UNCHANGED imageList \/ (s = "complete" /\ imageList' = Append(imageList, f))
  PROVE  UploadInv'
<1> USE DEF UploadInv
<1>1. wu \in Uploaders /\ f \in Files /\ status[f] = "progress" /\ IsFiniteSet(wu.pool)
  BY DEF UploadTypes, Uploaders, PoolIsSending
<1>2. wu' \in Uploaders /\ wu'.pool = wu.pool \ {f} /\ wu'.preparing = wu.preparing /\ wu'.dead = wu.dead
  <2>1. wu.ticks + 1 \in Nat
    BY <1>1 DEF Uploaders
  <2>2. ASSUME NEW n \in Nat, NEW pl \in SUBSET Files
        PROVE  LET v == [wu EXCEPT !.pool = pl, !.ticks = n]
               IN  v \in Uploaders /\ v.pool = pl /\ v.preparing = wu.preparing /\ v.dead = wu.dead
    BY <1>1 DEF Uploaders
  <2>3. wu.pool \ {f} \in SUBSET Files
    BY <1>1 DEF Uploaders
  <2> QED BY <2>1, <2>2, <2>3 DEF popBlock
<1>3. imageList' \in Seq(Files) /\ Stored \in SUBSET Files
      /\ (Stored' = Stored \/ (s = "complete" /\ Stored' = Stored \union {f}))
  <2>1. CASE UNCHANGED imageList
    BY <2>1, StoredAreFiles DEF UploadTypes, Stored
  <2>2. CASE s = "complete" /\ imageList' = Append(imageList, f)
    BY <1>1, <2>2, AppendStores, StoredAreFiles DEF UploadTypes
  <2> QED BY <2>1, <2>2
<1>4. UploadTypes'
  BY <1>1, <1>2, <1>3 DEF UploadTypes, Statuses
<1>5. IsFiniteSet(wu.pool \ {f}) /\ Cardinality(wu.pool \ {f}) <= Cardinality(wu.pool)
      /\ Cardinality(wu.pool) \in Nat /\ Cardinality(wu.pool \ {f}) \in Nat
  BY <1>1, FS_Subset, FS_CardinalityType
<1>6. PoolIsSending'
  BY <1>1, <1>2, <1>5 DEF PoolIsSending, UploadTypes
<1>7. PreparedHasPlace'
  <2> SUFFICES ASSUME wu.preparing # NoFile, ~wu.dead
               PROVE  PreparedHasPlace'
    BY <1>2 DEF PreparedHasPlace
  <2>1. wu.preparing \in Files /\ wu.preparing # f
    BY <1>1 DEF PreparedHasPlace, Uploaders
  <2>2. status'[wu.preparing] = status[wu.preparing]
    BY <1>1, <2>1 DEF UploadTypes
  <2>3. Cardinality(wu'.pool) < threads
    BY <1>2, <1>5, UploadAssumption DEF PreparedHasPlace
  <2> QED BY <1>2, <2>2, <2>3 DEF PreparedHasPlace
<1>8. ButtonsOfUnsent' /\ StoredIsComplete'
  BY <1>1, <1>3 DEF ButtonsOfUnsent, StoredIsComplete, UploadTypes
<1> QED BY <1>4, <1>6, <1>7, <1>8

\* Every step keeps the invariant.
LEMMA UploadStepKeeps ==
  ASSUME UploadInv, [UploadNext]_uploadVars
  PROVE  UploadInv'
<1>1. ASSUME NEW f \in Files, PickFile(f) \/ PickRefused(f) \/ DeleteFile(f)
      PROVE  UploadInv'
  BY <1>1, PickFileKeeps, PickRefusedKeeps, DeleteFileKeeps
<1>2. ASSUME NEW f \in Files, uploadSuccess(f)
      PROVE  UploadInv'
  BY <1>2, PopKeeps DEF uploadSuccess
<1>3. ASSUME NEW f \in Files, uploadError(f)
      PROVE  UploadInv'
  BY <1>3, PopKeeps DEF uploadError
<1>4. CASE UNCHANGED uploadVars
  BY <1>4 DEF uploadVars, UploadInv, UploadTypes, PoolIsSending, PreparedHasPlace, ButtonsOfUnsent,
              StoredIsComplete, Stored
<1> QED
  BY <1>1, <1>2, <1>3, <1>4, ClicksKeep, TicksKeep, PrepareKeeps, StartSendKeeps, CompressFailsKeeps
     DEF UploadNext, Callback

\* For any files and threads: a file that is being prepared has a place in the
\* pool, the pool is what is on its way, and only an unsent file can be deleted.
THEOREM UploadInvariant == UploadSpec => []UploadInv
<1>1. UploadInit => UploadInv
  BY UploadInitHolds
<1>2. UploadInv /\ [UploadNext]_uploadVars => UploadInv'
  BY UploadStepKeeps
<1> QED BY <1>1, <1>2, PTL DEF UploadSpec

-----------------------------------------------------------------------------
phases == [f \in Files |-> Phase(f)]

\* The phase of a file by its status.
LEMMA PhaseOf ==
  ASSUME NEW f \in Files
  PROVE  /\ status[f] = "new" => Phase(f) = "new"
         /\ status[f] = "queued" => Phase(f) = "waiting"
         /\ status[f] = "progress" => Phase(f) = "sending"
         /\ status[f] = "complete" /\ f \in Stored => Phase(f) = "stored"
         /\ status[f] = "complete" /\ f \notin Stored => Phase(f) = "dropped"
         /\ status[f] \in {"error", "cancelled"} => Phase(f) = "dropped"
  BY DEF Phase

\* What is sending is the pool.
LEMMA SendingIsPool ==
  ASSUME UploadInv
  PROVE  {f \in Files : phases[f] = "sending"} = wu.pool
<1>1. \A f \in Files : phases[f] = "sending" <=> status[f] = "progress"
  BY PhaseOf DEF UploadInv, UploadTypes, Statuses, phases
<1> QED BY <1>1 DEF UploadInv, PoolIsSending

\* The phases follow the statuses and the stored files.
LEMMA PhasesSame ==
  ASSUME UNCHANGED <<status, imageList>>
  PROVE  phases' = phases
  BY DEF phases, Phase, Stored

\* A status that changes changes the phase of its file, and of no other.
LEMMA PhaseChanges ==
  ASSUME UploadInv, NEW f \in Files, NEW s, status' = [status EXCEPT ![f] = s],
         UNCHANGED imageList \/ imageList' = Append(imageList, f)
  PROVE  /\ phases' = [phases EXCEPT ![f] = Phase(f)']
         /\ s = "queued" => Phase(f)' = "waiting"
         /\ s = "progress" => Phase(f)' = "sending"
         /\ s \in {"error", "cancelled"} => Phase(f)' = "dropped"
         /\ s = "complete" => Phase(f)' = IF f \in Stored' THEN "stored" ELSE "dropped"
<1>1. Stored' = Stored \/ Stored' = Stored \union {f}
  BY AppendStores DEF Stored, UploadInv, UploadTypes
<1>2. ASSUME NEW g \in Files \ {f}
      PROVE  Phase(g)' = Phase(g)
  BY <1>1, <1>2 DEF Phase, UploadInv, UploadTypes
<1>3. phases' = [phases EXCEPT ![f] = Phase(f)']
  BY <1>2 DEF phases
<1>4. status'[f] = s
  BY DEF UploadInv, UploadTypes
<1>5. /\ s = "queued" => Phase(f)' = "waiting"
      /\ s = "progress" => Phase(f)' = "sending"
      /\ s \in {"error", "cancelled"} => Phase(f)' = "dropped"
      /\ s = "complete" => Phase(f)' = IF f \in Stored' THEN "stored" ELSE "dropped"
  BY <1>4 DEF Phase
<1> QED BY <1>3, <1>5

-----------------------------------------------------------------------------
\* The moves of a file, as the abstract dialog makes them.
LEMMA Moves ==
  ASSUME NEW f \in Files, NEW to, phases' = [phases EXCEPT ![f] = to], dialog.open, dialog'.open = dialog.open
  PROVE  /\ phases[f] = "new" /\ to \in {"waiting", "dropped"} /\ UNCHANGED imageList => Batch!Next
         /\ phases[f] \in {"waiting", "sending"} /\ to = "dropped" /\ UNCHANGED imageList => Batch!Next
         /\ phases[f] = to /\ UNCHANGED imageList => UNCHANGED Batch!batch
<1>1. phases[f] = "new" /\ to \in {"waiting", "dropped"} /\ UNCHANGED imageList => Batch!Choose(f)
  BY DEF Batch!Choose, Batch!Becomes, phases
<1>2. phases[f] \in {"waiting", "sending"} /\ to = "dropped" /\ UNCHANGED imageList => Batch!Drop(f)
  BY DEF Batch!Drop, Batch!Becomes, phases
<1>3. phases[f] = to /\ UNCHANGED imageList => UNCHANGED Batch!batch
  BY DEF Batch!batch, phases
<1> QED BY <1>1, <1>2, <1>3 DEF Batch!Next

\* Choosing a file is a choice, and deleting one a drop or, if it was refused
\* or dropped before, nothing.
LEMMA AuthorSimulates ==
  ASSUME UploadInv, dialog.open, NEW f \in Files, PickFile(f) \/ PickRefused(f) \/ DeleteFile(f)
  PROVE  [Batch!Next]_(Batch!batch)
<1>1. dialog'.open = dialog.open /\ UNCHANGED imageList
  BY FilesQueuedType DEF PickFile, PickRefused, DeleteFile, UploadInv, UploadTypes
<1>2. CASE PickFile(f)
  <2>1. phases[f] = "new" /\ phases' = [phases EXCEPT ![f] = "waiting"]
    BY <1>1, <1>2, PhaseOf, PhaseChanges DEF PickFile, phases
  <2> QED BY <1>1, <2>1, Moves
<1>3. CASE PickRefused(f)
  <2>1. phases[f] = "new" /\ phases' = [phases EXCEPT ![f] = "dropped"]
    BY <1>1, <1>3, PhaseOf, PhaseChanges DEF PickRefused, phases
  <2> QED BY <1>1, <2>1, Moves
<1>4. CASE DeleteFile(f)
  <2>1. phases[f] \in {"waiting", "dropped"} /\ phases' = [phases EXCEPT ![f] = "dropped"]
    BY <1>1, <1>4, PhaseOf, PhaseChanges DEF DeleteFile, UploadInv, ButtonsOfUnsent, phases
  <2> QED BY <1>1, <2>1, Moves
<1> QED BY <1>2, <1>3, <1>4

\* What writes no status is nothing to the abstract dialog, but for OK.
LEMMA ClicksSimulate ==
  ASSUME UploadInv, dialog.open, start \/ stop \/ onok
  PROVE  [Batch!Next]_(Batch!batch)
<1>1. CASE onok
  <2>1. dialog'.open = FALSE /\ UNCHANGED <<phases, imageList>>
    BY <1>1, PhasesSame DEF onok, UploadInv, UploadTypes, DialogStates
  <2>2. ASSUME NEW f \in Files
        PROVE  phases[f] \notin {"waiting", "sending"}
    <3>1. status[f] \in Statuses \ {"queued", "progress"}
      BY <1>1 DEF onok, Unsent, UploadInv, UploadTypes
    <3> QED BY <3>1, PhaseOf DEF Statuses, phases
  <2>3. Batch!Insert
    BY <2>1, <2>2 DEF Batch!Insert, phases
  <2> QED BY <2>3 DEF Batch!Next
<1>2. CASE start \/ stop
  <2>1. dialog'.open = dialog.open
    <3>1. dialog \in DialogStates
      BY DEF UploadInv, UploadTypes
    <3>2. CASE start
      BY <3>1, <3>2, SetStateType DEF start
    <3>3. CASE stop
      <4>1. setState("paused", status) \in DialogStates /\ setState("paused", status).open = dialog.open
        BY <3>1, SetStateType
      <4> QED BY <3>3, <4>1 DEF stop, DialogStates
    <3> QED BY <1>2, <3>2, <3>3
  <2>2. UNCHANGED <<phases, imageList>>
    BY <1>2, PhasesSame DEF start, stop
  <2> QED BY <2>1, <2>2 DEF Batch!batch, phases
<1> QED BY <1>1, <1>2

\* Ticks, and the event that tells of the end.
LEMMA TicksSimulate ==
  ASSUME UploadInv, TickWaits \/ TickEnds \/ uploadFinished \/ prepareNextFile
  PROVE  UNCHANGED Batch!batch
<1>1. dialog'.open = dialog.open
  BY SetStateType DEF TickWaits, TickEnds, uploadFinished, prepareNextFile, UploadInv, UploadTypes
<1>2. UNCHANGED <<phases, imageList>>
  BY PhasesSame DEF TickWaits, TickEnds, uploadFinished, prepareNextFile
<1> QED BY <1>1, <1>2 DEF Batch!batch, phases

\* A queued file is sent, for which there is a place; one that was deleted is
\* dropped already, and stays so.
LEMMA StartSendSimulates ==
  ASSUME UploadInv, dialog.open, startSend
  PROVE  [Batch!Next]_(Batch!batch)
<1> DEFINE f == wu.preparing
<1>1. f \in Files /\ ~wu.dead /\ UNCHANGED <<dialog, imageList>>
  BY DEF startSend, UploadInv, UploadTypes, Uploaders
<1>2. CASE status[f] = "queued"
  <2>1. phases[f] = "waiting" /\ phases' = [phases EXCEPT ![f] = "sending"]
    BY <1>1, <1>2, PhaseOf, PhaseChanges DEF startSend, phases
  <2>2. Cardinality({g \in Files : phases[g] = "sending"}) < threads
    BY <1>1, SendingIsPool, UploadAssumption DEF UploadInv, PreparedHasPlace
  <2>3. Batch!Cardinality({g \in Files : phases[g] = "sending"}) < threads
    BY <2>2 DEF Cardinality, Batch!Cardinality
  <2>4. Batch!Send(f)
    BY <1>1, <2>1, <2>3 DEF Batch!Send, Batch!Becomes, phases
  <2> QED BY <1>1, <2>4 DEF Batch!Next
<1>3. CASE status[f] = "cancelled"
  <2>1. f \notin Stored' 
    BY <1>1, <1>3 DEF UploadInv, StoredIsComplete, Stored
  <2>2. phases[f] = "dropped" /\ phases' = [phases EXCEPT ![f] = "dropped"]
    BY <1>1, <1>3, <2>1, PhaseOf, PhaseChanges DEF startSend, phases
  <2> QED BY <1>1, <2>2, Moves
<1> QED BY <1>2, <1>3 DEF startSend

\* A file that cannot be read is dropped.
LEMMA CompressFailsSimulates ==
  ASSUME UploadInv, dialog.open, compressFails
  PROVE  [Batch!Next]_(Batch!batch)
<1> DEFINE f == wu.preparing
<1>1. f \in Files /\ UNCHANGED <<dialog, imageList>> /\ status[f] \in {"queued", "cancelled"}
  BY UploadAssumption DEF compressFails, UploadInv, UploadTypes, Uploaders, PreparedHasPlace
<1>2. phases[f] \in {"waiting", "dropped"} /\ phases' = [phases EXCEPT ![f] = "dropped"]
  BY <1>1, PhaseOf, PhaseChanges DEF compressFails, phases
<1> QED BY <1>1, <1>2, Moves

\* An answer stores the file or drops it.
LEMMA AnswersSimulate ==
  ASSUME UploadInv, dialog.open, NEW f \in Files, uploadSuccess(f) \/ uploadError(f)
  PROVE  [Batch!Next]_(Batch!batch)
<1>1. status[f] = "progress" /\ phases[f] = "sending" /\ UNCHANGED dialog /\ f \notin Stored
  BY PhaseOf DEF uploadSuccess, uploadError, UploadInv, PoolIsSending, StoredIsComplete, phases
<1>2. CASE uploadSuccess(f) /\ imageList' = Append(imageList, f)
  <2>1. f \in Stored'
    BY <1>2, AppendStores DEF UploadInv, UploadTypes
  <2>2. phases' = [phases EXCEPT ![f] = "stored"]
    BY <1>2, <2>1, PhaseChanges DEF uploadSuccess
  <2>3. Batch!Store(f)
    BY <1>1, <1>2, <2>2 DEF Batch!Store, Batch!Becomes, phases
  <2> QED BY <1>1, <2>3 DEF Batch!Next
<1>3. CASE uploadSuccess(f) /\ UNCHANGED imageList
  <2>1. f \notin Stored'
    BY <1>1, <1>3 DEF Stored
  <2>2. phases' = [phases EXCEPT ![f] = "dropped"]
    BY <1>3, <2>1, PhaseChanges DEF uploadSuccess
  <2> QED BY <1>1, <1>3, <2>2, Moves
<1>4. CASE uploadError(f)
  <2>1. UNCHANGED imageList /\ phases' = [phases EXCEPT ![f] = "dropped"]
    BY <1>4, PhaseChanges DEF uploadError
  <2> QED BY <1>1, <2>1, Moves
<1> QED BY <1>2, <1>3, <1>4 DEF uploadSuccess

\* Every step of the dialog and of its uploader is a step of the abstract one,
\* or nothing to it.
LEMMA UploadStepSimulates ==
  ASSUME UploadInv, [UploadNext]_uploadVars
  PROVE  [Batch!Next]_(Batch!batch)
<1>1. CASE UNCHANGED uploadVars
  <2>1. UNCHANGED <<phases, imageList, dialog>>
    BY <1>1, PhasesSame DEF uploadVars
  <2> QED BY <2>1 DEF Batch!batch, phases
<1>2. CASE UploadNext
  BY <1>2, AuthorSimulates, ClicksSimulate, TicksSimulate, StartSendSimulates, CompressFailsSimulates,
     AnswersSimulate DEF UploadNext, Callback
<1> QED BY <1>1, <1>2

\* For any set of files and any number of threads: no more files are sent at a
\* time than there are threads, one that was deleted is never sent, not even
\* when it was being prepared, and OK inserts exactly the stored files while no
\* other is to come (_tick, _prepareNextFile and _startSend of the uploader).
THEOREM UploadImplemented == UploadSpec => ImplementsUpload
<1>1. UploadInit => Batch!Init
  BY DEF UploadInit, Batch!Init, Phase
<1>2. UploadInv /\ [UploadNext]_uploadVars => [Batch!Next]_(Batch!batch)
  BY UploadStepSimulates
<1> QED BY <1>1, <1>2, UploadInvariant, PTL DEF UploadSpec, ImplementsUpload, Batch!Spec
=============================================================================
