--------------------------- MODULE DrawingsProofs ---------------------------
(***************************************************************************)
(* What Drawings promises, for any charts, tools, shapes and length of the *)
(* history and any number of things done: a gesture is one step of the     *)
(* history, what is at rest is saved, and what is gone stays gone.         *)
(***************************************************************************)
EXTENDS Drawings, SequenceTheorems, WellFoundedInduction, TLAPS

-----------------------------------------------------------------------------
(* The invariant.                                                          *)

\* The history and the shapes are those of b, or one step from them.
Unchanged(s, b) == s.undo = b.undo /\ Doc(s) = b.doc
OneStep(s, b) == s.undo \in {Append(b.undo, b.doc), Tail(Append(b.undo, b.doc))}

\* The shapes without the preview of the dialog.
WithoutPreview(s) == IF s.drawDialog # 0 THEN Put(s, s.dialogBefore.orig) ELSE s

\* A gesture that began at b, with nothing else in it, is a drag or a draft or a
\* text or a dialog, and has changed nothing yet but what a moved drag took a step
\* for and what the dialog can put back.
Gesture(s, drag, b) ==
    /\ drag # None => s.draft = None /\ s.textEdit = None /\ s.drawDialog = 0
    /\ s.draft # None => s.textEdit = None /\ s.drawDialog = 0
    /\ s.textEdit # None => s.drawDialog = 0
    /\ drag = None /\ s.draft = None /\ s.textEdit = None /\ s.drawDialog = 0 => Unchanged(s, b) \/ OneStep(s, b)
    /\ drag # None => IF drag.moved THEN OneStep(s, b) ELSE Unchanged(s, b)
    /\ s.draft # None \/ s.textEdit # None => Unchanged(s, b)
    /\ s.drawDialog # 0 => /\ s.undo = b.undo /\ s.dialogBefore.doc = b.doc
                           /\ Has(s, s.drawDialog) /\ Doc(WithoutPreview(s)) = b.doc
GestureInv == ~mixed => Gesture(store, ddrag, before)

\* With no save pending the session on disk has the shapes without a preview; a
\* drag that has moved will ask for a save when it ends.
Moved(drag) == drag # None /\ drag.moved
SavedInv == ~store.dirty /\ ~leaked /\ ~Moved(ddrag) => saved = Doc(WithoutPreview(store))

DrawingsInv == TypeOK /\ GestureInv /\ SavedInv

-----------------------------------------------------------------------------
(* Lists of shapes and of snapshots.                                       *)

\* What is in a snapshot.
LEMMA InDocs ==
    ASSUME NEW n \in Nat, NEW doc
    PROVE  doc \in Docs(n) <=> /\ doc \in Document /\ Distinct(doc.drawings)
                               /\ \A i \in DOMAIN doc.drawings : doc.drawings[i].id <= n
BY DEF Docs

\* The snapshot of a store.
LEMMA DocIs ==
    ASSUME NEW s, NEW n \in Nat
    PROVE  /\ Doc(s) \in Docs(n) <=> /\ s.drawings \in Seq(Shape) /\ s.hlines \in Nat /\ Distinct(s.drawings)
                                     /\ \A i \in DOMAIN s.drawings : s.drawings[i].id <= n
           /\ Doc(s).drawings = s.drawings /\ Doc(s).hlines = s.hlines
BY InDocs DEF Doc, Document

\* A snapshot that is one of a store's has its shapes and its lines.
LEMMA SameDoc ==
    ASSUME NEW s, NEW t
    PROVE  /\ Doc(s) = Doc(t) <=> s.drawings = t.drawings /\ s.hlines = t.hlines
BY DEF Doc

\* Shapes have numbers.
LEMMA ShapesIn ==
    ASSUME NEW q \in Seq(Shape)
    PROVE  /\ Len(q) \in Nat /\ DOMAIN q = 1..Len(q)
           /\ \A i \in DOMAIN q : q[i] \in Shape /\ q[i].id \in Nat /\ q[i].id > 0
<1>1. Len(q) \in Nat /\ DOMAIN q = 1..Len(q) /\ \A i \in 1..Len(q) : q[i] \in Shape
  BY LenProperties, ElementOfSeq
<1>2. \A d \in Shape : d.id \in Ids
  BY DEF Shape
<1> QED BY <1>1, <1>2 DEF Ids

\* Ids that have been given out stay so.
LEMMA DocsGrow ==
    ASSUME NEW m \in Nat, NEW n \in Nat, m <= n
    PROVE  Docs(m) \subseteq Docs(n) /\ Seq(Docs(m)) \subseteq Seq(Docs(n))
<1>1. Docs(m) \subseteq Docs(n)
  <2> SUFFICES ASSUME NEW doc \in Docs(m) PROVE doc \in Docs(n)
    OBVIOUS
  <2>1. doc \in Document /\ Distinct(doc.drawings) /\ \A i \in DOMAIN doc.drawings : doc.drawings[i].id <= m
    BY InDocs
  <2>2. \A i \in DOMAIN doc.drawings : doc.drawings[i].id \in Nat
    BY <2>1, ShapesIn DEF Document
  <2>3. \A i \in DOMAIN doc.drawings : doc.drawings[i].id <= n
    BY <2>1, <2>2
  <2> QED BY <2>1, <2>3, InDocs
<1>2. \A q \in Seq(Docs(m)) : q \in Seq(Docs(n))
  BY <1>1, SeqMonotonic
<1> QED BY <1>1, <1>2

\* The history with one snapshot more, and one less.
LEMMA Longer ==
    ASSUME NEW D, NEW q \in Seq(D), NEW doc \in D
    PROVE  /\ Append(q, doc) \in Seq(D) /\ Tail(Append(q, doc)) \in Seq(D) /\ Capped(Append(q, doc)) \in Seq(D)
           /\ Capped(Append(q, doc)) \in {Append(q, doc), Tail(Append(q, doc))}
<1>1. Append(q, doc) \in Seq(D) /\ Append(q, doc) # <<>>
  BY AppendProperties
<1>2. Tail(Append(q, doc)) \in Seq(D)
  BY <1>1, HeadTailProperties
<1> QED BY <1>1, <1>2 DEF Capped

\* The history without its last snapshot, and that one.
LEMMA Shorter ==
    ASSUME NEW D, NEW q \in Seq(D), q # <<>>
    PROVE  Front(q) \in Seq(D) /\ Last(q) \in D
<1>1. Len(q) \in Nat \ {0}
  BY EmptySeq
<1>2. \A i \in 1..(Len(q) - 1) : q[i] \in D
  BY <1>1, ElementOfSeq
<1>3. Front(q) \in Seq(D)
  BY <1>1, <1>2, SubSeqProperties DEF Front
<1>4. Last(q) \in D
  BY <1>1, ElementOfSeq DEF Last
<1> QED BY <1>3, <1>4

\* The place of a shape, and the shape.
LEMMA Found ==
    ASSUME NEW s, NEW id, Has(s, id)
    PROVE  At(s, id) \in DOMAIN s.drawings /\ s.drawings[At(s, id)].id = id /\ Get(s, id).id = id
BY DEF Has, At, Get

\* No other shape has its id.
LEMMA OnlyOne ==
    ASSUME NEW s, NEW id, Distinct(s.drawings), NEW i \in DOMAIN s.drawings, s.drawings[i].id = id
    PROVE  Has(s, id) /\ i = At(s, id) /\ s.drawings[i] = Get(s, id)
<1>1. Has(s, id)
  BY DEF Has
<1>2. i = At(s, id)
  BY <1>1, Found DEF Distinct
<1> QED BY <1>1, <1>2 DEF Get

\* The shape that Get finds is a shape.
LEMMA GetTyped ==
    ASSUME NEW s, NEW id, s.drawings \in Seq(Shape), Has(s, id)
    PROVE  Get(s, id) \in Shape
BY Found DEF Get

\* A set of numbers, up to n for the greatest, that is not empty has a least and a greatest one.
LEMMA MinIs ==
    ASSUME NEW S, S \subseteq Nat, S # {}
    PROVE  Min(S) \in S /\ \A x \in S : Min(S) <= x
<1>1. PICK x \in S : \A y \in S : ~(<<y, x>> \in OpToRel(<, Nat))
  BY NatLessThanWellFounded, WFMin
<1>2. \A y \in S : x <= y
  <2> TAKE y \in S
  <2>1. ~(y < x)
    BY <1>1 DEF OpToRel
  <2> QED BY <2>1
<1> QED BY <1>2 DEF Min

\* The greatest of a set of numbers that is bounded and not empty.
LEMMA MaxIs ==
    ASSUME NEW n \in Nat, NEW S, S \subseteq 0..n, S # {}
    PROVE  Max(S) \in S /\ \A x \in S : x <= Max(S)
<1> DEFINE Mirror == {n - t : t \in S}
<1>1. Mirror \subseteq Nat /\ Mirror # {}
  <2>1. \A t \in S : n - t \in Nat
    OBVIOUS
  <2> QED BY <2>1
<1>2. Min(Mirror) \in Mirror /\ \A x \in Mirror : Min(Mirror) <= x
  <2> HIDE DEF Mirror
  <2> QED BY <1>1, MinIs
<1>3. PICK g \in S : Min(Mirror) = n - g
  BY <1>2
<1>4. \A x \in S : x <= g
  <2> TAKE x \in S
  <2>1. n - g <= n - x
    BY <1>2, <1>3
  <2> QED BY <2>1
<1> QED BY <1>4 DEF Max

\* A shape put in the place of the one with its id.
PutIn(q, d) == [i \in DOMAIN q |-> IF q[i].id = d.id THEN d ELSE q[i]]
LEMMA PutInIs ==
    ASSUME NEW q \in Seq(Shape), Distinct(q), NEW d \in Shape
    PROVE  /\ PutIn(q, d) \in Seq(Shape) /\ Distinct(PutIn(q, d)) /\ DOMAIN PutIn(q, d) = DOMAIN q
           /\ \A i \in DOMAIN q : PutIn(q, d)[i].id = q[i].id
<1> DEFINE p == PutIn(q, d)
<1>1. DOMAIN q = 1..Len(q) /\ Len(q) \in Nat /\ \A i \in 1..Len(q) : q[i] \in Shape
  BY ShapesIn
<1>2. DOMAIN p = DOMAIN q /\ \A i \in DOMAIN q : p[i] = IF q[i].id = d.id THEN d ELSE q[i]
  BY DEF PutIn
<1>3. p \in Seq(Shape)
  <2>1. p = [i \in 1..Len(q) |-> IF q[i].id = d.id THEN d ELSE q[i]]
    BY <1>1 DEF PutIn
  <2>2. \A i \in 1..Len(q) : (IF q[i].id = d.id THEN d ELSE q[i]) \in Shape
    BY <1>1
  <2>3. p \in [1..Len(q) -> Shape]
    BY <2>1, <2>2
  <2> QED BY <1>1, <2>3
<1>4. \A i \in DOMAIN q : p[i].id = q[i].id
  BY <1>2
<1>5. Distinct(p)
  BY <1>2, <1>4 DEF Distinct
<1> QED BY <1>2, <1>3, <1>4, <1>5

\* A list without its i-th shape.
LEMMA RemovedIs ==
    ASSUME NEW q \in Seq(Shape), Distinct(q), NEW i \in DOMAIN q
    PROVE  LET p == RemoveAt(q, i) IN
           /\ p \in Seq(Shape) /\ Distinct(p)
           /\ \A j \in DOMAIN p : \E k \in DOMAIN q : k # i /\ p[j] = q[k]
<1> DEFINE a == SubSeq(q, 1, i - 1)
           b == SubSeq(q, i + 1, Len(q))
           p == a \o b
<1>1. /\ Len(q) \in Nat /\ i \in 1..Len(q) /\ DOMAIN q = 1..Len(q)
      /\ \A j \in 1..Len(q) : q[j] \in Shape
  BY ShapesIn
<1>2. a \in Seq(Shape) /\ Len(a) = i - 1 /\ \A j \in 1..(i - 1) : a[j] = q[j]
  BY <1>1
<1>3. b \in Seq(Shape) /\ Len(b) = Len(q) - i /\ \A j \in 1..(Len(q) - i) : b[j] = q[i + j]
  <2>1. i + 1 \in Int /\ Len(q) \in Int /\ \A j \in (i + 1)..Len(q) : q[j] \in Shape
    BY <1>1
  <2>2. /\ b \in Seq(Shape) /\ Len(b) = (IF i + 1 <= Len(q) THEN Len(q) - (i + 1) + 1 ELSE 0)
        /\ \A j \in 1..(Len(q) - (i + 1) + 1) : b[j] = q[(i + 1) + j - 1]
    BY <2>1, SubSeqProperties
  <2> HIDE DEF b
  <2>3. Len(q) - (i + 1) + 1 = Len(q) - i /\ \A j \in Int : (i + 1) + j - 1 = i + j
    BY <1>1
  <2>4. Len(b) = Len(q) - i
    BY <1>1, <2>2
  <2>5. ASSUME NEW j \in 1..(Len(q) - i) PROVE b[j] = q[i + j]
    <3>1. j \in Int /\ j \in 1..(Len(q) - (i + 1) + 1)
      BY <1>1, <2>3
    <3> QED BY <2>2, <2>3, <3>1
  <2> QED BY <2>2, <2>4, <2>5
<1> HIDE DEF a, b
<1>4. p \in Seq(Shape) /\ Len(p) = Len(a) + Len(b)
      /\ \A j \in 1..(Len(a) + Len(b)) : p[j] = IF j <= Len(a) THEN a[j] ELSE b[j - Len(a)]
  BY <1>2, <1>3, ConcatProperties
<1>5. p = RemoveAt(q, i)
  BY DEF RemoveAt, a, b
<1> HIDE DEF p
<1>6. DOMAIN p = 1..(Len(q) - 1)
  BY <1>1, <1>2, <1>3, <1>4, LenProperties
<1> DEFINE at(j) == IF j < i THEN j ELSE j + 1
<1>7. ASSUME NEW j \in DOMAIN p
      PROVE  at(j) \in DOMAIN q /\ at(j) # i /\ p[j] = q[at(j)]
  <2>1. CASE j < i
    <3>1. j \in 1..(i - 1) /\ j <= Len(a) /\ j \in 1..(Len(a) + Len(b))
      BY <1>1, <1>2, <1>3, <1>6, <1>7, <2>1
    <3>2. p[j] = a[j] /\ a[j] = q[j]
      BY <1>2, <1>4, <3>1
    <3> QED BY <1>1, <2>1, <3>1, <3>2
  <2>2. CASE ~(j < i)
    <3>1. j - (i - 1) \in 1..(Len(q) - i) /\ i + (j - (i - 1)) = j + 1 /\ ~(j <= i - 1)
      BY <1>1, <1>6, <1>7, <2>2
    <3>2. p[j] = b[j - (i - 1)]
      <4>1. j \in 1..(Len(a) + Len(b)) /\ Len(a) = i - 1 /\ ~(j <= Len(a))
        BY <1>1, <1>2, <1>3, <1>6, <1>7, <3>1
      <4>2. p[j] = b[j - Len(a)]
        BY <1>4, <4>1
      <4> QED BY <4>1, <4>2
    <3>3. p[j] = q[j + 1]
      BY <1>3, <3>1, <3>2
    <3> QED BY <1>1, <1>6, <1>7, <2>2, <3>3
  <2> QED BY <2>1, <2>2
<1>8. Distinct(p)
  <2> SUFFICES ASSUME NEW j \in DOMAIN p, NEW k \in DOMAIN p, j # k PROVE p[j].id # p[k].id
    BY DEF Distinct
  <2>1. at(j) # at(k)
    BY <1>1, <1>6
  <2> QED BY <1>7, <2>1 DEF Distinct
<1> HIDE DEF at
<1> QED BY <1>4, <1>5, <1>7, <1>8

\* A list with one shape more, whose id is new.
LEMMA AppendedIs ==
    ASSUME NEW q \in Seq(Shape), Distinct(q), NEW n \in Nat, \A i \in DOMAIN q : q[i].id <= n,
           NEW d \in Shape, d.id = n + 1
    PROVE  LET p == Append(q, d) IN
           /\ p \in Seq(Shape) /\ Distinct(p)
           /\ \A j \in DOMAIN p : p[j] = d \/ \E k \in DOMAIN q : p[j] = q[k]
<1> DEFINE p == Append(q, d)
<1>1. /\ Len(q) \in Nat /\ DOMAIN q = 1..Len(q)
      /\ \A j \in 1..Len(q) : q[j] \in Shape /\ q[j].id \in Nat
  BY ShapesIn
<1>2. p \in Seq(Shape) /\ Len(p) = Len(q) + 1 /\ DOMAIN p = 1..(Len(q) + 1)
      /\ p[Len(q) + 1] = d /\ \A j \in 1..Len(q) : p[j] = q[j]
  BY AppendProperties, LenProperties
<1> HIDE DEF p
<1>3. Distinct(p)
  <2> SUFFICES ASSUME NEW j \in DOMAIN p, NEW k \in DOMAIN p, j # k PROVE p[j].id # p[k].id
    BY DEF Distinct
  <2>1. CASE j = Len(q) + 1
    BY <1>1, <1>2, <2>1
  <2>2. CASE k = Len(q) + 1
    BY <1>1, <1>2, <2>2
  <2>3. CASE j # Len(q) + 1 /\ k # Len(q) + 1
    BY <1>1, <1>2, <2>3 DEF Distinct
  <2> QED BY <2>1, <2>2, <2>3
<1>4. \A j \in DOMAIN p : p[j] = d \/ \E k \in DOMAIN q : p[j] = q[k]
  BY <1>1, <1>2
<1> QED BY <1>2, <1>3, <1>4 DEF p

-----------------------------------------------------------------------------
(* Shapes, and stores that one of them changes in.                         *)

\* A shape whose id is yet to be given.
Drawn == [id : Nat, sym : Syms, type : Tools, at : Places, style : Styles,
          text : Texts \cup {""}, locked : BOOLEAN, hidden : BOOLEAN, vis : BOOLEAN]

\* A shape that has its id may be given another.
LEMMA ShapeIsDrawn == \A d \in Shape : d \in Drawn
BY DEF Shape, Drawn, Ids

\* With an id it is a shape.
LEMMA GivenId ==
    ASSUME NEW d \in Drawn, NEW n \in Ids
    PROVE  [d EXCEPT !.id = n] \in Shape /\ [d EXCEPT !.id = n].id = n
BY DEF Shape, Drawn

\* A shape with one field changed is a shape with the same id.
LEMMA Changed ==
    ASSUME NEW d \in Shape
    PROVE  /\ \A x \in Places : [d EXCEPT !.at = x] \in Shape /\ [d EXCEPT !.at = x].id = d.id
           /\ \A x \in Styles : [d EXCEPT !.style = x] \in Shape /\ [d EXCEPT !.style = x].id = d.id
           /\ \A x \in Texts \cup {""} : [d EXCEPT !.text = x] \in Shape /\ [d EXCEPT !.text = x].id = d.id
           /\ \A x \in BOOLEAN : [d EXCEPT !.locked = x] \in Shape /\ [d EXCEPT !.locked = x].id = d.id
           /\ \A x \in BOOLEAN : [d EXCEPT !.hidden = x] \in Shape /\ [d EXCEPT !.hidden = x].id = d.id
           /\ \A x \in BOOLEAN : [d EXCEPT !.vis = x] \in Shape /\ [d EXCEPT !.vis = x].id = d.id
<1>1. \A x \in Places : [d EXCEPT !.at = x] \in Shape /\ [d EXCEPT !.at = x].id = d.id
  BY DEF Shape
<1>2. \A x \in Styles : [d EXCEPT !.style = x] \in Shape /\ [d EXCEPT !.style = x].id = d.id
  BY DEF Shape
<1>3. \A x \in Texts \cup {""} : [d EXCEPT !.text = x] \in Shape /\ [d EXCEPT !.text = x].id = d.id
  BY DEF Shape
<1>4. \A x \in BOOLEAN : [d EXCEPT !.locked = x] \in Shape /\ [d EXCEPT !.locked = x].id = d.id
  BY DEF Shape
<1>5. \A x \in BOOLEAN : [d EXCEPT !.hidden = x] \in Shape /\ [d EXCEPT !.hidden = x].id = d.id
  BY DEF Shape
<1>6. \A x \in BOOLEAN : [d EXCEPT !.vis = x] \in Shape /\ [d EXCEPT !.vis = x].id = d.id
  BY DEF Shape
<1> QED BY <1>1, <1>2, <1>3, <1>4, <1>5, <1>6

\* Every shape of t was in s, or has an id that s had not given out.
NoneBack(s, t) == \A i \in DOMAIN t.drawings : Has(s, t.drawings[i].id) \/ s.seq < t.drawings[i].id

\* t has the fields of s, well typed; what is drafted, typed or in the dialog in t
\* is so in s.
Like(s, t) ==
    /\ DOMAIN t = DOMAIN s
    /\ t.selected \in Ids \cup {0} /\ t.tool \in Tools \cup {None} /\ t.drawMode \in BOOLEAN
    /\ t.draft \in {None, s.draft} /\ t.textEdit \in {None, s.textEdit}
    /\ t.drawDialog \in {0, s.drawDialog} /\ t.dialogBefore = s.dialogBefore
    /\ t.clip \in Shape \cup {None} /\ t.active \in Pane /\ t.lastStyle \in [Tools -> Styles]

\* t is s after a change that shapes and history know nothing of.
Quiet(s, t) ==
    /\ Like(s, t) /\ t.drawDialog = s.drawDialog
    /\ t.drawings = s.drawings /\ t.hlines = s.hlines /\ t.undo = s.undo /\ t.redo = s.redo
    /\ t.seq = s.seq /\ t.dirty = s.dirty

\* t is s after a step of the history.
Pushed(s, t) ==
    /\ Like(s, t) /\ t.dirty = TRUE
    /\ t.drawings \in Seq(Shape) /\ Distinct(t.drawings) /\ t.hlines \in Nat
    /\ t.seq \in Nat /\ s.seq <= t.seq /\ \A i \in DOMAIN t.drawings : t.drawings[i].id <= t.seq
    /\ t.undo = Capped(Append(s.undo, Doc(s))) /\ t.redo = <<>>
    /\ NoneBack(s, t)

\* What is known of a store, field by field; nothing has changed between it and itself.
LEMMA StoreFacts ==
    ASSUME NEW s, StoreOK(s)
    PROVE  /\ Like(s, s) /\ Quiet(s, s)
           /\ s.seq \in Nat /\ s.drawings \in Seq(Shape) /\ Distinct(s.drawings) /\ s.hlines \in Nat
           /\ \A i \in DOMAIN s.drawings : s.drawings[i].id <= s.seq
           /\ NoneBack(s, s)
<1>1. s.seq \in Nat /\ Doc(s) \in Docs(s.seq) /\ Like(s, s)
  BY DEF StoreOK, Like
<1>2. /\ s.drawings \in Seq(Shape) /\ Distinct(s.drawings) /\ s.hlines \in Nat
      /\ \A i \in DOMAIN s.drawings : s.drawings[i].id <= s.seq
  BY <1>1, DocIs
<1> QED BY <1>1, <1>2 DEF Quiet, NoneBack, Has

\* Such a store is well typed.
LEMMA LikeTyped ==
    ASSUME NEW s, StoreOK(s), NEW t, Like(s, t), t.seq \in Nat, s.seq <= t.seq, Doc(t) \in Docs(t.seq),
           t.undo \in Seq(Docs(t.seq)), t.redo \in Seq(Docs(t.seq)), t.dirty \in BOOLEAN
    PROVE  StoreOK(t)
<1>1. Docs(s.seq) \subseteq Docs(t.seq)
  BY DocsGrow DEF StoreOK
<1>2. t.drawDialog # 0 => /\ DOMAIN t.dialogBefore = {"doc", "orig"} /\ t.dialogBefore.doc \in Docs(t.seq)
                          /\ t.dialogBefore.orig \in Shape /\ t.dialogBefore.orig.id = t.drawDialog
  BY <1>1 DEF StoreOK, Like
<1>3. /\ {t.selected, t.drawDialog} \subseteq Ids \cup {0} /\ t.draft \in Draft \cup {None}
      /\ t.textEdit \in TextEdit \cup {None} /\ (t.textEdit # None => "text" \in Tools)
  BY DEF StoreOK, Like
<1> QED BY <1>2, <1>3 DEF StoreOK, Like

\* After a quiet change a store is well typed and has the same shapes.
LEMMA QuietTyped ==
    ASSUME NEW s, StoreOK(s), NEW t, Quiet(s, t)
    PROVE  StoreOK(t) /\ Doc(t) = Doc(s) /\ NoneBack(s, t)
<1>1. Doc(t) = Doc(s)
  BY SameDoc DEF Quiet
<1>2. t.seq \in Nat /\ s.seq <= t.seq /\ t.undo \in Seq(Docs(t.seq)) /\ t.redo \in Seq(Docs(t.seq)) /\ t.dirty \in BOOLEAN
  BY DEF Quiet, StoreOK
<1>3. Doc(t) \in Docs(t.seq)
  BY <1>1 DEF Quiet, StoreOK
<1>4. StoreOK(t)
  BY <1>2, <1>3, LikeTyped DEF Quiet
<1>5. NoneBack(s, t)
  BY DEF Quiet, NoneBack, Has
<1> QED BY <1>1, <1>4, <1>5

\* After a step of the history it is well typed, and the history ends with the shapes before.
LEMMA PushedTyped ==
    ASSUME NEW s, StoreOK(s), NEW t, Pushed(s, t)
    PROVE  /\ StoreOK(t) /\ s.seq <= t.seq
           /\ t.undo \in {Append(s.undo, Doc(s)), Tail(Append(s.undo, Doc(s)))}
<1>1. /\ s.undo \in Seq(Docs(s.seq)) /\ Doc(s) \in Docs(s.seq) /\ s.seq \in Nat
  BY DEF StoreOK
<1>2. /\ t.undo \in Seq(Docs(s.seq))
      /\ t.undo \in {Append(s.undo, Doc(s)), Tail(Append(s.undo, Doc(s)))}
  <2> DEFINE D == Docs(s.seq)
             doc == Doc(s)
  <2>1. t.undo = Capped(Append(s.undo, doc))
    BY DEF Pushed
  <2>2. s.undo \in Seq(D) /\ doc \in D
    BY <1>1
  <2> HIDE DEF D, doc
  <2>3. /\ Capped(Append(s.undo, doc)) \in Seq(D)
        /\ Capped(Append(s.undo, doc)) \in {Append(s.undo, doc), Tail(Append(s.undo, doc))}
    BY <2>2, Longer
  <2> QED BY <2>1, <2>3 DEF D, doc
<1>3. t.seq \in Nat /\ s.seq <= t.seq /\ t.dirty \in BOOLEAN /\ Like(s, t)
  BY DEF Pushed
<1>4. t.undo \in Seq(Docs(t.seq))
  BY <1>1, <1>2, <1>3, DocsGrow
<1>5. t.redo \in Seq(Docs(t.seq))
  BY EmptySeq DEF Pushed
<1>6. Doc(t) \in Docs(t.seq)
  BY <1>3, DocIs DEF Pushed
<1> QED BY <1>2, <1>3, <1>4, <1>5, <1>6, LikeTyped

\* Quiet changes may be made before a step and after it.
LEMMA QuietThenQuiet ==
    ASSUME NEW s, NEW t, NEW u, Quiet(s, t), Quiet(t, u)
    PROVE  Quiet(s, u)
BY DEF Quiet, Like

\* A quiet change, then a step of the history, is that step.
LEMMA QuietThenPushed ==
    ASSUME NEW s, NEW t, NEW u, Quiet(s, t), Pushed(t, u)
    PROVE  Pushed(s, u)
<1>1. Doc(s) = Doc(t)
  BY SameDoc DEF Quiet
<1>2. NoneBack(s, u)
  BY DEF Quiet, Pushed, NoneBack, Has
<1>3. Like(s, u)
  BY DEF Quiet, Pushed, Like
<1> QED BY <1>1, <1>2, <1>3 DEF Quiet, Pushed

\* A step of the history, then a quiet change, is that step.
LEMMA PushedThenQuiet ==
    ASSUME NEW s, NEW t, NEW u, Pushed(s, t), Quiet(t, u)
    PROVE  Pushed(s, u)
<1>1. NoneBack(s, u)
  BY DEF Quiet, Pushed, NoneBack, Has
<1>2. Like(s, u)
  BY DEF Quiet, Pushed, Like
<1> QED BY <1>1, <1>2 DEF Quiet, Pushed

-----------------------------------------------------------------------------
(* The methods that leave the shapes alone.                                *)

\* Selecting a shape is quiet.
LEMMA SelectIs ==
    ASSUME NEW s, StoreOK(s), NEW id \in Ids \cup {0}
    PROVE  Quiet(s, Select(s, id))
BY StoreFacts DEF StoreOK, Quiet, Like, Select

\* Choosing a tool is quiet.
LEMMA SetToolIs ==
    ASSUME NEW s, StoreOK(s), NEW tool \in Tools \cup {None}
    PROVE  Quiet(s, SetTool(s, tool))
BY StoreFacts DEF StoreOK, Quiet, Like, SetTool

\* Drawing horizontal lines, or no longer, is quiet.
LEMMA SetDrawModeIs ==
    ASSUME NEW s, StoreOK(s), NEW on \in BOOLEAN
    PROVE  Quiet(s, SetDrawMode(s, on))
BY StoreFacts DEF StoreOK, Quiet, Like, SetDrawMode

\* Giving up a draft is quiet.
LEMMA CancelDraftIs ==
    ASSUME NEW s, StoreOK(s)
    PROVE  Quiet(s, CancelDraft(s)) /\ CancelDraft(s).draft = None
BY StoreFacts DEF StoreOK, Quiet, Like, CancelDraft

\* Making a chart the active one is quiet.
LEMMA ActivatedIs ==
    ASSUME StoreOK(store), NEW k \in Pane
    PROVE  Quiet(store, Activated(k)) /\ Activated(k).draft = store.draft /\ Activated(k).textEdit = store.textEdit
BY StoreFacts DEF StoreOK, Quiet, Like, Activated

\* Copying a shape is quiet.
LEMMA CopyDrawingIs ==
    ASSUME NEW s, StoreOK(s), NEW id
    PROVE  Quiet(s, CopyDrawing(s, id))
<1>1. CASE Has(s, id)
  <2>1. Get(s, id) \in Shape
    BY <1>1, StoreFacts, GetTyped
  <2> QED BY <1>1, <2>1, StoreFacts DEF StoreOK, Quiet, Like, CopyDrawing
<1>2. CASE ~Has(s, id)
  BY <1>2, StoreFacts DEF CopyDrawing
<1> QED BY <1>1, <1>2

\* Remembering the style of a tool is quiet.
LEMMA RememberStyleIs ==
    ASSUME NEW s, StoreOK(s), NEW d \in Shape
    PROVE  Quiet(s, RememberStyle(s, d))
<1>1. d.type \in Tools /\ d.style \in Styles
  BY DEF Shape
<1>2. RememberStyle(s, d) = [s EXCEPT !.lastStyle = [@ EXCEPT ![d.type] = d.style]]
  BY DEF RememberStyle
<1>3. [s.lastStyle EXCEPT ![d.type] = d.style] \in [Tools -> Styles]
  BY <1>1 DEF StoreOK
<1> QED BY <1>2, <1>3, StoreFacts DEF StoreOK, Quiet, Like

-----------------------------------------------------------------------------
(* The methods that take a step of the history.                            *)

\* The step itself changes the history only.
LEMMA PushUndoIs ==
    ASSUME NEW s, StoreOK(s)
    PROVE  LET p == PushUndo(s) IN
           /\ DOMAIN p = DOMAIN s /\ \A f \in DOMAIN s \ {"undo", "redo"} : p[f] = s[f]
           /\ p.undo = Capped(Append(s.undo, Doc(s))) /\ p.redo = <<>>
BY DEF PushUndo, StoreOK

\* A step after which the shapes are q, and what goes with it.
LEMMA StepTo ==
    ASSUME NEW s, StoreOK(s), NEW q \in Seq(Shape), Distinct(q), NEW n \in Nat,
           \A i \in DOMAIN q : Has(s, q[i].id) \/ s.seq < q[i].id,
           NEW t, Like(s, t), t.drawings = q, t.hlines = n, t.dirty = TRUE,
           t.seq \in Nat, s.seq <= t.seq, \A i \in DOMAIN q : q[i].id <= t.seq,
           t.undo = Capped(Append(s.undo, Doc(s))), t.redo = <<>>
    PROVE  Pushed(s, t)
BY DEF Pushed, NoneBack

\* Shapes that were there before.
Old(s, q) == q \in Seq(Shape) /\ Distinct(q) /\ \A i \in DOMAIN q : Has(s, q[i].id)
LEMMA OldStep ==
    ASSUME NEW s, StoreOK(s), NEW t, Like(s, t), Old(s, t.drawings), t.hlines \in Nat, t.dirty = TRUE, t.seq = s.seq,
           t.undo = Capped(Append(s.undo, Doc(s))), t.redo = <<>>
    PROVE  Pushed(s, t)
<1> DEFINE q == t.drawings
<1>1. s.seq \in Nat /\ \A i \in DOMAIN s.drawings : s.drawings[i].id <= s.seq
  BY StoreFacts
<1>2. \A i \in DOMAIN q : q[i].id <= s.seq
  <2> SUFFICES ASSUME NEW i \in DOMAIN q PROVE q[i].id <= s.seq
    OBVIOUS
  <2>1. PICK j \in DOMAIN s.drawings : s.drawings[j].id = q[i].id
    BY DEF Old, Has
  <2> QED BY <1>1, <2>1
<1> QED BY <1>1, <1>2 DEF Old, Pushed, NoneBack

\* The shapes that are there, and no shapes at all, were there before.
LEMMA SameShapesOld ==
    ASSUME NEW s, StoreOK(s)
    PROVE  Old(s, s.drawings) /\ Old(s, <<>>)
BY StoreFacts, EmptySeq DEF Old, Has, Distinct

\* Put, with its list.
LEMMA PutIs ==
    ASSUME NEW s, StoreOK(s), NEW d \in Shape
    PROVE  /\ DOMAIN Put(s, d) = DOMAIN s /\ \A f \in DOMAIN s \ {"drawings"} : Put(s, d)[f] = s[f]
           /\ Put(s, d).drawings = PutIn(s.drawings, d) /\ Old(s, PutIn(s.drawings, d))
           /\ DOMAIN PutIn(s.drawings, d) = DOMAIN s.drawings
<1>1. /\ DOMAIN Put(s, d) = DOMAIN s /\ \A f \in DOMAIN s \ {"drawings"} : Put(s, d)[f] = s[f]
      /\ Put(s, d).drawings = PutIn(s.drawings, d)
  BY DEF Put, PutIn, StoreOK
<1>2. Old(s, PutIn(s.drawings, d)) /\ DOMAIN PutIn(s.drawings, d) = DOMAIN s.drawings
  BY StoreFacts, PutInIs DEF Old, Has
<1> QED BY <1>1, <1>2

\* Drop, with its list.
LEMMA DropIs ==
    ASSUME NEW s, StoreOK(s), NEW id
    PROVE  /\ DOMAIN Drop(s, id) = DOMAIN s /\ \A f \in DOMAIN s \ {"drawings"} : Drop(s, id)[f] = s[f]
           /\ Old(s, Drop(s, id).drawings)
<1>1. CASE Has(s, id)
  <2>1. At(s, id) \in DOMAIN s.drawings
    BY <1>1, Found
  <2>2. Old(s, RemoveAt(s.drawings, At(s, id)))
    BY <2>1, StoreFacts, RemovedIs DEF Old, Has
  <2>3. Drop(s, id) = [s EXCEPT !.drawings = RemoveAt(s.drawings, At(s, id))]
    BY <1>1 DEF Drop
  <2>4. DOMAIN s = {"drawings", "hlines", "undo", "redo", "selected", "tool", "drawMode", "draft", "textEdit",
                    "drawDialog", "dialogBefore", "clip", "seq", "lastStyle", "active", "dirty"}
    BY DEF StoreOK
  <2> DEFINE q == RemoveAt(s.drawings, At(s, id))
  <2>5. Drop(s, id) = [s EXCEPT !.drawings = q] /\ Old(s, q)
    BY <2>2, <2>3
  <2> HIDE DEF q
  <2>6. Drop(s, id).drawings = q
    BY <2>4, <2>5
  <2>7. DOMAIN Drop(s, id) = DOMAIN s /\ \A f \in DOMAIN s \ {"drawings"} : Drop(s, id)[f] = s[f]
    BY <2>4, <2>5
  <2> QED BY <2>5, <2>6, <2>7
<1>2. CASE ~Has(s, id)
  BY <1>2, SameShapesOld DEF Drop
<1> QED BY <1>1, <1>2

\* The shapes of a store after PushUndo are those before.
LEMMA AfterPush ==
    ASSUME NEW s, StoreOK(s)
    PROVE  /\ StoreOK(PushUndo(s)) /\ PushUndo(s).drawings = s.drawings
           /\ \A id : Has(PushUndo(s), id) <=> Has(s, id)
           /\ \A id : Get(PushUndo(s), id) = Get(s, id) /\ At(PushUndo(s), id) = At(s, id)
           /\ \A q : Old(PushUndo(s), q) <=> Old(s, q)
<1> DEFINE p == PushUndo(s)
<1>1. /\ DOMAIN p = DOMAIN s /\ \A f \in DOMAIN s \ {"undo", "redo"} : p[f] = s[f]
      /\ p.undo = Capped(Append(s.undo, Doc(s))) /\ p.redo = <<>>
  BY PushUndoIs
<1> HIDE DEF p
<1>2. p.drawings = s.drawings /\ p.hlines = s.hlines /\ p.seq = s.seq /\ p.dirty = s.dirty
  BY <1>1 DEF StoreOK
<1>3. Like(s, p)
  BY <1>1, StoreFacts DEF Like, StoreOK
<1>4. p.undo \in Seq(Docs(p.seq)) /\ p.redo \in Seq(Docs(p.seq))
  BY <1>1, <1>2, Longer, EmptySeq DEF StoreOK
<1>5. StoreOK(p)
  <2>1. Doc(p) = Doc(s)
    BY <1>2, SameDoc
  <2> QED BY <1>2, <1>3, <1>4, <2>1, LikeTyped DEF StoreOK
<1>6. \A id : Has(p, id) <=> Has(s, id)
  BY <1>2 DEF Has
<1>7. \A id : At(p, id) = At(s, id)
  BY <1>2 DEF At
<1>8. \A id : Get(p, id) = Get(s, id)
  BY <1>2, <1>7 DEF Get
<1>9. \A q : Old(p, q) <=> Old(s, q)
  BY <1>6 DEF Old
<1> QED BY <1>2, <1>5, <1>6, <1>7, <1>8, <1>9 DEF p

\* A store after PushUndo and a change of some of its other fields.
LEMMA FromPush ==
    ASSUME NEW s, StoreOK(s), NEW p, p = PushUndo(s)
    PROVE  /\ DOMAIN p = {"drawings", "hlines", "undo", "redo", "selected", "tool", "drawMode", "draft", "textEdit",
                          "drawDialog", "dialogBefore", "clip", "seq", "lastStyle", "active", "dirty"}
           /\ p.undo = Capped(Append(s.undo, Doc(s))) /\ p.redo = <<>> /\ Like(s, p)
           /\ p.drawings = s.drawings /\ p.hlines = s.hlines /\ p.seq = s.seq
           /\ p.drawDialog = s.drawDialog /\ p.dialogBefore = s.dialogBefore
           /\ p.draft = s.draft /\ p.textEdit = s.textEdit
<1>1. /\ DOMAIN p = DOMAIN s /\ \A f \in DOMAIN s \ {"undo", "redo"} : p[f] = s[f]
      /\ p.undo = Capped(Append(s.undo, Doc(s))) /\ p.redo = <<>>
  BY PushUndoIs
<1>2. Like(s, p)
  BY <1>1, StoreFacts DEF Like, StoreOK
<1> QED BY <1>1, <1>2 DEF StoreOK

\* A horizontal line more: a step of the history.
LEMMA AddHLineIs ==
    ASSUME NEW s, StoreOK(s)
    PROVE  Pushed(s, AddHLine(s)) /\ AddHLine(s).draft = s.draft /\ AddHLine(s).textEdit = s.textEdit
                                  /\ AddHLine(s).drawDialog = s.drawDialog
<1> DEFINE p == PushUndo(s)
           t == AddHLine(s)
<1>1. t = [[p EXCEPT !.hlines = @ + 1, !.drawMode = FALSE] EXCEPT !.dirty = TRUE]
  BY DEF AddHLine, ScheduleSave
<1>2. Old(s, s.drawings) /\ s.hlines \in Nat
  BY SameShapesOld, StoreFacts
<1> HIDE DEF p, t
<1>3. /\ Like(s, t) /\ t.drawings = s.drawings /\ t.hlines = s.hlines + 1 /\ t.dirty = TRUE /\ t.seq = s.seq
      /\ t.undo = Capped(Append(s.undo, Doc(s))) /\ t.redo = <<>>
      /\ t.draft = s.draft /\ t.textEdit = s.textEdit /\ t.drawDialog = s.drawDialog
  BY <1>1, FromPush DEF p, Like
<1>4. t.hlines \in Nat /\ Old(s, t.drawings)
  BY <1>2, <1>3
<1>5. Pushed(s, t)
  BY <1>3, <1>4, OldStep
<1> QED BY <1>3, <1>5 DEF t

\* A new shape, with an id that was not given out before.
LEMMA AddDrawingIs ==
    ASSUME NEW s, StoreOK(s), NEW d \in Drawn
    PROVE  LET t == AddDrawing(s, d) IN
           /\ Pushed(s, t) /\ t.draft = None /\ t.textEdit = s.textEdit /\ t.drawDialog = s.drawDialog
           /\ t.seq = s.seq + 1 /\ Has(t, t.seq)
<1> DEFINE p == PushUndo(s)
           id == s.seq + 1
           e == [d EXCEPT !.id = id]
           q == Append(s.drawings, e)
           t == AddDrawing(s, d)
<1>1. t = [[p EXCEPT !.seq = id, !.drawings = Append(@, e), !.selected = id, !.tool = None, !.draft = None]
              EXCEPT !.dirty = TRUE]
  BY DEF AddDrawing, ScheduleSave
<1>2. /\ s.seq \in Nat /\ s.drawings \in Seq(Shape) /\ Distinct(s.drawings) /\ s.hlines \in Nat
      /\ \A i \in DOMAIN s.drawings : s.drawings[i].id <= s.seq
  BY StoreFacts
<1>3. id \in Ids
  BY <1>2 DEF Ids
<1>4. e \in Shape /\ e.id = s.seq + 1
  BY <1>3, GivenId
<1> HIDE DEF p, e, t
<1>5. q \in Seq(Shape) /\ Distinct(q) /\ \A j \in DOMAIN q : q[j] = e \/ \E k \in DOMAIN s.drawings : q[j] = s.drawings[k]
  BY <1>2, <1>4, AppendedIs
<1>6. DOMAIN q = 1..(Len(s.drawings) + 1) /\ q[Len(s.drawings) + 1] = e /\ Len(s.drawings) \in Nat
  BY <1>2, <1>4, AppendProperties, LenProperties
<1> HIDE DEF q
<1>7. \A i \in DOMAIN q : (Has(s, q[i].id) \/ s.seq < q[i].id) /\ q[i].id <= s.seq + 1
  <2> SUFFICES ASSUME NEW i \in DOMAIN q PROVE (Has(s, q[i].id) \/ s.seq < q[i].id) /\ q[i].id <= s.seq + 1
    OBVIOUS
  <2>1. CASE q[i] = e
    BY <1>2, <1>4, <2>1
  <2>2. CASE \E k \in DOMAIN s.drawings : q[i] = s.drawings[k]
    <3>1. PICK k \in DOMAIN s.drawings : q[i] = s.drawings[k]
      BY <2>2
    <3>2. s.drawings[k].id \in Nat /\ s.drawings[k].id <= s.seq
      BY <1>2, ShapesIn
    <3> QED BY <1>2, <3>1, <3>2 DEF Has
  <2> QED BY <1>5, <2>1, <2>2
<1>8. /\ t.drawings = q /\ t.hlines = s.hlines /\ t.dirty = TRUE /\ t.seq = s.seq + 1
      /\ t.undo = Capped(Append(s.undo, Doc(s))) /\ t.redo = <<>>
      /\ t.draft = None /\ t.textEdit = s.textEdit /\ t.drawDialog = s.drawDialog
  BY <1>1, FromPush DEF p, q
<1>9. Like(s, t)
  BY <1>1, <1>3, FromPush DEF p, Like
<1>10. t.seq \in Nat /\ s.seq <= t.seq
  BY <1>2, <1>8
<1>11. Pushed(s, t)
  BY <1>2, <1>5, <1>7, <1>8, <1>9, <1>10 DEF Pushed, NoneBack
<1>12. Has(t, t.seq)
  BY <1>4, <1>6, <1>8 DEF Has
<1> QED BY <1>8, <1>11, <1>12 DEF t

\* A new shape is well typed but for its id.
LEMMA NewShapeTyped ==
    ASSUME NEW s, StoreOK(s), NEW k \in Pane, NEW type \in Tools, NEW at \in Places, NEW text \in Texts \cup {""}
    PROVE  NewShape(s, PaneSym[k], type, at, text) \in Drawn
<1>1. s.lastStyle[type] \in Styles
  BY DEF StoreOK
<1>2. PaneSym[k] \in Syms
  BY DEF Syms
<1> QED BY <1>1, <1>2 DEF NewShape, Drawn

\* Deleting the selected shape: a step of the history, or nothing.
LEMMA DeleteSelectedIs ==
    ASSUME NEW s, StoreOK(s)
    PROVE  LET t == DeleteSelected(s) IN
           /\ Pushed(s, t) \/ t = s
           /\ t.draft = s.draft /\ t.textEdit = s.textEdit
<1> DEFINE p == PushUndo(s)
           u == Drop(p, s.selected)
           t == DeleteSelected(s)
<1>1. CASE s.selected = 0
  BY <1>1 DEF DeleteSelected
<1>2. CASE s.selected # 0
  <2>1. t = [[u EXCEPT !.selected = 0, !.drawDialog = 0] EXCEPT !.dirty = TRUE]
    BY <1>2 DEF DeleteSelected, ScheduleSave
  <2>2. StoreOK(p)
    BY AfterPush
  <2>3. DOMAIN u = DOMAIN p /\ (\A f \in DOMAIN p \ {"drawings"} : u[f] = p[f]) /\ Old(p, u.drawings)
    BY <2>2, DropIs
  <2>4. Old(s, u.drawings) /\ s.hlines \in Nat
    BY <2>3, AfterPush, StoreFacts
  <2> HIDE DEF p, u, t
  <2>5. /\ t.drawings = u.drawings /\ t.hlines = s.hlines /\ t.dirty = TRUE /\ t.seq = s.seq
        /\ t.undo = Capped(Append(s.undo, Doc(s))) /\ t.redo = <<>>
        /\ t.draft = s.draft /\ t.textEdit = s.textEdit
    BY <2>1, <2>3, FromPush DEF p
  <2>6. Like(s, t)
    BY <2>1, <2>3, FromPush DEF p, Like
  <2>7. Pushed(s, t)
    BY <2>4, <2>5, <2>6, OldStep
  <2> QED BY <2>5, <2>7 DEF t
<1> QED BY <1>1, <1>2

\* Clearing the charts: a step of the history, unless there was nothing on them.
LEMMA ClearDrawingsIs ==
    ASSUME NEW s, StoreOK(s)
    PROVE  LET t == ClearDrawings(s) IN
           /\ t.textEdit = s.textEdit /\ t.draft = None /\ t.drawDialog = 0
           /\ Like(s, t) /\ t.dirty = TRUE /\ StoreOK(t) /\ NoneBack(s, t) /\ s.seq <= t.seq
           /\ Pushed(s, t) \/ (t.drawings = s.drawings /\ t.hlines = s.hlines /\ t.undo = s.undo)
<1> DEFINE p == PushUndo(s)
           t == ClearDrawings(s)
           To(u) == [[u EXCEPT !.hlines = 0, !.drawings = <<>>, !.selected = 0, !.draft = None, !.drawDialog = 0]
                       EXCEPT !.dirty = TRUE]
<1>1. CASE s.hlines > 0 \/ s.drawings # <<>>
  <2>1. t = To(p)
    BY <1>1 DEF ClearDrawings, ScheduleSave
  <2> HIDE DEF p, t
  <2>2. /\ t.drawings = <<>> /\ t.hlines = 0 /\ t.hlines \in Nat /\ t.dirty = TRUE /\ t.seq = s.seq
        /\ t.undo = Capped(Append(s.undo, Doc(s))) /\ t.redo = <<>>
        /\ t.draft = None /\ t.textEdit = s.textEdit /\ t.drawDialog = 0
    BY <2>1, FromPush DEF p
  <2>3. Like(s, t)
    BY <2>1, FromPush DEF p, Like
  <2> HIDE DEF To
  <2>4. Pushed(s, t)
    <3>1. Old(s, t.drawings)
      BY <2>2, SameShapesOld
    <3> QED BY <2>2, <2>3, <3>1, OldStep
  <2>5. StoreOK(t) /\ s.seq <= t.seq
    BY <2>4, PushedTyped
  <2>6. NoneBack(s, t)
    BY <2>4 DEF Pushed
  <2> QED BY <2>2, <2>3, <2>4, <2>5, <2>6 DEF t
<1>2. CASE ~(s.hlines > 0 \/ s.drawings # <<>>)
  <2>1. t = To(s)
    BY <1>2 DEF ClearDrawings, ScheduleSave
  <2>2. s.hlines \in Nat /\ s.seq \in Nat
    BY StoreFacts
  <2>3. s.hlines = 0 /\ s.drawings = <<>>
    BY <1>2, <2>2
  <2> HIDE DEF t
  <2>4. /\ t.drawings = <<>> /\ t.hlines = 0 /\ t.dirty = TRUE /\ t.seq = s.seq
        /\ t.undo = s.undo /\ t.redo = s.redo
        /\ t.draft = None /\ t.textEdit = s.textEdit /\ t.drawDialog = 0
    BY <2>1 DEF StoreOK
  <2>5. Like(s, t)
    BY <2>1, StoreFacts DEF StoreOK, Like
  <2>6. Doc(t) = Doc(s) /\ s.seq <= t.seq
    BY <2>2, <2>3, <2>4, SameDoc
  <2>7. StoreOK(t)
    BY <2>2, <2>4, <2>5, <2>6, LikeTyped DEF StoreOK
  <2>8. NoneBack(s, t)
    BY <2>4, SameShapesOld DEF NoneBack, Old
  <2> QED BY <2>3, <2>4, <2>5, <2>6, <2>7, <2>8 DEF t
<1> QED BY <1>1, <1>2

\* A draft that is kept: a step of the history.
LEMMA FinishDraftIs ==
    ASSUME NEW s, StoreOK(s), s.draft # None
    PROVE  LET t == FinishDraft(s) IN Pushed(s, t) /\ t.draft = None /\ t.textEdit = s.textEdit /\ t.drawDialog = s.drawDialog
<1>1. s.draft \in Draft
  BY DEF StoreOK
<1>2. s.draft.pane \in Pane /\ s.draft.type \in Tools /\ s.draft.at \in Places
  BY <1>1 DEF Draft
<1>3. NewShape(s, PaneSym[s.draft.pane], s.draft.type, s.draft.at, "") \in Drawn
  BY <1>2, NewShapeTyped
<1> QED BY <1>3, AddDrawingIs DEF FinishDraft

\* A path that ends: a step of the history, or it is given up.
LEMMA FinishPathIs ==
    ASSUME NEW s, StoreOK(s), s.draft # None
    PROVE  LET t == FinishPath(s) IN
           /\ t.draft = None /\ t.textEdit = s.textEdit /\ t.drawDialog = s.drawDialog
           /\ Pushed(s, t) \/ Quiet(s, t)
<1>1. CancelDraft(s).textEdit = s.textEdit /\ CancelDraft(s).drawDialog = s.drawDialog
  BY DEF CancelDraft, StoreOK
<1> QED BY <1>1, FinishDraftIs, CancelDraftIs DEF FinishPath

\* One shape takes another form: a step of the history.
LEMMA UpdateIs ==
    ASSUME NEW s, StoreOK(s), NEW d \in Shape
    PROVE  LET t == Update(s, d) IN
           /\ Pushed(s, t) /\ t.draft = s.draft /\ t.textEdit = s.textEdit /\ t.drawDialog = s.drawDialog
<1> DEFINE p == PushUndo(s)
           u == Put(p, d)
           t == Update(s, d)
<1>1. t = [u EXCEPT !.dirty = TRUE]
  BY DEF Update, ScheduleSave
<1>2. StoreOK(p)
  BY AfterPush
<1>3. DOMAIN u = DOMAIN p /\ (\A f \in DOMAIN p \ {"drawings"} : u[f] = p[f]) /\ Old(p, u.drawings)
  BY <1>2, PutIs
<1>4. Old(s, u.drawings) /\ s.hlines \in Nat
  BY <1>3, AfterPush, StoreFacts
<1> HIDE DEF p, u, t
<1>5. /\ t.drawings = u.drawings /\ t.hlines = s.hlines /\ t.dirty = TRUE /\ t.seq = s.seq
      /\ t.undo = Capped(Append(s.undo, Doc(s))) /\ t.redo = <<>>
      /\ t.draft = s.draft /\ t.textEdit = s.textEdit /\ t.drawDialog = s.drawDialog
  BY <1>1, <1>3, FromPush DEF p
<1>6. Like(s, t)
  BY <1>1, <1>3, FromPush DEF p, Like
<1>7. Pushed(s, t)
  BY <1>4, <1>5, <1>6, OldStep
<1> QED BY <1>5, <1>7 DEF t

\* A shape takes a style: a step of the history.
LEMMA StyleDrawingIs ==
    ASSUME NEW s, StoreOK(s), NEW id, Has(s, id), NEW style \in Styles
    PROVE  Pushed(s, StyleDrawing(s, id, style))
<1> DEFINE d == [Get(s, id) EXCEPT !.style = style]
           u == Update(s, d)
<1>1. d \in Shape
  BY StoreFacts, GetTyped, Changed
<1> HIDE DEF d
<1>2. Pushed(s, u)
  BY <1>1, UpdateIs
<1> HIDE DEF u
<1>3. StoreOK(u)
  BY <1>2, PushedTyped
<1>4. Quiet(u, RememberStyle(u, d))
  BY <1>1, <1>3, RememberStyleIs
<1>5. StyleDrawing(s, id, style) = RememberStyle(u, d)
  BY DEF StyleDrawing, d, u
<1> QED BY <1>2, <1>4, <1>5, PushedThenQuiet

\* A shape is locked or unlocked: a step of the history.
LEMMA ToggleLockIs ==
    ASSUME NEW s, StoreOK(s), NEW id, Has(s, id)
    PROVE  Pushed(s, ToggleLock(s, id))
<1>1. Get(s, id) \in Shape
  BY StoreFacts, GetTyped
<1>2. (~Get(s, id).locked) \in BOOLEAN
  OBVIOUS
<1>3. [Get(s, id) EXCEPT !.locked = ~Get(s, id).locked] \in Shape
  BY <1>1, <1>2, Changed
<1> QED BY <1>3, UpdateIs DEF ToggleLock

\* Hidden shapes are shown: a step of the history, or there were none.
LEMMA ShowHiddenIs ==
    ASSUME NEW s, StoreOK(s)
    PROVE  Pushed(s, ShowHidden(s)) \/ ShowHidden(s) = s
<1> DEFINE p == PushUndo(s)
           q == [i \in DOMAIN s.drawings |-> [s.drawings[i] EXCEPT !.hidden = FALSE]]
           t == [[p EXCEPT !.drawings = q] EXCEPT !.dirty = TRUE]
<1>1. p.drawings = s.drawings
  BY FromPush
<1>2. ShowHidden(s) = s \/ ShowHidden(s) = t
  BY <1>1 DEF ShowHidden, ScheduleSave
<1>3. Old(s, q)
  <2>1. /\ DOMAIN s.drawings = 1..Len(s.drawings) /\ Len(s.drawings) \in Nat
        /\ \A i \in DOMAIN s.drawings : s.drawings[i] \in Shape
    BY StoreFacts, ShapesIn
  <2>2. \A i \in DOMAIN s.drawings : q[i] \in Shape /\ q[i].id = s.drawings[i].id
    BY <2>1, Changed
  <2>3. DOMAIN q = DOMAIN s.drawings /\ q = [i \in DOMAIN s.drawings |-> q[i]]
    OBVIOUS
  <2> HIDE DEF q
  <2>4. q \in [1..Len(s.drawings) -> Shape]
    BY <2>1, <2>2, <2>3
  <2>5. q \in Seq(Shape)
    BY <2>1, <2>4
  <2>6. Distinct(q)
    <3>1. \A i, j \in DOMAIN s.drawings : i # j => s.drawings[i].id # s.drawings[j].id
      BY StoreFacts DEF Distinct
    <3> QED BY <2>2, <2>3, <3>1 DEF Distinct
  <2> QED BY <2>2, <2>3, <2>5, <2>6 DEF Old, Has
<1>4. s.hlines \in Nat
  BY StoreFacts
<1> HIDE DEF p, q
<1>5. /\ t.drawings = q /\ t.hlines = s.hlines /\ t.dirty = TRUE /\ t.seq = s.seq
      /\ t.undo = Capped(Append(s.undo, Doc(s))) /\ t.redo = <<>>
  BY FromPush DEF p
<1>6. Like(s, t)
  BY FromPush DEF p, Like
<1> HIDE DEF t
<1>7. Pushed(s, t)
  BY <1>3, <1>4, <1>5, <1>6, OldStep
<1> QED BY <1>2, <1>7

\* A shape is doubled: a step of the history, with an id of its own.
LEMMA CloneDrawingIs ==
    ASSUME NEW s, StoreOK(s), NEW id, Has(s, id)
    PROVE  LET t == CloneDrawing(s, id) IN
           /\ Pushed(s, t) /\ t.draft = None /\ t.textEdit = s.textEdit /\ t.drawDialog = s.drawDialog
           /\ t.seq = s.seq + 1 /\ Has(t, t.seq)
<1>1. Get(s, id) \in Shape
  BY StoreFacts, GetTyped
<1>2. [Get(s, id) EXCEPT !.locked = FALSE] \in Drawn
  BY <1>1, Changed, ShapeIsDrawn
<1> QED BY <1>2, AddDrawingIs DEF CloneDrawing

\* The shape that was copied is put on the active chart: a step of the history.
LEMMA PasteDrawingIs ==
    ASSUME NEW s, StoreOK(s), s.clip # None
    PROVE  Pushed(s, PasteDrawing(s))
<1>1. s.clip \in Shape /\ s.active \in Pane
  BY DEF StoreOK
<1>2. PaneSym[s.active] \in Syms
  BY <1>1 DEF Syms
<1> DEFINE d == [s.clip EXCEPT !.sym = PaneSym[s.active], !.locked = FALSE, !.hidden = FALSE]
<1>3. d \in Drawn
  BY <1>1, <1>2 DEF Shape, Drawn, Ids
<1> HIDE DEF d
<1>4. PasteDrawing(s) = AddDrawing(s, d)
  BY DEF PasteDrawing, d
<1> QED BY <1>3, <1>4, AddDrawingIs

\* A shape is taken away: a step of the history.
LEMMA DropStep ==
    ASSUME NEW s, StoreOK(s), NEW id
    PROVE  LET t == ScheduleSave(Drop(PushUndo(s), id)) IN
           /\ Pushed(s, t) /\ t.draft = s.draft /\ t.textEdit = s.textEdit /\ t.drawDialog = s.drawDialog
<1> DEFINE p == PushUndo(s)
           u == Drop(p, id)
           t == ScheduleSave(u)
<1>1. t = [u EXCEPT !.dirty = TRUE]
  BY DEF ScheduleSave
<1>2. StoreOK(p)
  BY AfterPush
<1>3. DOMAIN u = DOMAIN p /\ (\A f \in DOMAIN p \ {"drawings"} : u[f] = p[f]) /\ Old(p, u.drawings)
  BY <1>2, DropIs
<1>4. Old(s, u.drawings) /\ s.hlines \in Nat
  BY <1>3, AfterPush, StoreFacts
<1> HIDE DEF p, u, t
<1>5. /\ t.drawings = u.drawings /\ t.hlines = s.hlines /\ t.dirty = TRUE /\ t.seq = s.seq
      /\ t.undo = Capped(Append(s.undo, Doc(s))) /\ t.redo = <<>>
      /\ t.draft = s.draft /\ t.textEdit = s.textEdit /\ t.drawDialog = s.drawDialog
  BY <1>1, <1>3, FromPush DEF p
<1>6. Like(s, t)
  BY <1>1, <1>3, FromPush DEF p, Like
<1>7. Pushed(s, t)
  BY <1>4, <1>5, <1>6, OldStep
<1> QED BY <1>5, <1>7 DEF t, u, p

\* The input of a text is left: quietly, or by a step of the history.
LEMMA CommitTextIs ==
    ASSUME NEW s, StoreOK(s), s.textEdit # None, NEW v \in Texts \cup {""}, NEW save \in BOOLEAN
    PROVE  LET r == CommitText(s, v, save) IN r.textEdit = None /\ (Quiet(s, r) \/ Pushed(s, r))
<1> DEFINE te == s.textEdit
           t == [s EXCEPT !.textEdit = None]
           r == CommitText(s, v, save)
           New == NewShape(t, PaneSym[te.pane], "text", te.at, v)
           Other == [Get(t, te.existing) EXCEPT !.text = v]
<1> SUFFICES r.textEdit = None /\ (Quiet(s, r) \/ Pushed(s, r))
  OBVIOUS
<1>1. te \in TextEdit /\ "text" \in Tools
  BY DEF StoreOK
<1>2. te.pane \in Pane /\ te.at \in Places /\ te.existing \in Ids \cup {0}
  BY <1>1 DEF TextEdit
<1>3. Quiet(s, t) /\ t.textEdit = None
  BY StoreFacts DEF StoreOK, Quiet, Like
<1>4. StoreOK(t)
  BY <1>3, QuietTyped
<1>5. \/ r = t
      \/ r = AddDrawing(t, New)
      \/ r = ScheduleSave(Drop(PushUndo(t), te.existing))
      \/ r = Update(t, Other) /\ Has(t, te.existing)
  BY DEF CommitText, Update
<1>6. New \in Drawn
  BY <1>2, <1>4, <1>1, NewShapeTyped
<1>7. ASSUME Has(t, te.existing) PROVE Other \in Shape
  <2>1. Get(t, te.existing) \in Shape
    BY <1>4, <1>7, StoreFacts, GetTyped
  <2> QED BY <2>1, Changed
<1> HIDE DEF t, r, New, Other, te
<1>8. CASE r = t
  BY <1>3, <1>8
<1>9. CASE r = AddDrawing(t, New)
  <2>1. Pushed(t, r) /\ r.textEdit = t.textEdit
    BY <1>4, <1>6, <1>9, AddDrawingIs
  <2> QED BY <1>3, <2>1, QuietThenPushed
<1>10. CASE r = ScheduleSave(Drop(PushUndo(t), te.existing))
  <2>1. Pushed(t, r) /\ r.textEdit = t.textEdit
    BY <1>4, <1>10, DropStep
  <2> QED BY <1>3, <2>1, QuietThenPushed
<1>11. CASE r = Update(t, Other) /\ Has(t, te.existing)
  <2>1. Pushed(t, r) /\ r.textEdit = t.textEdit
    BY <1>4, <1>7, <1>11, UpdateIs
  <2> QED BY <1>3, <2>1, QuietThenPushed
<1> QED BY <1>5, <1>8, <1>9, <1>10, <1>11

\* Undo brings back the snapshot last put aside, or nothing happens.
LEMMA UndoIs ==
    ASSUME NEW s, StoreOK(s), s.drawDialog = 0, s.draft = None
    PROVE  LET t == Undo(s) IN
           \/ t = s
           \/ /\ StoreOK(t) /\ t.seq = s.seq /\ t.dirty = TRUE
              /\ s.undo # <<>> /\ Doc(t) = Last(s.undo)
<1> DEFINE t == Undo(s)
           u == [s EXCEPT !.undo = Front(s.undo), !.redo = Append(s.redo, Doc(s))]
           doc == Last(s.undo)
           w == [u EXCEPT !.drawings = doc.drawings, !.hlines = doc.hlines]
           sel == IF Has(w, w.selected) THEN w.selected ELSE 0
           x == [w EXCEPT !.selected = sel]
<1> DEFINE Back == /\ StoreOK(t) /\ t.seq = s.seq /\ t.dirty = TRUE
                   /\ s.undo # <<>> /\ Doc(t) = Last(s.undo)
<1> SUFFICES t = s \/ Back
  OBVIOUS
<1>1. t = s \/ (s.undo # <<>> /\ t = [x EXCEPT !.dirty = TRUE])
  BY DEF Undo, RestoreDraw, ScheduleSave
<1>2. ASSUME s.undo # <<>> PROVE doc \in Docs(s.seq) /\ Front(s.undo) \in Seq(Docs(s.seq))
  BY <1>2, Shorter DEF StoreOK
<1>3. Append(s.redo, Doc(s)) \in Seq(Docs(s.seq))
  BY AppendProperties DEF StoreOK
<1>4. w.selected = s.selected
  BY DEF StoreOK
<1>5. sel \in Ids \cup {0}
  BY <1>4 DEF StoreOK
<1> HIDE DEF t, sel, doc
<1>6. CASE s.undo # <<>> /\ t = [x EXCEPT !.dirty = TRUE]
  <2>1. /\ t.drawings = doc.drawings /\ t.hlines = doc.hlines /\ t.dirty = TRUE /\ t.seq = s.seq
        /\ t.undo = Front(s.undo) /\ t.redo = Append(s.redo, Doc(s))
    BY <1>6 DEF StoreOK
  <2>2. Like(s, t)
    BY <1>5, <1>6, StoreFacts DEF StoreOK, Like
  <2>3. doc = [drawings |-> doc.drawings, hlines |-> doc.hlines]
    BY <1>2, <1>6, InDocs DEF Document, StoreOK
  <2>4. Doc(t) = doc
    BY <2>1, <2>3 DEF Doc
  <2>5. s.seq \in Nat
    BY DEF StoreOK
  <2>6. StoreOK(t)
    <3>1. t.seq \in Nat /\ s.seq <= t.seq /\ Doc(t) \in Docs(t.seq) /\ t.dirty \in BOOLEAN
      BY <1>2, <1>6, <2>1, <2>4, <2>5
    <3>2. t.undo \in Seq(Docs(t.seq)) /\ t.redo \in Seq(Docs(t.seq))
      BY <1>2, <1>3, <1>6, <2>1
    <3> QED BY <2>2, <3>1, <3>2, LikeTyped
  <2> QED BY <1>6, <2>1, <2>4, <2>6 DEF doc
<1> QED BY <1>1, <1>6

\* The same for Redo.
LEMMA RedoIs ==
    ASSUME NEW s, StoreOK(s)
    PROVE  LET t == Redo(s) IN
           \/ t = s
           \/ /\ StoreOK(t) /\ t.seq = s.seq /\ t.dirty = TRUE
              /\ s.redo # <<>> /\ Doc(t) = Last(s.redo)
<1> DEFINE t == Redo(s)
           u == [s EXCEPT !.redo = Front(s.redo), !.undo = Append(s.undo, Doc(s))]
           doc == Last(s.redo)
           w == [u EXCEPT !.drawings = doc.drawings, !.hlines = doc.hlines]
           sel == IF Has(w, w.selected) THEN w.selected ELSE 0
           x == [w EXCEPT !.selected = sel]
<1> DEFINE Back == /\ StoreOK(t) /\ t.seq = s.seq /\ t.dirty = TRUE
                   /\ s.redo # <<>> /\ Doc(t) = Last(s.redo)
<1> SUFFICES t = s \/ Back
  OBVIOUS
<1>1. t = s \/ (s.redo # <<>> /\ t = [x EXCEPT !.dirty = TRUE])
  BY DEF Redo, RestoreDraw, ScheduleSave
<1>2. ASSUME s.redo # <<>> PROVE doc \in Docs(s.seq) /\ Front(s.redo) \in Seq(Docs(s.seq))
  BY <1>2, Shorter DEF StoreOK
<1>3. Append(s.undo, Doc(s)) \in Seq(Docs(s.seq))
  BY AppendProperties DEF StoreOK
<1>4. w.selected = s.selected
  BY DEF StoreOK
<1>5. sel \in Ids \cup {0}
  BY <1>4 DEF StoreOK
<1> HIDE DEF t, sel, doc
<1>6. CASE s.redo # <<>> /\ t = [x EXCEPT !.dirty = TRUE]
  <2>1. /\ t.drawings = doc.drawings /\ t.hlines = doc.hlines /\ t.dirty = TRUE /\ t.seq = s.seq
        /\ t.redo = Front(s.redo) /\ t.undo = Append(s.undo, Doc(s))
    BY <1>6 DEF StoreOK
  <2>2. Like(s, t)
    BY <1>5, <1>6, StoreFacts DEF StoreOK, Like
  <2>3. doc = [drawings |-> doc.drawings, hlines |-> doc.hlines]
    BY <1>2, <1>6, InDocs DEF Document, StoreOK
  <2>4. Doc(t) = doc
    BY <2>1, <2>3 DEF Doc
  <2>5. s.seq \in Nat
    BY DEF StoreOK
  <2>6. StoreOK(t)
    <3>1. t.seq \in Nat /\ s.seq <= t.seq /\ Doc(t) \in Docs(t.seq) /\ t.dirty \in BOOLEAN
      BY <1>2, <1>6, <2>1, <2>4, <2>5
    <3>2. t.undo \in Seq(Docs(t.seq)) /\ t.redo \in Seq(Docs(t.seq))
      BY <1>2, <1>3, <1>6, <2>1
    <3> QED BY <2>2, <3>1, <3>2, LikeTyped
  <2> QED BY <1>6, <2>1, <2>4, <2>6 DEF doc
<1> QED BY <1>1, <1>6

-----------------------------------------------------------------------------
(* The dialog of a shape.                                                  *)

\* Putting a shape where it already is changes nothing.
LEMMA PutInSame ==
    ASSUME NEW q \in Seq(Shape), NEW d, \A i \in DOMAIN q : q[i].id = d.id => q[i] = d
    PROVE  PutIn(q, d) = q
<1>1. q = [i \in DOMAIN q |-> q[i]]
  BY ShapesIn
<1>2. \A i \in DOMAIN q : (IF q[i].id = d.id THEN d ELSE q[i]) = q[i]
  OBVIOUS
<1> QED BY <1>1, <1>2, Zenon DEF PutIn

\* Of two shapes put in the same place the later stays.
LEMMA PutInTwice ==
    ASSUME NEW q, NEW d, NEW e, d.id = e.id
    PROVE  PutIn(PutIn(q, d), e) = PutIn(q, e)
<1> DEFINE p == PutIn(q, d)
<1>1. DOMAIN p = DOMAIN q /\ \A i \in DOMAIN q : p[i] = IF q[i].id = d.id THEN d ELSE q[i]
  BY DEF PutIn
<1> HIDE DEF p
<1>2. \A i \in DOMAIN q : (IF p[i].id = e.id THEN e ELSE p[i]) = (IF q[i].id = e.id THEN e ELSE q[i])
  BY <1>1
<1>3. PutIn(p, e) = [i \in DOMAIN p |-> IF p[i].id = e.id THEN e ELSE p[i]]
  BY DEF PutIn
<1>4. PutIn(q, e) = [i \in DOMAIN q |-> IF q[i].id = e.id THEN e ELSE q[i]]
  BY DEF PutIn
<1>5. PutIn(p, e) = PutIn(q, e)
  BY <1>1, <1>2, <1>3, <1>4
<1> QED BY <1>5 DEF p

\* The shapes without the preview, by their list.
LEMMA PreviewIs ==
    ASSUME NEW s, StoreOK(s), s.drawDialog # 0
    PROVE  /\ Doc(WithoutPreview(s)) = [drawings |-> PutIn(s.drawings, s.dialogBefore.orig), hlines |-> s.hlines]
           /\ s.dialogBefore.orig \in Shape /\ s.dialogBefore.orig.id = s.drawDialog
<1>1. s.dialogBefore.orig \in Shape /\ s.dialogBefore.orig.id = s.drawDialog
  BY DEF StoreOK
<1>2. WithoutPreview(s) = Put(s, s.dialogBefore.orig)
  BY DEF WithoutPreview
<1>3. /\ Put(s, s.dialogBefore.orig).drawings = PutIn(s.drawings, s.dialogBefore.orig)
      /\ Put(s, s.dialogBefore.orig).hlines = s.hlines
  BY <1>1, PutIs DEF StoreOK
<1> QED BY <1>1, <1>2, <1>3 DEF Doc

\* A store that a shape is put in.
LEMMA PutTyped ==
    ASSUME NEW s, StoreOK(s), NEW d \in Shape
    PROVE  LET t == Put(s, d) IN
           /\ StoreOK(t) /\ t.seq = s.seq /\ t.hlines = s.hlines /\ t.drawings = PutIn(s.drawings, d)
           /\ t.undo = s.undo /\ t.dirty = s.dirty /\ t.draft = s.draft /\ t.textEdit = s.textEdit
           /\ t.drawDialog = s.drawDialog /\ t.dialogBefore = s.dialogBefore
           /\ NoneBack(s, t) /\ \A id : Has(t, id) <=> Has(s, id)
<1> DEFINE q == PutIn(s.drawings, d)
           t == Put(s, d)
<1>1. /\ DOMAIN t = DOMAIN s /\ \A f \in DOMAIN s \ {"drawings"} : t[f] = s[f]
      /\ t.drawings = q /\ Old(s, q) /\ DOMAIN q = DOMAIN s.drawings
  BY PutIs
<1>2. \A i \in DOMAIN s.drawings : q[i].id = s.drawings[i].id
  BY PutInIs, StoreFacts
<1>3. /\ s.seq \in Nat /\ s.hlines \in Nat /\ \A i \in DOMAIN s.drawings : s.drawings[i].id <= s.seq
  BY StoreFacts
<1> HIDE DEF q, t
<1>4. /\ t.seq = s.seq /\ t.hlines = s.hlines /\ t.undo = s.undo /\ t.redo = s.redo /\ t.dirty = s.dirty
      /\ t.draft = s.draft /\ t.textEdit = s.textEdit
      /\ t.drawDialog = s.drawDialog /\ t.dialogBefore = s.dialogBefore
  BY <1>1 DEF StoreOK
<1>5. Like(s, t)
  BY <1>1, StoreFacts DEF StoreOK, Like
<1>6. Doc(t) \in Docs(t.seq)
  BY <1>1, <1>2, <1>3, <1>4, DocIs DEF Old
<1>7. StoreOK(t)
  <2>1. t.seq \in Nat /\ s.seq <= t.seq /\ t.undo \in Seq(Docs(t.seq)) /\ t.redo \in Seq(Docs(t.seq)) /\ t.dirty \in BOOLEAN
    BY <1>3, <1>4 DEF StoreOK
  <2> QED BY <1>5, <1>6, <2>1, LikeTyped
<1>8. NoneBack(s, t)
  BY <1>1 DEF Old, NoneBack
<1>9. \A id : Has(t, id) <=> Has(s, id)
  BY <1>1, <1>2 DEF Has
<1> QED BY <1>1, <1>4, <1>7, <1>8, <1>9 DEF t, q

\* Closing the dialog: everything is as without the preview, or a step that undoes
\* to the shapes at its opening is taken and will be saved.
Closed(s, t) ==
    /\ StoreOK(t) /\ t.seq = s.seq /\ NoneBack(s, t) /\ t.drawDialog = 0
    /\ t.draft = s.draft /\ t.textEdit = s.textEdit
    /\ \/ t.dirty = s.dirty /\ Doc(t) = Doc(WithoutPreview(s)) /\ t.undo = s.undo
       \/ t.dirty = TRUE /\ t.undo = Append(s.undo, s.dialogBefore.doc)

\* The store with the dialog closed.
LEMMA ShutIs ==
    ASSUME NEW s, StoreOK(s)
    PROVE  LET t == [s EXCEPT !.drawDialog = 0, !.dialogBefore = None] IN
           /\ StoreOK(t) /\ DOMAIN t = DOMAIN s
           /\ \A f \in DOMAIN s \ {"drawDialog", "dialogBefore"} : t[f] = s[f]
           /\ t.drawDialog = 0 /\ Doc(t) = Doc(s)
<1> DEFINE t == [s EXCEPT !.drawDialog = 0, !.dialogBefore = None]
<1>1. DOMAIN t = DOMAIN s /\ \A f \in DOMAIN s \ {"drawDialog", "dialogBefore"} : t[f] = s[f]
  OBVIOUS
<1>2. t.drawDialog = 0
  BY DEF StoreOK
<1> HIDE DEF t
<1>3. t.drawings = s.drawings /\ t.hlines = s.hlines
  BY <1>1 DEF StoreOK
<1>4. Doc(t) = Doc(s)
  BY <1>3, SameDoc
<1>5. StoreOK(t)
  BY <1>1, <1>2, <1>4 DEF StoreOK
<1> QED BY <1>1, <1>2, <1>4, <1>5 DEF t

\* Closing the dialog, by Ok and by Cancel.
LEMMA CloseDrawDialogIs ==
    ASSUME NEW s, StoreOK(s), s.drawDialog # 0, NEW save \in BOOLEAN
    PROVE  LET r == CloseDrawDialog(s, save) IN
           Closed(s, r) /\ (save => r.drawings = s.drawings \/ r.dirty = TRUE)
<1> DEFINE id == s.drawDialog
           o == s.dialogBefore.orig
           t == [s EXCEPT !.drawDialog = 0, !.dialogBefore = None]
           d == Get(s, id)
           push == [t EXCEPT !.undo = Append(t.undo, s.dialogBefore.doc), !.redo = <<>>]
           drop == Drop(push, id)
           r == CloseDrawDialog(s, save)
<1> SUFFICES Closed(s, r) /\ (save => r.drawings = s.drawings \/ r.dirty = TRUE)
  OBVIOUS
<1>1. /\ StoreOK(t) /\ DOMAIN t = DOMAIN s
      /\ \A f \in DOMAIN s \ {"drawDialog", "dialogBefore"} : t[f] = s[f]
      /\ t.drawDialog = 0 /\ Doc(t) = Doc(s)
  BY ShutIs
<1>2. \/ ~Has(s, id) /\ r = t
      \/ ~save /\ r = Put(t, o)
      \/ r = [[drop EXCEPT !.selected = 0] EXCEPT !.dirty = TRUE]
      \/ Has(s, id) /\ d = o /\ r = t
      \/ Has(s, id) /\ r = [RememberStyle(push, d) EXCEPT !.dirty = TRUE]
  BY DEF CloseDrawDialog, ScheduleSave
<1>3. o \in Shape /\ o.id = id /\ s.dialogBefore.doc \in Docs(s.seq)
  BY DEF StoreOK
<1> HIDE DEF t, d, o, r
<1>4. /\ t.drawings = s.drawings /\ t.hlines = s.hlines /\ t.undo = s.undo /\ t.redo = s.redo /\ t.seq = s.seq
      /\ t.dirty = s.dirty /\ t.draft = s.draft /\ t.textEdit = s.textEdit
  BY <1>1 DEF StoreOK
<1>5. /\ Doc(WithoutPreview(s)) = [drawings |-> PutIn(s.drawings, o), hlines |-> s.hlines]
      /\ s.drawings \in Seq(Shape) /\ Distinct(s.drawings) /\ NoneBack(s, s)
  BY PreviewIs, StoreFacts DEF o
<1>6. ASSUME r = t, \A i \in DOMAIN s.drawings : s.drawings[i].id = o.id => s.drawings[i] = o
      PROVE  Closed(s, r) /\ (save => r.drawings = s.drawings \/ r.dirty = TRUE)
  <2>1. PutIn(s.drawings, o) = s.drawings
    BY <1>5, <1>6, PutInSame
  <2>2. Doc(t) = Doc(WithoutPreview(s))
    BY <1>1, <1>5, <2>1 DEF Doc
  <2>3. NoneBack(s, t)
    BY <1>4, <1>5 DEF NoneBack
  <2> QED BY <1>1, <1>4, <1>6, <2>2, <2>3 DEF Closed
<1>7. CASE ~Has(s, id) /\ r = t
  BY <1>3, <1>6, <1>7 DEF Has
<1>8. CASE ~save /\ r = Put(t, o)
  <2>1. /\ StoreOK(r) /\ r.seq = t.seq /\ r.hlines = t.hlines /\ r.drawings = PutIn(t.drawings, o)
        /\ r.undo = t.undo /\ r.dirty = t.dirty /\ r.draft = t.draft /\ r.textEdit = t.textEdit
        /\ r.drawDialog = t.drawDialog /\ NoneBack(t, r)
    BY <1>1, <1>3, <1>8, PutTyped
  <2>2. Doc(r) = Doc(WithoutPreview(s))
    BY <1>4, <1>5, <2>1 DEF Doc
  <2>3. NoneBack(s, r)
    BY <1>4, <2>1 DEF NoneBack, Has
  <2> QED BY <1>1, <1>4, <1>8, <2>1, <2>2, <2>3 DEF Closed
<1>9. CASE Has(s, id) /\ d = o /\ r = t
  <2>1. \A i \in DOMAIN s.drawings : s.drawings[i].id = o.id => s.drawings[i] = o
    BY <1>3, <1>5, <1>9, OnlyOne DEF d
  <2> QED BY <1>6, <1>9, <2>1
<1>10. /\ DOMAIN push = DOMAIN t /\ \A f \in DOMAIN t \ {"undo", "redo"} : push[f] = t[f]
       /\ push.undo = Append(s.undo, s.dialogBefore.doc) /\ push.redo = <<>>
  BY <1>1, <1>4 DEF StoreOK
<1> HIDE DEF push
<1>11. /\ push.drawings = s.drawings /\ push.hlines = s.hlines /\ push.seq = s.seq /\ push.dirty = s.dirty
       /\ push.draft = s.draft /\ push.textEdit = s.textEdit /\ push.drawDialog = 0
  BY <1>1, <1>4, <1>10 DEF StoreOK
<1>12. StoreOK(push)
  <2>1. push.undo \in Seq(Docs(s.seq)) /\ push.redo \in Seq(Docs(s.seq))
    BY <1>3, <1>10, AppendProperties, EmptySeq DEF StoreOK
  <2>2. Doc(push) = Doc(s)
    BY <1>11, SameDoc
  <2>3. DOMAIN push = DOMAIN t /\ \A f \in DOMAIN t \ {"undo", "redo"} : push[f] = t[f]
    BY <1>10
  <2>4. DOMAIN t = {"drawings", "hlines", "undo", "redo", "selected", "tool", "drawMode", "draft", "textEdit",
                    "drawDialog", "dialogBefore", "clip", "seq", "lastStyle", "active", "dirty"}
    BY <1>1 DEF StoreOK
  <2>5. /\ push.selected = t.selected /\ push.tool = t.tool /\ push.drawMode = t.drawMode /\ push.draft = t.draft
        /\ push.textEdit = t.textEdit /\ push.drawDialog = t.drawDialog /\ push.clip = t.clip
    BY <2>3, <2>4
  <2>6. /\ push.dialogBefore = t.dialogBefore /\ push.seq = t.seq /\ push.lastStyle = t.lastStyle
        /\ push.active = t.active /\ push.dirty = t.dirty
    BY <2>3, <2>4
  <2>7. Doc(push) = Doc(t) /\ push.seq = s.seq
    BY <1>1, <1>11, <2>2
  <2>8. StoreOK(t)
    BY <1>1
  <2> QED BY <1>1, <1>11, <2>1, <2>3, <2>4, <2>5, <2>6, <2>7, <2>8 DEF StoreOK
<1>13. CASE r = [[drop EXCEPT !.selected = 0] EXCEPT !.dirty = TRUE]
  <2>1. /\ DOMAIN drop = DOMAIN push /\ \A f \in DOMAIN push \ {"drawings"} : drop[f] = push[f]
        /\ Old(push, drop.drawings)
    BY <1>12, DropIs
  <2> HIDE DEF drop
  <2>2. /\ r.drawings = drop.drawings /\ r.hlines = push.hlines /\ r.dirty = TRUE /\ r.seq = push.seq
        /\ r.undo = push.undo /\ r.redo = push.redo
        /\ r.draft = push.draft /\ r.textEdit = push.textEdit /\ r.drawDialog = push.drawDialog
    BY <1>12, <1>13, <2>1 DEF StoreOK
  <2>3. Like(push, r)
    BY <1>12, <1>13, <2>1, StoreFacts DEF StoreOK, Like
  <2>4. Old(s, r.drawings)
    BY <1>11, <2>1, <2>2 DEF Old, Has
  <2>5. \A i \in DOMAIN r.drawings : r.drawings[i].id <= r.seq
    <3> SUFFICES ASSUME NEW i \in DOMAIN r.drawings PROVE r.drawings[i].id <= r.seq
      OBVIOUS
    <3>1. PICK j \in DOMAIN s.drawings : s.drawings[j].id = r.drawings[i].id
      BY <2>4 DEF Old, Has
    <3> QED BY <1>11, <2>2, <3>1, StoreFacts
  <2>6. r.seq \in Nat /\ r.hlines \in Nat /\ push.seq <= r.seq /\ r.dirty \in BOOLEAN
    <3>1. s.seq \in Nat /\ s.hlines \in Nat
      BY StoreFacts
    <3>2. r.seq \in Nat /\ r.hlines \in Nat
      BY <1>11, <2>2, <3>1
    <3>3. r.seq = push.seq /\ push.seq \in Nat
      BY <1>11, <2>2, <3>1
    <3>4. push.seq <= r.seq
      BY <3>3
    <3>5. r.dirty \in BOOLEAN
      BY <2>2
    <3> QED BY <3>2, <3>4, <3>5
  <2>7. Doc(r) \in Docs(r.seq)
    BY <2>4, <2>5, <2>6, DocIs DEF Old
  <2>8. r.undo \in Seq(Docs(r.seq)) /\ r.redo \in Seq(Docs(r.seq))
    BY <1>12, <2>2 DEF StoreOK
  <2>9. StoreOK(r)
    BY <1>12, <2>3, <2>6, <2>7, <2>8, LikeTyped
  <2>10. NoneBack(s, r)
    BY <2>4 DEF Old, NoneBack
  <2> QED BY <1>10, <1>11, <2>2, <2>9, <2>10 DEF Closed
<1>14. CASE Has(s, id) /\ r = [RememberStyle(push, d) EXCEPT !.dirty = TRUE]
  <2> DEFINE u == RememberStyle(push, d)
  <2>1. d \in Shape
    BY <1>5, <1>14, GetTyped DEF d
  <2>2. Quiet(push, u)
    BY <1>12, <2>1, RememberStyleIs
  <2>3. StoreOK(u)
    BY <1>12, <2>2, QuietTyped
  <2>4. u.draft = push.draft /\ u.textEdit = push.textEdit
    BY <1>12 DEF RememberStyle, StoreOK
  <2> HIDE DEF u
  <2>5. r = [u EXCEPT !.dirty = TRUE]
    BY <1>14 DEF u
  <2>6. /\ r.drawings = push.drawings /\ r.hlines = push.hlines /\ r.dirty = TRUE /\ r.seq = push.seq
        /\ r.undo = push.undo /\ r.redo = push.redo /\ r.drawDialog = push.drawDialog
        /\ r.draft = push.draft /\ r.textEdit = push.textEdit
    BY <2>2, <2>3, <2>4, <2>5 DEF Quiet, StoreOK
  <2>7. Like(u, r)
    BY <2>3, <2>5, StoreFacts DEF StoreOK, Like
  <2>8. u.drawings = push.drawings /\ u.hlines = push.hlines /\ u.seq = push.seq /\ u.undo = push.undo /\ u.redo = push.redo
    BY <2>2 DEF Quiet
  <2>9. Doc(r) = Doc(u)
    BY <2>6, <2>8, SameDoc
  <2>10. StoreOK(r)
    <3>0. u.seq \in Nat /\ u.undo \in Seq(Docs(u.seq)) /\ u.redo \in Seq(Docs(u.seq))
      BY <2>3 DEF StoreOK
    <3>1. r.seq \in Nat /\ r.undo \in Seq(Docs(r.seq)) /\ r.redo \in Seq(Docs(r.seq))
      BY <2>6, <2>8, <3>0
    <3>3. u.seq <= r.seq
      BY <2>6, <2>8, <3>0
    <3>4. r.dirty \in BOOLEAN
      BY <2>6
    <3>2. Doc(r) \in Docs(r.seq)
      BY <2>3, <2>6, <2>8, <2>9 DEF StoreOK
    <3> QED BY <2>3, <2>7, <3>1, <3>2, <3>3, <3>4, LikeTyped
  <2>11. NoneBack(s, r)
    BY <1>5, <1>11, <2>6 DEF NoneBack
  <2> QED BY <1>10, <1>11, <2>6, <2>10, <2>11 DEF Closed
<1> QED BY <1>2, <1>7, <1>8, <1>9, <1>13, <1>14

\* The ids of shapes.
LEMMA HasId ==
    ASSUME NEW s, StoreOK(s), NEW id, Has(s, id)
    PROVE  id \in Ids /\ id # 0 /\ Get(s, id) \in Shape /\ Get(s, id).id = id
<1>1. Get(s, id) \in Shape /\ Get(s, id).id = id
  BY StoreFacts, GetTyped, Found
<1>2. \A d \in Shape : d.id \in Ids
  BY DEF Shape
<1> QED BY <1>1, <1>2 DEF Ids

\* Opening the dialog of a shape, with none open and with another's open.
LEMMA OpenDrawDialogIs ==
    ASSUME NEW s, StoreOK(s), NEW id, Has(s, id)
    PROVE  LET r == OpenDrawDialog(s, id) IN
           /\ StoreOK(r) /\ r.seq = s.seq /\ NoneBack(s, r)
           /\ r.dirty = TRUE \/ (r.dirty = s.dirty /\ Doc(WithoutPreview(r)) = Doc(WithoutPreview(s)))
           /\ s.drawDialog = 0 =>
                /\ r.undo = s.undo /\ r.drawings = s.drawings /\ r.draft = s.draft /\ r.textEdit = None
                /\ r.drawDialog = id /\ r.dialogBefore.doc = Doc(s)
                /\ Doc(WithoutPreview(r)) = Doc(s)
<1> DEFINE o == Get(s, id)
           t == IF s.drawDialog = 0 THEN s ELSE CloseDrawDialog(s, TRUE)
           b == [doc |-> Doc(t), orig |-> o]
           r == OpenDrawDialog(s, id)
           Kept == r.dirty = TRUE \/ (r.dirty = s.dirty /\ Doc(WithoutPreview(r)) = Doc(WithoutPreview(s)))
           Open == /\ r.undo = s.undo /\ r.drawings = s.drawings /\ r.draft = s.draft /\ r.textEdit = None
                   /\ r.drawDialog = id /\ r.dialogBefore.doc = Doc(s)
                   /\ Doc(WithoutPreview(r)) = Doc(s)
<1> SUFFICES StoreOK(r) /\ r.seq = s.seq /\ NoneBack(s, r) /\ Kept /\ (s.drawDialog = 0 => Open)
  OBVIOUS
<1>1. r = [t EXCEPT !.dialogBefore = b, !.drawDialog = id, !.selected = id, !.textEdit = None]
  BY DEF OpenDrawDialog
<1>2. id \in Ids /\ id # 0 /\ o \in Shape /\ o.id = id
  BY HasId
<1>3. /\ s.drawings \in Seq(Shape) /\ Distinct(s.drawings) /\ NoneBack(s, s)
      /\ \A i \in DOMAIN s.drawings : s.drawings[i].id = o.id => s.drawings[i] = o
  BY <1>2, StoreFacts, OnlyOne
<1>4. PutIn(s.drawings, o) = s.drawings
  BY <1>3, PutInSame
<1>6. /\ StoreOK(t) /\ t.seq = s.seq /\ NoneBack(s, t)
      /\ t.dirty = TRUE \/ (t.dirty = s.dirty /\ t.drawings = s.drawings /\ Doc(t) = Doc(WithoutPreview(s)))
  <2>1. CASE s.drawDialog = 0
    BY <1>3, <2>1 DEF WithoutPreview
  <2>2. CASE s.drawDialog # 0
    <3>1. Closed(s, t) /\ (t.drawings = s.drawings \/ t.dirty = TRUE)
      BY <2>2, CloseDrawDialogIs
    <3> HIDE DEF t
    <3> QED BY <3>1 DEF Closed
  <2> QED BY <2>1, <2>2
<1> HIDE DEF t, o, b, r
<1>7. /\ r.drawings = t.drawings /\ r.hlines = t.hlines /\ r.undo = t.undo /\ r.redo = t.redo
      /\ r.seq = t.seq /\ r.dirty = t.dirty /\ r.draft = t.draft /\ r.textEdit = None
      /\ r.drawDialog = id /\ r.dialogBefore = b
  BY <1>1, <1>6 DEF StoreOK
<1>8. b.doc = Doc(t) /\ b.orig = o /\ DOMAIN b = {"doc", "orig"}
  BY DEF b
<1>9. Doc(r) = Doc(t)
  BY <1>7, SameDoc
<1>10. StoreOK(r)
  <2>1. /\ DOMAIN r = DOMAIN t /\ r.selected = id
        /\ r.tool = t.tool /\ r.drawMode = t.drawMode /\ r.clip = t.clip /\ r.active = t.active /\ r.lastStyle = t.lastStyle
    BY <1>1, <1>6 DEF StoreOK
  <2>2. r.drawDialog # 0 => /\ DOMAIN r.dialogBefore = {"doc", "orig"} /\ r.dialogBefore.doc \in Docs(r.seq)
                            /\ r.dialogBefore.orig \in Shape /\ r.dialogBefore.orig.id = r.drawDialog
    BY <1>2, <1>6, <1>7, <1>8 DEF StoreOK
  <2>3. {r.selected, r.drawDialog} \subseteq Ids \cup {0}
    BY <1>2, <1>7, <2>1
  <2>4. Doc(r) \in Docs(r.seq)
    BY <1>6, <1>7, <1>9 DEF StoreOK
  <2> QED BY <1>6, <1>7, <2>1, <2>2, <2>3, <2>4 DEF StoreOK
<1>11. NoneBack(s, r)
  BY <1>6, <1>7 DEF NoneBack
<1>12. Doc(WithoutPreview(r)) = [drawings |-> PutIn(r.drawings, o), hlines |-> r.hlines]
  BY <1>2, <1>7, <1>8, <1>10, PreviewIs
<1>13. ASSUME t.drawings = s.drawings PROVE Doc(WithoutPreview(r)) = Doc(t)
  BY <1>4, <1>7, <1>12, <1>13 DEF Doc
<1>14. Kept
  BY <1>6, <1>7, <1>13
<1>15. s.drawDialog = 0 => Open
  <2> SUFFICES ASSUME s.drawDialog = 0 PROVE Open
    OBVIOUS
  <2>1. t = s
    BY DEF t
  <2> QED BY <1>7, <1>8, <1>13, <2>1
<1> QED BY <1>6, <1>7, <1>10, <1>11, <1>14, <1>15

\* Hiding a shape, whose dialog may be open.
LEMMA HideDrawingIs ==
    ASSUME NEW s, StoreOK(s), NEW id, Has(s, id)
    PROVE  LET r == HideDrawing(s, id) IN
           /\ StoreOK(r) /\ s.seq <= r.seq /\ NoneBack(s, r) /\ r.dirty = TRUE
           /\ s.drawDialog = 0 => Pushed(s, r)
<1> DEFINE t == IF s.drawDialog = id THEN CloseDrawDialog(s, TRUE) ELSE s
           d == [Get(t, id) EXCEPT !.hidden = TRUE]
           u == IF ~Has(t, id) THEN ScheduleSave(PushUndo(t)) ELSE Update(t, d)
           r == HideDrawing(s, id)
<1> SUFFICES /\ StoreOK(r) /\ s.seq <= r.seq /\ NoneBack(s, r) /\ r.dirty = TRUE
             /\ s.drawDialog = 0 => Pushed(s, r)
  OBVIOUS
<1>1. r = Select(u, 0)
  BY DEF HideDrawing
<1>2. id # 0 /\ NoneBack(s, s) /\ s.seq \in Nat
  BY HasId, StoreFacts
<1>3. StoreOK(t) /\ t.seq = s.seq /\ NoneBack(s, t) /\ (s.drawDialog = 0 => t = s)
  <2>1. CASE s.drawDialog = id
    <3>1. Closed(s, t)
      BY <1>2, <2>1, CloseDrawDialogIs
    <3> HIDE DEF t
    <3> QED BY <1>2, <2>1, <3>1 DEF Closed
  <2>2. CASE s.drawDialog # id
    BY <1>2, <2>2
  <2> QED BY <2>1, <2>2
<1> HIDE DEF t
<1>4. Pushed(t, u)
  <2>1. CASE ~Has(t, id)
    <3> DEFINE p == PushUndo(t)
    <3>1. u = [p EXCEPT !.dirty = TRUE]
      BY <2>1 DEF ScheduleSave
    <3> HIDE DEF p, u
    <3>2. /\ u.drawings = t.drawings /\ u.hlines = t.hlines /\ u.dirty = TRUE /\ u.seq = t.seq
          /\ u.undo = Capped(Append(t.undo, Doc(t))) /\ u.redo = <<>>
      BY <1>3, <3>1, FromPush DEF p
    <3>3. Like(t, u)
      BY <1>3, <3>1, FromPush DEF p, Like
    <3>4. Old(t, u.drawings) /\ u.hlines \in Nat
      BY <1>3, <3>2, SameShapesOld, StoreFacts
    <3> QED BY <1>3, <3>2, <3>3, <3>4, OldStep
  <2>2. CASE Has(t, id)
    <3>1. Get(t, id) \in Shape
      BY <1>3, <2>2, HasId
    <3>2. d \in Shape
      BY <3>1, Changed
    <3> HIDE DEF d
    <3> QED BY <1>3, <2>2, <3>2, UpdateIs
  <2> QED BY <2>1, <2>2
<1> HIDE DEF u
<1>5. StoreOK(u) /\ t.seq <= u.seq
  BY <1>3, <1>4, PushedTyped
<1>6. Quiet(u, r)
  BY <1>1, <1>5, SelectIs
<1> HIDE DEF r
<1>7. Pushed(t, r)
  BY <1>4, <1>6, PushedThenQuiet
<1>8. StoreOK(r) /\ t.seq <= r.seq
  BY <1>3, <1>7, PushedTyped
<1>9. NoneBack(s, r)
  BY <1>3, <1>7 DEF Pushed, NoneBack, Has
<1>10. r.dirty = TRUE
  BY <1>7 DEF Pushed
<1>11. s.drawDialog = 0 => Pushed(s, r)
  BY <1>3, <1>7
<1>12. s.seq <= r.seq
  BY <1>3, <1>8
<1> QED BY <1>8, <1>9, <1>10, <1>11, <1>12

-----------------------------------------------------------------------------
(* The order of layers.                                                    *)

\* The names that OrderDrawing gives them: the next layer of the same symbol above
\* i and below it, and the layer whose shape comes to i.
Above(same, i) == Min({j \in same : j > i})
Below(same, i) == Max({j \in same : j < i})
From(same, at, target, i) ==
    CASE i = target -> at
      [] at <= i /\ i < target -> Above(same, i)
      [] target < i /\ i <= at -> Below(same, i)
      [] OTHER -> i

\* The next layer above i.
LEMMA AboveIs ==
    ASSUME NEW n \in Nat, NEW same, same \subseteq 1..n, NEW i \in same, NEW k \in same, i < k
    PROVE  /\ Above(same, i) \in same /\ i < Above(same, i) /\ Above(same, i) <= k
<1> DEFINE S == {j \in same : j > i}
<1>0. \A j \in same : j \in Nat
  OBVIOUS
<1>1. S \subseteq Nat /\ k \in S
  BY <1>0
<1>2. Min(S) \in S /\ Min(S) <= k
  <2> HIDE DEF S
  <2> QED BY <1>1, MinIs
<1> QED BY <1>2 DEF Above

\* The next layer below i.
LEMMA BelowIs ==
    ASSUME NEW n \in Nat, NEW same, same \subseteq 1..n, NEW i \in same, NEW k \in same, k < i
    PROVE  /\ Below(same, i) \in same /\ Below(same, i) < i /\ k <= Below(same, i)
<1> DEFINE S == {j \in same : j < i}
<1>0. \A j \in same : j \in 0..n
  OBVIOUS
<1>1. S \subseteq 0..n /\ k \in S
  BY <1>0
<1>2. Max(S) \in S /\ k <= Max(S)
  <2> HIDE DEF S
  <2> QED BY <1>1, MaxIs
<1> QED BY <1>2 DEF Below

\* Which shape comes where is a permutation of the layers of the symbol.
LEMMA FromIs ==
    ASSUME NEW n \in Nat, NEW same, same \subseteq 1..n, NEW at \in same, NEW target \in same, at # target
    PROVE  /\ \A i \in same : From(same, at, target, i) \in same
           /\ \A i, j \in same : i # j => From(same, at, target, i) # From(same, at, target, j)
<1> DEFINE from(i) == From(same, at, target, i)
           Into == \A i \in same : from(i) \in same
           Once == \A i, j \in same : i < j => from(i) # from(j)
<1>0. \A i \in same : i \in Int
  OBVIOUS
<1>1. ASSUME at < target PROVE Into /\ Once
  <2>1. ASSUME NEW i \in same
        PROVE  /\ i = target => from(i) = at
               /\ i < at \/ target < i => from(i) = i
               /\ at <= i /\ i < target => from(i) = Above(same, i)
    BY <1>0, <1>1 DEF From
  <2>2. ASSUME NEW i \in same, NEW k \in same, i < k
        PROVE  Above(same, i) \in same /\ i < Above(same, i) /\ Above(same, i) <= k
    BY <2>2, AboveIs
  <2> HIDE DEF from
  <2>3. Into
    BY <1>0, <2>1, <2>2
  <2>4. Once
    <3> SUFFICES ASSUME NEW i \in same, NEW j \in same, i < j PROVE from(i) # from(j)
      OBVIOUS
    <3>1. CASE j < at \/ target < i
      BY <1>0, <1>1, <2>1, <3>1
    <3>2. CASE i < at /\ at <= j
      BY <1>0, <1>1, <2>1, <2>2, <3>2
    <3>3. CASE at <= i /\ j < target
      <4>1. from(i) = Above(same, i) /\ from(j) = Above(same, j)
        BY <1>0, <2>1, <3>3
      <4>2. Above(same, i) <= j /\ j < Above(same, j) /\ Above(same, i) \in same /\ Above(same, j) \in same
        BY <1>0, <2>2, <3>3
      <4>3. Above(same, i) \in Int /\ j \in Int /\ Above(same, j) \in Int
        BY <1>0, <4>2
      <4>4. Above(same, i) # Above(same, j)
        BY <4>2, <4>3
      <4> QED BY <4>1, <4>4
    <3>4. CASE at <= i /\ i <= target /\ target <= j
      BY <1>0, <1>1, <2>1, <2>2, <3>4
    <3> QED BY <1>0, <3>1, <3>2, <3>3, <3>4
  <2> QED BY <2>3, <2>4
<1>2. ASSUME target < at PROVE Into /\ Once
  <2>1. ASSUME NEW i \in same
        PROVE  /\ i = target => from(i) = at
               /\ i < target \/ at < i => from(i) = i
               /\ target < i /\ i <= at => from(i) = Below(same, i)
    BY <1>0, <1>2 DEF From
  <2>2. ASSUME NEW i \in same, NEW k \in same, k < i
        PROVE  Below(same, i) \in same /\ Below(same, i) < i /\ k <= Below(same, i)
    BY <2>2, BelowIs
  <2> HIDE DEF from
  <2>3. Into
    BY <1>0, <2>1, <2>2
  <2>4. Once
    <3> SUFFICES ASSUME NEW i \in same, NEW j \in same, i < j PROVE from(i) # from(j)
      OBVIOUS
    <3>1. CASE j < target \/ at < i
      BY <1>0, <1>2, <2>1, <3>1
    <3>2. CASE i <= target /\ target <= j
      BY <1>0, <1>2, <2>1, <2>2, <3>2
    <3>3. CASE target < i /\ j <= at
      <4>1. from(i) = Below(same, i) /\ from(j) = Below(same, j)
        BY <1>0, <2>1, <3>3
      <4>2. Below(same, i) < i /\ i <= Below(same, j) /\ Below(same, i) \in same /\ Below(same, j) \in same
        BY <1>0, <2>2, <3>3
      <4>3. Below(same, i) \in Int /\ i \in Int /\ Below(same, j) \in Int
        BY <1>0, <4>2
      <4>4. Below(same, i) # Below(same, j)
        BY <4>2, <4>3
      <4> QED BY <4>1, <4>4
    <3>4. CASE target < i /\ i <= at /\ at < j
      BY <1>0, <1>2, <2>1, <2>2, <3>4
    <3> QED BY <1>0, <3>1, <3>2, <3>3, <3>4
  <2> QED BY <2>3, <2>4
<1>3. Into /\ Once
  BY <1>0, <1>1, <1>2
<1> HIDE DEF from
<1>4. ASSUME NEW i \in same, NEW j \in same, i # j PROVE from(i) # from(j)
  <2>1. i < j \/ j < i
    BY <1>0, <1>4
  <2> QED BY <1>3, <2>1
<1> QED BY <1>3, <1>4 DEF from

\* The layer that the shape is to take is one of its symbol's.
LEMMA TargetIs ==
    ASSUME NEW n \in Nat, NEW same, same \subseteq 1..n, NEW at \in same,
           NEW op \in {"front", "forward", "backward", "back"}
    PROVE  (CASE op = "front" -> Max(same)
              [] op = "back" -> Min(same)
              [] op = "forward" -> IF at = Max(same) THEN at ELSE Above(same, at)
              [] op = "backward" -> IF at = Min(same) THEN at ELSE Below(same, at)) \in same
<1>0. \A j \in same : j \in Nat
  OBVIOUS
<1>1. Max(same) \in same /\ at <= Max(same)
  <2>1. same \subseteq 0..n
    OBVIOUS
  <2> QED BY <2>1, MaxIs
<1>2. Min(same) \in same /\ Min(same) <= at
  <2>1. same \subseteq Nat
    BY <1>0
  <2> QED BY <2>1, MinIs
<1>3. at # Max(same) => Above(same, at) \in same
  <2> SUFFICES ASSUME at # Max(same) PROVE Above(same, at) \in same
    OBVIOUS
  <2>0. at \in Nat /\ Max(same) \in Nat
    BY <1>0, <1>1
  <2>1. at < Max(same)
    BY <1>1, <2>0
  <2> QED BY <1>1, <2>1, AboveIs
<1>4. at # Min(same) => Below(same, at) \in same
  <2> SUFFICES ASSUME at # Min(same) PROVE Below(same, at) \in same
    OBVIOUS
  <2>0. at \in Nat /\ Min(same) \in Nat
    BY <1>0, <1>2
  <2>1. Min(same) < at
    BY <1>2, <2>0
  <2> QED BY <1>2, <2>1, BelowIs
<1>5. op = "front" \/ op = "back" \/ op = "forward" \/ op = "backward"
  OBVIOUS
<1> QED BY <1>1, <1>2, <1>3, <1>4, <1>5

\* Moving a shape among the layers: a step of the history, or it is there already.
LEMMA OrderDrawingIs ==
    ASSUME NEW s, StoreOK(s), NEW id, Has(s, id), NEW op \in {"front", "forward", "backward", "back"}
    PROVE  OrderDrawing(s, id, op) = s \/ Pushed(s, OrderDrawing(s, id, op))
<1> DEFINE at == At(s, id)
           q == s.drawings
           same == {i \in DOMAIN q : q[i].sym = q[at].sym}
           target == CASE op = "front" -> Max(same)
                       [] op = "back" -> Min(same)
                       [] op = "forward" -> IF at = Max(same) THEN at ELSE Above(same, at)
                       [] op = "backward" -> IF at = Min(same) THEN at ELSE Below(same, at)
           p == PushUndo(s)
           new == [i \in DOMAIN q |-> IF i \in same THEN q[From(same, at, target, i)] ELSE q[i]]
           t == [[p EXCEPT !.drawings = new] EXCEPT !.dirty = TRUE]
           r == OrderDrawing(s, id, op)
<1>1. p.drawings = q
  BY FromPush
<1>2. (target = at /\ r = s) \/ (target # at /\ r = t)
  <2> DEFINE put == [i \in DOMAIN p.drawings |-> IF i \in same THEN p.drawings[From(same, at, target, i)] ELSE p.drawings[i]]
  <2>1. r = IF target = at THEN s ELSE [[p EXCEPT !.drawings = put] EXCEPT !.dirty = TRUE]
    BY Zenon DEF OrderDrawing, ScheduleSave, From, Above, Below
  <2> HIDE DEF p, target, r, at, same
  <2>2. put = new
    BY <1>1, Zenon
  <2> HIDE DEF put, new
  <2> QED BY <2>1, <2>2
<1>3. Len(q) \in Nat /\ DOMAIN q = 1..Len(q) /\ at \in DOMAIN q /\ \A i \in DOMAIN q : q[i] \in Shape
  BY StoreFacts, ShapesIn, Found
<1>4. same \subseteq 1..Len(q) /\ at \in same
  BY <1>3
<1>5. target \in same
  <2> HIDE DEF same, at
  <2> QED BY <1>3, <1>4, TargetIs
<1> HIDE DEF p, target, r, at
<1>6. CASE target # at /\ r = t
  <2>1. /\ \A i \in same : From(same, at, target, i) \in same
        /\ \A i, j \in same : i # j => From(same, at, target, i) # From(same, at, target, j)
    <3> HIDE DEF same
    <3> QED BY <1>3, <1>4, <1>5, <1>6, FromIs
  <2> DEFINE from(i) == IF i \in same THEN From(same, at, target, i) ELSE i
  <2>2. \A i \in DOMAIN q : from(i) \in DOMAIN q /\ new[i] = q[from(i)]
    BY <1>3, <1>4, <2>1
  <2>3. \A i, j \in DOMAIN q : i # j => from(i) # from(j)
    BY <2>1
  <2>4. DOMAIN new = DOMAIN q /\ new = [i \in DOMAIN q |-> new[i]]
    OBVIOUS
  <2>5. Distinct(q) /\ s.hlines \in Nat
    BY StoreFacts
  <2> HIDE DEF new, from
  <2>6. new \in [1..Len(q) -> Shape]
    BY <1>3, <2>2, <2>4
  <2>7. new \in Seq(Shape)
    BY <1>3, <2>6
  <2>8. Distinct(new)
    BY <2>2, <2>3, <2>4, <2>5 DEF Distinct
  <2>9. Old(s, new)
    BY <2>2, <2>4, <2>7, <2>8 DEF Old, Has
  <2>10. /\ t.drawings = new /\ t.hlines = s.hlines /\ t.dirty = TRUE /\ t.seq = s.seq
         /\ t.undo = Capped(Append(s.undo, Doc(s))) /\ t.redo = <<>>
    BY FromPush DEF p
  <2>11. Like(s, t)
    BY FromPush DEF p, Like
  <2> HIDE DEF t
  <2>12. Pushed(s, t)
    BY <2>5, <2>9, <2>10, <2>11, OldStep
  <2> QED BY <1>6, <2>12 DEF r
<1> QED BY <1>2, <1>6 DEF r

-----------------------------------------------------------------------------
(* What a thing that the user does must be for the invariant to hold after *)
(* it, and for no shape that is gone to be back.                           *)

Gone(s) ==
    \/ NoneBack(store, s)
    \/ store.undo # <<>> /\ Doc(s) = Last(store.undo)
    \/ store.redo # <<>> /\ Doc(s) = Last(store.redo)

Kinds == {"begin", "whole", "history"}

Step(s, drag, kind) ==
    /\ StoreOK(s) /\ store.seq <= s.seq /\ drag \in Drag \cup {None} /\ kind \in Kinds
    /\ \A b : (kind # "history" /\ Rest /\ Unchanged(store, b)) \/ (kind = "begin" /\ ~Rest /\ Gesture(store, ddrag, b))
              => Gesture(s, drag, b)
    /\ \/ s.dirty = TRUE \/ Moved(drag)
       \/ /\ s.dirty = store.dirty /\ (Moved(ddrag) => Moved(drag))
          /\ Doc(WithoutPreview(s)) = Doc(WithoutPreview(store))
    /\ Gone(s)

NoneIsBack ==
    \A d \in Range(store'.drawings) :
         \/ Has(store, d.id)
         \/ store.seq < d.id
         \/ store.undo # <<>> /\ Doc(store') = Last(store.undo)
         \/ store.redo # <<>> /\ Doc(store') = Last(store.redo)
         \/ store'.undo = <<>> /\ store'.redo = <<>> /\ ~store'.dirty

\* Such a thing keeps the invariant.
LEMMA UserStep ==
    ASSUME DrawingsInv, NEW s, NEW drag, NEW kind, User(s, drag, kind), Step(s, drag, kind)
    PROVE  DrawingsInv' /\ NoneIsBack
<1>1. /\ StoreOK(store) /\ {saved, before.doc} \subseteq Docs(store.seq) /\ before.undo \in Seq(Docs(store.seq))
      /\ steps \in 0..MaxSteps /\ mixed \in BOOLEAN /\ leaked \in BOOLEAN
  BY DEF DrawingsInv, TypeOK
<1>2. /\ steps < MaxSteps /\ steps' = steps + 1 /\ store' = s /\ ddrag' = drag
      /\ before' = IF Rest THEN [doc |-> Doc(store), undo |-> store.undo] ELSE before
      /\ mixed' = (kind = "history" \/ (~Rest /\ (mixed \/ kind = "whole")))
      /\ saved' = saved /\ leaked' = leaked
  BY DEF User
<1>3. StoreOK(s) /\ store.seq <= s.seq /\ drag \in Drag \cup {None} /\ kind \in Kinds
  BY DEF Step
<1>4. Docs(store.seq) \subseteq Docs(s.seq) /\ Seq(Docs(store.seq)) \subseteq Seq(Docs(s.seq))
  BY <1>1, <1>3, DocsGrow DEF StoreOK
<1>5. before'.doc \in Docs(store.seq) /\ before'.undo \in Seq(Docs(store.seq))
  BY <1>1, <1>2 DEF StoreOK
<1>6. steps' \in 0..MaxSteps
  BY <1>1, <1>2, BoundsAssumption
<1>7. mixed' \in BOOLEAN
  BY <1>2
<1>8. TypeOK'
  BY <1>1, <1>2, <1>3, <1>4, <1>5, <1>6, <1>7 DEF TypeOK
<1>9. GestureInv'
  <2> SUFFICES ASSUME ~mixed' PROVE Gesture(s, drag, before')
    BY <1>2 DEF GestureInv
  <2>1. kind # "history" /\ (Rest \/ (~mixed /\ kind = "begin"))
    BY <1>2, <1>3 DEF Kinds
  <2>2. CASE Rest
    <3>1. Unchanged(store, before')
      BY <1>2, <2>2 DEF Unchanged
    <3> QED BY <2>1, <2>2, <3>1 DEF Step
  <2>3. CASE ~Rest
    <3>1. before' = before /\ Gesture(store, ddrag, before) /\ kind = "begin"
      BY <1>2, <2>1, <2>3 DEF DrawingsInv, GestureInv
    <3>2. Gesture(s, drag, before)
      BY <2>3, <3>1 DEF Step
    <3> QED BY <3>1, <3>2
  <2> QED BY <2>2, <2>3
<1>10. SavedInv'
  <2> SUFFICES ASSUME s.dirty # TRUE, ~leaked, ~Moved(drag) PROVE saved = Doc(WithoutPreview(s))
    BY <1>2 DEF SavedInv
  <2>1. s.dirty = store.dirty /\ ~Moved(ddrag) /\ Doc(WithoutPreview(s)) = Doc(WithoutPreview(store))
    BY DEF Step
  <2>2. ~store.dirty
    BY <1>1, <2>1 DEF StoreOK
  <2> QED BY <2>1, <2>2 DEF DrawingsInv, SavedInv
<1>11. NoneIsBack
  <2>1. Gone(s)
    BY DEF Step
  <2>2. CASE NoneBack(store, s)
    BY <1>2, <2>2 DEF NoneIsBack, NoneBack, Range
  <2>3. CASE ~NoneBack(store, s)
    BY <1>2, <2>1, <2>3 DEF NoneIsBack, Gone
  <2> QED BY <2>2, <2>3
<1> QED BY <1>8, <1>9, <1>10, <1>11 DEF DrawingsInv

\* With nothing in progress a gesture has changed nothing, or is one step.
LEMMA AtRest ==
    ASSUME NEW s, NEW b, s.draft = None, s.textEdit = None, s.drawDialog = 0, Unchanged(s, b) \/ OneStep(s, b)
    PROVE  Gesture(s, None, b)
BY DEF Gesture

\* A quiet change in the midst of a gesture.
LEMMA GestureQuiet ==
    ASSUME NEW s, StoreOK(s), NEW t, Quiet(s, t)
    PROVE  /\ \A drag, b : Gesture(s, drag, b) => Gesture(t, drag, b)
           /\ Doc(WithoutPreview(t)) = Doc(WithoutPreview(s))
<1>1. StoreOK(t) /\ Doc(t) = Doc(s)
  BY QuietTyped
<1>2. /\ t.undo = s.undo /\ t.drawDialog = s.drawDialog /\ t.dialogBefore = s.dialogBefore
      /\ t.drawings = s.drawings /\ t.hlines = s.hlines
      /\ t.draft \in {None, s.draft} /\ t.textEdit \in {None, s.textEdit}
  BY DEF Quiet, Like
<1>3. Doc(WithoutPreview(t)) = Doc(WithoutPreview(s))
  <2>1. CASE s.drawDialog = 0
    BY <1>1, <1>2, <2>1 DEF WithoutPreview
  <2>2. CASE s.drawDialog # 0
    BY <1>1, <1>2, <2>2, PreviewIs
  <2> QED BY <2>1, <2>2
<1>4. \A id : Has(t, id) <=> Has(s, id)
  BY <1>2 DEF Has
<1>5. \A b : (Unchanged(t, b) <=> Unchanged(s, b)) /\ (OneStep(t, b) <=> OneStep(s, b))
  BY <1>1, <1>2 DEF Unchanged, OneStep
<1>6. ASSUME NEW drag, NEW b, Gesture(s, drag, b) PROVE Gesture(t, drag, b)
  BY <1>2, <1>3, <1>4, <1>5, <1>6 DEF Gesture
<1> QED BY <1>3, <1>6

\* A quiet change is such a thing.
LEMMA StepQuiet ==
    ASSUME TypeOK, NEW s, Quiet(store, s), NEW kind \in Kinds
    PROVE  Step(s, ddrag, kind)
<1>1. StoreOK(store) /\ ddrag \in Drag \cup {None}
  BY DEF TypeOK
<1>2. StoreOK(s) /\ NoneBack(store, s)
  BY <1>1, QuietTyped
<1>3. s.seq = store.seq /\ s.seq \in Nat /\ s.dirty = store.dirty
  BY <1>2 DEF Quiet, StoreOK
<1>4. /\ \A drag, b : Gesture(store, drag, b) => Gesture(s, drag, b)
      /\ Doc(WithoutPreview(s)) = Doc(WithoutPreview(store))
  BY <1>1, GestureQuiet
<1>5. ASSUME NEW b, Rest, Unchanged(store, b) PROVE Gesture(store, ddrag, b)
  BY <1>5, AtRest DEF Rest
<1>6. store.seq <= s.seq
  BY <1>3
<1> QED BY <1>1, <1>2, <1>3, <1>4, <1>5, <1>6 DEF Step, Gone

\* A step of the history that is a gesture by itself, or that ends a draft or a text.
LEMMA StepPushed ==
    ASSUME TypeOK, NEW s, Pushed(store, s), NEW kind \in Kinds,
           \/ kind # "begin"
           \/ store.draft # None /\ s.draft = None
           \/ store.textEdit # None /\ s.textEdit = None
    PROVE  Step(s, ddrag, kind)
<1>1. StoreOK(store) /\ ddrag \in Drag \cup {None}
  BY DEF TypeOK
<1>2. /\ StoreOK(s) /\ store.seq <= s.seq
      /\ s.undo \in {Append(store.undo, Doc(store)), Tail(Append(store.undo, Doc(store)))}
  BY <1>1, PushedTyped
<1>3. s.dirty = TRUE /\ NoneBack(store, s) /\ Like(store, s)
  BY DEF Pushed
<1>4. /\ s.draft \in {None, store.draft} /\ s.textEdit \in {None, store.textEdit} /\ s.drawDialog \in {0, store.drawDialog}
  BY <1>3 DEF Like
<1>5. ASSUME NEW b, Unchanged(store, b) PROVE OneStep(s, b)
  BY <1>2, <1>5 DEF Unchanged, OneStep
<1>6. ASSUME NEW b, Rest, Unchanged(store, b) PROVE Gesture(s, ddrag, b)
  BY <1>4, <1>5, <1>6, AtRest DEF Rest
<1>7. ASSUME NEW b, kind = "begin", Gesture(store, ddrag, b) PROVE Gesture(s, ddrag, b)
  <2>1. Unchanged(store, b) /\ ddrag = None /\ store.drawDialog = 0
        /\ (store.draft # None => store.textEdit = None)
    BY <1>7 DEF Gesture
  <2>2. s.draft = None /\ s.textEdit = None /\ s.drawDialog = 0
    BY <1>4, <1>7, <2>1
  <2> QED BY <1>5, <2>1, <2>2, AtRest
<1> QED BY <1>1, <1>2, <1>3, <1>6, <1>7 DEF Step, Gone

-----------------------------------------------------------------------------
(* The things the user does, one by one.                                   *)

\* A quiet change keeps the invariant.
LEMMA QuietStep ==
    ASSUME DrawingsInv, NEW s, Quiet(store, s), NEW drag, drag = ddrag, NEW kind \in Kinds, User(s, drag, kind)
    PROVE  DrawingsInv' /\ NoneIsBack
<1>1. Step(s, ddrag, kind)
  BY StepQuiet DEF DrawingsInv
<1> QED BY <1>1, UserStep

\* A step of the history keeps it, as a gesture by itself or at the end of a draft or a text.
LEMMA PushedStep ==
    ASSUME DrawingsInv, NEW s, Pushed(store, s), NEW drag, drag = ddrag, NEW kind \in Kinds, User(s, drag, kind),
           \/ kind # "begin"
           \/ store.draft # None /\ s.draft = None
           \/ store.textEdit # None /\ s.textEdit = None
    PROVE  DrawingsInv' /\ NoneIsBack
<1>1. Step(s, ddrag, kind)
  BY StepPushed DEF DrawingsInv
<1> QED BY <1>1, UserStep

\* The part of the invariant about the store.
LEMMA Typed == DrawingsInv => TypeOK /\ StoreOK(store) /\ ddrag \in Drag \cup {None}
BY DEF DrawingsInv, TypeOK

\* A chart is pressed: it becomes the active one.
LEMMA Pressed ==
    ASSUME DrawingsInv, NEW k \in Pane
    PROVE  LET s == Activated(k) IN
           /\ StoreOK(s) /\ Quiet(store, s)
           /\ s.draft = store.draft /\ s.textEdit = store.textEdit /\ s.selected = store.selected
           /\ s.drawDialog = store.drawDialog
<1>1. Quiet(store, Activated(k)) /\ Activated(k).draft = store.draft /\ Activated(k).textEdit = store.textEdit
  BY Typed, ActivatedIs
<1>2. StoreOK(Activated(k))
  BY <1>1, Typed, QuietTyped
<1>3. Activated(k).selected = store.selected /\ Activated(k).drawDialog = store.drawDialog
  BY Typed DEF Activated, StoreOK
<1> QED BY <1>1, <1>2, <1>3

\* Pressing in the mode that draws horizontal lines.
LEMMA PressLineStep ==
    ASSUME DrawingsInv, NEW k \in Pane, PressLine(k)
    PROVE  DrawingsInv' /\ NoneIsBack
<1> DEFINE s == Activated(k)
<1>1. StoreOK(s) /\ Quiet(store, s)
  BY Pressed
<1>2. None = ddrag /\ (User(AddHLine(s), None, "whole") \/ User(SetDrawMode(s, FALSE), None, "begin"))
  BY DEF PressLine, MouseFree
<1> HIDE DEF s
<1>3. Pushed(store, AddHLine(s))
  BY <1>1, AddHLineIs, QuietThenPushed
<1>4. Quiet(store, SetDrawMode(s, FALSE))
  BY <1>1, SetDrawModeIs, QuietThenQuiet
<1>5. CASE User(AddHLine(s), None, "whole")
  BY <1>2, <1>3, <1>5, PushedStep DEF Kinds
<1>6. CASE User(SetDrawMode(s, FALSE), None, "begin")
  BY <1>2, <1>4, <1>6, QuietStep DEF Kinds
<1> QED BY <1>2, <1>5, <1>6

\* A draft ends, kept or not.
LEMMA FinishPathStep ==
    ASSUME DrawingsInv, store.draft # None, NEW s, StoreOK(s), Quiet(store, s), s.draft = store.draft,
           NEW drag, drag = ddrag,
           \/ User(FinishPath(s), drag, "begin")
           \/ User(FinishDraft(s), drag, "begin")
           \/ User(CancelDraft(s), drag, "begin")
    PROVE  DrawingsInv' /\ NoneIsBack
<1>1. "begin" \in Kinds
  BY DEF Kinds
<1>2. Quiet(store, CancelDraft(s))
  BY CancelDraftIs, QuietThenQuiet
<1>3. Pushed(store, FinishDraft(s)) /\ FinishDraft(s).draft = None
  BY FinishDraftIs, QuietThenPushed
<1>4. FinishPath(s).draft = None /\ (Pushed(store, FinishPath(s)) \/ Quiet(store, FinishPath(s)))
  BY FinishPathIs, QuietThenPushed, QuietThenQuiet
<1>5. CASE User(FinishPath(s), drag, "begin")
  BY <1>1, <1>4, <1>5, PushedStep, QuietStep
<1>6. CASE User(FinishDraft(s), drag, "begin")
  BY <1>1, <1>3, <1>6, PushedStep
<1>7. CASE User(CancelDraft(s), drag, "begin")
  BY <1>1, <1>2, <1>7, QuietStep
<1> QED BY <1>5, <1>6, <1>7

\* Shapes and history stay, while a draft or a text begins or goes on.
Same(s, t) ==
    /\ t.drawings = s.drawings /\ t.hlines = s.hlines /\ t.undo = s.undo /\ t.redo = s.redo /\ t.seq = s.seq
    /\ t.dirty = s.dirty /\ t.drawDialog = s.drawDialog /\ t.dialogBefore = s.dialogBefore

\* What such a store has in common with the one before.
LEMMA SameIs ==
    ASSUME NEW s, StoreOK(s), NEW t, StoreOK(t), Same(s, t)
    PROVE  /\ Doc(t) = Doc(s) /\ Doc(WithoutPreview(t)) = Doc(WithoutPreview(s)) /\ NoneBack(s, t)
           /\ \A b : Unchanged(s, b) => Unchanged(t, b)
           /\ \A id : Has(s, id) <=> Has(t, id)
<1>1. Doc(t) = Doc(s)
  BY SameDoc DEF Same
<1>2. Doc(WithoutPreview(t)) = Doc(WithoutPreview(s))
  <2>1. CASE s.drawDialog = 0
    BY <1>1, <2>1 DEF WithoutPreview, Same
  <2>2. CASE s.drawDialog # 0
    BY <2>2, PreviewIs DEF Same
  <2> QED BY <2>1, <2>2
<1>3. NoneBack(s, t)
  BY DEF Same, NoneBack, Has
<1>4. \A b : Unchanged(s, b) => Unchanged(t, b)
  BY <1>1 DEF Same, Unchanged
<1>5. \A id : Has(s, id) <=> Has(t, id)
  BY DEF Same, Has
<1> QED BY <1>1, <1>2, <1>3, <1>4, <1>5

\* A draft or a text begins, or the draft goes on.
LEMMA SameStep ==
    ASSUME DrawingsInv, ddrag = None, NEW s, StoreOK(s), Same(store, s), NEW kind \in Kinds, User(s, None, kind),
           Rest => s.draft = None \/ s.textEdit = None,
           kind = "begin" => Rest \/ (store.draft # None /\ s.draft # None /\ s.textEdit = store.textEdit)
    PROVE  DrawingsInv' /\ NoneIsBack
<1>1. StoreOK(store) /\ TypeOK
  BY Typed
<1>2. /\ Doc(s) = Doc(store) /\ Doc(WithoutPreview(s)) = Doc(WithoutPreview(store)) /\ NoneBack(store, s)
      /\ \A b : Unchanged(store, b) => Unchanged(s, b)
  BY <1>1, SameIs
<1>3. ASSUME NEW b, Rest, Unchanged(store, b) PROVE Gesture(s, None, b)
  <2>1. s.drawDialog = 0 /\ Unchanged(s, b) /\ (s.draft = None \/ s.textEdit = None)
    BY <1>2, <1>3 DEF Rest, Same
  <2> QED BY <2>1 DEF Gesture
<1>4. ASSUME NEW b, ~Rest, kind = "begin", Gesture(store, None, b) PROVE Gesture(s, None, b)
  <2>1. store.textEdit = None /\ store.drawDialog = 0 /\ Unchanged(store, b)
    BY <1>4 DEF Gesture
  <2>2. s.textEdit = None /\ s.drawDialog = 0 /\ Unchanged(s, b)
    BY <1>2, <1>4, <2>1 DEF Same
  <2> QED BY <2>2 DEF Gesture
<1>5. s.dirty = store.dirty /\ store.seq <= s.seq
  BY <1>1 DEF Same, StoreOK
<1>6. Step(s, None, kind)
  BY <1>2, <1>3, <1>4, <1>5 DEF Step, Gone
<1> QED BY <1>6, UserStep

\* The store with another draft, and with a text begun.
LEMMA Drafted ==
    ASSUME NEW s, StoreOK(s), NEW e \in Draft
    PROVE  LET t == [s EXCEPT !.draft = e] IN
           StoreOK(t) /\ Same(s, t) /\ t.draft = e /\ t.draft # None /\ t.textEdit = s.textEdit
<1> DEFINE t == [s EXCEPT !.draft = e]
<1>1. DOMAIN t = DOMAIN s /\ (\A f \in DOMAIN s \ {"draft"} : t[f] = s[f]) /\ t.draft = e
  BY DEF StoreOK
<1>2. e # None
  BY NoneAssumption
<1> HIDE DEF t
<1>3. Same(s, t) /\ t.textEdit = s.textEdit
  BY <1>1 DEF Same, StoreOK
<1>4. Doc(t) = Doc(s)
  BY <1>3, SameDoc DEF Same
<1>5. StoreOK(t)
  BY <1>1, <1>4 DEF StoreOK
<1> QED BY <1>1, <1>2, <1>3, <1>5 DEF t

\* A text is begun.
LEMMA TextBegun ==
    ASSUME NEW s, StoreOK(s), NEW e \in TextEdit, "text" \in Tools
    PROVE  LET t == [s EXCEPT !.textEdit = e, !.tool = None] IN StoreOK(t) /\ Same(s, t) /\ t.draft = s.draft
<1> DEFINE t == [s EXCEPT !.textEdit = e, !.tool = None]
<1>1. DOMAIN t = DOMAIN s /\ (\A f \in DOMAIN s \ {"textEdit", "tool"} : t[f] = s[f]) /\ t.textEdit = e /\ t.tool = None
  BY DEF StoreOK
<1> HIDE DEF t
<1>2. Same(s, t) /\ t.draft = s.draft
  BY <1>1 DEF Same, StoreOK
<1>3. Doc(t) = Doc(s)
  BY <1>2, SameDoc DEF Same
<1>4. StoreOK(t)
  BY <1>1, <1>3 DEF StoreOK
<1> QED BY <1>2, <1>4 DEF t

\* A quiet change before it makes no difference.
LEMMA QuietSame ==
    ASSUME NEW s, NEW t, NEW u, Quiet(s, t), Same(t, u)
    PROVE  Same(s, u)
BY DEF Quiet, Like, Same

\* Pressing with a shape half drawn.
LEMMA DraftPressStep ==
    ASSUME DrawingsInv, NEW k \in Pane, DraftPress(k)
    PROVE  DrawingsInv' /\ NoneIsBack
<1> DEFINE s == Activated(k)
           e == [s.draft EXCEPT !.n = s.draft.n + 1]
           t == [s EXCEPT !.draft = e]
<1>1. StoreOK(s) /\ Quiet(store, s) /\ s.draft = store.draft /\ s.textEdit = store.textEdit
  BY Pressed
<1>2. store.draft # None /\ ddrag = None
  BY DEF DraftPress, MouseFree
<1>3. \/ User(FinishPath(s), None, "begin")
      \/ User(CancelDraft(s), None, "begin")
      \/ User(FinishDraft(s), None, "begin")
      \/ store.draft.n < 3 /\ User(t, None, "begin")
  BY DEF DraftPress
<1> HIDE DEF s
<1>4. CASE store.draft.n < 3 /\ User(t, None, "begin")
  <2>1. s.draft \in Draft
    BY <1>1, <1>2 DEF StoreOK
  <2>2. e \in Draft
    BY <1>1, <1>4, <2>1 DEF Draft
  <2> HIDE DEF e
  <2>3. StoreOK(t) /\ Same(s, t) /\ t.draft # None /\ t.textEdit = s.textEdit
    BY <1>1, <2>2, Drafted
  <2> HIDE DEF t
  <2>4. Same(store, t)
    BY <1>1, <2>3, QuietSame
  <2>5. ~Rest /\ "begin" \in Kinds
    BY <1>2 DEF Rest, Kinds
  <2> QED BY <1>1, <1>2, <1>4, <2>3, <2>4, <2>5, SameStep
<1> QED BY <1>1, <1>2, <1>3, <1>4, FinishPathStep

\* Pressing begins a gesture only at rest.
LEMMA BeganIs == Began \in Kinds /\ Began # "history" /\ (Began = "begin" => Rest)
BY DEF Began, Kinds

\* Pressing with a tool.
LEMMA StartDrawStep ==
    ASSUME DrawingsInv, NEW k \in Pane, NEW at \in Places, StartDraw(k, at)
    PROVE  DrawingsInv' /\ NoneIsBack
<1> DEFINE s == Activated(k)
           tool == store.tool
           new == NewShape(s, PaneSym[k], tool, at, "")
           te == [pane |-> k, at |-> at, existing |-> 0]
           dr == [pane |-> k, type |-> tool, at |-> at, from |-> at, down |-> TRUE,
                  n |-> IF tool = "brush" THEN 1 ELSE 2, wait |-> FALSE]
           t == [s EXCEPT !.textEdit = te, !.tool = None]
           u == [s EXCEPT !.draft = dr]
<1>1. StoreOK(s) /\ Quiet(store, s) /\ s.draft = store.draft /\ s.textEdit = store.textEdit
  BY Pressed
<1>2. store.draft = None /\ ddrag = None /\ tool # None
  BY DEF StartDraw, MouseFree
<1>3. tool \in Tools
  BY <1>2, Typed DEF StoreOK
<1>4. \/ User(AddDrawing(s, new), None, "whole")
      \/ tool = "text" /\ User(t, None, Began)
      \/ User(u, None, Began)
  BY DEF StartDraw
<1>5. new \in Drawn
  BY <1>1, <1>3, NewShapeTyped
<1>6. te \in TextEdit
  BY DEF TextEdit
<1>7. dr \in Draft
  BY <1>3 DEF Draft
<1> HIDE DEF s, new, te, dr
<1>8. CASE User(AddDrawing(s, new), None, "whole")
  <2>1. Pushed(store, AddDrawing(s, new))
    BY <1>1, <1>5, AddDrawingIs, QuietThenPushed
  <2> QED BY <1>2, <1>8, <2>1, PushedStep DEF Kinds
<1>9. CASE tool = "text" /\ User(t, None, Began)
  <2>1. StoreOK(t) /\ Same(s, t) /\ t.draft = s.draft
    BY <1>1, <1>3, <1>6, <1>9, TextBegun
  <2> HIDE DEF t
  <2>2. Same(store, t) /\ t.draft = None
    BY <1>1, <1>2, <2>1, QuietSame
  <2> QED BY <1>2, <1>9, <2>1, <2>2, BeganIs, SameStep
<1>10. CASE User(u, None, Began)
  <2>1. StoreOK(u) /\ Same(s, u) /\ u.textEdit = s.textEdit
    BY <1>1, <1>7, Drafted
  <2> HIDE DEF u
  <2>2. Same(store, u) /\ (Rest => u.textEdit = None)
    BY <1>1, <2>1, QuietSame DEF Rest
  <2> QED BY <1>2, <1>10, <2>1, <2>2, BeganIs, SameStep
<1> QED BY <1>4, <1>8, <1>9, <1>10

\* A shape that the pointer hits is one of the store's.
LEMMA MineIs ==
    ASSUME DrawingsInv, NEW k \in Pane, NEW d \in Mine(k)
    PROVE  d \in Shape /\ Has(store, d.id) /\ d.id \in Ids
<1>1. PICK i \in DOMAIN store.drawings : d = store.drawings[i]
  BY DEF Mine, Range
<1>2. Has(store, d.id)
  BY <1>1 DEF Has
<1>3. d \in Shape
  BY <1>1, Typed, StoreFacts, ShapesIn
<1> QED BY <1>2, <1>3, HasId, Typed

\* Pressing a shape.
LEMMA GrabStep ==
    ASSUME DrawingsInv, NEW k \in Pane, Grab(k)
    PROVE  DrawingsInv' /\ NoneIsBack
<1> DEFINE a == Activated(k)
<1>1. ddrag = None /\ TypeOK /\ StoreOK(store)
  BY Typed DEF Grab, MouseFree
<1>2. PICK d \in Mine(k), clone \in BOOLEAN :
         User(Select(a, d.id), IF d.locked THEN None ELSE [id |-> d.id, moved |-> FALSE, clone |-> clone], Began)
  BY DEF Grab
<1> DEFINE s == Select(a, d.id)
           drag == IF d.locked THEN None ELSE [id |-> d.id, moved |-> FALSE, clone |-> clone]
<1>3. StoreOK(a) /\ Quiet(store, a)
  BY Pressed
<1>4. Quiet(store, s)
  <2>1. d.id \in Ids
    BY MineIs
  <2> HIDE DEF a
  <2>2. Quiet(a, s)
    BY <1>3, <2>1, SelectIs
  <2> HIDE DEF s
  <2> QED BY <1>3, <2>2, QuietThenQuiet
<1>5. drag = None \/ (drag \in Drag /\ drag # None /\ ~drag.moved)
  <2>1. [id |-> d.id, moved |-> FALSE, clone |-> clone] \in Drag
    BY MineIs DEF Drag
  <2> QED BY <2>1, NoneAssumption
<1>6. User(s, drag, Began)
  BY <1>2
<1> HIDE DEF s, drag, a
<1>7. StoreOK(s) /\ Doc(s) = Doc(store) /\ NoneBack(store, s)
  BY <1>1, <1>4, QuietTyped
<1>8. Doc(WithoutPreview(s)) = Doc(WithoutPreview(store)) /\ s.dirty = store.dirty /\ s.seq = store.seq
  BY <1>1, <1>4, GestureQuiet DEF Quiet
<1>9. ASSUME NEW b, Rest, Unchanged(store, b) PROVE Gesture(s, drag, b)
  <2>1. s.draft = None /\ s.textEdit = None /\ s.drawDialog = 0 /\ Unchanged(s, b)
    BY <1>4, <1>7, <1>9 DEF Rest, Quiet, Like, Unchanged
  <2> QED BY <1>5, <2>1 DEF Gesture
<1>10. store.seq <= s.seq
  BY <1>1, <1>8 DEF StoreOK
<1>11. ~Moved(ddrag)
  BY <1>1 DEF Moved
<1>12. Step(s, drag, Began)
  BY <1>5, <1>7, <1>8, <1>9, <1>10, <1>11, BeganIs DEF Step, Gone
<1> QED BY <1>6, <1>12, UserStep

\* Pressing beside the shapes.
LEMMA PressNothingStep ==
    ASSUME DrawingsInv, NEW k \in Pane, PressNothing(k)
    PROVE  DrawingsInv' /\ NoneIsBack
<1> DEFINE s == Activated(k)
<1>1. StoreOK(s) /\ Quiet(store, s)
  BY Pressed
<1>2. ddrag = None /\ User(Select(s, 0), None, "begin")
  BY DEF PressNothing, MouseFree
<1> HIDE DEF s
<1>3. Quiet(store, Select(s, 0))
  BY <1>1, SelectIs, QuietThenQuiet
<1> QED BY <1>2, <1>3, QuietStep DEF Kinds

\* The pointer moves with a shape held: the first move takes the step or makes the copy.
LEMMA MoveDrawingStep ==
    ASSUME DrawingsInv, NEW at \in Places, MoveDrawing(at)
    PROVE  DrawingsInv' /\ NoneIsBack
<1> DEFINE copies == ~ddrag.moved /\ ddrag.clone
           s == IF ddrag.moved THEN store
                ELSE IF copies THEN CloneDrawing(store, ddrag.id) ELSE PushUndo(store)
           id == IF copies THEN s.seq ELSE ddrag.id
           d == [Get(s, id) EXCEPT !.at = at]
           t == IF Has(s, id) THEN Put(s, d) ELSE s
           drag == [ddrag EXCEPT !.id = id, !.moved = TRUE]
<1>1. /\ ddrag \in Drag /\ ddrag # None /\ StoreOK(store)
  BY Typed DEF MoveDrawing
<1>2. ddrag.id \in Ids /\ ddrag.moved \in BOOLEAN /\ ddrag.clone \in BOOLEAN
  BY <1>1 DEF Drag
<1>3. User(t, drag, "begin") /\ (copies => Has(store, ddrag.id))
  BY DEF MoveDrawing
\* The store that the shape is moved in.
<1>4. /\ StoreOK(s) /\ store.seq <= s.seq /\ NoneBack(store, s) /\ id \in Ids
      /\ s.textEdit = store.textEdit /\ s.drawDialog = store.drawDialog
      /\ s.draft \in {None, store.draft}
      /\ IF ddrag.moved THEN s = store
         ELSE s.undo \in {Append(store.undo, Doc(store)), Tail(Append(store.undo, Doc(store)))}
  <2>1. CASE ddrag.moved
    <3>1. s = store /\ ~copies
      BY <2>1
    <3>2. NoneBack(store, store) /\ store.seq \in Nat
      BY <1>1, StoreFacts
    <3> QED BY <1>1, <1>2, <2>1, <3>1, <3>2
  <2>2. CASE copies
    <3>1. s = CloneDrawing(store, ddrag.id) /\ id = s.seq /\ ~ddrag.moved
      BY <2>2
    <3> HIDE DEF s
    <3>2. Pushed(store, s) /\ s.draft = None /\ s.textEdit = store.textEdit /\ s.drawDialog = store.drawDialog
          /\ s.seq = store.seq + 1
      BY <1>1, <1>3, <2>2, <3>1, CloneDrawingIs
    <3>3. StoreOK(s) /\ store.seq <= s.seq
          /\ s.undo \in {Append(store.undo, Doc(store)), Tail(Append(store.undo, Doc(store)))}
      BY <1>1, <3>2, PushedTyped
    <3>4. NoneBack(store, s)
      BY <3>2 DEF Pushed
    <3>5. store.seq \in Nat
      BY <1>1, StoreFacts
    <3>6. id \in Ids
      BY <3>1, <3>2, <3>5 DEF Ids
    <3> QED BY <3>1, <3>2, <3>3, <3>4, <3>6
  <2>3. CASE ~ddrag.moved /\ ~copies
    <3>1. s = PushUndo(store) /\ id = ddrag.id
      BY <2>3
    <3> HIDE DEF s
    <3>2. /\ s.undo = Capped(Append(store.undo, Doc(store))) /\ s.seq = store.seq /\ s.drawDialog = store.drawDialog
          /\ s.draft = store.draft /\ s.textEdit = store.textEdit
      BY <1>1, <3>1, FromPush
    <3>3. StoreOK(s) /\ s.drawings = store.drawings
      BY <1>1, <3>1, AfterPush
    <3>4. NoneBack(store, s)
      BY <3>3 DEF NoneBack, Has
    <3>5. s.undo \in {Append(store.undo, Doc(store)), Tail(Append(store.undo, Doc(store)))}
      BY <3>2 DEF Capped
    <3>6. store.seq <= s.seq
      BY <1>1, <3>2 DEF StoreOK
    <3> QED BY <1>2, <2>3, <3>1, <3>2, <3>3, <3>4, <3>5, <3>6
  <2> QED BY <2>1, <2>2, <2>3
<1>5. drag \in Drag /\ drag.moved = TRUE
  BY <1>1, <1>4 DEF Drag
<1>6. drag # None
  BY <1>5, NoneAssumption
<1> HIDE DEF s, id
<1>7. /\ StoreOK(t) /\ t.seq = s.seq /\ NoneBack(store, t)
      /\ t.undo = s.undo /\ t.draft = s.draft /\ t.textEdit = s.textEdit /\ t.drawDialog = s.drawDialog
  <2>1. CASE Has(s, id)
    <3>1. Get(s, id) \in Shape
      BY <1>4, <2>1, HasId
    <3>2. d \in Shape
      BY <3>1, Changed
    <3> HIDE DEF d
    <3>3. t = Put(s, d)
      BY <2>1
    <3> HIDE DEF t
    <3>4. /\ StoreOK(t) /\ t.seq = s.seq /\ NoneBack(s, t) /\ \A x : Has(t, x) <=> Has(s, x)
          /\ t.undo = s.undo /\ t.draft = s.draft /\ t.textEdit = s.textEdit /\ t.drawDialog = s.drawDialog
      BY <1>4, <3>2, <3>3, PutTyped
    <3>5. \A i \in DOMAIN t.drawings : Has(t, t.drawings[i].id)
      BY DEF Has
    <3>6. ASSUME NEW x, Has(s, x) PROVE Has(store, x) \/ store.seq < x
      BY <1>4, <3>6 DEF NoneBack, Has
    <3>7. NoneBack(store, t)
      BY <3>4, <3>5, <3>6 DEF NoneBack
    <3> QED BY <3>4, <3>7
  <2>2. CASE ~Has(s, id)
    BY <1>4, <2>2
  <2> QED BY <2>1, <2>2
<1>8. ~Rest
  BY <1>1 DEF Rest
<1> HIDE DEF t, drag
<1>9. ASSUME NEW b, Gesture(store, ddrag, b) PROVE Gesture(t, drag, b)
  <2>1. /\ store.draft = None /\ store.textEdit = None /\ store.drawDialog = 0
        /\ IF ddrag.moved THEN OneStep(store, b) ELSE Unchanged(store, b)
    BY <1>1, <1>9 DEF Gesture
  <2>2. OneStep(t, b)
    BY <1>2, <1>4, <1>7, <2>1 DEF OneStep, Unchanged
  <2>3. t.draft = None /\ t.textEdit = None /\ t.drawDialog = 0
    BY <1>4, <1>7, <2>1
  <2> QED BY <1>5, <1>6, <2>2, <2>3 DEF Gesture
<1>10. Moved(drag)
  BY <1>5, <1>6 DEF Moved
<1>11. store.seq <= t.seq /\ "begin" \in Kinds
  BY <1>4, <1>7 DEF Kinds
<1>12. Step(t, drag, "begin")
  BY <1>5, <1>7, <1>8, <1>9, <1>10, <1>11 DEF Step, Gone
<1> QED BY <1>3, <1>12, UserStep

\* The pointer moves with a shape half drawn.
LEMMA MoveDraftStep ==
    ASSUME DrawingsInv, NEW at \in Places, MoveDraft(at)
    PROVE  DrawingsInv' /\ NoneIsBack
<1>1. ddrag = None /\ store.draft # None /\ StoreOK(store)
  BY Typed DEF MoveDraft
<1>2. store.draft \in Draft
  BY <1>1 DEF StoreOK
<1>3. PICK e \in Draft : User([store EXCEPT !.draft = e], None, "begin")
  <2>1. [store.draft EXCEPT !.at = at] \in Draft
    BY <1>2 DEF Draft
  <2>2. store.draft.n < 2 => [store.draft EXCEPT !.n = store.draft.n + 1] \in Draft
    BY <1>2 DEF Draft
  <2> QED BY <2>1, <2>2 DEF MoveDraft
<1> DEFINE t == [store EXCEPT !.draft = e]
<1>4. StoreOK(t) /\ Same(store, t) /\ t.draft # None /\ t.textEdit = store.textEdit
  BY <1>1, Drafted
<1>5. ~Rest /\ "begin" \in Kinds /\ User(t, None, "begin")
  BY <1>1, <1>3 DEF Rest, Kinds
<1> HIDE DEF t
<1> QED BY <1>1, <1>4, <1>5, SameStep

\* The button is let go with a shape held.
LEMMA ReleaseDrawingStep ==
    ASSUME DrawingsInv, ReleaseDrawing
    PROVE  DrawingsInv' /\ NoneIsBack
<1> DEFINE t == IF ddrag.moved THEN ScheduleSave(store) ELSE store
<1>1. ddrag \in Drag /\ ddrag # None /\ StoreOK(store) /\ User(t, None, "begin")
  BY Typed DEF ReleaseDrawing
<1>2. ddrag.moved \in BOOLEAN
  BY <1>1 DEF Drag
<1>3. /\ DOMAIN t = DOMAIN store /\ (\A f \in DOMAIN store \ {"dirty"} : t[f] = store[f])
      /\ IF ddrag.moved THEN t.dirty = TRUE ELSE t = store
  BY <1>1 DEF ScheduleSave, StoreOK
<1> HIDE DEF t
<1>4. /\ t.drawings = store.drawings /\ t.hlines = store.hlines /\ t.undo = store.undo /\ t.seq = store.seq
      /\ t.draft = store.draft /\ t.textEdit = store.textEdit /\ t.drawDialog = store.drawDialog
  BY <1>1, <1>3 DEF StoreOK
<1>5. Doc(t) = Doc(store)
  BY <1>4, SameDoc
<1>6. StoreOK(t)
  BY <1>1, <1>2, <1>3, <1>5 DEF StoreOK
<1>7. NoneBack(store, t)
  BY <1>4 DEF NoneBack, Has
<1>8. ~Rest
  BY <1>1 DEF Rest
<1>9. ASSUME NEW b, Gesture(store, ddrag, b) PROVE Gesture(t, None, b)
  <2>1. /\ store.draft = None /\ store.textEdit = None /\ store.drawDialog = 0
        /\ Unchanged(store, b) \/ OneStep(store, b)
    BY <1>1, <1>2, <1>9 DEF Gesture
  <2>2. Unchanged(t, b) \/ OneStep(t, b)
    BY <1>4, <1>5, <2>1 DEF Unchanged, OneStep
  <2> QED BY <1>4, <2>1, <2>2, AtRest
<1>10. t.dirty = TRUE \/ (t = store /\ ~Moved(ddrag))
  BY <1>1, <1>2, <1>3 DEF Moved
<1>11. store.seq <= t.seq /\ "begin" \in Kinds
  BY <1>1, <1>4 DEF StoreOK, Kinds
<1>12. Step(t, None, "begin")
  BY <1>6, <1>7, <1>8, <1>9, <1>10, <1>11 DEF Step, Gone
<1> QED BY <1>1, <1>12, UserStep

\* The button is let go with a shape half drawn.
LEMMA DraftUpStep ==
    ASSUME DrawingsInv, DraftUp
    PROVE  DrawingsInv' /\ NoneIsBack
<1> DEFINE e == [store.draft EXCEPT !.down = FALSE]
           f == [store.draft EXCEPT !.down = FALSE, !.wait = TRUE]
           t(x) == [store EXCEPT !.draft = x]
<1>1. ddrag = None /\ store.draft # None /\ StoreOK(store) /\ Quiet(store, store)
  BY Typed, StoreFacts DEF DraftUp
<1>2. store.draft \in Draft
  BY <1>1 DEF StoreOK
<1>3. e \in Draft /\ f \in Draft
  BY <1>2 DEF Draft
<1>4. [store EXCEPT !.draft.down = FALSE] = t(e) /\ [store EXCEPT !.draft.down = FALSE, !.draft.wait = TRUE] = t(f)
  BY <1>1, <1>2 DEF StoreOK, Draft
<1>5. \/ User(FinishDraft(store), None, "begin")
      \/ User(CancelDraft(store), None, "begin")
      \/ User(t(e), None, "begin")
      \/ User(t(f), None, "begin")
  BY <1>4 DEF DraftUp
<1>6. ASSUME NEW x \in Draft, User(t(x), None, "begin") PROVE DrawingsInv' /\ NoneIsBack
  <2>1. StoreOK(t(x)) /\ Same(store, t(x)) /\ t(x).draft # None /\ t(x).textEdit = store.textEdit
    BY <1>1, Drafted
  <2>2. ~Rest /\ "begin" \in Kinds
    BY <1>1 DEF Rest, Kinds
  <2> HIDE DEF t
  <2> QED BY <1>1, <1>6, <2>1, <2>2, SameStep
<1> HIDE DEF t, e, f
<1> QED BY <1>1, <1>3, <1>5, <1>6, FinishPathStep

\* The dialog of a shape opens.
LEMMA OpenDialogStep ==
    ASSUME DrawingsInv, ddrag = None, NEW id, Has(store, id), User(OpenDrawDialog(store, id), None, Began)
    PROVE  DrawingsInv' /\ NoneIsBack
<1> DEFINE r == OpenDrawDialog(store, id)
<1>1. StoreOK(store)
  BY Typed
<1>2. /\ StoreOK(r) /\ r.seq = store.seq /\ NoneBack(store, r)
      /\ r.dirty = TRUE \/ (r.dirty = store.dirty /\ Doc(WithoutPreview(r)) = Doc(WithoutPreview(store)))
      /\ store.drawDialog = 0 =>
           /\ r.undo = store.undo /\ r.drawings = store.drawings /\ r.draft = store.draft /\ r.textEdit = None
           /\ r.drawDialog = id /\ r.dialogBefore.doc = Doc(store)
           /\ Doc(WithoutPreview(r)) = Doc(store)
  BY <1>1, OpenDrawDialogIs
<1> HIDE DEF r
<1>3. ASSUME NEW b, Rest, Unchanged(store, b) PROVE Gesture(r, None, b)
  <2>1. /\ r.undo = b.undo /\ r.drawings = store.drawings /\ r.draft = None /\ r.textEdit = None
        /\ r.drawDialog = id /\ r.dialogBefore.doc = b.doc /\ Doc(WithoutPreview(r)) = b.doc
    BY <1>2, <1>3 DEF Rest, Unchanged
  <2>2. Has(r, id) /\ id # 0
    BY <1>1, <2>1, HasId DEF Has
  <2> QED BY <2>1, <2>2 DEF Gesture
<1>4. store.seq <= r.seq /\ ~Moved(ddrag)
  BY <1>1, <1>2 DEF StoreOK, Moved
<1>5. Step(r, None, Began)
  BY <1>2, <1>3, <1>4, BeganIs DEF Step, Gone
<1> QED BY <1>5, UserStep DEF r

\* A shape is double-clicked.
LEMMA DoubleClickStep ==
    ASSUME DrawingsInv, NEW k \in Pane, DoubleClick(k)
    PROVE  DrawingsInv' /\ NoneIsBack
<1>1. ddrag = None /\ StoreOK(store)
  BY Typed DEF DoubleClick, MouseFree
<1>2. PICK d \in Mine(k) :
        User(IF d.type = "text"
             THEN [store EXCEPT !.textEdit = [pane |-> k, at |-> d.at, existing |-> d.id], !.tool = None]
             ELSE OpenDrawDialog(store, d.id), None, Began)
  BY DEF DoubleClick
<1> DEFINE te == [pane |-> k, at |-> d.at, existing |-> d.id]
           t == [store EXCEPT !.textEdit = te, !.tool = None]
<1>3. d \in Shape /\ Has(store, d.id) /\ d.id \in Ids
  BY MineIs
<1>4. CASE d.type = "text"
  <2>1. te \in TextEdit /\ "text" \in Tools
    BY <1>3, <1>4 DEF TextEdit, Shape
  <2>2. User(t, None, Began)
    BY <1>2, <1>4
  <2> HIDE DEF te
  <2>3. StoreOK(t) /\ Same(store, t) /\ t.draft = store.draft
    BY <1>1, <2>1, TextBegun
  <2> HIDE DEF t
  <2>4. Rest => t.draft = None
    BY <2>3 DEF Rest
  <2> QED BY <1>1, <2>2, <2>3, <2>4, BeganIs, SameStep
<1>5. CASE d.type # "text"
  BY <1>1, <1>2, <1>3, <1>5, OpenDialogStep
<1> QED BY <1>4, <1>5

\* The input of a text is left.
LEMMA FinishTextStep ==
    ASSUME DrawingsInv, FinishText
    PROVE  DrawingsInv' /\ NoneIsBack
<1>1. store.textEdit # None /\ StoreOK(store)
  BY Typed DEF FinishText
<1>2. PICK v \in Texts \cup {""}, save \in BOOLEAN : User(CommitText(store, v, save), ddrag, "begin")
  BY DEF FinishText
<1> DEFINE r == CommitText(store, v, save)
<1>3. r.textEdit = None /\ (Quiet(store, r) \/ Pushed(store, r))
  BY <1>1, CommitTextIs
<1>4. User(r, ddrag, "begin") /\ "begin" \in Kinds
  BY <1>2 DEF Kinds
<1> HIDE DEF r
<1> QED BY <1>1, <1>3, <1>4, QuietStep, PushedStep

\* Undo and Redo.
LEMMA HistoryStep ==
    ASSUME DrawingsInv, NEW s, User(s, ddrag, "history"), StoreOK(s), s.seq = store.seq, s.dirty = TRUE, Gone(s)
    PROVE  DrawingsInv' /\ NoneIsBack
<1>1. StoreOK(store) /\ ddrag \in Drag \cup {None}
  BY Typed
<1>2. store.seq <= s.seq /\ "history" \in Kinds
  BY <1>1 DEF StoreOK, Kinds
<1>3. Step(s, ddrag, "history")
  BY <1>1, <1>2 DEF Step
<1> QED BY <1>3, UserStep

\* The key of Undo, which gives up a draft if there is one.
LEMMA UndoKeyStep ==
    ASSUME DrawingsInv, UndoKey
    PROVE  DrawingsInv' /\ NoneIsBack
<1>1. StoreOK(store) /\ Quiet(store, store) /\ store.drawDialog = 0
  BY Typed, StoreFacts DEF UndoKey, KeysFree
<1>2. User(Undo(store), ddrag, IF store.draft # None THEN "begin" ELSE "history")
  BY DEF UndoKey
<1>3. CASE store.draft # None
  <2>1. Undo(store) = CancelDraft(store)
    BY <1>1, <1>3 DEF Undo
  <2>2. User(CancelDraft(store), ddrag, "begin")
    BY <1>2, <1>3, <2>1
  <2> QED BY <1>1, <1>3, <2>2, FinishPathStep
<1>4. CASE store.draft = None
  <2> DEFINE t == Undo(store)
  <2>1. User(t, ddrag, "history")
    BY <1>2, <1>4
  <2>2. \/ t = store
        \/ /\ StoreOK(t) /\ t.seq = store.seq /\ t.dirty = TRUE
           /\ store.undo # <<>> /\ Doc(t) = Last(store.undo)
    BY <1>1, <1>4, UndoIs
  <2> HIDE DEF t
  <2>3. CASE t = store
    BY <1>1, <2>1, <2>3, QuietStep DEF Kinds
  <2>4. CASE t # store
    BY <2>1, <2>2, <2>4, HistoryStep DEF Gone
  <2> QED BY <2>3, <2>4
<1> QED BY <1>3, <1>4

\* The key of Redo.
LEMMA RedoKeyStep ==
    ASSUME DrawingsInv, RedoKey
    PROVE  DrawingsInv' /\ NoneIsBack
<1> DEFINE t == Redo(store)
<1>1. StoreOK(store) /\ Quiet(store, store)
  BY Typed, StoreFacts
<1>2. User(t, ddrag, "history")
  BY DEF RedoKey
<1>3. \/ t = store
      \/ /\ StoreOK(t) /\ t.seq = store.seq /\ t.dirty = TRUE
         /\ store.redo # <<>> /\ Doc(t) = Last(store.redo)
  BY <1>1, RedoIs
<1> HIDE DEF t
<1>4. CASE t = store
  BY <1>1, <1>2, <1>4, QuietStep DEF Kinds
<1>5. CASE t # store
  BY <1>2, <1>3, <1>5, HistoryStep DEF Gone
<1> QED BY <1>4, <1>5

\* The key or a button of Delete.
LEMMA DeleteStep ==
    ASSUME DrawingsInv, NEW drag, drag = ddrag, User(DeleteSelected(store), drag, "whole")
    PROVE  DrawingsInv' /\ NoneIsBack
<1> DEFINE t == DeleteSelected(store)
<1>1. StoreOK(store) /\ Quiet(store, store)
  BY Typed, StoreFacts
<1>2. Pushed(store, t) \/ t = store
  BY <1>1, DeleteSelectedIs
<1>3. User(t, drag, "whole") /\ "whole" \in Kinds /\ "whole" # "begin"
  BY DEF Kinds
<1> HIDE DEF t
<1> QED BY <1>1, <1>2, <1>3, PushedStep, QuietStep

\* The other keys.
LEMMA KeysStep ==
    ASSUME DrawingsInv, Keys
    PROVE  DrawingsInv' /\ NoneIsBack
<1>1. StoreOK(store) /\ Quiet(store, store)
  BY Typed, StoreFacts
<1>2. CASE CopyKey
  <2>1. Quiet(store, CopyDrawing(store, store.selected))
    BY <1>1, CopyDrawingIs
  <2> QED BY <1>2, <2>1, QuietStep DEF CopyKey, Kinds
<1>3. CASE PasteKey
  <2>1. Pushed(store, PasteDrawing(store))
    BY <1>1, <1>3, PasteDrawingIs DEF PasteKey
  <2> QED BY <1>3, <2>1, PushedStep DEF PasteKey, Kinds
<1>4. CASE DeleteKey
  BY <1>4, DeleteStep DEF DeleteKey
<1>5. CASE FinishPathKey
  BY <1>1, <1>5, FinishPathStep DEF FinishPathKey
<1>6. CASE EscapeKey
  <2> DEFINE s == IF store.draft = None THEN store
                  ELSE IF store.draft.type = "path" THEN FinishPath(store) ELSE CancelDraft(store)
             a == SetTool(s, None)
             b == SetDrawMode(a, FALSE)
             t == Select(b, 0)
  <2>1. User(t, ddrag, "begin") /\ "begin" \in Kinds
    BY <1>6 DEF EscapeKey, Kinds
  <2>2. Quiet(store, s) \/ (Pushed(store, s) /\ store.draft # None /\ s.draft = None)
    <3>1. CASE store.draft = None
      BY <1>1, <3>1
    <3>2. CASE store.draft # None
      BY <1>1, <3>2, FinishPathIs, CancelDraftIs
    <3> QED BY <3>1, <3>2
  <2> HIDE DEF s
  <2>3. StoreOK(s)
    BY <1>1, <2>2, QuietTyped, PushedTyped
  <2>4. Quiet(s, a)
    BY <2>3, SetToolIs
  <2>5. StoreOK(a)
    BY <2>3, <2>4, QuietTyped
  <2> HIDE DEF a
  <2>6. Quiet(a, b)
    BY <2>5, SetDrawModeIs
  <2>7. StoreOK(b)
    BY <2>5, <2>6, QuietTyped
  <2> HIDE DEF b
  <2>8. Quiet(b, t)
    BY <2>7, SelectIs
  <2> HIDE DEF t
  <2>9. Quiet(s, t)
    BY <2>4, <2>6, <2>8, QuietThenQuiet
  <2>10. t.draft \in {None, s.draft}
    BY <2>9 DEF Quiet, Like
  <2>11. Quiet(store, t) \/ (Pushed(store, t) /\ store.draft # None /\ t.draft = None)
    BY <2>2, <2>9, <2>10, QuietThenQuiet, PushedThenQuiet
  <2> QED BY <2>1, <2>11, QuietStep, PushedStep
<1>7. CASE UndoKey
  BY <1>7, UndoKeyStep
<1>8. CASE RedoKey
  BY <1>8, RedoKeyStep
<1> QED BY <1>2, <1>3, <1>4, <1>5, <1>6, <1>7, <1>8 DEF Keys

\* A tool is chosen or left.
LEMMA ChooseToolStep ==
    ASSUME DrawingsInv, ChooseTool
    PROVE  DrawingsInv' /\ NoneIsBack
<1>1. StoreOK(store) /\ "begin" \in Kinds
  BY Typed DEF Kinds
<1>2. CASE \E t \in Tools : User(SetTool(store, IF store.tool = t THEN None ELSE t), ddrag, "begin")
  <2>1. PICK t \in Tools : User(SetTool(store, IF store.tool = t THEN None ELSE t), ddrag, "begin")
    BY <1>2
  <2>2. (IF store.tool = t THEN None ELSE t) \in Tools \cup {None}
    OBVIOUS
  <2>3. Quiet(store, SetTool(store, IF store.tool = t THEN None ELSE t))
    BY <1>1, <2>2, SetToolIs
  <2> QED BY <1>1, <2>1, <2>3, QuietStep
<1>3. CASE User(SetDrawMode(store, ~store.drawMode), ddrag, "begin")
  <2>1. (~store.drawMode) \in BOOLEAN
    OBVIOUS
  <2>2. Quiet(store, SetDrawMode(store, ~store.drawMode))
    BY <1>1, <2>1, SetDrawModeIs
  <2> QED BY <1>1, <1>3, <2>2, QuietStep
<1> QED BY <1>2, <1>3 DEF ChooseTool

\* The buttons of the toolbar.
LEMMA ToolbarStep ==
    ASSUME DrawingsInv, Toolbar
    PROVE  DrawingsInv' /\ NoneIsBack
<1>1. ddrag = None /\ StoreOK(store) /\ Quiet(store, store)
  BY Typed, StoreFacts DEF Toolbar, MouseFree
<1>2. "whole" \in Kinds /\ "whole" # "begin"
  BY DEF Kinds
<1>3. CASE User(ShowHidden(store), None, "whole")
  <2>1. Pushed(store, ShowHidden(store)) \/ ShowHidden(store) = store
    BY <1>1, ShowHiddenIs
  <2> QED BY <1>1, <1>2, <1>3, <2>1, PushedStep, QuietStep
<1>4. CASE User(DeleteSelected(store), None, "whole")
  BY <1>1, <1>4, DeleteStep
<1>5. CASE User(ClearDrawings(store), None, "whole")
  <2> DEFINE t == ClearDrawings(store)
  <2>1. /\ t.textEdit = store.textEdit /\ t.draft = None /\ t.drawDialog = 0
        /\ t.dirty = TRUE /\ StoreOK(t) /\ NoneBack(store, t) /\ store.seq <= t.seq
        /\ Pushed(store, t) \/ (t.drawings = store.drawings /\ t.hlines = store.hlines /\ t.undo = store.undo)
    BY <1>1, ClearDrawingsIs
  <2> HIDE DEF t
  <2>2. ASSUME NEW b, Rest, Unchanged(store, b) PROVE Gesture(t, None, b)
    <3>1. CASE Pushed(store, t)
      <4>1. t.undo \in {Append(store.undo, Doc(store)), Tail(Append(store.undo, Doc(store)))}
        BY <1>1, <3>1, PushedTyped
      <4>2. OneStep(t, b)
        BY <2>2, <4>1 DEF OneStep, Unchanged
      <4> QED BY <2>1, <2>2, <4>2, AtRest DEF Rest
    <3>2. CASE t.drawings = store.drawings /\ t.hlines = store.hlines /\ t.undo = store.undo
      <4>1. Doc(t) = Doc(store)
        BY <3>2, SameDoc
      <4>2. Unchanged(t, b)
        BY <2>2, <3>2, <4>1 DEF Unchanged
      <4> QED BY <2>1, <2>2, <4>2, AtRest DEF Rest
    <3> QED BY <2>1, <3>1, <3>2
  <2>3. Step(t, None, "whole")
    BY <1>2, <2>1, <2>2 DEF Step, Gone
  <2> QED BY <1>5, <2>3, UserStep DEF t
<1> QED BY <1>3, <1>4, <1>5 DEF Toolbar

\* The buttons of the bar of the selected shape.
LEMMA DrawingBarStep ==
    ASSUME DrawingsInv, DrawingBar
    PROVE  DrawingsInv' /\ NoneIsBack
<1> DEFINE id == store.selected
           h == HideDrawing(store, id)
           Ops == {"front", "forward", "backward", "back"}
<1>1. ddrag = None /\ StoreOK(store) /\ Quiet(store, store) /\ Has(store, id)
  BY Typed, StoreFacts DEF DrawingBar, BarShown, MouseFree
<1>2. "whole" \in Kinds /\ "whole" # "begin" /\ "begin" \in Kinds
  BY DEF Kinds
<1>3. \/ \E style \in Styles : User(StyleDrawing(store, id, style), None, "whole")
      \/ User(ToggleLock(store, id), None, "whole")
      \/ \E op \in Ops : User(OrderDrawing(store, id, op), None, "whole")
      \/ User(CloneDrawing(store, id), None, "whole")
      \/ User(CopyDrawing(store, id), None, "begin")
      \/ User(h, None, "whole")
      \/ User(DeleteSelected(store), None, "whole")
      \/ User(OpenDrawDialog(store, id), None, Began)
  BY DEF DrawingBar
<1>4. CASE \E style \in Styles : User(StyleDrawing(store, id, style), None, "whole")
  <2>1. PICK style \in Styles : User(StyleDrawing(store, id, style), None, "whole")
    BY <1>4
  <2>2. Pushed(store, StyleDrawing(store, id, style))
    BY <1>1, StyleDrawingIs
  <2> QED BY <1>1, <1>2, <2>1, <2>2, PushedStep
<1>5. CASE User(ToggleLock(store, id), None, "whole")
  <2>1. Pushed(store, ToggleLock(store, id))
    BY <1>1, ToggleLockIs
  <2> QED BY <1>1, <1>2, <1>5, <2>1, PushedStep
<1>6. CASE \E op \in Ops : User(OrderDrawing(store, id, op), None, "whole")
  <2>1. PICK op \in Ops : User(OrderDrawing(store, id, op), None, "whole")
    BY <1>6
  <2>2. OrderDrawing(store, id, op) = store \/ Pushed(store, OrderDrawing(store, id, op))
    BY <1>1, OrderDrawingIs
  <2> QED BY <1>1, <1>2, <2>1, <2>2, PushedStep, QuietStep
<1>7. CASE User(CloneDrawing(store, id), None, "whole")
  <2>1. Pushed(store, CloneDrawing(store, id))
    BY <1>1, CloneDrawingIs
  <2> QED BY <1>1, <1>2, <1>7, <2>1, PushedStep
<1>8. CASE User(CopyDrawing(store, id), None, "begin")
  <2>1. Quiet(store, CopyDrawing(store, id))
    BY <1>1, CopyDrawingIs
  <2> QED BY <1>1, <1>2, <1>8, <2>1, QuietStep
<1>9. CASE User(h, None, "whole")
  <2>1. /\ StoreOK(h) /\ store.seq <= h.seq /\ NoneBack(store, h) /\ h.dirty = TRUE
        /\ store.drawDialog = 0 => Pushed(store, h)
    BY <1>1, HideDrawingIs
  <2> HIDE DEF h
  <2>2. CASE store.drawDialog = 0
    BY <1>1, <1>2, <1>9, <2>1, <2>2, PushedStep
  <2>3. CASE store.drawDialog # 0
    <3>1. ~Rest
      BY <2>3 DEF Rest
    <3>2. Step(h, None, "whole")
      BY <1>2, <2>1, <3>1 DEF Step, Gone
    <3> QED BY <1>9, <3>2, UserStep
  <2> QED BY <2>2, <2>3
<1>10. CASE User(DeleteSelected(store), None, "whole")
  BY <1>1, <1>10, DeleteStep
<1>11. CASE User(OpenDrawDialog(store, id), None, Began)
  BY <1>1, <1>11, OpenDialogStep
<1> HIDE DEF h, id
<1> QED BY <1>3, <1>4, <1>5, <1>6, <1>7, <1>8, <1>9, <1>10, <1>11

\* What the tabs of the dialog make of a shape is a shape with the same id.
LEMMA TabsAre ==
    ASSUME NEW d \in Shape, NEW e \in StyleTab(d) \cup TextToolTab(d) \cup CoordsTab(d) \cup VisibilityTab(d)
    PROVE  e \in Shape /\ e.id = d.id
<1>1. CASE e \in StyleTab(d)
  <2>1. PICK x \in Styles : e = [d EXCEPT !.style = x]
    BY <1>1 DEF StyleTab
  <2> QED BY <2>1, Changed
<1>2. CASE e \in TextToolTab(d)
  <2>1. PICK x \in Texts \cup {""} : e = [d EXCEPT !.text = x]
    BY <1>2 DEF TextToolTab
  <2> QED BY <2>1, Changed
<1>3. CASE e \in CoordsTab(d)
  <2>1. PICK x \in Places : e = [d EXCEPT !.at = x]
    BY <1>3 DEF CoordsTab
  <2> QED BY <2>1, Changed
<1>4. CASE e \in VisibilityTab(d)
  <2>1. PICK x \in BOOLEAN : e = [d EXCEPT !.vis = x]
    BY <1>4 DEF VisibilityTab
  <2> QED BY <2>1, Changed
<1> QED BY <1>1, <1>2, <1>3, <1>4

\* A change in the dialog.
LEMMA PreviewStep ==
    ASSUME DrawingsInv, Preview
    PROVE  DrawingsInv' /\ NoneIsBack
<1> DEFINE id == store.drawDialog
           d == Get(store, id)
           o == store.dialogBefore.orig
<1>1. ddrag = None /\ StoreOK(store) /\ id # 0 /\ Has(store, id)
  BY Typed DEF Preview, DialogShown, MouseFree
<1>2. PICK e \in StyleTab(d) \cup TextToolTab(d) \cup CoordsTab(d) \cup VisibilityTab(d) :
        User(Put(store, e), None, "begin")
  BY DEF Preview
<1>3. d \in Shape /\ d.id = id
  BY <1>1, HasId
<1>4. e \in Shape /\ e.id = id
  BY <1>2, <1>3, TabsAre
<1> DEFINE t == Put(store, e)
<1>5. /\ StoreOK(t) /\ t.seq = store.seq /\ t.hlines = store.hlines /\ t.drawings = PutIn(store.drawings, e)
      /\ t.undo = store.undo /\ t.dirty = store.dirty /\ t.draft = store.draft /\ t.textEdit = store.textEdit
      /\ t.drawDialog = id /\ t.dialogBefore = store.dialogBefore
      /\ NoneBack(store, t) /\ \A x : Has(t, x) <=> Has(store, x)
  BY <1>1, <1>4, PutTyped
<1>6. User(t, None, "begin")
  BY <1>2
<1> HIDE DEF t
<1>7. Doc(WithoutPreview(t)) = Doc(WithoutPreview(store))
  <2>1. /\ Doc(WithoutPreview(store)) = [drawings |-> PutIn(store.drawings, o), hlines |-> store.hlines]
        /\ o.id = id
    BY <1>1, PreviewIs
  <2>2. Doc(WithoutPreview(t)) = [drawings |-> PutIn(t.drawings, o), hlines |-> t.hlines]
    BY <1>1, <1>5, PreviewIs
  <2>3. PutIn(t.drawings, o) = PutIn(store.drawings, o)
    BY <1>4, <1>5, <2>1, PutInTwice
  <2> QED BY <1>5, <2>1, <2>2, <2>3
<1>8. ~Rest /\ ~Moved(ddrag) /\ store.seq <= t.seq /\ "begin" \in Kinds
  BY <1>1, <1>5 DEF Rest, Moved, StoreOK, Kinds
<1>9. ASSUME NEW b, Gesture(store, ddrag, b) PROVE Gesture(t, None, b)
  <2>1. /\ store.draft = None /\ store.textEdit = None
        /\ store.undo = b.undo /\ store.dialogBefore.doc = b.doc /\ Doc(WithoutPreview(store)) = b.doc
    BY <1>1, <1>9 DEF Gesture
  <2> QED BY <1>1, <1>5, <1>7, <2>1 DEF Gesture
<1>10. Step(t, None, "begin")
  BY <1>1, <1>5, <1>7, <1>8, <1>9 DEF Step, Gone
<1> QED BY <1>6, <1>10, UserStep

\* The dialog is closed.
LEMMA CloseDialogStep ==
    ASSUME DrawingsInv, CloseDialog
    PROVE  DrawingsInv' /\ NoneIsBack
<1>1. ddrag = None /\ StoreOK(store) /\ store.drawDialog # 0
  BY Typed DEF CloseDialog, DialogShown, MouseFree
<1>2. PICK save \in BOOLEAN : User(CloseDrawDialog(store, save), None, "begin")
  BY DEF CloseDialog
<1> DEFINE t == CloseDrawDialog(store, save)
<1>3. Closed(store, t)
  BY <1>1, CloseDrawDialogIs
<1>4. User(t, None, "begin")
  BY <1>2
<1> HIDE DEF t
<1>5. ~Rest /\ ~Moved(ddrag) /\ "begin" \in Kinds /\ store.seq <= t.seq
  BY <1>1, <1>3 DEF Rest, Moved, Kinds, Closed, StoreOK
<1>6. ASSUME NEW b, Gesture(store, ddrag, b) PROVE Gesture(t, None, b)
  <2>1. /\ store.draft = None /\ store.textEdit = None
        /\ store.undo = b.undo /\ store.dialogBefore.doc = b.doc /\ Doc(WithoutPreview(store)) = b.doc
    BY <1>1, <1>6 DEF Gesture
  <2>2. Unchanged(t, b) \/ OneStep(t, b)
    BY <1>3, <2>1 DEF Closed, Unchanged, OneStep
  <2> QED BY <1>3, <2>1, <2>2, AtRest DEF Closed
<1>7. t.drawDialog = 0 => WithoutPreview(t) = t
  BY DEF WithoutPreview
<1>8. Step(t, None, "begin")
  BY <1>3, <1>5, <1>6, <1>7 DEF Step, Gone, Closed
<1> QED BY <1>4, <1>8, UserStep

-----------------------------------------------------------------------------
(* Saving, and sessions.                                                   *)

\* The shapes are written.
LEMMA SaveStep ==
    ASSUME DrawingsInv, Save
    PROVE  DrawingsInv' /\ NoneIsBack
<1> DEFINE t == [store EXCEPT !.dirty = FALSE]
<1>1. /\ StoreOK(store) /\ {saved, before.doc} \subseteq Docs(store.seq) /\ before.undo \in Seq(Docs(store.seq))
      /\ ddrag \in Drag \cup {None} /\ steps \in 0..MaxSteps /\ mixed \in BOOLEAN /\ leaked \in BOOLEAN
  BY DEF DrawingsInv, TypeOK
<1>2. /\ store' = t /\ saved' = Doc(store) /\ leaked' = (store.drawDialog # 0)
      /\ ddrag' = ddrag /\ steps' = steps /\ before' = before /\ mixed' = mixed
  BY DEF Save
<1>3. DOMAIN t = DOMAIN store /\ (\A f \in DOMAIN store \ {"dirty"} : t[f] = store[f]) /\ t.dirty = FALSE
  BY <1>1 DEF StoreOK
<1> HIDE DEF t
<1>4. /\ t.drawings = store.drawings /\ t.hlines = store.hlines /\ t.undo = store.undo /\ t.redo = store.redo
      /\ t.seq = store.seq /\ t.draft = store.draft /\ t.textEdit = store.textEdit
      /\ t.drawDialog = store.drawDialog /\ t.dialogBefore = store.dialogBefore
  BY <1>1, <1>3 DEF StoreOK
<1>5. Doc(t) = Doc(store) /\ Doc(store) \in Docs(store.seq)
  BY <1>1, <1>4, SameDoc DEF StoreOK
<1>6. StoreOK(t)
  BY <1>1, <1>3, <1>5 DEF StoreOK
<1>7. TypeOK'
  BY <1>1, <1>2, <1>4, <1>5, <1>6 DEF TypeOK
<1>8. /\ Doc(WithoutPreview(t)) = Doc(WithoutPreview(store)) /\ \A id : Has(t, id) <=> Has(store, id)
  <2>1. CASE store.drawDialog = 0
    BY <1>4, <1>5, <2>1 DEF WithoutPreview, Has
  <2>2. CASE store.drawDialog # 0
    BY <1>1, <1>4, <1>6, <2>2, PreviewIs DEF Has
  <2> QED BY <2>1, <2>2
<1>9. GestureInv'
  <2> SUFFICES ASSUME ~mixed PROVE Gesture(t, ddrag, before)
    BY <1>2 DEF GestureInv
  <2>1. Gesture(store, ddrag, before)
    BY DEF DrawingsInv, GestureInv
  <2>2. /\ Unchanged(t, before) <=> Unchanged(store, before)
        /\ OneStep(t, before) <=> OneStep(store, before)
    BY <1>4, <1>5 DEF Unchanged, OneStep
  <2> QED BY <1>4, <1>8, <2>1, <2>2 DEF Gesture
<1>10. SavedInv'
  <2> SUFFICES ASSUME store.drawDialog = 0 PROVE Doc(store) = Doc(WithoutPreview(t))
    BY <1>2 DEF SavedInv
  <2> QED BY <1>4, <1>5 DEF WithoutPreview
<1>11. NoneIsBack
  BY <1>2, <1>4, <1>5 DEF NoneIsBack, Range, Has
<1> QED BY <1>7, <1>9, <1>10, <1>11 DEF DrawingsInv

\* A session as it is made, and as it is opened after another.
LEMMA NewSessionIs ==
    ASSUME NEW q \in Sessions
    PROVE  LET n == NewSession(q) IN
           /\ StoreOK(n) /\ n.undo = <<>> /\ n.redo = <<>> /\ n.dirty = FALSE
           /\ n.draft = None /\ n.textEdit = None /\ n.drawDialog = 0
<1> DEFINE ids == {0} \cup {d.id : d \in Range(q)}
           seq == Max(ids)
           act == CHOOSE k \in Pane : TRUE
           n == NewSession(q)
<1>1. q \in Seq(Shape) /\ Distinct(q) /\ \A i \in DOMAIN q : q[i].id <= MaxShapes
  BY SessionsAssumption
<1>2. \A i \in DOMAIN q : q[i].id \in Nat
  BY <1>1, ShapesIn
<1>3. \A d \in Range(q) : d.id \in 0..MaxShapes
  BY <1>1, <1>2, BoundsAssumption DEF Range
<1>4. ids \subseteq 0..MaxShapes /\ ids # {} /\ \A i \in DOMAIN q : q[i].id \in ids
  BY <1>3, BoundsAssumption DEF Range
<1>5. seq \in ids /\ \A x \in ids : x <= seq
  <2> HIDE DEF ids
  <2> QED BY <1>4, MaxIs, BoundsAssumption
<1>6. seq \in Nat /\ \A i \in DOMAIN q : q[i].id <= seq
  BY <1>4, <1>5, BoundsAssumption
<1>7. act \in Pane
  BY PaneAssumption
<1>8. /\ DOMAIN n = {"drawings", "hlines", "undo", "redo", "selected", "tool", "drawMode", "draft", "textEdit",
                     "drawDialog", "dialogBefore", "clip", "seq", "lastStyle", "active", "dirty"}
      /\ n.drawings = q /\ n.hlines = 0 /\ n.undo = <<>> /\ n.redo = <<>> /\ n.selected = 0
      /\ n.tool = None /\ n.drawMode = FALSE /\ n.draft = None /\ n.textEdit = None
      /\ n.drawDialog = 0 /\ n.seq = seq /\ n.active = act /\ n.dirty = FALSE
      /\ n.clip = None /\ n.lastStyle = [x \in Tools |-> Default]
  BY DEF NewSession
<1>9. [x \in Tools |-> Default] \in [Tools -> Styles]
  BY StylesAssumption
<1> HIDE DEF seq, act, n, ids
<1>10. Doc(n) \in Docs(n.seq)
  BY <1>1, <1>6, <1>8, DocIs
<1>11. <<>> \in Seq(Docs(n.seq))
  BY EmptySeq
<1>12. StoreOK(n)
  BY <1>6, <1>7, <1>8, <1>9, <1>10, <1>11 DEF StoreOK
<1> QED BY <1>8, <1>12 DEF n

\* Another session is opened.
LEMMA OpenSessionStep ==
    ASSUME DrawingsInv, NEW q \in Sessions, OpenSession(q)
    PROVE  DrawingsInv' /\ NoneIsBack
<1> DEFINE n == NewSession(q)
           t == [n EXCEPT !.clip = store.clip, !.dialogBefore = store.dialogBefore, !.lastStyle = store.lastStyle]
<1>1. /\ ddrag = None /\ ddrag' = ddrag /\ steps < MaxSteps /\ steps' = steps + 1 /\ store' = t /\ saved' = Doc(store')
      /\ before' = [doc |-> Doc(store'), undo |-> <<>>] /\ mixed' = FALSE /\ leaked' = FALSE
  BY DEF OpenSession, MouseFree
<1>2. steps' \in 0..MaxSteps /\ StoreOK(store)
  BY <1>1, BoundsAssumption DEF DrawingsInv, TypeOK
<1>3. /\ StoreOK(t) /\ t.undo = <<>> /\ t.redo = <<>> /\ t.dirty = FALSE
      /\ t.draft = None /\ t.textEdit = None /\ t.drawDialog = 0
  <2>1. /\ StoreOK(n) /\ n.undo = <<>> /\ n.redo = <<>> /\ n.dirty = FALSE
        /\ n.draft = None /\ n.textEdit = None /\ n.drawDialog = 0
    BY NewSessionIs
  <2> HIDE DEF n
  <2>2. /\ DOMAIN t = DOMAIN n /\ \A f \in DOMAIN n \ {"clip", "dialogBefore", "lastStyle"} : t[f] = n[f]
        /\ t.clip = store.clip /\ t.lastStyle = store.lastStyle
    BY <2>1 DEF StoreOK
  <2>3. store.clip \in Shape \cup {None} /\ store.lastStyle \in [Tools -> Styles]
    BY <1>2 DEF StoreOK
  <2> HIDE DEF t
  <2>4. t.drawings = n.drawings /\ t.hlines = n.hlines /\ t.drawDialog = 0
    BY <2>1, <2>2 DEF StoreOK
  <2>5. Doc(t) = Doc(n)
    BY <2>4, SameDoc
  <2>6. StoreOK(t)
    BY <2>1, <2>2, <2>3, <2>4, <2>5 DEF StoreOK
  <2>7. t.undo = n.undo /\ t.redo = n.redo /\ t.dirty = n.dirty /\ t.draft = n.draft /\ t.textEdit = n.textEdit
    BY <2>1, <2>2 DEF StoreOK
  <2> QED BY <2>1, <2>4, <2>6, <2>7
<1> HIDE DEF t
<1>4. Doc(t) \in Docs(t.seq) /\ <<>> \in Seq(Docs(t.seq))
  BY <1>3, EmptySeq DEF StoreOK
<1>5. TypeOK'
  BY <1>1, <1>2, <1>3, <1>4 DEF TypeOK
<1>6. Unchanged(t, before')
  BY <1>1, <1>3 DEF Unchanged
<1>7. GestureInv'
  <2>1. Gesture(t, None, before')
    BY <1>3, <1>6, AtRest
  <2> QED BY <1>1, <2>1 DEF GestureInv
<1>8. SavedInv'
  BY <1>1, <1>3 DEF SavedInv, WithoutPreview
<1>9. NoneIsBack
  BY <1>1, <1>3 DEF NoneIsBack
<1> QED BY <1>5, <1>7, <1>8, <1>9 DEF DrawingsInv

\* The invariant holds at first.
LEMMA InitOK == Init => DrawingsInv
<1> SUFFICES ASSUME Init PROVE DrawingsInv
  OBVIOUS
<1>1. PICK q \in Sessions : store = NewSession(q)
  BY DEF Init
<1>2. /\ ddrag = None /\ saved = Doc(store) /\ steps = 0
      /\ before = [doc |-> Doc(store), undo |-> <<>>] /\ mixed = FALSE /\ leaked = FALSE
  BY DEF Init
<1> DEFINE t == NewSession(q)
<1>3. /\ StoreOK(t) /\ t.undo = <<>> /\ t.redo = <<>> /\ t.dirty = FALSE
      /\ t.draft = None /\ t.textEdit = None /\ t.drawDialog = 0
  BY NewSessionIs
<1>4. store = t
  BY <1>1
<1> HIDE DEF t
<1>5. Doc(t) \in Docs(t.seq) /\ <<>> \in Seq(Docs(t.seq))
  BY <1>3, EmptySeq DEF StoreOK
<1>6. TypeOK
  <2>1. steps \in 0..MaxSteps
    BY <1>2, BoundsAssumption
  <2>3. mixed \in BOOLEAN /\ leaked \in BOOLEAN
    BY <1>2
  <2>2. {saved, before.doc} \subseteq Docs(store.seq) /\ before.undo \in Seq(Docs(store.seq))
    BY <1>2, <1>5, <1>4
  <2> QED BY <1>2, <1>3, <1>4, <2>1, <2>2, <2>3 DEF TypeOK
<1>7. Unchanged(t, before)
  BY <1>2, <1>3, <1>4 DEF Unchanged
<1>8. GestureInv
  <2>1. Gesture(t, None, before)
    BY <1>3, <1>7, AtRest
  <2> QED BY <1>2, <1>4, <2>1 DEF GestureInv
<1>9. SavedInv
  BY <1>2, <1>3, <1>4 DEF SavedInv, WithoutPreview
<1> QED BY <1>6, <1>8, <1>9 DEF DrawingsInv

\* Whatever the mouse does.
LEMMA MouseStep ==
    ASSUME DrawingsInv, Mouse
    PROVE  DrawingsInv' /\ NoneIsBack
<1>1. ASSUME NEW k \in Pane, PressLine(k) \/ DraftPress(k) \/ Grab(k) \/ PressNothing(k) \/ DoubleClick(k)
      PROVE  DrawingsInv' /\ NoneIsBack
  BY <1>1, PressLineStep, DraftPressStep, GrabStep, PressNothingStep, DoubleClickStep
<1>2. ASSUME NEW k \in Pane, NEW at \in Places, StartDraw(k, at)
      PROVE  DrawingsInv' /\ NoneIsBack
  BY <1>2, StartDrawStep
<1>3. ASSUME NEW at \in Places, MoveDrawing(at) \/ MoveDraft(at)
      PROVE  DrawingsInv' /\ NoneIsBack
  BY <1>3, MoveDrawingStep, MoveDraftStep
<1> QED BY <1>1, <1>2, <1>3, ReleaseDrawingStep, DraftUpStep DEF Mouse

\* Whatever is done.
LEMMA NextStep == DrawingsInv /\ Next => DrawingsInv' /\ NoneIsBack
<1> SUFFICES ASSUME DrawingsInv, Next PROVE DrawingsInv' /\ NoneIsBack
  OBVIOUS
<1>1. ASSUME NEW q \in Sessions, OpenSession(q) PROVE DrawingsInv' /\ NoneIsBack
  BY <1>1, OpenSessionStep
<1> QED BY <1>1, MouseStep, KeysStep, FinishTextStep, ChooseToolStep, ToolbarStep, DrawingBarStep,
           PreviewStep, CloseDialogStep, SaveStep DEF Next

\* And when nothing is done.
LEMMA Stutter == DrawingsInv /\ UNCHANGED vars => DrawingsInv'
BY DEF DrawingsInv, TypeOK, GestureInv, SavedInv, vars

-----------------------------------------------------------------------------
(* The theorems.                                                           *)

\* Drawing keeps its invariant: the types, with ids that are given once; what a
\* gesture in progress has changed; and what is not saved yet (ReplayStore).
THEOREM DrawingsInvariant == Spec => []DrawingsInv
<1>1. DrawingsInv /\ [Next]_vars => DrawingsInv'
  BY NextStep, Stutter
<1> QED BY InitOK, <1>1, PTL DEF Spec

\* A drag, a shape drawn, a text, a dialog or a button is one step of the history,
\* or leaves the shapes as they were (pushUndo, beginDrag, closeDrawDialog).
THEOREM OneStepPerGesture == Spec => []GestureIsOneStep
<1>1. DrawingsInv => GestureIsOneStep
  BY DEF DrawingsInv, GestureInv, Gesture, Rest, GestureIsOneStep, Unchanged, OneStep
<1> QED BY DrawingsInvariant, <1>1, PTL

\* What is on the screen at rest, with no save pending, is what is on disk
\* (scheduleSave, saveNow).
THEOREM SavedAtRest == Spec => []SavedIsShown
<1>1. DrawingsInv => SavedIsShown
  BY DEF DrawingsInv, SavedInv, Rest, SavedIsShown, Moved, WithoutPreview
<1> QED BY DrawingsInvariant, <1>1, PTL

\* Only undo, redo and another session bring a shape back that was gone.
THEOREM GoneForGood == Spec => GoneStaysGone
<1>1. DrawingsInv /\ Next => NoneIsBack
  BY NextStep
<1>2. NoneIsBack => 
        (\A d \in Range(store'.drawings) :
         \/ Has(store, d.id)
         \/ store.seq < d.id
         \/ store.undo # <<>> /\ Doc(store') = Last(store.undo)
         \/ store.redo # <<>> /\ Doc(store') = Last(store.redo)
         \/ store'.undo = <<>> /\ store'.redo = <<>> /\ ~store'.dirty)
  BY DEF NoneIsBack
<1> QED BY DrawingsInvariant, <1>1, <1>2, PTL DEF Spec, GoneStaysGone
=============================================================================
