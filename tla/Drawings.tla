------------------------------ MODULE Drawings ------------------------------
(***************************************************************************)
(* Drawing on the charts of a replay: the shapes, their history and their  *)
(* settings dialog in ReplayStore, and the mouse, keys, toolbars and       *)
(* dialog that drive it.                                                   *)
(*                                                                         *)
(* The store is one record, as in the program, and its methods are         *)
(* functions from a store to a store, so that a handler that calls several *)
(* of them is their composition.  A shape has one place (its points), one  *)
(* style (every styling field) and a text; geometry is left out: what the  *)
(* pointer hits, and where it is, is any choice.                           *)
(***************************************************************************)
EXTENDS Integers, Sequences, FiniteSetsExt, SequencesExt

CONSTANTS
    Pane,       \* the charts on screen
    PaneSym,    \* PaneSym[k]: the symbol that chart k shows
    Tools,      \* the drawing tools in use
    Places,     \* where the pointer, and so a shape, may be
    Styles,     \* the styles a shape may have
    Texts,      \* the texts a user types
    Default,    \* the style of a tool that was never styled
    Sessions,   \* the shapes that a session may come with
    None,       \* no tool, no draft, no drag, nothing copied
    UndoCap,    \* steps kept in the history: 100 in the code
    MaxShapes,  \* bound: shapes drawn in a session
    MaxSteps    \* bound: things the user does

ASSUME ToolsAssumption == Tools \subseteq {"trend", "rect", "fib", "hray", "long", "short", "brush", "path", "text"}
ASSUME StylesAssumption == Default \in Styles
ASSUME TextsAssumption == "" \notin Texts
ASSUME PaneAssumption == Pane # {}
ASSUME BoundsAssumption == UndoCap \in Nat \ {0} /\ MaxShapes \in Nat /\ MaxSteps \in Nat

VARIABLES
    store,    \* the part of ReplayState, and of ReplayStore's fields, that drawing uses
    ddrag,    \* the shape under a pressed mouse button (PaneInput.ddrag)
    saved,    \* the shapes in the record of the session last written
    steps,    \* bound: how often the user acted
    before,   \* history: shapes and undo stack when the gesture in progress began
    mixed,    \* history: another step was taken inside that gesture
    leaked    \* history: that record was written with the dialog's preview in it

vars == <<store, ddrag, saved, steps, before, mixed, leaked>>

-----------------------------------------------------------------------------
(* Data                                                                    *)

Ids == Nat \ {0}
Syms == {PaneSym[k] : k \in Pane}
\* vis: its Visibility includes the timeframe on screen.
Shape == [id : Ids, sym : Syms, type : Tools, at : Places, style : Styles,
          text : Texts \cup {""}, locked : BOOLEAN, hidden : BOOLEAN, vis : BOOLEAN]

\* No two shapes have the same id.
Distinct(drawings) == \A i, j \in DOMAIN drawings : i # j => drawings[i].id # drawings[j].id

ASSUME SessionsAssumption ==
    \A drawings \in Sessions :
        /\ drawings \in Seq(Shape) /\ Distinct(drawings)
        /\ \A i \in DOMAIN drawings : drawings[i].id <= MaxShapes

\* What drawState() prints into the history.
Doc(s) == [drawings |-> s.drawings, hlines |-> s.hlines]

\* Drafts: the shape being drawn. n: its points, the one under the pointer included.
Draft == [pane : Pane, type : Tools, at : Places, from : Places, n : 1..3, down : BOOLEAN, wait : BOOLEAN]
TextEdit == [pane : Pane, at : Places, existing : Ids \cup {0}]
Drag == [id : Ids, moved : BOOLEAN, clone : BOOLEAN]

ASSUME NoneAssumption == None \notin Tools /\ None \notin Draft /\ None \notin TextEdit /\ None \notin Drag /\ None \notin Shape

Has(s, id) == \E i \in DOMAIN s.drawings : s.drawings[i].id = id
At(s, id) == CHOOSE i \in DOMAIN s.drawings : s.drawings[i].id = id
Get(s, id) == s.drawings[At(s, id)]
Put(s, d) == [s EXCEPT !.drawings = [i \in DOMAIN @ |-> IF @[i].id = d.id THEN d ELSE @[i]]]
Drop(s, id) == IF Has(s, id) THEN [s EXCEPT !.drawings = RemoveAt(@, At(s, id))] ELSE s

NewSession(drawings) ==
    [drawings |-> drawings, hlines |-> 0, undo |-> <<>>, redo |-> <<>>, selected |-> 0,
     tool |-> None, drawMode |-> FALSE, draft |-> None, textEdit |-> None,
     drawDialog |-> 0, dialogBefore |-> None, clip |-> None,
     seq |-> Max({0} \cup {d.id : d \in Range(drawings)}),
     lastStyle |-> [t \in Tools |-> Default], active |-> CHOOSE k \in Pane : TRUE, dirty |-> FALSE]

-----------------------------------------------------------------------------
(* The methods of ReplayStore                                              *)

ScheduleSave(s) == [s EXCEPT !.dirty = TRUE]

Capped(stack) == IF Len(stack) > UndoCap THEN Tail(stack) ELSE stack
PushUndo(s) == [s EXCEPT !.undo = Capped(Append(@, Doc(s))), !.redo = <<>>]

RestoreDraw(s, doc) ==
    LET t == [s EXCEPT !.drawings = doc.drawings, !.hlines = doc.hlines]
    IN  ScheduleSave([t EXCEPT !.selected = IF Has(t, @) THEN @ ELSE 0])

CancelDraft(s) == [s EXCEPT !.draft = None, !.tool = None]

Undo(s) ==
    IF s.drawDialog # 0 THEN s
    ELSE IF s.draft # None THEN CancelDraft(s)
    ELSE IF s.undo = <<>> THEN s
    ELSE RestoreDraw([s EXCEPT !.undo = Front(@), !.redo = Append(@, Doc(s))], Last(s.undo))

Redo(s) ==
    IF s.drawDialog # 0 \/ s.redo = <<>> THEN s
    ELSE RestoreDraw([s EXCEPT !.redo = Front(@), !.undo = Append(@, Doc(s))], Last(s.redo))

SetTool(s, tool) ==
    IF tool = None THEN [s EXCEPT !.tool = None]
    ELSE [s EXCEPT !.tool = tool, !.drawMode = FALSE, !.selected = 0]

SetDrawMode(s, on) ==
    IF on THEN [s EXCEPT !.drawMode = TRUE, !.tool = None, !.selected = 0]
    ELSE [s EXCEPT !.drawMode = FALSE]

Select(s, id) == [s EXCEPT !.selected = id]

AddHLine(s) == ScheduleSave([PushUndo(s) EXCEPT !.hlines = @ + 1, !.drawMode = FALSE])

\* d has every field of a shape; its id is given here.
AddDrawing(s, d) ==
    LET id == s.seq + 1
    IN  ScheduleSave([PushUndo(s) EXCEPT
            !.seq = id, !.drawings = Append(@, [d EXCEPT !.id = id]),
            !.selected = id, !.tool = None, !.draft = None])

NewShape(s, sym, type, at, text) ==
    [id |-> 0, sym |-> sym, type |-> type, at |-> at, style |-> s.lastStyle[type],
     text |-> text, locked |-> FALSE, hidden |-> FALSE, vis |-> TRUE]

DeleteSelected(s) ==
    IF s.selected = 0 THEN s
    ELSE ScheduleSave([Drop(PushUndo(s), s.selected) EXCEPT !.selected = 0, !.drawDialog = 0])

ClearDrawings(s) ==
    LET t == IF s.hlines > 0 \/ s.drawings # <<>> THEN PushUndo(s) ELSE s
    IN  ScheduleSave([t EXCEPT !.hlines = 0, !.drawings = <<>>, !.selected = 0, !.draft = None, !.drawDialog = 0])

FinishDraft(s) ==
    AddDrawing(s, NewShape(s, PaneSym[s.draft.pane], s.draft.type, s.draft.at, ""))

\* The point under the pointer is dropped: two points must remain.
FinishPath(s) == IF s.draft.n - 1 > 1 THEN FinishDraft(s) ELSE CancelDraft(s)

CommitText(s, v, save) ==
    LET te == s.textEdit
        t  == [s EXCEPT !.textEdit = None]
    IN  IF ~save THEN t
        ELSE IF te.existing = 0
             THEN IF v = "" THEN t ELSE AddDrawing(t, NewShape(t, PaneSym[te.pane], "text", te.at, v))
        ELSE IF ~Has(t, te.existing) \/ Get(t, te.existing).text = v THEN t
        ELSE ScheduleSave(IF v = "" THEN Drop(PushUndo(t), te.existing)
                          ELSE Put(PushUndo(t), [Get(t, te.existing) EXCEPT !.text = v]))

\* One field of one shape changes and that is a step of the history.
Update(s, d) == ScheduleSave(Put(PushUndo(s), d))

RememberStyle(s, d) == [s EXCEPT !.lastStyle[d.type] = d.style]

StyleDrawing(s, id, style) ==
    LET d == [Get(s, id) EXCEPT !.style = style] IN RememberStyle(Update(s, d), d)

ToggleLock(s, id) == Update(s, [Get(s, id) EXCEPT !.locked = ~@])

\* Mutant: Ok takes its undo step like any other change, from the shapes as previewed.
CloseDialogPushingNow(s, save) ==
    LET id == s.drawDialog
        b  == s.dialogBefore
        t  == [s EXCEPT !.drawDialog = 0, !.dialogBefore = None]
        d  == Get(s, id)
    IN  IF id = 0 \/ ~Has(s, id) THEN t
        ELSE IF ~save THEN Put(t, b.orig)
        ELSE IF d.type = "text" /\ d.text = "" THEN ScheduleSave([Drop(PushUndo(t), id) EXCEPT !.selected = 0])
        ELSE IF d = b.orig THEN t
        ELSE ScheduleSave(RememberStyle(PushUndo(t), d))

\* Mutant: Cancel brings back all the shapes there were when the dialog opened.
CancelRestoresAll(s, save) ==
    LET id == s.drawDialog
        b  == s.dialogBefore
        t  == [s EXCEPT !.drawDialog = 0, !.dialogBefore = None]
    IN  IF id = 0 \/ ~Has(s, id) THEN t
        ELSE IF save THEN [t EXCEPT !.undo = Append(@, b.doc), !.redo = <<>>, !.dirty = TRUE]
        ELSE [t EXCEPT !.drawings = b.doc.drawings, !.hlines = b.doc.hlines]

\* Cancel puts the shape back; Ok keeps the preview as one step, which undoes to the shapes at opening.
CloseDrawDialog(s, save) ==
    LET id   == s.drawDialog
        b    == s.dialogBefore
        t    == [s EXCEPT !.drawDialog = 0, !.dialogBefore = None]
        d    == Get(s, id)
        push == [t EXCEPT !.undo = Append(@, b.doc), !.redo = <<>>]
    IN  IF id = 0 \/ ~Has(s, id) THEN t
        ELSE IF ~save THEN Put(t, b.orig)
        ELSE IF d.type = "text" /\ d.text = ""
             THEN ScheduleSave([Drop(push, id) EXCEPT !.selected = 0])
        ELSE IF d = b.orig THEN t
        ELSE ScheduleSave(RememberStyle(push, d))

OpenDrawDialog(s, id) ==
    LET t == IF s.drawDialog = 0 THEN s ELSE CloseDrawDialog(s, TRUE)
    IN  IF ~Has(s, id) THEN s
        ELSE [t EXCEPT !.dialogBefore = [doc |-> Doc(t), orig |-> Get(s, id)],
                       !.drawDialog = id, !.selected = id, !.textEdit = None]

HideDrawing(s, id) ==
    LET t == IF s.drawDialog = id THEN CloseDrawDialog(s, TRUE) ELSE s
    IN  IF ~Has(t, id) THEN Select(ScheduleSave(PushUndo(t)), 0)
        ELSE Select(Update(t, [Get(t, id) EXCEPT !.hidden = TRUE]), 0)

ShowHidden(s) ==
    IF \A i \in DOMAIN s.drawings : ~s.drawings[i].hidden THEN s
    ELSE ScheduleSave([PushUndo(s) EXCEPT !.drawings = [i \in DOMAIN @ |-> [@[i] EXCEPT !.hidden = FALSE]]])

CloneDrawing(s, id) == AddDrawing(s, [Get(s, id) EXCEPT !.locked = FALSE])
CopyDrawing(s, id) == IF Has(s, id) THEN [s EXCEPT !.clip = Get(s, id)] ELSE s
PasteDrawing(s) ==
    IF s.clip = None THEN s
    ELSE AddDrawing(s, [s.clip EXCEPT !.sym = PaneSym[s.active], !.locked = FALSE, !.hidden = FALSE])

\* The shape takes another layer among those of its symbol; the layers of other symbols stay.
OrderDrawing(s, id, op) ==
    LET at       == At(s, id)
        same     == {i \in DOMAIN s.drawings : s.drawings[i].sym = s.drawings[at].sym}
        above(i) == Min({j \in same : j > i})
        below(i) == Max({j \in same : j < i})
        target   == CASE op = "front" -> Max(same)
                      [] op = "back" -> Min(same)
                      [] op = "forward" -> IF at = Max(same) THEN at ELSE above(at)
                      [] op = "backward" -> IF at = Min(same) THEN at ELSE below(at)
        from(i)  == CASE i = target                -> at
                      [] at <= i /\ i < target -> above(i)
                      [] target < i /\ i <= at -> below(i)
                      [] OTHER                     -> i
    IN  IF target = at THEN s
        ELSE ScheduleSave([PushUndo(s) EXCEPT !.drawings =
                 [i \in DOMAIN @ |-> IF i \in same THEN @[from(i)] ELSE @[i]]])

-----------------------------------------------------------------------------
(* What the user does.  A gesture runs from one resting state to the next: *)
(* nothing held, drafted, typed or open in the dialog.                     *)

Rest == ddrag = None /\ store.draft = None /\ store.textEdit = None /\ store.drawDialog = 0

\* kind: "begin" starts or continues a gesture, "whole" is a step by itself, "history" moves along the
\* history.  A step inside another's gesture, or one along the history, makes the gesture mixed.
User(s, drag, kind) ==
    /\ steps < MaxSteps /\ steps' = steps + 1
    /\ s.seq <= MaxShapes
    /\ store' = s /\ ddrag' = drag
    /\ before' = IF Rest THEN [doc |-> Doc(store), undo |-> store.undo] ELSE before
    /\ mixed' = (kind = "history" \/ (~Rest /\ (mixed \/ kind = "whole")))
    /\ UNCHANGED <<saved, leaked>>

\* Pressing on the chart begins a gesture, or is a step inside the one in progress.
Began == IF Rest THEN "begin" ELSE "whole"

MouseFree == ddrag = None /\ (store.draft # None => ~store.draft.down)

\* Shapes of chart k's symbol that are shown, so that the pointer can hit them.
Mine(k) == {d \in Range(store.drawings) : d.sym = PaneSym[k] /\ ~d.hidden /\ d.vis}

Activated(k) == [store EXCEPT !.active = k]

\* Pressing in the mode that draws horizontal lines: one is drawn, or the mode ends where there are no bars.
PressLine(k) ==
    /\ MouseFree /\ store.drawMode
    /\ \/ User(AddHLine(Activated(k)), None, "whole")
       \/ User(SetDrawMode(Activated(k), FALSE), None, "begin")

\* Pressing with a shape half drawn: on the other chart it ends; a path gets a point or is finished by
\* pressing its last point again; a shape drawn by two clicks is finished.
DraftPress(k) ==
    /\ MouseFree /\ ~store.drawMode /\ store.draft # None
    /\ LET s == Activated(k)  dr == store.draft
       IN  \/ /\ dr.pane # k
              /\ User(IF dr.type = "path" THEN FinishPath(s) ELSE CancelDraft(s), None, "begin")
           \/ /\ dr.pane = k /\ dr.type = "path"
              /\ \/ User(FinishPath(s), None, "begin")
                 \/ dr.n < 3 /\ User([s EXCEPT !.draft.n = @ + 1], None, "begin")
           \/ /\ dr.pane = k /\ dr.wait
              /\ User(FinishDraft(s), None, "begin")

\* Pressing with a tool: some shapes are there at once, a text is typed first, others are dragged or clicked.
StartDraw(k, at) ==
    /\ MouseFree /\ ~store.drawMode /\ store.draft = None /\ store.tool # None
    /\ LET s == Activated(k)  tool == store.tool
       IN  \/ /\ tool \in {"hray", "long", "short"}
              /\ User(AddDrawing(s, NewShape(s, PaneSym[k], tool, at, "")), None, "whole")
           \/ /\ tool = "text"
              /\ User([s EXCEPT !.textEdit = [pane |-> k, at |-> at, existing |-> 0], !.tool = None], None, Began)
           \/ /\ tool \in {"trend", "rect", "fib", "brush", "path"}
              /\ User([s EXCEPT !.draft = [pane |-> k, type |-> tool, at |-> at, from |-> at, down |-> TRUE,
                                           n |-> IF tool = "brush" THEN 1 ELSE 2, wait |-> FALSE]], None, Began)

\* Pressing a shape selects it, and holds it unless it is locked; Ctrl held means a copy will be dragged.
Grab(k) ==
    /\ MouseFree /\ ~store.drawMode /\ store.draft = None /\ store.tool = None
    /\ \E d \in Mine(k), clone \in BOOLEAN :
         User(Select(Activated(k), d.id),
              IF d.locked THEN None ELSE [id |-> d.id, moved |-> FALSE, clone |-> clone], Began)

PressNothing(k) ==
    /\ MouseFree /\ ~store.drawMode /\ store.draft = None /\ store.tool = None
    /\ store.selected # 0
    /\ User(Select(Activated(k), 0), None, "begin")

\* The pointer moves while a shape is held.  The first move takes the undo step, or makes the copy.
MoveDrawing(at) ==
    /\ ddrag # None
    /\ LET copies == ~ddrag.moved /\ ddrag.clone
           s == IF ddrag.moved THEN store
                ELSE IF copies THEN CloneDrawing(store, ddrag.id) ELSE PushUndo(store)
           id == IF copies THEN s.seq ELSE ddrag.id
       IN  /\ copies => Has(store, ddrag.id)
           /\ User(IF Has(s, id) THEN Put(s, [Get(s, id) EXCEPT !.at = at]) ELSE s,
                   [ddrag EXCEPT !.id = id, !.moved = TRUE], "begin")

\* The pointer moves over its chart with a shape half drawn: the last point follows, a brush grows.
MoveDraft(at) ==
    /\ ddrag = None /\ store.draft # None
    /\ \/ /\ store.draft.type # "brush" /\ store.draft.at # at
          /\ User([store EXCEPT !.draft.at = at], None, "begin")
       \/ /\ store.draft.type = "brush" /\ store.draft.down /\ store.draft.n < 2
          /\ User([store EXCEPT !.draft.n = @ + 1], None, "begin")

\* Mutant: the moves are not saved, and neither is the end of the drag.
ReleaseUnsaved == ddrag # None /\ User(store, None, "begin")

ReleaseDrawing ==
    /\ ddrag # None
    /\ User(IF ddrag.moved THEN ScheduleSave(store) ELSE store, None, "begin")

\* A brush needs two points; a line dragged far enough is done, otherwise its second click is awaited.
DraftUp ==
    /\ ddrag = None /\ store.draft # None /\ store.draft.down
    /\ LET dr == store.draft
       IN  User(CASE dr.type = "brush" -> IF dr.n > 1 THEN FinishDraft(store) ELSE CancelDraft(store)
                  [] dr.type = "path"  -> [store EXCEPT !.draft.down = FALSE]
                  [] OTHER -> IF dr.at # dr.from THEN FinishDraft(store)
                              ELSE [store EXCEPT !.draft.down = FALSE, !.draft.wait = TRUE], None, "begin")

\* Double-clicking a text edits it in place; any other shape opens its dialog.
DoubleClick(k) ==
    /\ MouseFree
    /\ \E d \in Mine(k) :
         User(IF d.type = "text"
              THEN [store EXCEPT !.textEdit = [pane |-> k, at |-> d.at, existing |-> d.id], !.tool = None]
              ELSE OpenDrawDialog(store, d.id), None, Began)

\* The input of a text: Enter, or leaving it, keeps it; Escape does not.
FinishText ==
    /\ store.textEdit # None
    /\ \E v \in Texts \cup {""}, save \in BOOLEAN : User(CommitText(store, v, save), ddrag, "begin")

\* Keys are the page's unless the dialog is open or a text is being typed; the mouse may be held.
KeysFree == store.drawDialog = 0 /\ store.textEdit = None

UndoKey == KeysFree /\ User(Undo(store), ddrag, IF store.draft # None THEN "begin" ELSE "history")
RedoKey == KeysFree /\ User(Redo(store), ddrag, "history")
CopyKey == KeysFree /\ store.selected # 0 /\ User(CopyDrawing(store, store.selected), ddrag, "begin")
PasteKey == KeysFree /\ store.clip # None /\ User(PasteDrawing(store), ddrag, "whole")
DeleteKey == KeysFree /\ store.selected # 0 /\ User(DeleteSelected(store), ddrag, "whole")
FinishPathKey ==
    /\ KeysFree /\ store.draft # None /\ store.draft.type = "path"
    /\ User(FinishPath(store), ddrag, "begin")
EscapeKey ==
    /\ KeysFree
    /\ LET s == IF store.draft = None THEN store
                ELSE IF store.draft.type = "path" THEN FinishPath(store) ELSE CancelDraft(store)
       IN  User(Select(SetDrawMode(SetTool(s, None), FALSE), 0), ddrag, "begin")

\* A tool is chosen or left by its key or its button; so is the mode that draws horizontal lines.
ChooseTool ==
    /\ KeysFree \/ MouseFree
    /\ \/ \E t \in Tools : User(SetTool(store, IF store.tool = t THEN None ELSE t), ddrag, "begin")
       \/ User(SetDrawMode(store, ~store.drawMode), ddrag, "begin")

\* The buttons of the drawing toolbar that act on the shapes.
Toolbar ==
    /\ MouseFree
    /\ \/ User(ShowHidden(store), None, "whole")
       \/ User(DeleteSelected(store), None, "whole")
       \/ User(ClearDrawings(store), None, "whole")

\* The floating bar of the selected shape, while nothing is being drawn.
BarShown ==
    /\ MouseFree /\ store.draft = None /\ store.tool = None /\ ~store.drawMode
    /\ Has(store, store.selected) /\ ~Get(store, store.selected).hidden

DrawingBar ==
    /\ BarShown
    /\ LET id == store.selected
       IN  \/ \E style \in Styles : User(StyleDrawing(store, id, style), None, "whole")
           \/ User(ToggleLock(store, id), None, "whole")
           \/ \E op \in {"front", "forward", "backward", "back"} : User(OrderDrawing(store, id, op), None, "whole")
           \/ User(CloneDrawing(store, id), None, "whole")
           \/ User(CopyDrawing(store, id), None, "begin")
           \/ User(HideDrawing(store, id), None, "whole")
           \/ User(DeleteSelected(store), None, "whole")
           \/ User(OpenDrawDialog(store, id), None, Began)

\* The dialog is on screen while its shape exists.
DialogShown == MouseFree /\ store.drawDialog # 0 /\ Has(store, store.drawDialog)

\* What the tabs of the dialog make of its shape d: Style, Text, Coordinates and Visibility.
StyleTab(d) == {[d EXCEPT !.style = x] : x \in Styles}
TextToolTab(d) == IF d.type = "text" THEN {[d EXCEPT !.text = x] : x \in Texts \cup {""}} ELSE {}
CoordsTab(d) == IF d.type \in {"trend", "hray", "rect", "fib"} THEN {[d EXCEPT !.at = x] : x \in Places} ELSE {}
VisibilityTab(d) == {[d EXCEPT !.vis = x] : x \in BOOLEAN}

\* A change in the dialog shows on the chart at once.
Preview ==
    /\ DialogShown
    /\ LET d == Get(store, store.drawDialog)
       IN  \E e \in (StyleTab(d) \cup TextToolTab(d) \cup CoordsTab(d) \cup VisibilityTab(d)) \ {d} :
             User(Put(store, e), None, "begin")

CloseDialog == DialogShown /\ \E save \in BOOLEAN : User(CloseDrawDialog(store, save), None, "begin")

-----------------------------------------------------------------------------
(* Saving, and other sessions                                              *)

\* The timer, or the page being hidden, writes the shapes as they are at that moment.
Save ==
    /\ store.dirty \/ saved # Doc(store)
    /\ store' = [store EXCEPT !.dirty = FALSE] /\ saved' = Doc(store)
    /\ leaked' = (store.drawDialog # 0)
    /\ UNCHANGED <<ddrag, steps, before, mixed>>

\* A session, another one or anew: its shapes, an empty history; what was copied can be pasted there.
OpenSession(drawings) ==
    /\ MouseFree /\ steps < MaxSteps /\ steps' = steps + 1
    /\ store' = [NewSession(drawings) EXCEPT !.clip = store.clip, !.dialogBefore = store.dialogBefore,
                                             !.lastStyle = store.lastStyle]
    /\ saved' = Doc(store')
    /\ before' = [doc |-> Doc(store'), undo |-> <<>>] /\ mixed' = FALSE /\ leaked' = FALSE
    /\ UNCHANGED ddrag

Init ==
    /\ store \in {NewSession(drawings) : drawings \in Sessions} /\ ddrag = None /\ saved = Doc(store) /\ steps = 0
    /\ before = [doc |-> Doc(store), undo |-> <<>>] /\ mixed = FALSE /\ leaked = FALSE

Mouse ==
    \/ \E k \in Pane : PressLine(k) \/ DraftPress(k) \/ Grab(k) \/ PressNothing(k) \/ DoubleClick(k)
    \/ \E k \in Pane, at \in Places : StartDraw(k, at)
    \/ \E at \in Places : MoveDrawing(at) \/ MoveDraft(at)
    \/ ReleaseDrawing \/ DraftUp

Keys == UndoKey \/ RedoKey \/ CopyKey \/ PasteKey \/ DeleteKey \/ FinishPathKey \/ EscapeKey

Next ==
    \/ Mouse \/ Keys \/ FinishText
    \/ ChooseTool \/ Toolbar \/ DrawingBar \/ Preview \/ CloseDialog
    \/ Save
    \/ \E drawings \in Sessions : OpenSession(drawings)

Spec == Init /\ [][Next]_vars

-----------------------------------------------------------------------------
(* Properties                                                              *)

\* What may be on the charts, or in a snapshot of them, with the ids up to n given out.
Document == [drawings : Seq(Shape), hlines : Nat]
Docs(n) == {doc \in Document : Distinct(doc.drawings) /\ \A i \in DOMAIN doc.drawings : doc.drawings[i].id <= n}

StoreOK(s) ==
    /\ DOMAIN s = {"drawings", "hlines", "undo", "redo", "selected", "tool", "drawMode", "draft", "textEdit",
                   "drawDialog", "dialogBefore", "clip", "seq", "lastStyle", "active", "dirty"}
    /\ s.seq \in Nat /\ Doc(s) \in Docs(s.seq) /\ s.undo \in Seq(Docs(s.seq)) /\ s.redo \in Seq(Docs(s.seq))
    /\ {s.selected, s.drawDialog} \subseteq Ids \cup {0}
    /\ s.tool \in Tools \cup {None} /\ s.drawMode \in BOOLEAN /\ s.dirty \in BOOLEAN
    /\ s.draft \in Draft \cup {None}
    /\ s.textEdit \in TextEdit \cup {None} /\ (s.textEdit # None => "text" \in Tools)
    /\ s.clip \in Shape \cup {None} /\ s.active \in Pane /\ s.lastStyle \in [Tools -> Styles]
    /\ s.drawDialog # 0 => /\ DOMAIN s.dialogBefore = {"doc", "orig"} /\ s.dialogBefore.doc \in Docs(s.seq)
                           /\ s.dialogBefore.orig \in Shape /\ s.dialogBefore.orig.id = s.drawDialog

\* The type invariant; and no two shapes, on the chart or in one snapshot of the history, have the same id.
TypeOK ==
    /\ StoreOK(store)
    /\ {saved, before.doc} \subseteq Docs(store.seq) /\ before.undo \in Seq(Docs(store.seq))
    /\ ddrag \in Drag \cup {None} /\ steps \in 0..MaxSteps /\ mixed \in BOOLEAN /\ leaked \in BOOLEAN

\* A gesture (a drag, a shape drawn, a text typed, a dialog kept with Ok, a button) is one step of the
\* history: it adds the shapes as they were when it began and nothing else, or it adds nothing and
\* changed nothing.  Gestures with a step of another inside them, or an undo, are exempt.
GestureIsOneStep ==
    Rest /\ ~mixed =>
        \/ store.undo = before.undo /\ Doc(store) = before.doc
        \/ store.undo \in {Append(before.undo, before.doc), Tail(Append(before.undo, before.doc))}

\* At rest with no save pending, the session on disk has the shapes on the screen; unless it was written
\* while the dialog showed a preview, which Cancel then takes back without saving.
SavedIsShown == Rest /\ ~store.dirty /\ ~leaked => saved = Doc(store)

\* A shape that is gone (deleted, cleared, its text emptied) comes back only by undo or redo; whatever
\* else is under way when it goes, a drag, a draft, the dialog, does not bring it back.
GoneStaysGone ==
    [][\A d \in Range(store'.drawings) :
         \/ Has(store, d.id)
         \/ store.seq < d.id
         \/ store.undo # <<>> /\ Doc(store') = Last(store.undo)
         \/ store.redo # <<>> /\ Doc(store') = Last(store.redo)
         \/ store'.undo = <<>> /\ store'.redo = <<>> /\ ~store'.dirty]_vars

=============================================================================
