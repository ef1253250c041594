--------------------------------- MODULE Forms --------------------------------
(***************************************************************************)
(* The forms of the journal: the one of a trade (TradeFormDialog.tsx), the  *)
(* one of an account (AccountFormDialog.tsx, with the menu of a challenge   *)
(* beside it) and the note on the card of a day or week (PeriodCard.tsx,    *)
(* PeriodNoteDialog.tsx and the editor in it).  The first two show a row of *)
(* the server, send on saving only the fields changed since they were       *)
(* opened (patchFromDirty.ts), and get an answer later; the note closes as  *)
(* soon as it is saved, and what its answer says is said by the card.       *)
(* Meanwhile the user goes on typing, closes and opens forms, and another   *)
(* tab changes the row.  A behaviour has one form: `kind` is chosen at the  *)
(* start.                                                                   *)
(*                                                                          *)
(* Data.  Boxes of numbers hold texts of Decimals.  Times in boxes are      *)
(* minutes of the account's zone, 0 for an empty box, and instants of the   *)
(* server half minutes; notes are sequences of pieces, one of a card that   *)
(* is not there <<>>.  The account of the trade form is one.                *)
(***************************************************************************)
EXTENDS Decimals, Functions

CONSTANTS
  None,        \* null
  Prices,      \* texts typed into the boxes of prices and profit
  Volumes,     \* texts typed into the box of the volume
  Percents,    \* texts typed into the boxes of percentages
  MaxPieces,   \* pieces of a note
  MaxEdits,    \* boxes changed, and changes of the row by another tab
  MaxForms,    \* forms opened
  MaxSends,    \* requests sent
  MaxOthers    \* of the changes, those by another tab

ASSUME FormBounds ==
  /\ {MaxPieces, MaxEdits, MaxForms, MaxSends, MaxOthers} \subseteq Nat
  /\ \A t \in Prices \cup Volumes \cup Percents : IsDecimal(t) => t.sign # "+"

VARIABLES
  kind,     \* "trade", "account" or "note"
  row,      \* the row that is edited, at the server
  seen,     \* the row as the page's cache has it
  dialog,   \* [open, edit, asking, form]: form counts the forms opened
  values,   \* the boxes
  base,     \* what react-hook-form compares them with
  keep,     \* keepOpenRef of each form opened
  busy,     \* isSubmitting of each form opened
  sends,    \* the requests, in the order they were sent
  editor,   \* RichTextEditor of a card's note: what it shows, and its box for an address
  card,     \* PeriodCard: asking to delete, what its mutation says
  edits, others   \* counters for the bounds

formsVars == <<kind, row, seen, dialog, values, base, keep, busy, sends, editor, card, edits, others>>
-------------------------------------------------------------------------------
(* Times                                                                    *)
Offset == 3
WallToInstant(wall) == 2 * (wall - Offset)
InstantToWall(instant) == instant \div 2 + Offset

(* The boxes and the rows of a trade.  setup and timeframe are handled as   *)
(* symbol, the other three marks as psychology, profit_theory as exit, fee  *)
(* as profit but that it stays for the next trade.                          *)
Numbers == {"entry", "exit", "volume"}
TradeFields == Numbers \cup {"entered_at", "closed_at", "symbol", "direction", "profit", "psychology", "notes"}

EmptyToNull(t) == IF t = Empty THEN None ELSE t
NullToEmpty(t) == IF t = None THEN Empty ELSE t
ZeroIfEmpty(t) == IF t = Empty THEN Zero ELSE t

Defaults ==
  [f \in TradeFields |->
     CASE f = "entered_at" -> 5 [] f = "closed_at" -> 0 [] f = "symbol" -> "" [] f = "direction" -> "Long"
       [] f = "psychology" -> "" [] f = "notes" -> <<>> [] OTHER -> Empty]

FromTrade(r) ==
  [f \in TradeFields |->
     CASE f = "entered_at" -> InstantToWall(r[f])
       [] f = "closed_at"  -> (IF r[f] = None THEN 0 ELSE InstantToWall(r[f]))
       [] f \in Numbers    -> NullToEmpty(r[f])
       [] OTHER            -> r[f]]

(* The boxes and the row of an account; name stands for code, currency,     *)
(* zone, balance and firm, profit_target_percent for the drawdown too.      *)
Phases   == <<"phase_1", "phase_2", "funded">>
Statuses == {"in_progress", "passed", "failed"}
ASSUME NullIsNoWord == None \notin Statuses \cup {Phases[i] : i \in 1 .. 3}
AccountFields == {"name", "risk_percent", "account_type", "challenge_phase", "challenge_status",
                  "profit_target_percent"}

AccountDefaults ==
  [name |-> "", risk_percent |-> One, account_type |-> "personal", challenge_phase |-> "phase_1",
   challenge_status |-> "in_progress", profit_target_percent |-> Empty]

FieldsFromAccount(r) ==
  [name |-> r.name, risk_percent |-> PercentFromFraction(r.risk_per_trade), account_type |-> r.account_type,
   challenge_phase  |-> IF r.challenge_phase = None THEN "phase_1" ELSE r.challenge_phase,
   challenge_status |-> IF r.challenge_status = None THEN "in_progress" ELSE r.challenge_status,
   profit_target_percent |-> IF r.profit_target = None THEN Empty ELSE PercentFromFraction(r.profit_target)]

(* challenge.ts                                                             *)
NextPhase(phase) ==
  LET later == {i \in 2 .. Len(Phases) : Phases[i - 1] = phase}
  IN  IF later = {} THEN None ELSE Phases[CHOOSE i \in later : TRUE]
StatusOptionsFor(phase) == IF phase = "funded" THEN Statuses \ {"passed"} ELSE Statuses
StatusAfterPhaseChange(next, saved) ==
  IF next = saved.challenge_phase THEN saved.challenge_status ELSE "in_progress"
IsOptionalPercent(t) == t = Empty \/ (IsPositiveNumber(t) /\ CompareDecimal(t, Hundred) <= 0)
FitsPercentScale(t) == Len(t.frac) <= 2

\* What the menu of a row offers: pass, advance, fail.
ChallengeActions(phase, status) ==
  UNION {IF status = "in_progress" /\ phase # "funded" THEN {[challenge_status |-> "passed"]} ELSE {},
         IF status = "passed" /\ NextPhase(phase) # None THEN {[challenge_phase |-> NextPhase(phase)]} ELSE {},
         IF status = "in_progress" THEN {[challenge_status |-> "failed"]} ELSE {}}
-------------------------------------------------------------------------------
(* Notes (richText.ts).  The pieces are what they read as, but for a link   *)
(* to an address of another scheme, a picture whose address is not https,   *)
(* one pasted or dropped as a file, and an empty line.                      *)
SafeHref(url) == url = "https"
SafeImageSrc(url) == url \in {"https", "chart"}
LinkTo(url) == IF SafeHref(url) THEN "link" ELSE "deadLink"
ImageAt(url) == IF SafeImageSrc(url) THEN "image" ELSE "picture"

IsEmptyNote(note) == note \in {<<>>, <<"line">>}

\* A tag that is not allowed goes, and what it was around stays.
SanitizeNoteHtml(note) ==
  LET kept == SelectSeq(note, LAMBDA piece : piece \notin {"picture", "pasted"})
  IN  [i \in DOMAIN kept |-> IF kept[i] = "deadLink" THEN "text" ELSE kept[i]]

ImageToText(piece) == IF piece \in {"image", "picture", "pasted"} THEN "[image]" ELSE piece
CheckboxToText(piece) == CASE piece = "todo" -> "[ ]" [] piece = "done" -> "[x]" [] OTHER -> piece
NoteToText(note) ==
  LET shown == SelectSeq(note, LAMBDA piece : piece # "line")
      Reads(piece) == IF piece \in {"link", "deadLink"} THEN "text" ELSE ImageToText(CheckboxToText(piece))
  IN  [i \in DOMAIN shown |-> Reads(shown[i])]

ImageUrlProblem(url) ==
  CASE url = ""      -> "empty"
    [] url = "http"  -> "insecure"
    [] url = "chart" -> "chartPage"
    [] url = "https" -> ""
    [] OTHER         -> "notHttps"

NoEditor == [doc |-> <<>>, tip |-> ""]
\* touched: another save was stored after the one of this card (history).
NewCard == [asking |-> FALSE, mine |-> 0, asked |-> <<>>, alert |-> "", touched |-> FALSE]
-------------------------------------------------------------------------------
(* What a form sends                                                        *)
\* The fields of f, and what g has beside them.
Over(f, g) == [k \in DOMAIN f \cup DOMAIN g |-> IF k \in DOMAIN f THEN f[k] ELSE g[k]]
NoFields == [k \in {} |-> k]

Dirty == {f \in DOMAIN values : values[f] # base[f]}

\* The key of the API a box is sent under; a trade's boxes have its names.
Key(f) == CASE f = "risk_percent" -> "risk_per_trade" [] f = "profit_target_percent" -> "profit_target" [] OTHER -> f

Transform(f, v) ==
  CASE f = "entered_at" -> WallToInstant(v)
    [] f = "closed_at"  -> (IF v = 0 THEN None ELSE WallToInstant(v))
    [] f \in Numbers    -> EmptyToNull(v)
    [] f = "profit"     -> ZeroIfEmpty(v)
    [] f = "risk_percent" -> FractionFromPercent(v)
    [] f = "profit_target_percent" -> (IF v = Empty THEN None ELSE FractionFromPercent(v))
    [] OTHER -> v

\* Mutant: the whole table is sent, whatever changed.
PatchWholeForm(dirty, shown) ==
  [k \in {Key(f) : f \in DOMAIN shown} |->
     LET f == CHOOSE g \in DOMAIN shown : Key(g) = k IN Transform(f, shown[f])]
PatchFromDirty(dirty, shown) ==
  [k \in {Key(f) : f \in dirty} |->
     LET f == CHOOSE g \in dirty : Key(g) = k IN Transform(f, shown[f])]

\* A text that is no number makes shiftDecimal throw inside submit: nothing is sent.
Throws(fields, shown) == \E f \in fields \cap {"risk_percent", "profit_target_percent"} :
  shown[f] # Empty /\ ~IsDecimal(shown[f])

(* The trade form                                                           *)
IsNumber(t) == IsDecimal(t) /\ (t.dot => t.frac # <<>>)

TradeSchema(v) ==
  /\ v.entered_at # 0 /\ v.symbol # "" /\ v.direction # ""
  /\ \A f \in Numbers \cup {"profit"} : v[f] = Empty \/ IsNumber(v[f])
  /\ v.closed_at # 0 => v.closed_at >= v.entered_at

SuggestProfit(v) ==
  IF ~(\A f \in Numbers : IsNumber(v[f])) THEN None
  ELSE LET diff == IF v.direction = "Long" THEN SubDecimal(v.exit, v.entry) ELSE SubDecimal(v.entry, v.exit)
       IN  IF CompareDecimal(diff, Zero) = 0 THEN None ELSE RoundDecimal(MulDecimal(diff, v.volume), 2)

\* Save and add another: the time, the direction and the symbol stay.
ForTheNextTrade(v) ==
  [v EXCEPT !.entry = Empty, !.exit = Empty, !.volume = Empty, !.profit = Empty, !.psychology = "",
            !.notes = <<>>]

(* The account form                                                         *)
AccountSchema(v) ==
  /\ v.name # ""
  /\ IsPositiveNumber(v.risk_percent) /\ CompareDecimal(v.risk_percent, Hundred) <= 0
  /\ v.account_type = "prop" =>
       /\ IsOptionalPercent(v.profit_target_percent) /\ FitsPercentScale(v.profit_target_percent)
       /\ ~(v.challenge_phase = "funded" /\ v.challenge_status = "passed")

ChallengeBoxes == {"challenge_phase", "challenge_status", "profit_target_percent"}

AccountBody(edit, dirty, v) ==
  IF ~edit THEN PatchFromDirty(IF v.account_type = "prop" THEN AccountFields ELSE AccountFields \ ChallengeBoxes, v)
  ELSE Over(PatchFromDirty(dirty, v),
            IF "challenge_phase" \in dirty THEN [challenge_status |-> v.challenge_status] ELSE NoFields)

Body(edit, dirty, v) ==
  IF kind = "account" THEN AccountBody(edit, dirty, v)
  ELSE PatchFromDirty(IF edit THEN dirty ELSE TradeFields, v)
-------------------------------------------------------------------------------
(* The server                                                               *)
NewAccount == [name |-> "", risk_per_trade |-> Zero, account_type |-> "personal", challenge_phase |-> None,
               challenge_status |-> None, profit_target |-> None]
NewTrade == [f \in TradeFields |-> None]

NormalizeChallenge(r) ==
  IF r.account_type # "prop"
  THEN [r EXCEPT !.challenge_phase = None, !.challenge_status = None, !.profit_target = None]
  ELSE [r EXCEPT !.challenge_phase = IF @ = None THEN "phase_1" ELSE @,
                 !.challenge_status = IF @ = None THEN "in_progress" ELSE @]

\* AccountService.Update: a new phase without a status starts that phase.
PatchAccount(r, body) ==
  LET moved == "challenge_phase" \in DOMAIN body /\ r.challenge_phase # body.challenge_phase
      fresh == IF moved /\ "challenge_status" \notin DOMAIN body THEN [challenge_status |-> "in_progress"] ELSE NoFields
  IN  NormalizeChallenge(Over(Over(body, fresh), r))

Fraction(t) == IsPositiveNumber(t) /\ CompareDecimal(t, One) <= 0
ValidateAccount(r) ==
  /\ r.name # "" /\ Fraction(r.risk_per_trade)
  /\ r.account_type = "prop" =>
       /\ ~(r.challenge_phase = "funded" /\ r.challenge_status = "passed")
       /\ r.profit_target # None => Fraction(r.profit_target) /\ Len(r.profit_target.frac) <= 4

ValidateTrade(r) == r.symbol # "" /\ (r.closed_at # None => r.closed_at >= r.entered_at)

\* An empty note is deleted, another one written over what there is.
SaveJournalNote(body) == IF IsEmptyNote(body.notes) THEN [notes |-> <<>>] ELSE body

Patched(r, body) == CASE kind = "account" -> PatchAccount(r, body)
                      [] kind = "note"    -> SaveJournalNote(body)
                      [] OTHER            -> Over(body, r)
Accepted(r) == CASE kind = "account" -> ValidateAccount(r) [] kind = "note" -> TRUE [] OTHER -> ValidateTrade(r)
Blank == IF kind = "account" THEN NewAccount ELSE NewTrade
-------------------------------------------------------------------------------
(* Initial states: a row the form may be opened on; the trade has seconds,   *)
(* which the boxes do not show.                                             *)
Rows(k) ==
  IF k = "note" THEN {[notes |-> <<"done">>]}
  ELSE IF k = "trade"
  THEN {[Defaults EXCEPT !.entered_at = WallToInstant(4) + 1, !.closed_at = None, !.symbol = "ES", !.entry = None,
                         !.exit = None, !.volume = None, !.profit = Zero]}
  ELSE {[NewAccount EXCEPT !.name = "a", !.risk_per_trade = FractionFromPercent(One), !.account_type = "prop",
                           !.challenge_phase = "phase_1", !.challenge_status = "passed"]}

Shown(edit, r) ==
  IF kind = "note" THEN (IF edit THEN r ELSE [notes |-> <<>>])
  ELSE IF kind = "account" THEN (IF edit THEN FieldsFromAccount(r) ELSE AccountDefaults)
  ELSE (IF edit THEN FromTrade(r) ELSE Defaults)

FormsInit ==
  /\ kind \in {"trade", "account", "note"}
  /\ row \in Rows(kind) /\ seen = row
  /\ dialog = [open |-> FALSE, edit |-> FALSE, asking |-> FALSE, form |-> 0]
  /\ values = Shown(FALSE, row) /\ base = values
  /\ keep = [n \in 0 .. MaxForms |-> FALSE] /\ busy = keep
  /\ editor = NoEditor /\ card = NewCard
  /\ sends = <<>> /\ edits = 0 /\ others = 0
-------------------------------------------------------------------------------
(* The user at the form.  What a closed form had is gone: Radix unmounts    *)
(* the one, the other is reset when it opens.                               *)
Close == /\ dialog' = [dialog EXCEPT !.open = FALSE, !.asking = FALSE]
         /\ values' = Shown(FALSE, row) /\ base' = values'
         /\ editor' = NoEditor

OpenForm(edit) ==
  /\ kind # "note" /\ ~dialog.open /\ ~dialog.asking /\ dialog.form < MaxForms
  /\ dialog' = [dialog EXCEPT !.open = TRUE, !.edit = edit, !.form = @ + 1]
  /\ values' = Shown(edit, seen) /\ base' = values'
  /\ UNCHANGED <<kind, editor, card, row, seen, keep, busy, sends, edits, others>>

Editing == dialog.open /\ ~dialog.asking /\ edits + others < MaxEdits

Put(f, v) ==
  /\ v # values[f]
  /\ values' = [values EXCEPT ![f] = v]
  /\ edits' = edits + 1
  /\ UNCHANGED <<kind, editor, card, row, seen, dialog, base, keep, busy, sends, others>>

\* The band of the prices is filled in at once.
TypePrices ==
  /\ Editing /\ kind = "trade" /\ edits' = edits + 1
  /\ \E entry, exit \in Prices, volume \in Volumes :
       values' = [values EXCEPT !.entry = entry, !.exit = exit, !.volume = volume]
  /\ UNCHANGED <<kind, editor, card, row, seen, dialog, base, keep, busy, sends, others>>

TypeProfit      == Editing /\ kind = "trade" /\ \E t \in Prices : Put("profit", t)
ChooseTime      == Editing /\ kind = "trade" /\ \E f \in {"entered_at", "closed_at"}, wall \in {0, 4, 5} : Put(f, wall)
TypeSymbol      == Editing /\ kind = "trade" /\ \E s \in {"", "ES"} : Put("symbol", s)
ChooseDirection == Editing /\ kind = "trade" /\ \E d \in {"Long", "Short"} : Put("direction", d)
Mark            == Editing /\ kind = "trade" /\ \E m \in {"", "calm"} : Put("psychology", m)

UseSuggestion ==
  /\ Editing /\ kind = "trade" /\ SuggestProfit(values) # None
  /\ Put("profit", SuggestProfit(values))

\* A template is added behind what the note has.
InsertTemplate == Editing /\ kind = "trade" /\ Len(values.notes) < 2 /\ Put("notes", Append(values.notes, "template"))

TypeAccount ==
  /\ Editing /\ kind = "account"
  /\ \/ \E s \in {"", "b"} : Put("name", s)
     \/ \E t \in Percents : Put("risk_percent", t)
     \/ \E a \in {"personal", "prop"} : Put("account_type", a)
     \/ /\ values.account_type = "prop"
        /\ \/ \E t \in Percents \cup {Empty} : Put("profit_target_percent", t)
           \/ \E s \in StatusOptionsFor(values.challenge_phase) : Put("challenge_status", s)

\* A phase brings its status, from the account as the page has it now.
ChoosePhase ==
  /\ Editing /\ kind = "account" /\ values.account_type = "prop"
  /\ \E i \in 1 .. Len(Phases) :
       values' = [values EXCEPT !.challenge_phase = Phases[i],
                    !.challenge_status = StatusAfterPhaseChange(Phases[i], Shown(dialog.edit, seen))]
  /\ edits' = edits + 1
  /\ UNCHANGED <<kind, editor, card, row, seen, dialog, base, keep, busy, sends, others>>

\* Mutant: the form closes whatever was typed.
CloseUnasked ==
  /\ dialog.open /\ ~dialog.asking /\ Close
  /\ UNCHANGED <<kind, card, row, seen, keep, busy, sends, edits, others>>
RequestClose ==
  /\ dialog.open /\ ~dialog.asking
  /\ IF kind = "trade" /\ Dirty # {}
     THEN dialog' = [dialog EXCEPT !.asking = TRUE] /\ UNCHANGED <<values, base, editor>>
     ELSE Close
  /\ UNCHANGED <<kind, card, row, seen, keep, busy, sends, edits, others>>

KeepEditing ==
  /\ dialog.asking
  /\ dialog' = [dialog EXCEPT !.asking = FALSE]
  /\ UNCHANGED <<kind, editor, card, row, seen, values, base, keep, busy, sends, edits, others>>

Discard ==
  /\ dialog.asking /\ Close
  /\ UNCHANGED <<kind, card, row, seen, keep, busy, sends, edits, others>>

(* Saving.  The two buttons of the trade form wait for the answer; Ctrl and *)
(* Enter do not, nor does the account form.                                 *)
Send(form, edit, body, shown, dirty, prev) ==
  sends' = Append(sends, [form |-> form, edit |-> edit, body |-> body, shown |-> shown, dirty |-> dirty,
                          state |-> "sent", result |-> None, prev |-> prev])

Submit(another) ==
  LET v == values
      valid == IF kind = "account" THEN AccountSchema(v) ELSE TradeSchema(v)
      fields == IF dialog.edit THEN Dirty
                ELSE IF kind = "account" /\ v.account_type # "prop" THEN AccountFields \ ChallengeBoxes ELSE DOMAIN v
  IN  /\ kind # "note" /\ dialog.open /\ ~dialog.asking /\ Len(sends) < MaxSends
      /\ keep' = [keep EXCEPT ![dialog.form] = @ \/ another]
      /\ IF valid /\ ~Throws(fields, v)
         THEN /\ Send(dialog.form, dialog.edit, Body(dialog.edit, Dirty, v), v, Dirty, None)
              /\ busy' = [busy EXCEPT ![dialog.form] = TRUE]
         ELSE UNCHANGED <<sends, busy>>
      /\ UNCHANGED <<kind, editor, card, row, seen, dialog, values, base, edits, others>>

Save         == (kind = "trade" => ~busy[dialog.form]) /\ Submit(FALSE)
SaveByKey    == kind = "trade" /\ busy[dialog.form] /\ Submit(FALSE)
SaveAndNew   == kind = "trade" /\ ~dialog.edit /\ ~busy[dialog.form] /\ Submit(TRUE)

ChooseFromMenu ==
  /\ kind = "account" /\ ~dialog.open /\ Len(sends) < MaxSends
  /\ \E body \in ChallengeActions(seen.challenge_phase, seen.challenge_status) :
       Send(0, TRUE, body, <<>>, {}, None)
  /\ UNCHANGED <<kind, editor, card, row, seen, dialog, values, base, keep, busy, edits, others>>

\* An answered request is forgotten but for the form it came from.
Finish(i) ==
  sends' = [sends EXCEPT ![i] = [@ EXCEPT !.body = <<>>, !.shown = <<>>, !.dirty = {}, !.state = "done", !.result = None, !.prev = None]]

\* The request reaches the server, in any order.
Serve(i) ==
  LET new == Patched(IF sends[i].edit THEN row ELSE Blank, sends[i].body)
  IN  /\ sends[i].state = "sent"
      /\ sends' = [sends EXCEPT ![i].state = IF Accepted(new) THEN "stored" ELSE "refused",
                               ![i].result = IF Accepted(new) THEN new ELSE None]
      /\ row' = IF Accepted(new) /\ sends[i].edit THEN new ELSE row
      /\ card' = [card EXCEPT !.touched = @ \/ (kind = "note" /\ i # card.mine)]
      /\ UNCHANGED <<kind, editor, seen, dialog, values, base, keep, busy, edits, others>>

\* Its answer comes back: done, with what the form that sent it had on keepOpenRef.
Answer(i) ==
  LET form == sends[i].form
      here == form = dialog.form /\ dialog.open
  IN  /\ kind # "note" /\ sends[i].state = "stored" /\ form # 0
      /\ Finish(i)
      /\ IF keep[form]
         THEN /\ values' = IF here THEN ForTheNextTrade(sends[i].shown) ELSE values
              /\ base' = IF here THEN values' ELSE base
              /\ UNCHANGED dialog
         ELSE dialog' = [dialog EXCEPT !.open = FALSE] /\ values' = Shown(FALSE, row) /\ base' = values'
      /\ keep' = [keep EXCEPT ![form] = FALSE] /\ busy' = [busy EXCEPT ![form] = FALSE]
      /\ UNCHANGED <<kind, editor, card, row, seen, edits, others>>

\* A refusal, or no answer at all: a message, and the form stays.
AnswerError(i) ==
  /\ kind # "note" /\ sends[i].state \in {"sent", "stored", "refused"} /\ sends[i].form # 0
  /\ Finish(i)
  /\ keep' = [keep EXCEPT ![sends[i].form] = FALSE] /\ busy' = [busy EXCEPT ![sends[i].form] = FALSE]
  /\ UNCHANGED <<kind, editor, card, row, seen, dialog, values, base, edits, others>>

-------------------------------------------------------------------------------
(* The card of a day or week, and its note                                  *)
\* The editor takes the note when it is built, and never again.
BuildEditor(note) ==
  /\ values' = [notes |-> note]
  /\ editor' = [doc |-> SanitizeNoteHtml(note), tip |-> ""]

OpenNote ==
  /\ kind = "note" /\ ~dialog.open /\ ~card.asking /\ dialog.form < MaxForms
  /\ dialog' = [dialog EXCEPT !.open = TRUE, !.edit = TRUE, !.form = @ + 1]
  /\ BuildEditor(seen.notes) /\ base' = values'
  /\ UNCHANGED <<kind, row, seen, keep, busy, sends, card, edits, others>>

EditingNote == Editing /\ kind = "note"

\* text-change: what the editor shows is told to the dialog.
Edited(doc) ==
  /\ edits' = edits + 1
  /\ editor' = [doc |-> doc, tip |-> ""]
  /\ values' = [notes |-> IF IsEmptyNote(doc) THEN <<>> ELSE SanitizeNoteHtml(doc)]
  /\ UNCHANGED <<kind, row, seen, dialog, base, keep, busy, sends, card, others>>
Room == Len(editor.doc) < MaxPieces

\* Typed or pasted; Enter in an empty editor makes two empty lines.
Write ==
  /\ EditingNote /\ Room
  /\ \/ \E piece \in {"text", "pasted"} : Edited(Append(editor.doc, piece))
     \/ Edited(IF editor.doc = <<>> THEN <<"line", "line">> ELSE Append(editor.doc, "line"))
Erase == EditingNote /\ \E n \in 0 .. Len(editor.doc) - 1 : Edited(SubSeq(editor.doc, 1, n))

\* The box that asks for an address, of a link on a text or of a picture.
Ask(tip) ==
  /\ editor' = [editor EXCEPT !.tip = tip]
  /\ UNCHANGED <<kind, row, seen, dialog, values, base, keep, busy, sends, card, edits, others>>
AskLink == EditingNote /\ editor.tip # "link" /\ "text" \in Range(editor.doc) /\ Ask("link")
PromptForImage == EditingNote /\ editor.tip # "image" /\ Ask("image")
EscapeTip == EditingNote /\ editor.tip # "" /\ Ask("")

EnterLink ==
  /\ EditingNote /\ editor.tip = "link"
  /\ \E i \in DOMAIN editor.doc, url \in {"https", "tel"} :
       editor.doc[i] = "text" /\ Edited([editor.doc EXCEPT ![i] = LinkTo(url)])
EnterImage ==
  /\ EditingNote /\ editor.tip \in {"image", "refused"} /\ Room
  /\ \E url \in {"", "http", "ftp", "chart", "https"} :
       IF ImageUrlProblem(url) = "" THEN Edited(Append(editor.doc, ImageAt(url)))
       ELSE editor.tip # "refused" /\ Ask("refused")

InsertInNote ==
  /\ EditingNote /\ Len(values.notes) < MaxPieces
  /\ BuildEditor(Append(values.notes, "todo")) /\ edits' = edits + 1
  /\ UNCHANGED <<kind, row, seen, dialog, base, keep, busy, sends, card, others>>

\* useSavePeriodNote: the card shows the note at once.
SaveNote(form, note, shown) ==
  /\ Len(sends) < MaxSends
  /\ Send(form, TRUE, [notes |-> note], [notes |-> shown], {"notes"}, seen)
  /\ seen' = SaveJournalNote([notes |-> note])
  /\ card' = [card EXCEPT !.asking = FALSE, !.mine = Len(sends) + 1, !.asked = SaveJournalNote([notes |-> note]).notes,
                          !.alert = "", !.touched = FALSE]
  /\ UNCHANGED <<kind, row, keep, busy, edits, others>>

SubmitNote ==
  /\ kind = "note" /\ dialog.open
  /\ SaveNote(dialog.form, SanitizeNoteHtml(values.notes), editor.doc)
  /\ Close
AskDelete ==
  /\ kind = "note" /\ ~dialog.open /\ ~card.asking /\ seen.notes # <<>>
  /\ card' = [card EXCEPT !.asking = TRUE]
  /\ UNCHANGED <<kind, row, seen, dialog, values, base, keep, busy, sends, editor, edits, others>>
CancelDelete ==
  /\ card.asking
  /\ card' = [card EXCEPT !.asking = FALSE]
  /\ UNCHANGED <<kind, row, seen, dialog, values, base, keep, busy, sends, editor, edits, others>>
DeleteNote ==
  /\ card.asking
  /\ SaveNote(0, <<>>, <<>>)
  /\ UNCHANGED <<dialog, values, base, editor>>

NoteStored(i) ==
  /\ kind = "note" /\ sends[i].state = "stored"
  /\ Finish(i)
  /\ UNCHANGED <<kind, row, seen, dialog, values, base, keep, busy, editor, card, edits, others>>

\* The card shows what it showed before, and says that its last save failed.
\* Mutant: only an open dialog says it.
NoteFailedUnheard(i) ==
  /\ kind = "note" /\ sends[i].state \in {"sent", "stored"}
  /\ Finish(i)
  /\ seen' = sends[i].prev
  /\ card' = [card EXCEPT !.alert = IF i = card.mine /\ dialog.open THEN "failed" ELSE @]
  /\ UNCHANGED <<kind, row, dialog, values, base, keep, busy, editor, edits, others>>
NoteFailed(i) ==
  /\ kind = "note" /\ sends[i].state \in {"sent", "stored"}
  /\ Finish(i)
  /\ seen' = sends[i].prev
  /\ card' = [card EXCEPT !.alert = IF i = card.mine THEN "failed" ELSE @]
  /\ UNCHANGED <<kind, row, dialog, values, base, keep, busy, editor, edits, others>>

\* Another tab of the page or another filter, or the period has no trade left.
CardGone ==
  /\ kind = "note" /\ card # NewCard
  /\ card' = NewCard /\ Close
  /\ UNCHANGED <<kind, row, seen, keep, busy, sends, edits, others>>

-------------------------------------------------------------------------------
Refetch ==
  /\ seen # row /\ seen' = row
  /\ UNCHANGED <<kind, editor, card, row, dialog, values, base, keep, busy, sends, edits, others>>

OtherTab ==
  /\ others < MaxOthers /\ edits + others < MaxEdits /\ others' = others + 1
  /\ card' = [card EXCEPT !.touched = kind = "note"]
  /\ IF kind # "account" THEN row' = [row EXCEPT !.notes = <<"other">>]
     ELSE \/ row' = [row EXCEPT !.name = "other"]
          \/ \E body \in ChallengeActions(row.challenge_phase, row.challenge_status) : row' = PatchAccount(row, body)
  /\ UNCHANGED <<kind, editor, seen, dialog, values, base, keep, busy, sends, edits>>

FormsNext ==
  \/ \E edit \in BOOLEAN : OpenForm(edit)
  \/ TypePrices \/ TypeProfit \/ ChooseTime \/ TypeSymbol \/ ChooseDirection \/ Mark
  \/ UseSuggestion \/ InsertTemplate \/ TypeAccount \/ ChoosePhase
  \/ RequestClose \/ KeepEditing \/ Discard
  \/ Save \/ SaveByKey \/ SaveAndNew \/ ChooseFromMenu
  \/ \E i \in DOMAIN sends : Serve(i) \/ Answer(i) \/ AnswerError(i)
  \/ OpenNote \/ Write \/ Erase \/ AskLink \/ PromptForImage \/ EscapeTip
  \/ EnterLink \/ EnterImage \/ InsertInNote \/ SubmitNote \/ AskDelete \/ CancelDelete \/ DeleteNote
  \/ \E i \in DOMAIN sends : NoteStored(i) \/ NoteFailed(i)
  \/ CardGone
  \/ Refetch \/ OtherTab

FormsSpec == FormsInit /\ [][FormsNext]_formsVars
-------------------------------------------------------------------------------
(* Properties                                                               *)

\* The variables stay in their types.
FormsTypeOK ==
  /\ kind \in {"trade", "account", "note"}
  /\ dialog \in [open : BOOLEAN, edit : BOOLEAN, asking : BOOLEAN, form : 0 .. MaxForms]
  /\ DOMAIN values = (CASE kind = "trade" -> TradeFields [] kind = "account" -> AccountFields [] OTHER -> {"notes"}) /\ DOMAIN base = DOMAIN values
  /\ {keep, busy} \subseteq [0 .. MaxForms -> BOOLEAN]
  /\ \A i \in DOMAIN sends : sends[i].state \in {"sent", "stored", "refused", "done"}
  /\ Accepted(row) /\ Accepted(seen)

\* What the server's row r should hold for a box that shows v: counted in
\* numbers and minutes, not with the operators of the form.
Means(f, v, r) ==
  CASE kind = "note" -> NoteToText(r.notes) = NoteToText(SelectSeq(v, LAMBDA piece : piece # "pasted"))
    [] f = "entered_at" -> r[f] = 2 * (v - Offset)
    [] f = "closed_at"  -> IF v = 0 THEN r[f] = None ELSE r[f] = 2 * (v - Offset)
    [] f \in Numbers    -> IF v = Empty THEN r[f] = None ELSE Worth(r[f], 4) = Worth(v, 4)
    [] f = "profit"     -> Worth(r[f], 4) = Worth(v, 4)
    [] f = "risk_percent" -> 100 * Worth(r.risk_per_trade, 6) = Worth(v, 6)
    [] f \in ChallengeBoxes /\ r.account_type # "prop" -> r[Key(f)] = None
    [] f = "profit_target_percent" /\ r.account_type = "prop" ->
         IF v = Empty THEN r.profit_target = None ELSE 100 * Worth(r.profit_target, 6) = Worth(v, 6)
    [] OTHER -> r[f] = v

StoredNow(i) == sends[i].state = "sent" /\ sends'[i].state = "stored"

\* What the save s is about, and what stays as it was in the row r: the fields of
\* the challenge go and come with the type of the account.
Told(s, f) == ~s.edit \/ f \in s.dirty \/ (f = "challenge_status" /\ "challenge_phase" \in s.dirty)
Kept(f, r, new) == \/ new[Key(f)] = r[Key(f)]
                   \/ f \in ChallengeBoxes /\ r.account_type # new.account_type

\* A save stores what the form showed in the boxes its user changed - a phase
\* with the status shown beside it - and leaves the others as the row has them,
\* whatever another tab wrote since the form was opened, the seconds of an
\* imported time included; a new row is what the form showed.  A note of a
\* card is stored as it read in the editor, templates and pictures given by
\* their address included, but for pictures pasted
\* (patchFromDirty.ts, AccountFormDialog.tsx 199-204).
SavesExactlyTheChange ==
  [][\A i \in DOMAIN sends : StoredNow(i) /\ sends[i].form # 0 =>
       LET s == sends[i]
           new == sends'[i].result
       IN  \A f \in DOMAIN s.shown :
             IF Told(s, f) THEN Means(f, s.shown[f], new) ELSE Kept(f, row, new)]_formsVars

\* What is typed into the trade form is not thrown away unasked: it goes when
\* the user says so, or with the answer to a save (TradeFormDialog.tsx 139-162).
AskedBeforeLoss ==
  [][ /\ kind = "trade" /\ dialog.open /\ Dirty # {}
      /\ ~dialog'.open \/ (values' # values /\ edits' = edits)
      => dialog.asking \/ \E i \in DOMAIN sends : sends[i].state = "stored" /\ sends'[i].state = "done"]_formsVars

\* The profit suggested is (exit - entry) * volume, or the opposite for a short
\* trade, rounded half away from zero to cents: text arithmetic agrees with the
\* integers, and nothing is suggested from half a number (profitSuggestion.ts).
SuggestionIsExact ==
  kind = "trade" =>
    LET w(f) == Worth(values[f], 2)
        exact == (IF values.direction = "Long" THEN w("exit") - w("entry") ELSE w("entry") - w("exit")) * w("volume")
        cents == IF exact < 0 THEN -((50 - exact) \div 100) ELSE (50 + exact) \div 100
        s == SuggestProfit(values)
    IN  IF (\E f \in Numbers : ~IsNumber(values[f])) \/ w("exit") = w("entry") THEN s = None
        ELSE Worth(s, 2) = cents

\* A note of a card that was saved or deleted is what the server has once it is
\* answered, or the card says that it failed, though its dialog has closed long
\* since: another save stored after it excepted (PeriodCard.tsx 63-68, 158-167).
FailedSaveIsSaid ==
  card.mine # 0 /\ sends[card.mine].state = "done" =>
    row.notes = card.asked \/ card.alert # "" \/ card.touched

===============================================================================
