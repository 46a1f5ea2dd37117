---------------------------- MODULE TerminalConsole ----------------------------
(***************************************************************************)
(* The two places from which an owner moves money: the console of every    *)
(* action, and the form beside one escalated bill.  Both send to the same  *)
(* proxy, which asks for a key and treats a request as a dry run unless it *)
(* says otherwise.  Answers take their time; meanwhile the fields of both  *)
(* forms, and some of their buttons, stay usable.                          *)
(***************************************************************************)
EXTENDS Integers, Sequences, FiniteSets, TLC

CONSTANTS Null,
          Actions,      \* the names of the press's catalogue
          Values,       \* what an operator types into the fields
          MaxSends,     \* bound: requests of one form
          MaxEdits      \* bound: edits, selections and keys typed

VARIABLES desk,         \* the console
          row,          \* the form of the escalated bill
          book          \* what the press executed for them, and what it previewed

vars == <<desk, row, book>>

-----------------------------------------------------------------------------
(* What the forms send and what comes back.                                *)

\* The fields of an action; those in USDC have a cap that the catalogue names.
Fields == ("venue/settle" :> {"series_id"}) @@ ("venue/collateralize" :> {"series_id", "usdc"})
          @@ ("funding/move" :> {"role", "usdc"}) @@ ("venue/withdraw" :> {"role", "series_id"})
          @@ ("venue/pause" :> {"paused", "confirm"})
          @@ ("operator/approve" :> {"business", "obligation_id"})
          @@ ("operator/reject" :> {"business", "obligation_id", "note"})
CapFor(action) ==
  CASE action = "venue/collateralize" -> "collateralize_usdc"
    [] action = "funding/move" -> "fund_usdc"
    [] OTHER -> Null

\* A field left blank is not sent.
Coerce(form) == [f \in {g \in DOMAIN form : form[g] # Null} |-> form[f]]

\* The proxy: no key, no forwarding; only the word false makes a request real.
Proxied(key, req) ==
  IF key = Null THEN [status |-> 401]
  ELSE [status |-> 200, dry |-> req.dry # FALSE, form |-> [action |-> req.action, params |-> req.params]]

\* How long the press is waited for, and what the catalogue needs.
Forward(answered) == IF answered THEN 200 ELSE 504
ReadCatalogue(key, answered) == IF key = Null THEN 401 ELSE Forward(answered)

\* A slow press is told apart from one that has nothing here.
LoadNote(status) ==
  CASE status = Null -> "could not reach this site's own server"
    [] status = 401 -> "that key was not accepted"
    [] status = 429 -> "the console is resting"
    [] status = 404 -> "no operator console on this deployment"
    [] status \in {503, 504} -> "the press did not answer in time"
    [] OTHER -> "the console answered"
Refusal(status, detail) ==
  IF status \in {404, 401, 429, 503, 504} THEN LoadNote(status) ELSE detail

-----------------------------------------------------------------------------
NoForm == [action |-> Null, params |-> Null]

Init ==
  /\ desk = [key |-> Null, form |-> NoForm, preview |-> Null, note |-> Null, busy |-> FALSE,
             sent |-> Null, reload |-> FALSE, catalogue |-> FALSE, edits |-> 0]
  /\ row = [key |-> Null, phase |-> "idle", preview |-> FALSE, sent |-> {}, sends |-> 0, edits |-> 0]
  /\ book = [ran |-> <<>>, answered |-> 0, previews |-> 0,
             rowRan |-> 0, rowPreviews |-> 0]

\* Unlocking reads the catalogue with the key that was typed, and again once it
\* is the console's; locking forgets everything but the request under way.
Unlock(status) ==
  /\ desk.key = Null /\ ~desk.busy /\ desk.edits < MaxEdits
  /\ desk' = IF status = 200
             THEN [desk EXCEPT !.key = "key", !.catalogue = TRUE, !.note = Null, !.edits = @ + 1]
             ELSE [desk EXCEPT !.note = LoadNote(status), !.edits = @ + 1]
  /\ UNCHANGED <<row, book>>

Lock ==
  /\ desk.key # Null
  /\ desk' = [desk EXCEPT !.key = Null, !.catalogue = FALSE, !.preview = Null, !.form = NoForm, !.note = Null]
  /\ UNCHANGED <<row, book>>

\* Choosing another action empties the form and throws the preview away; so
\* does every edit of a field.  Neither waits for a request under way.
Choose(a) ==
  /\ desk.key # Null /\ desk.catalogue /\ desk.edits < MaxEdits
  /\ desk' = [desk EXCEPT !.form = [action |-> a, params |-> [f \in Fields[a] |-> Null]],
                          !.preview = Null, !.note = Null, !.edits = @ + 1]
  /\ UNCHANGED <<row, book>>

SetField(f, v) ==
  /\ desk.key # Null /\ desk.form.action # Null /\ desk.edits < MaxEdits
  /\ f \in Fields[desk.form.action]
  /\ desk' = [desk EXCEPT !.form.params[f] = v, !.preview = Null, !.edits = @ + 1]
  /\ UNCHANGED <<row, book>>

\* Which buttons work: the check whenever nothing is under way, the run only
\* beside a preview.
CanRun(dry) == desk.form.action # Null /\ ~desk.busy /\ (dry \/ desk.preview # Null)

Run(dry) ==
  LET req == Proxied(desk.key, [dry |-> dry, action |-> desk.form.action, params |-> Coerce(desk.form.params)])
  IN  /\ desk.key # Null /\ CanRun(dry) /\ Len(book.ran) + book.previews < MaxSends
      /\ desk' = [desk EXCEPT !.busy = TRUE, !.note = Null,
                              !.sent = [dry |-> req.dry, form |-> req.form, seen |-> desk.preview]]
      /\ UNCHANGED <<row, book>>

\* The answer of a run, and then of the catalogue that is read again after it:
\* what the console says of the run lasts until that.  reached is FALSE when
\* nothing came back: whether the press had acted by then is not known.
RunAnswered(ok, reached, acted) ==
  LET s == desk.sent
      happened == IF reached THEN ok ELSE acted
  IN  /\ s # Null /\ ~desk.reload
      /\ desk' = [desk EXCEPT
           !.preview = IF ~reached THEN @ ELSE IF ok /\ s.dry THEN s.form ELSE Null,
           !.note = IF ~reached THEN "the console could not be reached"
                    ELSE IF ~ok THEN "refused" ELSE IF s.dry THEN Null ELSE "done",
           !.reload = reached /\ ok, !.busy = reached /\ ok,
           !.sent = IF reached /\ ok THEN @ ELSE Null]
      /\ book' = [book EXCEPT !.ran = IF ~s.dry /\ happened THEN Append(@, [did |-> s.form, seen |-> s.seen]) ELSE @,
                              !.answered = @ + (IF ~s.dry /\ reached /\ ok THEN 1 ELSE 0),
                              !.previews = @ + (IF s.dry THEN 1 ELSE 0)]
      /\ UNCHANGED row

Reloaded(status) ==
  /\ desk.reload
  /\ desk' = [desk EXCEPT !.reload = FALSE, !.busy = FALSE, !.sent = Null,
                          !.catalogue = status = 200,
                          !.note = IF status = 200 THEN Null ELSE LoadNote(status)]
  /\ UNCHANGED <<row, book>>

-----------------------------------------------------------------------------
(* The form of one escalated bill.                                         *)

\* Another key: what was previewed with the old one is gone.
Remember(k) ==
  /\ row.phase # "done" /\ row.key # k /\ row.edits < MaxEdits
  /\ row' = [row EXCEPT !.key = k, !.preview = FALSE, !.phase = "idle", !.edits = @ + 1]
  /\ UNCHANGED <<desk, book>>

\* The body of a request: a reason goes only with a rejection.
Post(button, note) ==
  [action |-> IF button = "reject" THEN "operator/reject" ELSE "operator/approve",
   note |-> IF button = "reject" THEN note ELSE Null, dry |-> button = "check"]

\* Which of the three buttons works, with what is on the screen.
Usable(button) ==
  CASE button = "check" -> row.key # Null /\ row.phase # "previewing"
    [] button = "approve" -> row.preview /\ row.phase # "running"
    [] OTHER -> row.key # Null /\ row.phase # "running"

Press(button) ==
  /\ row.phase # "done" /\ Usable(button) /\ row.sends < MaxSends
  /\ row' = [row EXCEPT !.phase = IF button = "check" THEN "previewing" ELSE "running",
                        !.sent = @ \union {[n |-> row.sends, body |-> Post(button, Null)]},
                        !.sends = @ + 1]
  /\ UNCHANGED <<desk, book>>

\* The check comes back, whatever else was pressed meanwhile.
Previewed(r, ok) ==
  /\ r \in row.sent /\ r.body.dry
  /\ row' = [row EXCEPT !.sent = @ \ {r}, !.preview = ok, !.phase = IF ok THEN "ready" ELSE "error"]
  /\ book' = [book EXCEPT !.rowPreviews = @ + (IF ok THEN 1 ELSE 0)]
  /\ UNCHANGED desk

\* So does an approval or a rejection; one that was refused leaves its preview.
Live(r, ok) ==
  /\ r \in row.sent /\ ~r.body.dry
  /\ row' = [row EXCEPT !.sent = @ \ {r}, !.phase = IF ok THEN "done" ELSE "error", !.preview = @ /\ ~ok]
  /\ book' = [book EXCEPT !.rowRan = @ + (IF ok /\ ~r.body.dry /\ r.body.action = "operator/approve" THEN 1 ELSE 0)]
  /\ UNCHANGED desk

\* Nothing comes back: the form is left in the phase the press of the button put
\* it in, and only another key moves it.
Lost(r, acted) ==
  /\ r \in row.sent
  /\ row' = [row EXCEPT !.sent = @ \ {r}]
  /\ book' = [book EXCEPT !.rowRan = @ + (IF acted /\ ~r.body.dry /\ r.body.action = "operator/approve" THEN 1 ELSE 0)]
  /\ UNCHANGED desk

\* What the form shows: done is all there is; before that a preview names the
\* wallet that would pay and what is left in it.
Shows == IF row.phase = "done" THEN {"settled"}
         ELSE {"key field", "buttons", "reason"} \union (IF row.key = Null THEN {"why the buttons are off"} ELSE {})
              \union (IF row.preview THEN {"would", "signed by", "budget left"} ELSE {})

-----------------------------------------------------------------------------
DeskNext ==
  \/ \E s \in {Null, 200, 401, 404, 504} : Unlock(s) \/ Reloaded(s)
  \/ Lock
  \/ \E a \in Actions : Choose(a)
  \/ \E f \in UNION {Fields[a] : a \in Actions}, v \in Values : SetField(f, v)
  \/ \E dry \in BOOLEAN : Run(dry)
  \/ \E ok, reached, acted \in BOOLEAN : RunAnswered(ok, reached, acted)
RowNext ==
  \/ \E k \in {Null, "key"} : Remember(k)
  \/ \E b \in {"check", "approve", "reject"} : Press(b)
  \/ \E r \in row.sent, ok \in BOOLEAN : Previewed(r, ok) \/ Live(r, ok) \/ Lost(r, ok)

Next == DeskNext \/ RowNext
Spec == Init /\ [][Next]_vars

-----------------------------------------------------------------------------
\* A preview serves one run that is known to have happened: after it there is
\* no other without a new dry run.  (One whose answer was lost leaves its
\* preview standing, and may be sent again.)
OnePreviewOneRun == book.answered <= book.previews

\* The form pays nothing that the press had not described in it first, whatever
\* is pressed, typed or lost while something else is under way.
ApprovedWasPreviewed == book.rowRan > 0 => book.rowPreviews > 0

\* What the console runs is the form it previewed.  The code does not have
\* this: an edit throws the preview away, but the answer of a dry run sent
\* before it brings one back, and the button runs the edited form.
RunsWhatWasPreviewed == \A i \in DOMAIN book.ran : book.ran[i].did = book.ran[i].seen
=============================================================================
