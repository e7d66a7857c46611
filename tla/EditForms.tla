----------------------------- MODULE EditForms -----------------------------
(***************************************************************************)
(* The forms of the services and the announcements (ServicesAdmin.tsx,     *)
(* ServiceForm.tsx, AnnouncementsAdmin.tsx): each replaces the list of its *)
(* section while it is open, sends its draft once, and closes when that    *)
(* succeeded; the dialog over the list deletes.  Left out: the fields but  *)
(* for the keywords, error texts and the focus.                            *)
(* External: the endpoints of the services and the announcements.          *)
(***************************************************************************)
EXTENDS AdminNav

CONSTANTS
    Screens,            \* the sections with a form
    Terms, Fold,        \* keywords, and what they are in lower case
    MaxForms            \* bound: forms opened

ASSUME EditFormsAssumption == Screens \subseteq Sections /\ MaxForms \in Nat
NoTerm == ""           \* what is left of a blank between commas
ASSUME KeywordAssumption == NoTerm \notin Terms

VARIABLES
    records,            \* the server's: which form made it
    opened,             \* the number of the form opened last
    form,
    confirm,            \* the record the dialog asks about
    formWrites,
    unheardForms        \* ghost: forms the answer to a stored write of was lost

formVars == <<records, opened, form, confirm, formWrites, unheardForms>>

Closed == [no |-> 0, of |-> 0, keywords |-> <<>>, input |-> <<>>, valid |-> FALSE]
NoRecord == 0
FormOpen == section \in Screens /\ form # Closed

\* Folds what was typed into the list, without blanks and repetitions.
\* Mutant: what was typed is compared with the list, not with itself.
MergeOnce(existing, raw) ==
    existing \o SelectSeq(raw, LAMBDA k : k # NoTerm /\ Fold[k] \notin {Fold[e] : e \in ToSet(existing)})
MergeKeywords(existing, raw) ==
    LET next[n \in 0..Len(raw)] ==
          IF n = 0 THEN existing
          ELSE IF raw[n] = NoTerm \/ Fold[raw[n]] \in {Fold[e] : e \in ToSet(next[n - 1])} THEN next[n - 1]
          ELSE Append(next[n - 1], raw[n])
    IN  next[Len(raw)]
EffectiveKeywords == MergeKeywords(form.keywords, form.input)

-----------------------------------------------------------------------------
(* The form *)

quiet == <<nav, records, opened, confirm, formWrites, unheardForms>>

\* The keywords a record has; the server keeps no blanks and no repetitions.
Had(of) == {<<>>} \cup {<<k>> : k \in IF of # NoRecord /\ section = "services" THEN Terms ELSE {}}

\* The fields as the form mounts: those of the record, or empty ones.
Opened(of, had) ==
    [no |-> opened', of |-> of, keywords |-> had, input |-> <<>>, valid |-> of # NoRecord]

\* "Neu", or "Bearbeiten" of a row.
OpenForm(of) ==
    /\ section \in Screens /\ form = Closed /\ confirm = NoRecord
    /\ of \in {NoRecord} \cup {r.id : r \in {x \in records : x.screen = section}}
    /\ opened < MaxForms /\ opened' = opened + 1
    /\ form' \in {Opened(of, had) : had \in Had(of)}
    /\ UNCHANGED <<nav, records, confirm, formWrites, unheardForms>>

CancelForm == FormOpen /\ form' = Closed /\ UNCHANGED quiet

Fill == FormOpen /\ form' = [form EXCEPT !.valid = ~form.valid] /\ UNCHANGED quiet

\* What is in the keyword field: terms between commas.
TypeKeywords(raw) ==
    FormOpen /\ section = "services" /\ form' = [form EXCEPT !.input = raw] /\ UNCHANGED quiet
\* Enter, a comma, or leaving the field.
AddKeywords ==
    /\ FormOpen /\ section = "services"
    /\ form' = [form EXCEPT !.keywords = EffectiveKeywords, !.input = <<>>]
    /\ UNCHANGED quiet
\* The cross of a keyword, or Backspace in the empty field for the last one.
RemoveKeyword(k) ==
    /\ FormOpen /\ k \in ToSet(form.keywords)
    /\ form' = [form EXCEPT !.keywords = LeftOf(@, {k})]
    /\ UNCHANGED quiet

\* Mutant: the button stays enabled while the form is being sent.
NeverSubmitting == FALSE
Submitting == \E w \in formWrites : w.heard /\ w.kind \in {"create", "update"}

Submit ==
    /\ FormOpen /\ form.valid /\ ~Submitting
    /\ Spend
    /\ formWrites' = formWrites \cup
         {[kind |-> IF form.of = NoRecord THEN "create" ELSE "update", screen |-> section, of |-> form.of,
           no |-> form.no, state |-> "sent", heard |-> TRUE, id |-> budget]}
    /\ UNCHANGED <<section, records, opened, form, confirm, unheardForms>>

-----------------------------------------------------------------------------
(* The dialog *)

\* "Löschen" of a row.
AskDeleteRecord(id) ==
    /\ section \in Screens /\ form = Closed /\ confirm = NoRecord
    /\ id \in {r.id : r \in {x \in records : x.screen = section}}
    /\ confirm' = id
    /\ UNCHANGED <<nav, records, opened, form, formWrites, unheardForms>>

\* The dialog is closed without deleting.
DismissDelete ==
    /\ confirm # NoRecord
    /\ confirm' = NoRecord
    /\ UNCHANGED <<nav, records, opened, form, formWrites, unheardForms>>

ConfirmDeleteRecord ==
    /\ confirm # NoRecord
    /\ Spend
    /\ formWrites' = Unheard(formWrites, {"delete"}) \cup
         {[kind |-> "delete", screen |-> section, of |-> confirm, no |-> 0,
           state |-> "sent", heard |-> TRUE, id |-> budget]}
    /\ UNCHANGED <<section, records, opened, form, confirm, unheardForms>>

-----------------------------------------------------------------------------
(* The server and its answers *)

Stored(w) ==
    CASE w.kind = "create" -> records \cup {[screen |-> w.screen, id |-> w.id, no |-> w.no]}
      [] w.kind = "update" -> records
      [] w.kind = "delete" -> {r \in records : r.id # w.of}

ServeForm(w) ==
    /\ w.state = "sent"
    /\ \/ records' = Stored(w) /\ formWrites' = InState(formWrites, w, "stored")
       \/ UNCHANGED records /\ formWrites' = InState(formWrites, w, "refused")
    /\ UNCHANGED <<nav, opened, form, confirm, unheardForms>>

\* A success closes whatever form is open, a deletion its dialog; a lost answer is a
\* failure.
FormAnswered(w) ==
    /\ w.state # "sent"
    /\ formWrites' = formWrites \ {w}
    /\ \E ok \in {w.state = "stored", FALSE} :
        /\ form' = IF ok /\ w.heard /\ w.kind # "delete" THEN Closed ELSE form
        /\ unheardForms' = IF ~ok /\ w.state = "stored" THEN unheardForms \cup {w.no} ELSE unheardForms
    /\ confirm' = IF w.heard /\ w.kind = "delete" THEN NoRecord ELSE confirm
    /\ UNCHANGED <<nav, records, opened>>

FormsFollowSection ==
    /\ form' = Closed /\ confirm' = NoRecord
    /\ formWrites' = Unheard(formWrites, {"create", "update", "delete"})
    /\ UNCHANGED <<records, opened, unheardForms>>

-----------------------------------------------------------------------------
FormsInit ==
    /\ records = {} /\ opened = 0 /\ form = Closed /\ confirm = NoRecord
    /\ formWrites = {} /\ unheardForms = {}

Inputs == {<<>>} \cup {<<a, b>> : a, b \in Terms \cup {NoTerm}}
FormsNext ==
    \/ CancelForm \/ Fill \/ AddKeywords \/ Submit \/ DismissDelete \/ ConfirmDeleteRecord
    \/ \E of \in 0..MaxWrites : OpenForm(of) \/ AskDeleteRecord(of)
    \/ \E raw \in Inputs : TypeKeywords(raw)
    \/ \E k \in Terms : RemoveKeyword(k)
    \/ \E w \in formWrites : ServeForm(w) \/ FormAnswered(w)

-----------------------------------------------------------------------------
FormsTypeOK ==
    /\ records \subseteq [screen : Screens, id : 1..MaxWrites, no : 1..MaxForms]
    /\ opened \in 0..MaxForms /\ form.no \in 0..opened /\ form.of \in 0..MaxWrites
    /\ form.keywords \in Seq(Terms) /\ form.input \in Inputs /\ form.valid \in BOOLEAN
    /\ confirm \in 0..MaxWrites /\ unheardForms \subseteq 0..MaxForms
    /\ formWrites \subseteq [kind : {"create", "update", "delete"}, screen : Screens, of : 0..MaxWrites,
                            no : 0..MaxForms, state : {"sent", "stored", "refused"}, heard : BOOLEAN,
                            id : 1..MaxWrites]

\* A form makes at most one record, however often it is sent, unless the answer to a
\* write that was stored got lost (ServicesAdmin.tsx:77, AnnouncementsAdmin.tsx:112).
OneRecordPerForm ==
    \A r1, r2 \in records : r1.no = r2.no /\ r1.no \notin unheardForms => r1 = r2

\* What a form would send as keywords: each of them once, and whatever was added or is
\* still in the field (ServiceForm.tsx:36-49, 141-145).
KeywordsAreMerged ==
    LET folded(s) == {Fold[k] : k \in s \ {NoTerm}} IN
    /\ Cardinality(folded(ToSet(EffectiveKeywords))) = Len(EffectiveKeywords)
    /\ folded(ToSet(EffectiveKeywords)) = folded(ToSet(form.keywords) \cup ToSet(form.input))

=============================================================================
