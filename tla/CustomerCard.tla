---------------------------- MODULE CustomerCard ----------------------------
(***************************************************************************)
(* Editing a customer: the card in the client (src/state/                  *)
(* customerCardModel.ts, src/hooks/useCustomerCard.ts) and the PATCH that  *)
(* saves it (worker/routes/customers.ts).                                  *)
(*                                                                         *)
(* A card is read in two queries, the row and then the fields, and saved   *)
(* in one batch whose statements all ask for the version the draft is      *)
(* based on.  Who loses is told so, gets the card of the server, and may   *)
(* take it or carry the own changes over to it.  Answers may be late or    *)
(* lost, and a member may turn to another conversation meanwhile.          *)
(*                                                                         *)
(* An attribute is a column of the row or a field, which may be absent.  A *)
(* field has an id, a content, which is its key and its value together     *)
(* (they are typed, compared and sent together; that no two fields of a    *)
(* customer have the same key is one reason for which a batch may fail),   *)
(* and a sortOrder.  The server lists the fields by sortOrder and id, a    *)
(* draft those it has from the server first and then its new ones.  What   *)
(* is compared with the base of a draft is the sortOrder too, and removing *)
(* a field or carrying a draft over gives every field another one.         *)
(*                                                                         *)
(* The event of a save is part of its batch (EventFeed).                   *)
(***************************************************************************)
EXTENDS Naturals, FiniteSets

CONSTANTS
  Editors,
  Saves,       \* PATCH requests
  Columns,     \* name, company, role_title
  FieldIds,    \* ids of rows of customer_fields
  FirstFields, \* those that are there at first
  New,         \* the client's id of the field that a draft adds
  Values,
  FirstValue,
  Absent,
  Nothing,
  OtherSaves,  \* bound: attributes and values that other members save
  MaxVersion,  \* bound: versions of the card
  MaxTouched   \* bound: attributes a member types into in one draft

Attributes == Columns \union FieldIds
DraftFields == FieldIds \union {New}

ASSUME CardAssumption ==
  /\ FieldIds \subseteq Nat /\ IsFiniteSet(FieldIds) /\ FirstFields \subseteq FieldIds
  /\ Columns \intersect DraftFields = {} /\ New \notin FieldIds
  /\ FirstValue \in Values
  /\ Absent \notin Values
  /\ OtherSaves \subseteq Attributes \X (Values \union {Absent})
  /\ MaxVersion \in Nat \ {0} /\ MaxTouched \in Nat

VARIABLES
  card,    \* the row of customers and those of customer_fields
  fresh,   \* ids no field has had yet
  screen,  \* the card in each client
  save     \* the PATCH requests

cardVars == <<card, fresh, screen, save>>

(* A field that is absent has the sortOrder 0.                             *)
Cards ==
  [version : 1 .. MaxVersion,
   value : {v \in [Attributes -> Values \union {Absent}] :
              \A c \in Columns : v[c] # Absent},
   order : [FieldIds -> Nat]]

(* touched and carried are history: what the member has typed into, and    *)
(* what a rebase carried over although it had only moved.                  *)
Drafts == [base : Cards,
           value : [Attributes \union {New} -> Values \union {Absent}],
           order : [DraftFields -> Nat],
           touched : SUBSET (Attributes \union {New}), carried : SUBSET FieldIds]

NoSave == [pc |-> "none", by |-> Nothing, draft |-> Nothing, card |-> Nothing, open |-> FALSE]
Over == [NoSave EXCEPT !.pc = "over"]

CardTypeOK ==
  /\ card \in Cards
  /\ fresh \subseteq FieldIds
  /\ \A e \in Editors :
       /\ screen[e].shown \in Cards
       /\ screen[e].draft = Nothing \/ screen[e].draft \in Drafts
       /\ screen[e].conflict = Nothing \/ screen[e].conflict \in Cards
       /\ screen[e].saving \in BOOLEAN
  /\ \A s \in Saves :
       \/ save[s] \in {NoSave, Over}
       \/ /\ save[s].pc \in {"row", "fields", "batch", "wonRow", "wonFields", "lostRow",
                             "lostFields", "saved", "conflict", "failed"}
          /\ save[s].by \in Editors
          /\ save[s].draft = Nothing \/ save[s].draft \in Drafts
          /\ save[s].card = Nothing \/ save[s].card \in Cards

(* The order in which the server lists the fields of a card.               *)
ListedBefore(c, j, k) == c.order[j] < c.order[k] \/ (c.order[j] = c.order[k] /\ j < k)

(* The places of the fields of a card among those that stay.               *)
Places(c, stay) ==
  [k \in FieldIds |-> IF k \in stay THEN Cardinality({j \in stay : ListedBefore(c, j, k)}) ELSE 0]

FieldsOf(c) == {k \in FieldIds : c.value[k] # Absent}

CardInit ==
  /\ card = [version |-> 1,
             value |-> [a \in Attributes |-> IF a \in FieldIds \ FirstFields THEN Absent
                                            ELSE FirstValue],
             order |-> [k \in FieldIds |-> IF k \in FirstFields
                                          THEN Cardinality({j \in FirstFields : j < k}) ELSE 0]]
  /\ fresh = FieldIds \ FirstFields
  /\ screen = [e \in Editors |-> [shown |-> card, draft |-> Nothing,
                                  conflict |-> Nothing, saving |-> FALSE]]
  /\ save = [s \in Saves |-> NoSave]

-----------------------------------------------------------------------------
(* The client.                                                             *)
(* The member's own load or a realtime reload.  An answer read long ago    *)
(* shows what a client that did not reload shows.                          *)
CardLoadSucceeded(e) ==
  /\ screen' = [screen EXCEPT ![e].shown = card]
  /\ UNCHANGED <<card, fresh, save>>

(* Bound: members edit as long as there is a request left to save it.      *)
RequestLeft == \E s \in Saves : save[s] = NoSave

StartEdit(e) ==
  /\ screen[e].draft = Nothing /\ RequestLeft
  /\ LET shown == screen[e].shown
     IN screen' = [screen EXCEPT
          ![e].draft = [base |-> shown,
                        value |-> [a \in Attributes \union {New} |->
                                     IF a = New THEN Absent ELSE shown.value[a]],
                        order |-> [k \in DraftFields |-> IF k = New THEN 0 ELSE shown.order[k]],
                        touched |-> {}, carried |-> {}],
          ![e].conflict = Nothing]
  /\ UNCHANGED <<card, fresh, save>>

FieldsIn(d) == {k \in DraftFields : d.value[k] # Absent}
IsNew(d, k) == k = New \/ d.base.value[k] = Absent

(* The list of a draft: what it has from the server, then what is new.     *)
ComesBefore(d, j, k) ==
  IF IsNew(d, j) THEN IsNew(d, k) /\ d.order[j] < d.order[k]
  ELSE IsNew(d, k) \/ ListedBefore(d.base, j, k)

Renumbered(d) ==
  [k \in DraftFields |-> IF k \in FieldsIn(d)
                        THEN Cardinality({j \in FieldsIn(d) : ComesBefore(d, j, k)}) ELSE 0]

MayTouch(d, a) == a \notin d.touched /\ Cardinality(d.touched) < MaxTouched

(* A value is typed.  Bound: in each draft once into an attribute.         *)
SetEdit(e, a, v) ==
  /\ screen[e].draft # Nothing /\ RequestLeft
  /\ LET d == screen[e].draft
     IN /\ MayTouch(d, a) /\ d.value[a] \notin {v, Absent}
        /\ screen' = [screen EXCEPT
             ![e].draft = [d EXCEPT !.value[a] = v, !.touched = d.touched \union {a}]]
  /\ UNCHANGED <<card, fresh, save>>

(* A field is added at the end.  Bound: one in each draft.                 *)
AddEditField(e, v) ==
  /\ screen[e].draft # Nothing /\ RequestLeft
  /\ LET d == screen[e].draft
     IN /\ MayTouch(d, New)
        /\ screen' = [screen EXCEPT
             ![e].draft = [d EXCEPT !.value[New] = v, !.order[New] = Cardinality(FieldsIn(d)),
                                    !.touched = d.touched \union {New}]]
  /\ UNCHANGED <<card, fresh, save>>

WithoutField(d, k) == [d EXCEPT !.value[k] = Absent, !.touched = d.touched \union {k}]

(* A field is removed, and the others are numbered again.                  *)
RemoveEditField(e, k) ==
  /\ screen[e].draft # Nothing /\ RequestLeft
  /\ LET d == screen[e].draft
     IN /\ k \in FieldsIn(d) /\ (k \in d.touched \/ MayTouch(d, k))
        /\ screen' = [screen EXCEPT
             ![e].draft = [WithoutField(d, k) EXCEPT !.order = Renumbered(WithoutField(d, k))]]
  /\ UNCHANGED <<card, fresh, save>>

CancelEdit(e) ==
  /\ screen[e].draft # Nothing /\ ~screen[e].saving
  /\ screen' = [screen EXCEPT ![e].draft = Nothing, ![e].conflict = Nothing]
  /\ UNCHANGED <<card, fresh, save>>

(* The member turns to another conversation.                               *)
SelectOther(e) ==
  /\ screen[e].draft # Nothing
  /\ screen' = [screen EXCEPT ![e].draft = Nothing]
  /\ UNCHANGED <<card, fresh, save>>

(* changedField, and customerUpdateRequest: what is sent of a draft.  A    *)
(* field that only moved is sent with its content.                         *)
IsChanged(d, a) ==
  \/ d.value[a] # d.base.value[a]
  \/ a \in FieldIds /\ d.order[a] # d.base.order[a]

Created(d) == {k \in FieldsIn(d) : IsNew(d, k)}
Changed(d) == {a \in Attributes \ Created(d) : IsChanged(d, a)}

SaveCustomer(e, s) ==
  /\ screen[e].draft # Nothing /\ ~screen[e].saving
  /\ save[s] = NoSave
  /\ LET d == screen[e].draft
     IN IF Changed(d) \union Created(d) = {}
        THEN /\ screen' = [screen EXCEPT ![e].draft = Nothing, ![e].conflict = Nothing]
             /\ UNCHANGED save
        ELSE /\ screen' = [screen EXCEPT ![e].saving = TRUE]
             /\ save' = [save EXCEPT ![s] = [pc |-> "row", by |-> e, draft |-> d,
                                             card |-> Nothing, open |-> TRUE]]
  /\ UNCHANGED <<card, fresh>>

UseServerCustomer(e) ==
  /\ screen[e].draft # Nothing /\ screen[e].conflict # Nothing
  /\ screen' = [screen EXCEPT ![e] = [shown |-> screen[e].conflict, draft |-> Nothing,
                                      conflict |-> Nothing, saving |-> FALSE]]
  /\ UNCHANGED <<card, fresh, save>>

(* What was changed stays, if only in its place; what was not is the       *)
(* server's; a changed field that the server has no more becomes a new     *)
(* one; and all are numbered again, the server's first.                    *)
RebasedDraft(d, current) ==
  LET moved == {k \in FieldIds : d.value[k] = d.base.value[k] /\ IsChanged(d, k)}
      theirs(a) == \/ ~IsChanged(d, a)
                   \/ d.base.value[a] = Absent /\ current.value[a] # Absent
      over == [d EXCEPT
                !.base = current,
                !.value = [a \in Attributes \union {New} |->
                             IF a = New THEN d.value[a]
                             ELSE IF theirs(a) THEN current.value[a] ELSE d.value[a]],
                !.order = Renumbered(d),
                !.carried = d.carried \union moved]
  IN [over EXCEPT !.order = Renumbered(over)]

RebaseCustomerEdit(e) ==
  /\ screen[e].draft # Nothing /\ screen[e].conflict # Nothing
  /\ screen' = [screen EXCEPT ![e].draft = RebasedDraft(screen[e].draft, screen[e].conflict),
                              ![e].conflict = Nothing]
  /\ UNCHANGED <<card, fresh, save>>

-----------------------------------------------------------------------------
(* The server.                                                             *)
Columnwise(row, fields) ==
  [version |-> row.version,
   value |-> [a \in Attributes |-> IF a \in Columns THEN row.value[a] ELSE fields.value[a]],
   order |-> fields.order]

(* readCustomer: the row, later the fields.                                *)
ReadRow(s, pc, next) ==
  /\ save[s].pc = pc
  /\ save' = [save EXCEPT ![s].pc = next, ![s].card = card]

(* A target that is not there is refused, but only by the version at hand. *)
InvalidFieldTarget(current, d) ==
  /\ current.version = d.base.version
  /\ \E a \in Changed(d) : current.value[a] = Absent

(* A request reads the card before its batch and, for the answer, after:   *)
(* which nobody hears of once the connection is lost.                      *)
PatchReads(s) ==
  /\ \/ ReadRow(s, "row", "fields")
     \/ save[s].open /\ (ReadRow(s, "wonRow", "wonFields") \/ ReadRow(s, "lostRow", "lostFields"))
     \/ LET current == Columnwise(save[s].card, card)
        IN \/ /\ save[s].pc = "fields"
              /\ save' = [save EXCEPT
                   ![s].pc = IF InvalidFieldTarget(current, save[s].draft) THEN "failed"
                             ELSE "batch",
                   ![s].card = Nothing]
           \/ /\ save[s].pc \in {"wonFields", "lostFields"} /\ save[s].open
              /\ save' = [save EXCEPT
                   ![s].pc = IF save[s].pc = "wonFields" THEN "saved" ELSE "conflict",
                   ![s].card = current]
  /\ UNCHANGED <<card, fresh, screen>>

(* The card after the statements of the batch: the row of field k of the   *)
(* draft, if it is a new one, has the id id[k].                            *)
Edited(d, id) ==
  LET source(a) == IF \E k \in Created(d) : id[k] = a
                   THEN CHOOSE k \in Created(d) : id[k] = a ELSE a
      written(a) == a \in Changed(d) \/ \E k \in Created(d) : id[k] = a
  IN [version |-> card.version + 1,
      value |-> [a \in Attributes |-> IF written(a) THEN d.value[source(a)] ELSE card.value[a]],
      order |-> [k \in FieldIds |-> IF written(k) THEN d.order[source(k)] ELSE card.order[k]]]

NewIds(d) == {id \in [Created(d) -> fresh] : \A j, k \in Created(d) : id[j] = id[k] => j = k}

BatchEnds(s, pc) ==
  save' = [save EXCEPT ![s].pc = pc, ![s].draft = Nothing, ![s].card = Nothing]

(* Mutant: the statements about fields do not ask for the version.         *)
PatchBatchUnguardedFields(s) ==
  /\ save[s].pc = "batch"
  /\ LET d == save[s].draft
         current == card.version = d.base.version
     IN /\ current => card.version < MaxVersion
        /\ \E id \in NewIds(d) :
             card' = [version |-> IF current THEN card.version + 1 ELSE card.version,
                      value |-> [a \in Attributes |->
                                   IF current \/ a \in FieldIds THEN Edited(d, id).value[a]
                                   ELSE card.value[a]],
                      order |-> Edited(d, id).order]
             /\ fresh' = fresh \ {id[k] : k \in Created(d)}
        /\ BatchEnds(s, IF current THEN "wonRow" ELSE "lostRow")
  /\ UNCHANGED screen

(* Every statement of the batch asks for the version.  A key that is there *)
(* already fails the batch, as may the database.                           *)
PatchBatch(s) ==
  /\ save[s].pc = "batch"
  /\ LET d == save[s].draft
     IN \/ /\ card.version # d.base.version
           /\ BatchEnds(s, "lostRow")
           /\ UNCHANGED <<card, fresh>>
        \/ /\ card.version = d.base.version /\ card.version < MaxVersion
           /\ \E id \in NewIds(d) : /\ card' = Edited(d, id)
                                    /\ fresh' = fresh \ {id[k] : k \in Created(d)}
           /\ BatchEnds(s, "wonRow")
        \/ /\ BatchEnds(s, "failed")
           /\ UNCHANGED <<card, fresh>>
  /\ UNCHANGED screen

(* The client hears of the end: customerSaved, customerConflict, which     *)
(* needs the draft, or cardMutationFailed.                                 *)
PatchAnswered(s) ==
  /\ save[s].pc \in {"saved", "conflict", "failed"} /\ save[s].open
  /\ LET e == save[s].by
     IN screen' =
          CASE save[s].pc = "saved" ->
                 [screen EXCEPT ![e] = [shown |-> save[s].card, draft |-> Nothing,
                                        conflict |-> Nothing, saving |-> FALSE]]
            [] save[s].pc = "conflict" /\ screen[e].draft # Nothing ->
                 [screen EXCEPT ![e].conflict = save[s].card, ![e].saving = FALSE]
            [] save[s].pc = "failed" -> [screen EXCEPT ![e].saving = FALSE]
            [] OTHER -> screen
  /\ save' = [save EXCEPT ![s] = Over]
  /\ UNCHANGED <<card, fresh>>

(* cardMutationFailed, while the server goes on with the request.          *)
ConnectionLost(s) ==
  /\ save[s].open
  /\ save' = [save EXCEPT ![s].open = FALSE]
  /\ screen' = [screen EXCEPT ![save[s].by].saving = FALSE]
  /\ UNCHANGED <<card, fresh>>

PatchDies(s) ==
  /\ save[s].pc \notin {"none", "over"} /\ ~save[s].open
  /\ save' = [save EXCEPT ![s] = Over]
  /\ UNCHANGED <<card, fresh, screen>>

(* A member of whom only the batch can be seen saves one change: a value,  *)
(* a field less, by which the others move up, or a field more.             *)
OtherMemberSaves(a, v) ==
  /\ card.version < MaxVersion
  /\ card.value[a] # v /\ (v = Absent => a \in FieldIds)
  /\ card.value[a] = Absent => a \in fresh
  /\ fresh' = fresh \ {a}
  /\ card' = [version |-> card.version + 1,
              value |-> [card.value EXCEPT ![a] = v],
              order |-> IF v = Absent THEN Places(card, FieldsOf(card) \ {a})
                        ELSE IF card.value[a] = Absent
                        THEN [card.order EXCEPT ![a] = Cardinality(FieldsOf(card))]
                        ELSE card.order]
  /\ UNCHANGED <<screen, save>>

CardNext ==
  \/ \E e \in Editors :
       \/ CardLoadSucceeded(e)
       \/ StartEdit(e) \/ CancelEdit(e) \/ SelectOther(e)
       \/ UseServerCustomer(e) \/ RebaseCustomerEdit(e)
       \/ \E v \in Values :
            \/ AddEditField(e, v)
            \/ \E a \in Attributes \union {New} : SetEdit(e, a, v)
       \/ \E k \in DraftFields : RemoveEditField(e, k)
       \/ \E s \in Saves : SaveCustomer(e, s)
  \/ \E s \in Saves :
       PatchReads(s) \/ PatchBatch(s) \/ PatchAnswered(s) \/ ConnectionLost(s) \/ PatchDies(s)
  \/ \E change \in OtherSaves : OtherMemberSaves(change[1], change[2])

CardSpec == CardInit /\ [][CardNext]_cardVars

-----------------------------------------------------------------------------
(***************************************************************************)
(* Properties.                                                             *)
(***************************************************************************)
(* What a save overwrites is what its author started from, or was left     *)
(* with by a conflict (InfoTabView.tsx:296), and has typed into or carried *)
(* over; what it adds is from the draft as well.                           *)
NothingIsOverwrittenUnseen ==
  [][\A a \in Attributes :
       card'.value[a] # card.value[a] /\ save' # save =>
         \E s \in Saves :
           /\ save[s].pc = "batch" /\ save'[s].pc # "batch"
           /\ LET d == save[s].draft
                  own == d.touched \union d.carried
              IN IF card.value[a] # Absent
                 THEN a \in own /\ d.base.value[a] = card.value[a]
                 ELSE \E k \in Created(d) \intersect own : card'.value[a] = d.value[k]]_card

(* "Neither side is overwritten automatically" (InfoTabView.tsx:305): a    *)
(* save changes only what its author typed into.                           *)
NothingIsOverwrittenUntyped ==
  [][\A a \in Attributes :
       card'.value[a] # card.value[a] /\ card.value[a] # Absent /\ save' # save =>
         \E s \in Saves : save[s].pc = "batch" /\ a \in save[s].draft.touched]_card
=============================================================================
